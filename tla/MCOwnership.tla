---------------------------- MODULE MCOwnership ----------------------------
(* Instances of Ownership for TLC: one replica with a healthy connection to *)
(* Redis, one whose calls may fail.                                         *)
EXTENDS Ownership, TLC

CONSTANTS r1, r2

TwoLives == r1 :> 1 @@ r2 :> 2
OneLife  == r1 :> 1 @@ r2 :> 1
=============================================================================
