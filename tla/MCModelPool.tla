---------------------------- MODULE MCModelPool ----------------------------
(* Instances of ModelPool for TLC: two streams of a signature and one of    *)
(* another, in a pool with room for one model, and a third signature that   *)
(* is only warmed.                                                          *)
EXTENDS ModelPool, TLC

CONSTANTS a1, a2, b1, A, B, C

ThreeStreams == a1 :> A @@ a2 :> A @@ b1 :> B

Permuted == Permutations({a1, a2})
=============================================================================
