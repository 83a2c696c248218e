---------------------------- MODULE MCScheduler ----------------------------
(* Instances of Scheduler for TLC: id a is started twice, beside a stream b *)
(* whose id is used once.                                                   *)
EXTENDS Scheduler, TLC

CONSTANTS a1, a2, b1, a, b

ReuseOf == a1 :> a @@ a2 :> a @@ b1 :> b

(* Three frames: one in flight, one waiting, one blocked in submit(). *)
PoolBudget == a1 :> 1 @@ a2 :> 1 @@ b1 :> 3

(* Two frames of a2, so that two workers can each hold one of them. *)
ReuseBudget == a1 :> 1 @@ a2 :> 2 @@ b1 :> 0
=============================================================================
