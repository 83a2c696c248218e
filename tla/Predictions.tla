---------------------------- MODULE Predictions ----------------------------
(***************************************************************************)
(* What BatchCoordinator.predict() promises (backend/batching.py:13-20,    *)
(* 102-107): each call of a stream returns the result of its own frame, or *)
(* raises; the calls of the streams are independent of each other.         *)
(***************************************************************************)
CONSTANTS Streams, Frames, None, Error

VARIABLES
  frame,        (* the frame of each stream's call, the last or the present *)
  busy,         (* the streams with a call in progress                     *)
  outcome       (* what it returned, None as long as it has not            *)

promise == <<frame, busy, outcome>>

Init ==
  /\ frame   = [i \in Streams |-> None]
  /\ busy    = {}
  /\ outcome = [i \in Streams |-> None]

Ask(i) ==
  /\ i \notin busy
  /\ busy' = busy \union {i}
  /\ \E f \in Frames \ {frame[i]} : frame' = [frame EXCEPT ![i] = f]
  /\ outcome' = [outcome EXCEPT ![i] = None]

Return(i) ==
  /\ i \in busy
  /\ busy' = busy \ {i}
  /\ \E x \in {<<i, frame[i]>>, Error} : outcome' = [outcome EXCEPT ![i] = x]
  /\ UNCHANGED frame

Next == \E i \in Streams : Ask(i) \/ Return(i)

Spec == Init /\ [][Next]_promise
=============================================================================
