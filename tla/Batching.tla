------------------------------ MODULE Batching ------------------------------
(***************************************************************************)
(* One BatchCoordinator (backend/batching.py): the streams that share its  *)
(* detector, their predict() calls, the thread that fuses queued calls     *)
(* into one forward pass, and its end, by the last release() or by         *)
(* stop_all().                                                             *)
(*                                                                         *)
(* Every section under _count_lock or _queue_cond is one action; a thread  *)
(* inside wait() without a timeout moves after a notify() only.  A stream  *)
(* has one call in progress at a time, so its _Pending goes by its name.   *)
(* Results are pairs of a stream and a frame.                              *)
(***************************************************************************)
EXTENDS Integers, Sequences, FiniteSets

CONSTANTS
  Streams,      (* the streams of this signature                           *)
  Frames,       (* bound: a stream's frames recur, two in a row differ     *)
  MaxSize,      (* max_size                                                *)
  Overrunning,  (* streams that may leave while a call of theirs is in     *)
                (* progress, because a bounded wait for it runs out        *)
  None, Error

ASSUME BatchingAssumption ==
  /\ IsFiniteSet(Streams)
  /\ MaxSize \in Nat \ {0}
  /\ Overrunning \subseteq Streams
  /\ None \notin Frames
  /\ None # Error /\ \A i \in Streams, f \in Frames : <<i, f>> \notin {None, Error}

VARIABLES
  life,         (* each stream: new, a member, or gone                     *)
  pc,           (* where its predict() is                                  *)
  frame,        (* the frame of its call                                   *)
  slot,         (* its _Pending's result or error, once the slot is set    *)
  outcome,      (* what its last call returned or raised, None within one  *)
  overrun,      (* history: streams that left with a call in progress      *)
  count,        (* _stream_count                                           *)
  retired,      (* removed from the batch manager's registry               *)
  stopping,     (* _stopping                                               *)
  queue,        (* _queue                                                  *)
  bpc,          (* where the batch thread is                               *)
  batch,        (* its local batch, less the requests answered             *)
  results       (* what is left to scatter                                 *)

callVars == <<pc, frame, slot, outcome>>
lifeVars == <<life, overrun, count, retired>>
loopVars == <<bpc, batch, results>>
vars == <<callVars, lifeVars, stopping, queue, loopVars>>

Init ==
  /\ life    = [i \in Streams |-> "new"]
  /\ pc      = [i \in Streams |-> "idle"]
  /\ frame   = [i \in Streams |-> None]
  /\ slot    = [i \in Streams |-> None]
  /\ outcome = [i \in Streams |-> None]
  /\ overrun = {}
  /\ count = 0 /\ retired = FALSE /\ stopping = FALSE
  /\ queue = << >>
  /\ bpc = "looking" /\ batch = << >> /\ results = << >>

OwnResult(i) == <<i, frame[i]>>

(* notify(): only the batch thread waits on the condition. *)
Notify == bpc' = IF bpc = "asleep" THEN "looking" ELSE bpc

-----------------------------------------------------------------------------
(* Streams come and go: acquire(), release(), stop_all() *)

Register(i) ==
  /\ life[i] = "new" /\ ~retired
  /\ life' = [life EXCEPT ![i] = "member"]
  /\ count' = count + 1
  /\ UNCHANGED <<callVars, overrun, retired, stopping, queue, loopVars>>

(* release(): the last stream takes the coordinator out of the registry; a  *)
(* coordinator that is not there any more is left alone.                    *)
Leave(i) ==
  /\ life[i] = "member" /\ (pc[i] = "idle" \/ i \in Overrunning)
  /\ life' = [life EXCEPT ![i] = "gone"]
  /\ overrun' = IF pc[i] = "idle" THEN overrun ELSE overrun \union {i}
  /\ IF retired THEN UNCHANGED <<count, retired>>
     ELSE count' = count - 1 /\ retired' = (count = 1)
  /\ UNCHANGED <<callVars, stopping, queue, loopVars>>

(* stop_all(), at shutdown: every stream left, or was given up on. *)
StopAll ==
  /\ count > 0 /\ ~retired
  /\ \A i \in Streams : life[i] = "member" => i \in Overrunning
  /\ retired' = TRUE
  /\ UNCHANGED <<callVars, life, overrun, count, stopping, queue, loopVars>>

(* stop(), by whoever retired the coordinator. *)
Stop ==
  /\ retired /\ ~stopping
  /\ stopping' = TRUE
  /\ Notify
  /\ UNCHANGED <<callVars, lifeVars, queue, batch, results>>

-----------------------------------------------------------------------------
(* predict() *)

Goto(i, where) == pc' = [pc EXCEPT ![i] = where]

Return(i, x) ==
  /\ Goto(i, "idle")
  /\ outcome' = [outcome EXCEPT ![i] = x]
  /\ UNCHANGED <<frame, lifeVars, stopping>>

Ask(i) ==
  /\ \E f \in Frames \ {frame[i]} : frame' = [frame EXCEPT ![i] = f]
  /\ outcome' = [outcome EXCEPT ![i] = None]

(* Mutant: two streams share the lone-stream path. *)
CallLate(i) ==
  /\ life[i] = "member" /\ pc[i] = "idle"
  /\ Ask(i)
  /\ Goto(i, IF count <= 2 THEN "lone" ELSE "queueing")
  /\ UNCHANGED <<slot, lifeVars, stopping, queue, loopVars>>

(* The number of streams decides the path. *)
Call(i) ==
  /\ life[i] = "member" /\ pc[i] = "idle"
  /\ Ask(i)
  /\ Goto(i, IF count <= 1 THEN "lone" ELSE "queueing")
  /\ UNCHANGED <<slot, lifeVars, stopping, queue, loopVars>>

(* Detector.predict() returns, or every provider failed. *)
LoneReturns(i) ==
  /\ pc[i] = "lone"
  /\ \E x \in {OwnResult(i), Error} : Return(i, x)
  /\ UNCHANGED <<slot, queue, loopVars>>

(* Mutant: nobody looks whether the coordinator is stopping. *)
EnqueueAnyway(i) ==
  /\ pc[i] = "queueing"
  /\ Goto(i, "waiting")
  /\ queue' = Append(queue, i)
  /\ Notify
  /\ UNCHANGED <<frame, slot, outcome, lifeVars, stopping, batch, results>>

(* Mutant: the batch thread is not told. *)
EnqueueQuietly(i) ==
  /\ pc[i] = "queueing" /\ ~stopping
  /\ Goto(i, "waiting")
  /\ queue' = Append(queue, i)
  /\ UNCHANGED <<frame, slot, outcome, lifeVars, stopping, loopVars>>

Enqueue(i) ==
  /\ pc[i] = "queueing" /\ ~stopping
  /\ Goto(i, "waiting")
  /\ queue' = Append(queue, i)
  /\ Notify
  /\ UNCHANGED <<frame, slot, outcome, lifeVars, stopping, batch, results>>

Refuse(i) ==
  /\ pc[i] = "queueing" /\ stopping
  /\ Return(i, Error)
  /\ UNCHANGED <<slot, queue, loopVars>>

(* slot.wait() ends, the call returns or raises what it finds, and its      *)
(* _Pending is forgotten.                                                   *)
Answered(i) ==
  /\ pc[i] = "waiting" /\ slot[i] # None
  /\ Return(i, slot[i])
  /\ slot' = [slot EXCEPT ![i] = None]
  /\ UNCHANGED <<queue, loopVars>>

CallStep(i) == LoneReturns(i) \/ Enqueue(i) \/ Refuse(i) \/ Answered(i)

-----------------------------------------------------------------------------
(* _batch_loop() and _dispatch() *)

Rest == UNCHANGED <<callVars, lifeVars, stopping>>

Sleep ==
  /\ bpc = "looking" /\ queue = << >> /\ ~stopping
  /\ bpc' = "asleep"
  /\ Rest /\ UNCHANGED <<queue, batch, results>>

End ==
  /\ bpc = "looking" /\ queue = << >> /\ stopping
  /\ bpc' = "ended"
  /\ Rest /\ UNCHANGED <<queue, batch, results>>

(* How many queued requests go into the batch at a time: as many as fit, or *)
(* one when the coordinator is stopping.                                    *)
Share ==
  IF stopping THEN 1
  ELSE IF Len(queue) < MaxSize - Len(batch) THEN Len(queue) ELSE MaxSize - Len(batch)

(* Mutant: everything queued goes. *)
FillAll ==
  /\ bpc \in {"looking", "lingering"} /\ queue # << >>
  /\ batch' = batch \o queue
  /\ queue' = << >>
  /\ bpc' \in IF Len(batch') < MaxSize /\ ~stopping
              THEN {"lingering", "computing"} ELSE {"computing"}
  /\ Rest /\ UNCHANGED results

(* A batch that is not full waits for more until its deadline. *)
Fill ==
  /\ bpc \in {"looking", "lingering"} /\ queue # << >>
  /\ batch' = batch \o SubSeq(queue, 1, Share)
  /\ queue' = SubSeq(queue, Share + 1, Len(queue))
  /\ bpc' \in IF Len(batch') < MaxSize /\ ~stopping
              THEN {"lingering", "computing"} ELSE {"computing"}
  /\ Rest /\ UNCHANGED results

(* The deadline passes, or stop() wakes the thread: nothing new. *)
Deadline ==
  /\ bpc = "lingering" /\ queue = << >>
  /\ bpc' = "computing"
  /\ Rest /\ UNCHANGED <<queue, batch, results>>

(* predict_batch() returns one result per frame, in their order. *)
Compute ==
  /\ bpc = "computing"
  /\ bpc' = "scattering"
  /\ results' = [k \in 1 .. Len(batch) |-> OwnResult(batch[k])]
  /\ Rest /\ UNCHANGED <<queue, batch>>

(* It raises: every request of the batch gets the error. *)
ComputeFails ==
  /\ bpc = "computing"
  /\ bpc' = "scattering"
  /\ results' = [k \in 1 .. Len(batch) |-> Error]
  /\ Rest /\ UNCHANGED <<queue, batch>>

(* Mutant: the results are handed out from the end. *)
ScatterReversed ==
  /\ bpc = "scattering"
  /\ slot' = [slot EXCEPT ![Head(batch)] = results[Len(results)]]
  /\ batch' = Tail(batch)
  /\ results' = SubSeq(results, 1, Len(results) - 1)
  /\ bpc' = IF batch' = << >> THEN "looking" ELSE bpc
  /\ UNCHANGED <<pc, frame, outcome, lifeVars, stopping, queue>>

(* One request after the other is answered; the caller may go on at once. *)
Scatter ==
  /\ bpc = "scattering"
  /\ slot' = [slot EXCEPT ![Head(batch)] = Head(results)]
  /\ batch' = Tail(batch)
  /\ results' = Tail(results)
  /\ bpc' = IF batch' = << >> THEN "looking" ELSE bpc
  /\ UNCHANGED <<pc, frame, outcome, lifeVars, stopping, queue>>

BatchStep ==
  \/ Sleep \/ End \/ Fill \/ Deadline \/ Compute \/ ComputeFails \/ Scatter

-----------------------------------------------------------------------------
Next ==
  \/ \E i \in Streams : Register(i) \/ Leave(i) \/ Call(i) \/ CallStep(i)
  \/ StopAll \/ Stop
  \/ BatchStep

(* Threads run, and forward passes return or raise. *)
Fairness ==
  /\ WF_vars(BatchStep)
  /\ \A i \in Streams : WF_vars(CallStep(i))

Spec == Init /\ [][Next]_vars

FairSpec == Spec /\ Fairness

-----------------------------------------------------------------------------
(* Properties *)

Results == {<<i, f>> : i \in Streams, f \in Frames} \union {Error}

(* The values of the variables; no fused pass exceeds max_size              *)
(* (batching.py:148, tests/test_batching.py:162).                           *)
TypeOK ==
  /\ life \in [Streams -> {"new", "member", "gone"}]
  /\ pc \in [Streams -> {"idle", "lone", "queueing", "waiting"}]
  /\ frame \in [Streams -> Frames \union {None}]
  /\ slot \in [Streams -> Results \union {None}]
  /\ outcome \in [Streams -> Results \union {None}]
  /\ overrun \subseteq Overrunning
  /\ count \in Nat /\ retired \in BOOLEAN /\ stopping \in BOOLEAN
  /\ queue \in Seq(Streams)
  /\ bpc \in {"looking", "asleep", "lingering", "computing", "scattering", "ended"}
  /\ batch \in Seq(Streams) /\ Len(batch) <= MaxSize
  /\ results \in Seq(Results)

(* No caller waits for a batch thread that has ended (batching.py:19-20,    *)
(* 126-131), whichever of the two came first: its request or the stop.      *)
NobodyStranded ==
  bpc = "ended" => \A i \in Streams : pc[i] = "waiting" => slot[i] # None

(* Streams join and leave while calls are in progress, yet at most one is   *)
(* on the path without a lock (batching.py:108-111), of those that were not *)
(* given up on.                                                             *)
Lone == {i \in Streams : pc[i] = "lone"}

LonePathIsLone == \A i, j \in Lone \ overrun : i = j

(* Each call returns the result of its own frame or raises                  *)
(* (batching.py:13-15): no request is lost, answered twice, or given the    *)
(* result of another, in whatever order streams, batches and stop() come.   *)
P == INSTANCE Predictions WITH busy <- {i \in Streams : pc[i] # "idle"}

ImplementsPredictions == P!Spec

(* Every call comes back (batching.py:120), also one that is queued while   *)
(* other streams keep calling, or while the coordinator stops.              *)
CallsReturn == \A i \in Streams : pc[i] # "idle" ~> pc[i] = "idle"

(* What the header says (batching.py:17-18): one forward pass in flight per *)
(* shared detector.                                                         *)
OnePass == \A i \in Lone : Lone = {i} /\ bpc # "computing"
=============================================================================
