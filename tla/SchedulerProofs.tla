--------------------------- MODULE SchedulerProofs ---------------------------
(***************************************************************************)
(* Proofs about Scheduler for every number of workers, streams, instances, *)
(* frames and capacity, with stream ids used any number of times and with  *)
(* bounded waits that may or may not expire.                               *)
(***************************************************************************)
EXTENDS Scheduler, TLAPS

-----------------------------------------------------------------------------
(* Part 1: nobody sleeps on work.  NoLostWakeup is not inductive: that a   *)
(* submitter may skip the enqueue when in_flight or enqueued is set is     *)
(* sound only because those flags are never stale.                         *)

(* A worker is inside a channel exactly while it is between its two lock    *)
(* sections.                                                                *)
CurMatchesPc ==
  \A w \in Workers : cur[w] # NoChannel <=> wpc[w] \in {"processing", "raised"}

(* The channel an id maps to was made for that id. *)
ChannelOfOwnId ==
  \A s \in Streams : channels[s] # NoChannel => StreamOf[channels[s]] = s

(* A blocked submitter holds a channel object. *)
BlockedHolds == \A i \in Instances : pc[i] = "blocked" => held[i] \in Instances

(* The channel object a thread holds was made for the thread's own id. *)
HeldOfOwnId ==
  \A i \in Instances : held[i] # NoChannel => StreamOf[held[i]] = StreamOf[i]

(* Nobody refers to the channel of an instance that has not registered. *)
NewIsUnknown ==
  \A i \in Instances :
    pc[i] = "new" => /\ \A s \in Streams : channels[s] # i
                     /\ \A j \in Instances : held[j] # i

(* in_flight is set only while some worker is inside the channel. *)
InFlightIsTrue == \A c \in Instances : inFlight[c] => \E w \in Workers : cur[w] = c

(* enqueued is set only while the id of a registered channel is queued. *)
EnqueuedIsTrue ==
  \A s \in Streams :
    channels[s] # NoChannel => (enqueued[channels[s]] => Queued(s))

WakeInv ==
  /\ TypeOK /\ CurMatchesPc /\ ChannelOfOwnId /\ BlockedHolds /\ HeldOfOwnId
  /\ NewIsUnknown /\ InFlightIsTrue /\ EnqueuedIsTrue /\ NoLostWakeup

(* Appending to a queue keeps what is queued and adds the new id. *)
LEMMA QueuedAppend ==
  ASSUME NEW r, r \in Seq(Streams), NEW t \in Streams
  PROVE  /\ Append(r, t) \in Seq(Streams)
         /\ \A s \in Streams :
              (\E k \in 1 .. Len(r) : r[k] = s) =>
                 \E k \in 1 .. Len(Append(r, t)) : Append(r, t)[k] = s
         /\ \E k \in 1 .. Len(Append(r, t)) : Append(r, t)[k] = t
<1>1. /\ Append(r, t) \in Seq(Streams)
      /\ Len(Append(r, t)) = Len(r) + 1
      /\ Append(r, t)[Len(r) + 1] = t
      /\ \A k \in 1 .. Len(r) : Append(r, t)[k] = r[k]
  OBVIOUS
<1>2. Len(r) \in Nat
  OBVIOUS
<1> QED BY <1>1, <1>2

(* popleft removes no id but the head. *)
LEMMA QueuedTail ==
  ASSUME NEW r, r \in Seq(Streams), r # <<>>
  PROVE  /\ Head(r) \in Streams
         /\ Tail(r) \in Seq(Streams)
         /\ \A s \in Streams \ {Head(r)} :
              (\E k \in 1 .. Len(r) : r[k] = s) =>
                 \E k \in 1 .. Len(Tail(r)) : Tail(r)[k] = s
<1>1. /\ Tail(r) \in Seq(Streams) /\ Len(Tail(r)) = Len(r) - 1
      /\ Len(r) \in Nat \ {0} /\ Head(r) = r[1] /\ Head(r) \in Streams
      /\ \A k \in 1 .. Len(r) - 1 : Tail(r)[k] = r[k + 1]
  OBVIOUS
<1>2. ASSUME NEW s \in Streams \ {Head(r)}, NEW k \in 1 .. Len(r), r[k] = s
      PROVE  \E j \in 1 .. Len(Tail(r)) : Tail(r)[j] = s
  <2>1. k # 1
    BY <1>1, <1>2
  <2>2. k - 1 \in 1 .. Len(Tail(r)) /\ Tail(r)[k - 1] = s
    BY <1>1, <1>2, <2>1
  <2> QED BY <2>2
<1> QED BY <1>1, <1>2

LEMMA TypeInit == Init => TypeOK
<1>1. 0 \in Workers /\ <<>> \in Seq(Frames) /\ <<>> \in Seq(Streams)
  BY SchedulerAssumption DEF Workers
<1> QED BY <1>1, SMTT(60) DEF Init, TypeOK

LEMMA WakeInit == Init => WakeInv
<1> SUFFICES ASSUME Init PROVE WakeInv
  OBVIOUS
<1>1. TypeOK
  BY TypeInit
<1>2. /\ CurMatchesPc /\ ChannelOfOwnId /\ BlockedHolds /\ HeldOfOwnId
      /\ NewIsUnknown /\ InFlightIsTrue /\ EnqueuedIsTrue
  BY SchedulerAssumption
     DEF Init, CurMatchesPc, ChannelOfOwnId, BlockedHolds, HeldOfOwnId, NewIsUnknown,
         InFlightIsTrue, EnqueuedIsTrue
<1>3. NoLostWakeup
  BY DEF Init, NoLostWakeup, NoSleepingWorkerHasWork, NoSleepingSubmitterHasRoom,
         PendingIsScheduled
<1> QED BY <1>1, <1>2, <1>3 DEF WakeInv

-----------------------------------------------------------------------------
(* Type correctness, action by action *)

LEMMA RegisterType == ASSUME TypeOK, NEW i \in Instances, Register(i) PROVE TypeOK'
<1>1. StreamOf[i] \in Streams /\ <<>> \in Seq(Frames)
  BY SchedulerAssumption
<1>2. /\ pc' \in [Instances -> {"new", "capturing", "blocked", "unregister",
                                "draining", "done"}]
      /\ running' \in [Instances -> BOOLEAN]
  BY DEF TypeOK, Register, Pin
<1>3. CASE channels[StreamOf[i]] # NoChannel
  BY <1>2, <1>3 DEF TypeOK, Register, Pin, poolVars, chanVars, objVars
<1>4. CASE channels[StreamOf[i]] = NoChannel
  <2>1. /\ channels' \in [Streams -> Instances \union {NoChannel}]
        /\ pending' \in [Instances -> Seq(Frames)]
        /\ inFlight' \in [Instances -> BOOLEAN]
        /\ enqueued' \in [Instances -> BOOLEAN]
    <3>1. /\ channels' = [channels EXCEPT ![StreamOf[i]] = i]
          /\ pending'  = [pending EXCEPT ![i] = <<>>]
          /\ inFlight' = [inFlight EXCEPT ![i] = FALSE]
          /\ enqueued' = [enqueued EXCEPT ![i] = FALSE]
      BY <1>4 DEF Register, Pin
    <3> QED BY <1>1, <3>1 DEF TypeOK
  <2>2. pinned' \in [Instances -> Workers] /\ load' \in [Workers -> Nat]
    <3>1. PICK w \in Workers : /\ pinned' = [pinned EXCEPT ![i] = w]
                               /\ load' = [load EXCEPT ![w] = @ + 1]
      BY <1>4 DEF Register, Pin
    <3> QED BY <3>1 DEF TypeOK
  <2>3. UNCHANGED <<poolVars, idle, parked, held, sent>>
    BY DEF Register, Pin
  <2> QED BY <1>2, <2>1, <2>2, <2>3 DEF TypeOK, poolVars
<1> QED BY <1>3, <1>4

(* What submit() may change once it has the channel object c. *)
LEMMA OfferType ==
  ASSUME TypeOK, NEW i \in Instances, NEW c \in Instances \union {NoChannel},
         NEW n \in Nat, c = NoChannel => channels[StreamOf[i]] = NoChannel,
         Offer(i, c, n)
  PROVE  /\ pc' \in [Instances -> {"new", "capturing", "blocked", "unregister",
                                   "draining", "done"}]
         /\ held' \in [Instances -> Instances \union {NoChannel}]
         /\ pending' \in [Instances -> Seq(Frames)]
         /\ enqueued' \in [Instances -> BOOLEAN]
         /\ ready' \in [Workers -> Seq(Streams)]
         /\ idle' \subseteq Workers
         /\ parked' \subseteq Instances
<1> USE SchedulerAssumption DEF TypeOK
<1>1. CASE Refuse(i)
  BY <1>1 DEF Refuse
<1>2. CASE Await(i, c)
  BY <1>2 DEF Await
<1>3. CASE Enqueue(i, c, n)
  <2>1. c \in Instances /\ pinned[c] \in Workers /\ StreamOf[i] \in Streams
    BY <1>3 DEF Enqueue, Gone
  <2>2. Append(pending[c], <<i, n>>) \in Seq(Frames)
    <3>1. pending[c] \in Seq(Frames)
      BY <2>1
    <3>2. <<i, n>> \in Frames
      BY DEF Frames
    <3> HIDE DEF TypeOK
    <3> QED BY <3>1, <3>2
  <2>3. Append(ready[pinned[c]], StreamOf[i]) \in Seq(Streams)
    BY <2>1
  <2>4. CASE inFlight[c] \/ enqueued[c]
    BY <1>3, <2>1, <2>2, <2>4 DEF Enqueue
  <2>5. CASE ~(inFlight[c] \/ enqueued[c])
    <3>1. /\ pc' = [pc EXCEPT ![i] = "capturing"]
          /\ held' = [held EXCEPT ![i] = NoChannel]
          /\ pending' = [pending EXCEPT ![c] = Append(pending[c], <<i, n>>)]
          /\ enqueued' = [enqueued EXCEPT ![c] = TRUE]
          /\ ready' = [ready EXCEPT ![pinned[c]] = Append(ready[pinned[c]], StreamOf[i])]
          /\ idle' = {} /\ parked' = {}
      BY <1>3, <2>5 DEF Enqueue, NotifyAll
    <3> QED BY <2>1, <2>2, <2>3, <3>1
  <2> QED BY <2>4, <2>5
<1> QED BY <1>1, <1>2, <1>3 DEF Offer

LEMMA DropChannelType ==
  ASSUME TypeOK, NEW i \in Instances, DropChannel(i) PROVE TypeOK'
<1>1. StreamOf[i] \in Streams
  BY SchedulerAssumption
<1>2. load' \in [Workers -> Nat]
  <2>1. CASE channels[StreamOf[i]] = NoChannel
    BY <2>1 DEF TypeOK, DropChannel
  <2>2. CASE channels[StreamOf[i]] # NoChannel
    <3> DEFINE w == pinned[channels[StreamOf[i]]]
    <3>1. w \in Workers /\ load[w] \in Nat
      BY <1>1, <2>2 DEF TypeOK
    <3>2. load' = [load EXCEPT ![w] = IF load[w] = 0 THEN 0 ELSE load[w] - 1]
      BY <2>2 DEF DropChannel
    <3>3. (IF load[w] = 0 THEN 0 ELSE load[w] - 1) \in Nat
      BY <3>1
    <3> QED BY <3>1, <3>2, <3>3 DEF TypeOK
  <2> QED BY <2>1, <2>2
<1>3. channels' \in [Streams -> Instances \union {NoChannel}]
  BY <1>1 DEF TypeOK, DropChannel
<1> QED BY <1>2, <1>3 DEF TypeOK, DropChannel, NotifyAll, poolVars, objVars

LEMMA CaptureType ==
  ASSUME TypeOK, BlockedHolds, NEW i \in Instances, Capture(i) PROVE TypeOK'
<1>1. CASE Register(i)
  BY <1>1, RegisterType
<1>2. CASE Submit(i)
  <2>1. channels[StreamOf[i]] \in Instances \union {NoChannel} /\ sent[i] + 1 \in Nat
    BY SchedulerAssumption DEF TypeOK
  <2> QED BY <1>2, <2>1, OfferType DEF TypeOK, Submit, offerFrame, chanVars
<1>3. CASE Resume(i)
  <2>1. held[i] \in Instances /\ sent[i] \in Nat
    BY <1>3 DEF BlockedHolds, Resume, TypeOK
  <2>2. held[i] # NoChannel
    BY <2>1, SchedulerAssumption
  <2> QED BY <1>3, <2>1, <2>2, OfferType DEF TypeOK, Resume, offerFrame, chanVars
<1>4. CASE StopStream(i)
  BY <1>4 DEF TypeOK, StopStream, chanVars, objVars, poolVars
<1>5. CASE EndCapture(i)
  BY <1>5 DEF TypeOK, EndCapture, chanVars, objVars, poolVars
<1>6. CASE Unregister(i)
  <2>1. CASE Busy(channels[StreamOf[i]])
    <3>1. channels[StreamOf[i]] \in Instances
      BY <2>1, SchedulerAssumption DEF TypeOK, Busy
    <3> QED BY <1>6, <2>1, <3>1 DEF TypeOK, Unregister, chanVars, objVars, poolVars
  <2>2. CASE ~Busy(channels[StreamOf[i]])
    BY <1>6, <2>2, DropChannelType DEF Unregister
  <2> QED BY <2>1, <2>2
<1>7. CASE Drained(i)
  BY <1>7, DropChannelType DEF Drained
<1> QED BY <1>1, <1>2, <1>3, <1>4, <1>5, <1>6, <1>7 DEF Capture

LEMMA WorkType ==
  ASSUME TypeOK, CurMatchesPc, NEW w \in Workers, Work(w) PROVE TypeOK'
<1> USE SchedulerAssumption
<1>1. CASE Sleep(w)
  BY <1>1 DEF TypeOK, Sleep, chanVars, objVars, poolVars, instVars
<1>2. CASE Exit(w)
  BY <1>2 DEF TypeOK, Exit, chanVars, objVars, instVars
<1>3. CASE Take(w)
  <2> DEFINE c == channels[Head(ready[w])]
  <2>1. Tail(ready[w]) \in Seq(Streams) /\ Head(ready[w]) \in Streams
    BY <1>3, QueuedTail DEF TypeOK, Take
  <2>2. c \in Instances \union {NoChannel}
    BY <2>1 DEF TypeOK
  <2>3. CASE c = NoChannel
    BY <1>3, <2>1, <2>3 DEF TypeOK, Take, chanVars, objVars, instVars
  <2>4. CASE c # NoChannel /\ pending[c] = <<>>
    BY <1>3, <2>1, <2>2, <2>4 DEF TypeOK, Take, chanVars, objVars, instVars
  <2>5. CASE c # NoChannel /\ pending[c] # <<>>
    <3>1. pending[c] \in Seq(Frames) /\ pending[c][Len(pending[c])] \in Frames
      BY <2>2, <2>5 DEF TypeOK
    <3>2. pending[c][Len(pending[c])][2] \in Nat
      BY <3>1 DEF Frames
    <3>3. <<>> \in Seq(Frames) /\ c \in Instances
      BY <2>2, <2>5
    <3>4. /\ enqueued' = [enqueued EXCEPT ![c] = FALSE]
          /\ pending'  = [pending EXCEPT ![c] = <<>>]
          /\ inFlight' = [inFlight EXCEPT ![c] = TRUE]
          /\ wpc'  = [wpc EXCEPT ![w] = "processing"]
          /\ cur'  = [cur EXCEPT ![w] = c]
          /\ item' = [item EXCEPT ![w] = pending[c][Len(pending[c])][2]]
          /\ ready' = [ready EXCEPT ![w] = Tail(@)]
          /\ idle' = {} /\ parked' = {}
          /\ UNCHANGED <<channels, pinned, load, stopping, finished, instVars>>
      BY <1>3, <2>5 DEF Take, NotifyAll, chanVars
    <3> HIDE DEF c
    <3> QED BY <2>1, <3>2, <3>3, <3>4 DEF TypeOK, instVars
  <2> QED BY <2>2, <2>3, <2>4, <2>5
<1>4. CASE Raise(w)
  BY <1>4 DEF TypeOK, Raise, chanVars, objVars
<1>5. CASE Finish(w)
  <2>1. cur[w] \in Instances
    BY <1>5 DEF TypeOK, CurMatchesPc, Finish
  <2>2. StreamOf[cur[w]] \in Streams
    BY <2>1
  <2>3. Append(ready[w], StreamOf[cur[w]]) \in Seq(Streams)
    BY <2>2 DEF TypeOK
  <2>4. ready' \in [Workers -> Seq(Streams)]
    BY <1>5, <2>3 DEF TypeOK, Finish
  <2>5. enqueued' \in [Instances -> BOOLEAN] /\ inFlight' \in [Instances -> BOOLEAN]
    BY <1>5, <2>1 DEF TypeOK, Finish
  <2>6. idle' \subseteq Workers /\ parked' \subseteq Instances
    BY <1>5 DEF TypeOK, Finish, NotifyAll
  <2> QED BY <1>5, <2>1, <2>4, <2>5, <2>6 DEF TypeOK, Finish, chanVars, instVars
<1> QED BY <1>1, <1>2, <1>3, <1>4, <1>5 DEF Work

LEMMA StopType == ASSUME TypeOK, Stop PROVE TypeOK'
BY DEF TypeOK, Stop, NotifyAll, chanVars, objVars, instVars

-----------------------------------------------------------------------------
(* The inductive step, action by action *)

(* A step that changes neither channels, their fields, the queues nor the   *)
(* workers keeps everything said about them; idle and parked may only lose  *)
(* members.                                                                 *)
LEMMA PoolFrame ==
  ASSUME WakeInv, TypeOK',
         UNCHANGED <<channels, objVars, ready, wpc, cur, held>>,
         idle' \subseteq idle, parked' \subseteq parked,
         idle' # {} \/ parked' # {} => stopping' = stopping,
         stopping => stopping',
         \A j \in parked' : pc'[j] = pc[j],
         \A j \in Instances : /\ pc'[j] = "blocked" => pc[j] = "blocked"
                              /\ pc'[j] = "new" => pc[j] = "new"
  PROVE  WakeInv'
<1> USE DEF WakeInv, objVars
<1>1. CurMatchesPc' /\ ChannelOfOwnId' /\ BlockedHolds' /\ HeldOfOwnId' /\ NewIsUnknown'
  BY DEF CurMatchesPc, ChannelOfOwnId, BlockedHolds, HeldOfOwnId, NewIsUnknown
<1>2. InFlightIsTrue'
  BY DEF InFlightIsTrue
<1>3. EnqueuedIsTrue'
  BY DEF EnqueuedIsTrue, Queued
<1>4. NoSleepingWorkerHasWork' /\ NoSleepingSubmitterHasRoom'
  BY DEF NoLostWakeup, NoSleepingWorkerHasWork, NoSleepingSubmitterHasRoom
<1>5. PendingIsScheduled'
  BY DEF NoLostWakeup, PendingIsScheduled, Queued
<1> QED BY <1>1, <1>2, <1>3, <1>4, <1>5 DEF NoLostWakeup

LEMMA RegisterWake ==
  ASSUME WakeInv, NEW i \in Instances, Register(i) PROVE WakeInv'
<1>1. TypeOK'
  BY RegisterType DEF WakeInv
<1>2. CASE channels[StreamOf[i]] # NoChannel
  <2>1. /\ UNCHANGED <<channels, objVars, ready, wpc, cur, held, idle, parked, stopping>>
        /\ pc' = [pc EXCEPT ![i] = "capturing"] /\ pc[i] = "new"
    BY <1>2 DEF Register, Pin, chanVars, poolVars
  <2>2. \A j \in parked : pc[j] = "blocked"
    BY DEF WakeInv, NoLostWakeup, NoSleepingSubmitterHasRoom
  <2> QED BY <1>1, <2>1, <2>2, PoolFrame DEF WakeInv, TypeOK
<1>3. CASE channels[StreamOf[i]] = NoChannel
  <2> DEFINE s == StreamOf[i]
  <2>1. /\ channels' = [channels EXCEPT ![s] = i]
        /\ pending' = [pending EXCEPT ![i] = <<>>]
        /\ inFlight' = [inFlight EXCEPT ![i] = FALSE]
        /\ enqueued' = [enqueued EXCEPT ![i] = FALSE]
        /\ pc' = [pc EXCEPT ![i] = "capturing"] /\ pc[i] = "new"
        /\ UNCHANGED <<ready, stopping, wpc, cur, held, idle, parked>>
    BY <1>3 DEF Register, Pin, poolVars
  <2>2. s \in Streams
    BY SchedulerAssumption
  <2>3. ASSUME NEW t \in Streams \ {s}, channels[t] # NoChannel
        PROVE  channels'[t] = channels[t] /\ channels[t] \in Instances \ {i}
    BY <2>1, <2>2, <2>3 DEF WakeInv, TypeOK, ChannelOfOwnId
  <2>4. channels'[s] = i
    BY <2>1, <2>2 DEF WakeInv, TypeOK
  <2>5. \A t \in Streams \ {s} : channels'[t] = channels[t]
    BY <2>1, <2>2 DEF WakeInv, TypeOK
  <2>6. CurMatchesPc' /\ BlockedHolds' /\ HeldOfOwnId'
    BY <2>1 DEF WakeInv, TypeOK, CurMatchesPc, BlockedHolds, HeldOfOwnId
  <2>7. ChannelOfOwnId'
    BY <2>4, <2>5 DEF WakeInv, ChannelOfOwnId
  <2>8. NewIsUnknown'
    BY <2>1, <2>4, <2>5 DEF WakeInv, TypeOK, NewIsUnknown
  <2>9. InFlightIsTrue'
    BY <2>1 DEF WakeInv, TypeOK, InFlightIsTrue
  <2>10. EnqueuedIsTrue'
    <3>1. enqueued'[i] = FALSE /\ \A c \in Instances \ {i} : enqueued'[c] = enqueued[c]
      BY <2>1 DEF WakeInv, TypeOK
    <3>2. \A t \in Streams : Queued(t)' = Queued(t)
      BY <2>1 DEF Queued
    <3> QED BY <2>3, <2>4, <2>5, <3>1, <3>2 DEF WakeInv, EnqueuedIsTrue
  <2>11. NoSleepingWorkerHasWork'
    BY <2>1 DEF WakeInv, NoLostWakeup, NoSleepingWorkerHasWork
  <2>12. NoSleepingSubmitterHasRoom'
    <3> SUFFICES ASSUME NEW j \in parked
                 PROVE  /\ pc'[j] = "blocked" /\ ~stopping
                        /\ channels'[StreamOf[j]] # NoChannel
                        /\ Len(pending'[held[j]]) >= Capacity
      BY <2>1 DEF NoSleepingSubmitterHasRoom
    <3>1. /\ j \in Instances /\ pc[j] = "blocked" /\ ~stopping
          /\ channels[StreamOf[j]] # NoChannel /\ Len(pending[held[j]]) >= Capacity
      BY DEF WakeInv, TypeOK, NoLostWakeup, NoSleepingSubmitterHasRoom
    <3>2. held[j] \in Instances \ {i} /\ StreamOf[j] \in Streams
      BY <2>1, <3>1, SchedulerAssumption DEF WakeInv, BlockedHolds, NewIsUnknown
    <3>3. StreamOf[j] # s
      BY <1>3, <3>1
    <3> QED BY <2>1, <2>5, <3>1, <3>2, <3>3 DEF WakeInv, TypeOK
  <2>13. PendingIsScheduled'
    <3>1. pending'[i] = <<>> /\ \A c \in Instances \ {i} : pending'[c] = pending[c]
      BY <2>1 DEF WakeInv, TypeOK
    <3>2. \A t \in Streams : Queued(t)' = Queued(t)
      BY <2>1 DEF Queued
    <3> QED BY <2>1, <2>3, <2>4, <2>5, <3>1, <3>2 DEF WakeInv, NoLostWakeup, PendingIsScheduled
  <2> QED BY <1>1, <2>6, <2>7, <2>8, <2>9, <2>10, <2>11, <2>12, <2>13 DEF WakeInv, NoLostWakeup
<1> QED BY <1>2, <1>3

(* A thread moves on and takes hold of channel object d, or of none. *)
LEMMA HoldStep ==
  ASSUME WakeInv, NEW i \in Instances, NEW v, v # "new", pc[i] # "new",
         NEW d \in Instances \union {NoChannel},
         v = "blocked" => d # NoChannel,
         d # NoChannel => StreamOf[d] = StreamOf[i] /\ pc[d] # "new",
         pc' = [pc EXCEPT ![i] = v], held' = [held EXCEPT ![i] = d],
         \A s \in Streams : channels'[s] # NoChannel => channels'[s] = channels[s]
  PROVE  BlockedHolds' /\ HeldOfOwnId' /\ NewIsUnknown'
<1>1. /\ pc'[i] = v /\ held'[i] = d
      /\ \A j \in Instances \ {i} : pc'[j] = pc[j] /\ held'[j] = held[j]
  BY DEF WakeInv, TypeOK
<1>2. BlockedHolds'
  BY <1>1 DEF WakeInv, BlockedHolds
<1>3. HeldOfOwnId'
  BY <1>1 DEF WakeInv, HeldOfOwnId
<1>4. NewIsUnknown'
  <2> SUFFICES ASSUME NEW j \in Instances, pc'[j] = "new"
               PROVE  /\ \A s \in Streams : channels'[s] # j
                      /\ \A k \in Instances : held'[k] # j
    BY DEF NewIsUnknown
  <2>1. j # i /\ pc[j] = "new"
    BY <1>1
  <2>2. \A s \in Streams : channels'[s] # j
    BY <2>1, SchedulerAssumption DEF WakeInv, NewIsUnknown
  <2>3. \A k \in Instances : held'[k] # j
    BY <1>1, <2>1, SchedulerAssumption DEF WakeInv, NewIsUnknown
  <2> QED BY <2>2, <2>3
<1> QED BY <1>2, <1>3, <1>4

(* A worker's queue grows by one id. *)
LEMMA QueuedStep ==
  ASSUME TypeOK, NEW w \in Workers, NEW t \in Streams,
         ready' = [ready EXCEPT ![w] = Append(ready[w], t)]
  PROVE  Queued(t)' /\ \A s \in Streams : Queued(s) => Queued(s)'
<1>1. ready[w] \in Seq(Streams) /\ ready'[w] = Append(ready[w], t)
  BY DEF TypeOK
<1>2. \A v \in Workers \ {w} : ready'[v] = ready[v]
  BY DEF TypeOK
<1>3. Queued(t)'
  BY <1>1, QueuedAppend DEF Queued
<1>4. ASSUME NEW s \in Streams, NEW v \in Workers, NEW k \in 1 .. Len(ready[v]),
             ready[v][k] = s
      PROVE  Queued(s)'
  <2>1. CASE v = w
    <3>1. \E j \in 1 .. Len(ready'[w]) : ready'[w][j] = s
      BY <1>1, <1>4, <2>1, QueuedAppend
    <3> QED BY <3>1 DEF Queued
  <2>2. CASE v # w
    <3>1. ready'[v] = ready[v]
      BY <1>2, <2>2
    <3> QED BY <1>4, <3>1 DEF Queued
  <2> QED BY <2>1, <2>2
<1> QED BY <1>3, <1>4 DEF Queued

(* submit() from its loop on, for a channel object that was registered      *)
(* under the submitter's own id.                                            *)
LEMMA OfferWake ==
  ASSUME WakeInv, TypeOK', NEW i \in Instances,
         NEW c \in Instances \union {NoChannel}, NEW n \in Nat,
         c = NoChannel => channels[StreamOf[i]] = NoChannel,
         c # NoChannel => StreamOf[c] = StreamOf[i] /\ pc[c] # "new",
         pc[i] # "new", i \notin parked, Offer(i, c, n), UNCHANGED offerFrame
  PROVE  WakeInv'
<1> DEFINE s == StreamOf[i]
<1>1. s \in Streams /\ UNCHANGED <<channels, pinned, inFlight, stopping, wpc, cur>>
  BY SchedulerAssumption DEF offerFrame, chanVars
<1>2. \A j \in parked : /\ j \in Instances /\ j # i
                         /\ pc[j] = "blocked" /\ ~stopping
                         /\ channels[StreamOf[j]] # NoChannel
                         /\ held[j] \in Instances
                         /\ Len(pending[held[j]]) >= Capacity
  BY DEF WakeInv, TypeOK, NoLostWakeup, NoSleepingSubmitterHasRoom, BlockedHolds
<1>3. CurMatchesPc' /\ ChannelOfOwnId' /\ InFlightIsTrue'
  BY <1>1 DEF WakeInv, CurMatchesPc, ChannelOfOwnId, InFlightIsTrue
<1>4. CASE Refuse(i)
  <2>1. /\ pc' = [pc EXCEPT ![i] = "capturing"]
        /\ held' = [held EXCEPT ![i] = NoChannel]
        /\ UNCHANGED <<pending, enqueued, ready, idle, parked>>
    BY <1>4 DEF Refuse
  <2>2. BlockedHolds' /\ HeldOfOwnId' /\ NewIsUnknown'
    BY <1>1, <2>1, HoldStep
  <2>3. EnqueuedIsTrue'
    BY <1>1, <2>1 DEF WakeInv, EnqueuedIsTrue, Queued
  <2>4. NoSleepingWorkerHasWork' /\ NoSleepingSubmitterHasRoom'
    BY <1>1, <1>2, <2>1
       DEF WakeInv, TypeOK, NoLostWakeup, NoSleepingWorkerHasWork, NoSleepingSubmitterHasRoom
  <2>5. PendingIsScheduled'
    BY <1>1, <2>1 DEF WakeInv, NoLostWakeup, PendingIsScheduled, Queued
  <2> QED BY <1>3, <2>2, <2>3, <2>4, <2>5 DEF WakeInv, NoLostWakeup
<1>5. CASE Await(i, c)
  <2>1. /\ pc' = [pc EXCEPT ![i] = "blocked"]
        /\ held' = [held EXCEPT ![i] = c]
        /\ parked' = parked \union {i}
        /\ UNCHANGED <<pending, enqueued, ready, idle>>
        /\ ~stopping /\ channels[s] # NoChannel /\ Len(pending[c]) >= Capacity
    BY <1>5 DEF Await, Gone
  <2>2. c \in Instances
    BY <2>1
  <2>3. BlockedHolds' /\ HeldOfOwnId' /\ NewIsUnknown'
    BY <1>1, <2>1, <2>2, HoldStep, SchedulerAssumption
  <2>4. EnqueuedIsTrue'
    BY <1>1, <2>1 DEF WakeInv, EnqueuedIsTrue, Queued
  <2>5. NoSleepingWorkerHasWork'
    BY <1>1, <2>1 DEF WakeInv, NoLostWakeup, NoSleepingWorkerHasWork
  <2>6. NoSleepingSubmitterHasRoom'
    <3>1. held'[i] = c /\ pc'[i] = "blocked"
      BY <2>1 DEF WakeInv, TypeOK
    <3>2. \A j \in parked : held'[j] = held[j] /\ pc'[j] = pc[j]
      BY <1>2, <2>1 DEF WakeInv, TypeOK
    <3> QED BY <1>1, <1>2, <2>1, <3>1, <3>2 DEF NoSleepingSubmitterHasRoom
  <2>7. PendingIsScheduled'
    BY <1>1, <2>1 DEF WakeInv, NoLostWakeup, PendingIsScheduled, Queued
  <2> QED BY <1>3, <2>3, <2>4, <2>5, <2>6, <2>7 DEF WakeInv, NoLostWakeup
<1>6. CASE Enqueue(i, c, n)
  <2>1. /\ pc' = [pc EXCEPT ![i] = "capturing"]
        /\ held' = [held EXCEPT ![i] = NoChannel]
        /\ pending' = [pending EXCEPT ![c] = Append(pending[c], <<i, n>>)]
        /\ channels[s] # NoChannel /\ ~stopping
    BY <1>6 DEF Enqueue, Gone
  <2>2. c \in Instances /\ StreamOf[c] = s
    BY <2>1, SchedulerAssumption
  <2>3. BlockedHolds' /\ HeldOfOwnId' /\ NewIsUnknown'
    BY <1>1, <2>1, HoldStep
  <2>4. \A d \in Instances \ {c} : pending'[d] = pending[d]
    BY <2>1 DEF WakeInv, TypeOK
  <2>5. Len(pending'[c]) = Len(pending[c]) + 1 /\ Len(pending[c]) \in Nat
    <3>1. pending[c] \in Seq(Frames) /\ <<i, n>> \in Frames
      BY <2>2 DEF WakeInv, TypeOK, Frames
    <3>2. pending'[c] = Append(pending[c], <<i, n>>)
      BY <2>1, <2>2 DEF WakeInv, TypeOK
    <3> QED BY <3>1, <3>2
  <2>6. CASE inFlight[c] \/ enqueued[c]
    <3>1. UNCHANGED <<enqueued, ready, idle, parked>>
      BY <1>6, <2>6 DEF Enqueue
    <3>2. EnqueuedIsTrue' /\ NoSleepingWorkerHasWork'
      BY <1>1, <3>1
         DEF WakeInv, EnqueuedIsTrue, Queued, NoLostWakeup, NoSleepingWorkerHasWork
    <3>3. NoSleepingSubmitterHasRoom'
      <4> SUFFICES ASSUME NEW j \in parked
                   PROVE  /\ pc'[j] = "blocked" /\ ~stopping
                          /\ channels[StreamOf[j]] # NoChannel
                          /\ Len(pending'[held'[j]]) >= Capacity
        BY <1>1, <3>1 DEF NoSleepingSubmitterHasRoom
      <4>1. held'[j] = held[j] /\ pc'[j] = pc[j]
        BY <1>2, <2>1 DEF WakeInv, TypeOK
      <4>2. Len(pending'[held[j]]) >= Capacity
        <5>1. CASE held[j] = c
          BY <1>2, <2>5, <5>1, SchedulerAssumption
        <5>2. CASE held[j] # c
          BY <1>2, <2>4, <5>2
        <5> QED BY <5>1, <5>2
      <4> QED BY <1>2, <4>1, <4>2
    <3>4. PendingIsScheduled'
      <4>1. \A t \in Streams : Queued(t)' = Queued(t)
        BY <3>1 DEF Queued
      <4>2. \A t \in Streams : channels[t] = c => Queued(t) \/ \E w \in Workers : cur[w] = c
        <5>1. CASE inFlight[c]
          BY <2>2, <5>1 DEF WakeInv, InFlightIsTrue
        <5>2. CASE enqueued[c]
          BY <2>2, <5>2, SchedulerAssumption DEF WakeInv, EnqueuedIsTrue
        <5> QED BY <2>6, <5>1, <5>2
      <4> SUFFICES ASSUME NEW t \in Streams, channels[t] # NoChannel,
                          pending'[channels[t]] # <<>>
                   PROVE  Queued(t) \/ \E w \in Workers : cur[w] = channels[t]
        BY <1>1, <2>1, <4>1 DEF PendingIsScheduled
      <4>3. CASE channels[t] = c
        BY <4>2, <4>3
      <4>4. CASE channels[t] # c
        BY <2>1, <2>4, <4>4 DEF WakeInv, TypeOK, NoLostWakeup, PendingIsScheduled
      <4> QED BY <4>3, <4>4
    <3> QED BY <1>3, <2>3, <3>2, <3>3, <3>4 DEF WakeInv, NoLostWakeup
  <2>7. CASE ~(inFlight[c] \/ enqueued[c])
    <3>1. /\ enqueued' = [enqueued EXCEPT ![c] = TRUE]
          /\ ready' = [ready EXCEPT ![pinned[c]] = Append(ready[pinned[c]], s)]
          /\ idle' = {} /\ parked' = {}
      BY <1>6, <2>7 DEF Enqueue, NotifyAll
    <3>2. pinned[c] \in Workers /\ ready[pinned[c]] \in Seq(Streams)
      BY <2>2 DEF WakeInv, TypeOK
    <3>3. Queued(s)' /\ \A t \in Streams : Queued(t) => Queued(t)'
      BY <1>1, <3>1, <3>2, QueuedStep DEF WakeInv
    <3>4. EnqueuedIsTrue'
      <4>1. \A t \in Streams : channels[t] = c => t = s
        BY <2>2, SchedulerAssumption DEF WakeInv, ChannelOfOwnId
      <4>2. \A d \in Instances \ {c} : enqueued'[d] = enqueued[d]
        BY <3>1 DEF WakeInv, TypeOK
      <4> QED BY <1>1, <3>3, <4>1, <4>2 DEF WakeInv, TypeOK, EnqueuedIsTrue
    <3>5. NoSleepingWorkerHasWork' /\ NoSleepingSubmitterHasRoom'
      BY <3>1 DEF NoSleepingWorkerHasWork, NoSleepingSubmitterHasRoom
    <3>6. PendingIsScheduled'
      <4>1. \A t \in Streams : channels[t] = c => t = s
        BY <2>2, SchedulerAssumption DEF WakeInv, ChannelOfOwnId
      <4> SUFFICES ASSUME NEW t \in Streams, channels[t] # NoChannel,
                          pending'[channels[t]] # <<>>
                   PROVE  Queued(t)' \/ \E w \in Workers : cur[w] = channels[t]
        BY <1>1, <2>1 DEF PendingIsScheduled
      <4>2. CASE channels[t] = c
        BY <3>3, <4>1, <4>2
      <4>3. CASE channels[t] # c
        BY <2>1, <2>4, <3>3, <4>3 DEF WakeInv, TypeOK, NoLostWakeup, PendingIsScheduled
      <4> QED BY <4>2, <4>3
    <3> QED BY <1>3, <2>3, <3>4, <3>5, <3>6 DEF WakeInv, NoLostWakeup
  <2> QED BY <2>6, <2>7
<1> QED BY <1>4, <1>5, <1>6 DEF Offer

(* unregister()'s tail wakes everybody. *)
LEMMA DropChannelWake ==
  ASSUME WakeInv, NEW i \in Instances, DropChannel(i), pc[i] # "new" PROVE WakeInv'
<1>1. TypeOK'
  BY DropChannelType DEF WakeInv
<1>2. /\ channels' = [channels EXCEPT ![StreamOf[i]] = NoChannel]
      /\ pc' = [pc EXCEPT ![i] = "done"] /\ held' = [held EXCEPT ![i] = NoChannel]
      /\ idle' = {} /\ parked' = {}
      /\ UNCHANGED <<pending, inFlight, enqueued, ready, stopping, wpc, cur>>
  BY DEF DropChannel, NotifyAll, objVars, poolVars
<1>3. \A s \in Streams : channels'[s] # NoChannel => channels'[s] = channels[s]
  BY <1>2 DEF WakeInv, TypeOK
<1>4. CurMatchesPc' /\ BlockedHolds' /\ HeldOfOwnId' /\ InFlightIsTrue'
  BY <1>2 DEF WakeInv, TypeOK, CurMatchesPc, BlockedHolds, HeldOfOwnId, InFlightIsTrue
<1>5. ChannelOfOwnId'
  BY <1>3 DEF WakeInv, ChannelOfOwnId
<1>6. NewIsUnknown'
  <2>1. \A k \in Instances : pc'[k] = "new" => pc[k] = "new"
    BY <1>2 DEF WakeInv, TypeOK
  <2>2. \A j \in Instances : held'[j] = held[j] \/ held'[j] = NoChannel
    BY <1>2 DEF WakeInv, TypeOK
  <2> QED BY <1>3, <2>1, <2>2, SchedulerAssumption DEF WakeInv, NewIsUnknown
<1>7. EnqueuedIsTrue'
  BY <1>2, <1>3 DEF WakeInv, EnqueuedIsTrue, Queued
<1>8. NoSleepingWorkerHasWork' /\ NoSleepingSubmitterHasRoom'
  BY <1>2 DEF NoSleepingWorkerHasWork, NoSleepingSubmitterHasRoom
<1>9. PendingIsScheduled'
  BY <1>2, <1>3 DEF WakeInv, NoLostWakeup, PendingIsScheduled, Queued
<1> QED BY <1>1, <1>4, <1>5, <1>6, <1>7, <1>8, <1>9 DEF WakeInv, NoLostWakeup

LEMMA CaptureWake ==
  ASSUME WakeInv, NEW i \in Instances, Capture(i) PROVE WakeInv'
<1>1. TypeOK'
  BY CaptureType DEF WakeInv
<1>2. \A j \in parked : j \in Instances /\ pc[j] = "blocked"
  BY DEF WakeInv, TypeOK, NoLostWakeup, NoSleepingSubmitterHasRoom
<1>3. CASE Register(i)
  BY <1>3, RegisterWake
<1>4. CASE Submit(i)
  <2>1. /\ pc[i] = "capturing" /\ UNCHANGED offerFrame
        /\ Offer(i, channels[StreamOf[i]], sent[i] + 1)
    BY <1>4 DEF Submit
  <2>2. StreamOf[i] \in Streams /\ sent[i] + 1 \in Nat
    BY SchedulerAssumption DEF WakeInv, TypeOK
  <2>3. channels[StreamOf[i]] \in Instances \union {NoChannel}
    BY <2>2 DEF WakeInv, TypeOK
  <2>4. channels[StreamOf[i]] # NoChannel =>
          StreamOf[channels[StreamOf[i]]] = StreamOf[i] /\ pc[channels[StreamOf[i]]] # "new"
    BY <2>2, <2>3 DEF WakeInv, ChannelOfOwnId, NewIsUnknown
  <2> QED BY <1>1, <1>2, <2>1, <2>2, <2>3, <2>4, OfferWake
<1>5. CASE Resume(i)
  <2>1. /\ pc[i] = "blocked" /\ i \notin parked /\ UNCHANGED offerFrame
        /\ Offer(i, held[i], sent[i])
    BY <1>5 DEF Resume
  <2>2. held[i] \in Instances /\ sent[i] \in Nat
    BY <2>1 DEF WakeInv, TypeOK, BlockedHolds
  <2>3. held[i] # NoChannel /\ StreamOf[held[i]] = StreamOf[i] /\ pc[held[i]] # "new"
    BY <2>2, SchedulerAssumption DEF WakeInv, HeldOfOwnId, NewIsUnknown
  <2> QED BY <1>1, <2>1, <2>2, <2>3, OfferWake
<1>6. CASE StopStream(i)
  BY <1>1, <1>6, PoolFrame DEF StopStream, chanVars, poolVars
<1>7. CASE EndCapture(i)
  <2>1. /\ UNCHANGED <<channels, objVars, ready, wpc, cur, held, idle, parked, stopping>>
        /\ pc' = [pc EXCEPT ![i] = "unregister"] /\ pc[i] = "capturing"
    BY <1>7 DEF EndCapture, chanVars, poolVars
  <2> QED BY <1>1, <1>2, <2>1, PoolFrame DEF WakeInv, TypeOK
<1>8. CASE Unregister(i)
  <2> DEFINE c == channels[StreamOf[i]]
  <2>1. CASE Busy(c)
    <3>1. /\ pc' = [pc EXCEPT ![i] = "draining"] /\ held' = [held EXCEPT ![i] = c]
          /\ pc[i] = "unregister"
          /\ UNCHANGED <<channels, objVars, ready, stopping, wpc, cur, idle, parked>>
      BY <1>8, <2>1 DEF Unregister, chanVars, poolVars
    <3>2. StreamOf[i] \in Streams
      BY SchedulerAssumption
    <3>3. c \in Instances /\ StreamOf[c] = StreamOf[i] /\ pc[c] # "new"
      BY <2>1, <3>2 DEF WakeInv, TypeOK, Busy, ChannelOfOwnId, NewIsUnknown
    <3>4. BlockedHolds' /\ HeldOfOwnId' /\ NewIsUnknown'
      BY <3>1, <3>3, HoldStep
    <3>5. CurMatchesPc' /\ ChannelOfOwnId' /\ InFlightIsTrue' /\ EnqueuedIsTrue'
      BY <3>1 DEF WakeInv, objVars, CurMatchesPc, ChannelOfOwnId, InFlightIsTrue,
                  EnqueuedIsTrue, Queued
    <3>6. NoSleepingWorkerHasWork' /\ PendingIsScheduled'
      BY <3>1 DEF WakeInv, objVars, NoLostWakeup, NoSleepingWorkerHasWork,
                  PendingIsScheduled, Queued
    <3>7. \A j \in parked : j # i /\ pc'[j] = pc[j] /\ held'[j] = held[j]
      BY <1>2, <3>1 DEF WakeInv, TypeOK
    <3>8. NoSleepingSubmitterHasRoom'
      BY <3>1, <3>7 DEF WakeInv, objVars, NoLostWakeup, NoSleepingSubmitterHasRoom
    <3> QED BY <1>1, <3>4, <3>5, <3>6, <3>8 DEF WakeInv, NoLostWakeup
  <2>2. CASE ~Busy(c)
    BY <1>8, <2>2, DropChannelWake DEF Unregister
  <2> QED BY <2>1, <2>2
<1>9. CASE Drained(i)
  BY <1>9, DropChannelWake DEF Drained
<1> QED BY <1>3, <1>4, <1>5, <1>6, <1>7, <1>8, <1>9 DEF Capture

LEMMA SleepWake ==
  ASSUME WakeInv, NEW w \in Workers, Sleep(w) PROVE WakeInv'
<1>1. TypeOK'
  BY WorkType DEF WakeInv, Work
<1>2. /\ idle' = idle \union {w} /\ wpc[w] = "loop" /\ ready[w] = <<>> /\ ~stopping
      /\ UNCHANGED <<channels, objVars, ready, stopping, wpc, cur, parked, pc, held>>
  BY DEF Sleep, chanVars, poolVars, instVars
<1>3. /\ CurMatchesPc' /\ ChannelOfOwnId' /\ BlockedHolds' /\ HeldOfOwnId'
      /\ NewIsUnknown' /\ InFlightIsTrue' /\ EnqueuedIsTrue'
  BY <1>2 DEF WakeInv, objVars, CurMatchesPc, ChannelOfOwnId, BlockedHolds, HeldOfOwnId,
              NewIsUnknown, InFlightIsTrue, EnqueuedIsTrue, Queued
<1>4. NoSleepingWorkerHasWork'
  BY <1>2 DEF WakeInv, NoLostWakeup, NoSleepingWorkerHasWork
<1>5. NoSleepingSubmitterHasRoom' /\ PendingIsScheduled'
  BY <1>2 DEF WakeInv, objVars, NoLostWakeup, NoSleepingSubmitterHasRoom,
              PendingIsScheduled, Queued
<1> QED BY <1>1, <1>3, <1>4, <1>5 DEF WakeInv, NoLostWakeup

(* A worker thread moves between positions outside any channel, or raises   *)
(* inside one; queues and channels stay.                                    *)
LEMMA MoveWake ==
  ASSUME WakeInv, TypeOK', NEW w \in Workers, w \notin idle, NEW v,
         v \in {"processing", "raised"} <=> wpc[w] \in {"processing", "raised"},
         wpc' = [wpc EXCEPT ![w] = v],
         UNCHANGED <<channels, objVars, ready, stopping, cur, idle, parked, pc, held>>
  PROVE  WakeInv'
<1>1. /\ ChannelOfOwnId' /\ BlockedHolds' /\ HeldOfOwnId'
      /\ NewIsUnknown' /\ InFlightIsTrue' /\ EnqueuedIsTrue'
  BY DEF WakeInv, objVars, ChannelOfOwnId, BlockedHolds, HeldOfOwnId,
         NewIsUnknown, InFlightIsTrue, EnqueuedIsTrue, Queued
<1>2. CurMatchesPc'
  BY DEF WakeInv, TypeOK, CurMatchesPc
<1>3. NoSleepingWorkerHasWork'
  BY DEF WakeInv, TypeOK, NoLostWakeup, NoSleepingWorkerHasWork
<1>4. NoSleepingSubmitterHasRoom' /\ PendingIsScheduled'
  BY DEF WakeInv, objVars, NoLostWakeup, NoSleepingSubmitterHasRoom,
         PendingIsScheduled, Queued
<1> QED BY <1>1, <1>2, <1>3, <1>4 DEF WakeInv, NoLostWakeup

LEMMA TakeWake ==
  ASSUME WakeInv, NEW w \in Workers, Take(w) PROVE WakeInv'
<1> DEFINE s == Head(ready[w])
           c == channels[s]
<1>1. TypeOK'
  BY WorkType DEF WakeInv, Work
<1>2. /\ wpc[w] = "loop" /\ ready[w] # <<>> /\ w \notin idle
      /\ ready' = [ready EXCEPT ![w] = Tail(ready[w])]
      /\ UNCHANGED <<channels, stopping, pc, held>>
  BY DEF Take, chanVars, instVars
<1>3. ready[w] \in Seq(Streams)
  BY DEF WakeInv, TypeOK
<1>4. s \in Streams /\ c \in Instances \union {NoChannel}
  <2>1. s \in Streams
    BY <1>2, <1>3, QueuedTail
  <2> QED BY <2>1 DEF WakeInv, TypeOK
<1>5. \A t \in Streams \ {s} : Queued(t) => Queued(t)'
  <2>1. ready'[w] = Tail(ready[w]) /\ \A v \in Workers \ {w} : ready'[v] = ready[v]
    BY <1>2 DEF WakeInv, TypeOK
  <2> SUFFICES ASSUME NEW t \in Streams \ {s}, NEW v \in Workers,
                      NEW k \in 1 .. Len(ready[v]), ready[v][k] = t
               PROVE  Queued(t)'
    BY DEF Queued
  <2>2. CASE v = w
    <3>1. \E j \in 1 .. Len(ready[w]) : ready[w][j] = t
      BY <2>2
    <3>2. \E j \in 1 .. Len(Tail(ready[w])) : Tail(ready[w])[j] = t
      <4> DEFINE r == ready[w]
      <4>1. r \in Seq(Streams) /\ r # <<>> /\ t \in Streams \ {Head(r)}
        BY <1>2, <1>3
      <4> HIDE DEF r
      <4>2. \A u \in Streams \ {Head(r)} :
              (\E j \in 1 .. Len(r) : r[j] = u) => \E j \in 1 .. Len(Tail(r)) : Tail(r)[j] = u
        BY <4>1, QueuedTail
      <4> QED BY <3>1, <4>1, <4>2 DEF r
    <3> QED BY <2>1, <3>2 DEF Queued
  <2>3. CASE v # w
    <3>1. ready'[v] = ready[v]
      BY <2>1, <2>3
    <3> QED BY <3>1 DEF Queued
  <2> QED BY <2>2, <2>3
<1>6. /\ ChannelOfOwnId' /\ BlockedHolds' /\ HeldOfOwnId' /\ NewIsUnknown'
  BY <1>2 DEF WakeInv, ChannelOfOwnId, BlockedHolds, HeldOfOwnId, NewIsUnknown
<1>7. \A t \in Streams \ {s} : channels[t] # NoChannel => channels[t] # c
  BY <1>4 DEF WakeInv, ChannelOfOwnId
<1>8. \A v \in idle : v # w /\ ready'[v] = ready[v] /\ v \in Workers
  BY <1>2 DEF WakeInv, TypeOK
<1>9. CASE c = NoChannel
  <2>1. UNCHANGED <<objVars, wpc, cur, item, idle, parked>>
    BY <1>9 DEF Take
  <2>2. CurMatchesPc' /\ InFlightIsTrue' /\ NoSleepingSubmitterHasRoom'
    BY <1>2, <2>1 DEF WakeInv, objVars, CurMatchesPc, InFlightIsTrue, NoLostWakeup,
                      NoSleepingSubmitterHasRoom
  <2>3. EnqueuedIsTrue'
    BY <1>2, <1>5, <1>9, <2>1 DEF WakeInv, objVars, EnqueuedIsTrue
  <2>4. NoSleepingWorkerHasWork'
    BY <1>2, <1>8, <2>1 DEF WakeInv, NoLostWakeup, NoSleepingWorkerHasWork
  <2>5. PendingIsScheduled'
    BY <1>2, <1>5, <1>9, <2>1 DEF WakeInv, objVars, NoLostWakeup, PendingIsScheduled
  <2> QED BY <1>1, <1>6, <2>2, <2>3, <2>4, <2>5 DEF WakeInv, NoLostWakeup
<1>10. CASE c # NoChannel
  <2>1. enqueued' = [enqueued EXCEPT ![c] = FALSE] /\ c \in Instances
    BY <1>4, <1>10 DEF Take
  <2>2. EnqueuedIsTrue'
    <3>1. ~enqueued'[c] /\ \A d \in Instances \ {c} : enqueued'[d] = enqueued[d]
      BY <2>1 DEF WakeInv, TypeOK
    <3> SUFFICES ASSUME NEW t \in Streams, channels[t] # NoChannel, enqueued'[channels[t]]
                 PROVE  Queued(t)'
      BY <1>2 DEF EnqueuedIsTrue
    <3>2. t # s /\ channels[t] \in Instances \ {c}
      BY <3>1 DEF WakeInv, TypeOK
    <3>3. enqueued[channels[t]]
      BY <3>1, <3>2
    <3> QED BY <1>5, <3>2, <3>3 DEF WakeInv, EnqueuedIsTrue
  <2>3. CASE pending[c] = <<>>
    <3>1. UNCHANGED <<pending, inFlight, wpc, cur, item, idle, parked>>
      BY <1>10, <2>3 DEF Take
    <3>2. CurMatchesPc' /\ InFlightIsTrue' /\ NoSleepingSubmitterHasRoom'
      BY <1>2, <3>1 DEF WakeInv, CurMatchesPc, InFlightIsTrue, NoLostWakeup,
                        NoSleepingSubmitterHasRoom
    <3>3. NoSleepingWorkerHasWork'
      BY <1>2, <1>8, <3>1 DEF WakeInv, NoLostWakeup, NoSleepingWorkerHasWork
    <3>4. PendingIsScheduled'
      BY <1>2, <1>5, <2>3, <3>1 DEF WakeInv, NoLostWakeup, PendingIsScheduled
    <3> QED BY <1>1, <1>6, <2>2, <3>2, <3>3, <3>4 DEF WakeInv, NoLostWakeup
  <2>4. CASE pending[c] # <<>>
    <3>1. /\ pending'  = [pending EXCEPT ![c] = <<>>]
          /\ inFlight' = [inFlight EXCEPT ![c] = TRUE]
          /\ wpc'  = [wpc EXCEPT ![w] = "processing"]
          /\ cur'  = [cur EXCEPT ![w] = c]
          /\ idle' = {} /\ parked' = {}
      BY <1>10, <2>4 DEF Take, NotifyAll
    <3>2. /\ cur'[w] = c /\ wpc'[w] = "processing"
          /\ \A v \in Workers \ {w} : cur'[v] = cur[v] /\ wpc'[v] = wpc[v]
          /\ pending'[c] = <<>>
          /\ \A d \in Instances \ {c} : pending'[d] = pending[d] /\ inFlight'[d] = inFlight[d]
      BY <2>1, <3>1 DEF WakeInv, TypeOK
    <3>3. CurMatchesPc'
      BY <1>10, <3>2 DEF WakeInv, CurMatchesPc
    <3>4. cur[w] = NoChannel
      BY <1>2 DEF WakeInv, CurMatchesPc
    <3>5. \A d \in Instances \ {c} : (\E v \in Workers : cur[v] = d) => \E v \in Workers : cur'[v] = d
      BY <3>2, <3>4, SchedulerAssumption
    <3>6. InFlightIsTrue'
      BY <3>2, <3>5 DEF WakeInv, InFlightIsTrue
    <3>7. NoSleepingWorkerHasWork' /\ NoSleepingSubmitterHasRoom'
      BY <3>1 DEF NoSleepingWorkerHasWork, NoSleepingSubmitterHasRoom
    <3>8. PendingIsScheduled'
      <4> SUFFICES ASSUME NEW t \in Streams, channels[t] # NoChannel, ~stopping,
                          pending'[channels[t]] # <<>>
                   PROVE  Queued(t)' \/ \E v \in Workers : cur'[v] = channels[t]
        BY <1>2 DEF PendingIsScheduled
      <4>1. channels[t] \in Instances \ {c} /\ t # s
        BY <3>2 DEF WakeInv, TypeOK
      <4>2. pending[channels[t]] # <<>>
        BY <3>2, <4>1
      <4>3. Queued(t) \/ \E v \in Workers : cur[v] = channels[t]
        BY <4>2 DEF WakeInv, NoLostWakeup, PendingIsScheduled
      <4> QED BY <1>5, <3>5, <4>1, <4>3
    <3> QED BY <1>1, <1>6, <2>2, <3>3, <3>6, <3>7, <3>8 DEF WakeInv, NoLostWakeup
  <2> QED BY <2>3, <2>4
<1> QED BY <1>9, <1>10

LEMMA FinishWake ==
  ASSUME WakeInv, NEW w \in Workers, Finish(w) PROVE WakeInv'
<1>0. PICK c \in Instances, s \in Streams : c = cur[w] /\ s = StreamOf[c]
  BY SchedulerAssumption DEF Finish, WakeInv, TypeOK, CurMatchesPc
<1>1. TypeOK'
  BY WorkType DEF WakeInv, Work
<1>2. /\ wpc[w] \in {"processing", "raised"}
      /\ wpc'  = [wpc EXCEPT ![w] = "loop"]
      /\ cur'  = [cur EXCEPT ![w] = NoChannel]
      /\ inFlight' = [inFlight EXCEPT ![c] = FALSE]
      /\ UNCHANGED <<channels, pending, stopping, pc, held>>
  BY <1>0 DEF Finish, chanVars, instVars
<1>3. c \in Instances /\ s \in Streams
  BY <1>0
<1>4. /\ cur'[w] = NoChannel /\ wpc'[w] = "loop"
      /\ \A v \in Workers \ {w} : cur'[v] = cur[v] /\ wpc'[v] = wpc[v]
      /\ inFlight'[c] = FALSE
      /\ \A d \in Instances \ {c} : inFlight'[d] = inFlight[d]
  BY <1>2, <1>3 DEF WakeInv, TypeOK
<1>5. \A d \in Instances \ {c} : (\E v \in Workers : cur[v] = d) => \E v \in Workers : cur'[v] = d
  BY <1>0, <1>4
<1>6. ChannelOfOwnId' /\ BlockedHolds' /\ HeldOfOwnId' /\ NewIsUnknown'
  BY <1>2 DEF WakeInv, ChannelOfOwnId, BlockedHolds, HeldOfOwnId, NewIsUnknown
<1>7. CurMatchesPc' /\ InFlightIsTrue'
  <2>1. CurMatchesPc'
    BY <1>0, <1>4 DEF WakeInv, CurMatchesPc
  <2>2. InFlightIsTrue'
    BY <1>0, <1>4, <1>5 DEF WakeInv, InFlightIsTrue
  <2> QED BY <2>1, <2>2
<1>8. CASE HasMore(c)
  <2>1. /\ enqueued' = [enqueued EXCEPT ![c] = TRUE]
        /\ ready' = [ready EXCEPT ![w] = Append(ready[w], s)]
        /\ idle' = {} /\ parked' = {}
    BY <1>0, <1>8 DEF Finish, NotifyAll
  <2>2. Queued(s)' /\ \A t \in Streams : Queued(t) => Queued(t)'
    <3>1. TypeOK
      BY DEF WakeInv
    <3> QED BY <1>3, <2>1, <3>1, QueuedStep
  <2>3. \A t \in Streams : channels[t] = c => t = s
    BY <1>0, <1>3, SchedulerAssumption DEF WakeInv, ChannelOfOwnId
  <2>4. EnqueuedIsTrue'
    <3>1. \A d \in Instances \ {c} : enqueued'[d] = enqueued[d]
      BY <2>1 DEF WakeInv, TypeOK
    <3> SUFFICES ASSUME NEW t \in Streams, channels[t] # NoChannel, enqueued'[channels[t]]
                 PROVE  Queued(t)'
      BY <1>2 DEF EnqueuedIsTrue
    <3>2. CASE channels[t] = c
      BY <2>2, <2>3, <3>2
    <3>3. CASE channels[t] # c
      <4>1. Queued(t)
        BY <3>1, <3>3 DEF WakeInv, TypeOK, EnqueuedIsTrue
      <4> QED BY <2>2, <4>1
    <3> QED BY <3>2, <3>3
  <2>5. NoSleepingWorkerHasWork' /\ NoSleepingSubmitterHasRoom'
    BY <2>1 DEF NoSleepingWorkerHasWork, NoSleepingSubmitterHasRoom
  <2>6. PendingIsScheduled'
    <3> SUFFICES ASSUME NEW t \in Streams, channels[t] # NoChannel, ~stopping,
                        pending[channels[t]] # <<>>
                 PROVE  Queued(t)' \/ \E v \in Workers : cur'[v] = channels[t]
      BY <1>2 DEF PendingIsScheduled
    <3>1. CASE channels[t] = c
      BY <2>2, <2>3, <3>1
    <3>2. CASE channels[t] # c
      BY <1>5, <2>2, <3>2 DEF WakeInv, TypeOK, NoLostWakeup, PendingIsScheduled
    <3> QED BY <3>1, <3>2
  <2> QED BY <1>1, <1>6, <1>7, <2>4, <2>5, <2>6 DEF WakeInv, NoLostWakeup
<1>9. CASE ~HasMore(c)
  <2>1. UNCHANGED <<enqueued, ready, idle, parked>>
    BY <1>0, <1>9 DEF Finish
  <2>2. EnqueuedIsTrue' /\ NoSleepingSubmitterHasRoom'
    BY <1>2, <2>1 DEF WakeInv, EnqueuedIsTrue, Queued, NoLostWakeup, NoSleepingSubmitterHasRoom
  <2>3. NoSleepingWorkerHasWork'
    <3>1. \A v \in idle : v \in Workers /\ v # w
      BY <1>2 DEF WakeInv, TypeOK, NoLostWakeup, NoSleepingWorkerHasWork
    <3> QED BY <1>2, <1>4, <2>1, <3>1 DEF WakeInv, NoLostWakeup, NoSleepingWorkerHasWork
  <2>4. PendingIsScheduled'
    <3>1. \A t \in Streams : Queued(t)' = Queued(t)
      BY <2>1 DEF Queued
    <3> SUFFICES ASSUME NEW t \in Streams, channels[t] # NoChannel, ~stopping,
                        pending[channels[t]] # <<>>
                 PROVE  Queued(t) \/ \E v \in Workers : cur'[v] = channels[t]
      BY <1>2, <3>1 DEF PendingIsScheduled
    <3>2. CASE channels[t] = c
      <4>1. t = s /\ enqueued[c]
        BY <1>0, <1>3, <1>9, <3>2, SchedulerAssumption DEF WakeInv, ChannelOfOwnId, HasMore
      <4> QED BY <3>2, <4>1 DEF WakeInv, EnqueuedIsTrue
    <3>3. CASE channels[t] # c
      BY <1>5, <3>3 DEF WakeInv, TypeOK, NoLostWakeup, PendingIsScheduled
    <3> QED BY <3>2, <3>3
  <2> QED BY <1>1, <1>6, <1>7, <2>2, <2>3, <2>4 DEF WakeInv, NoLostWakeup
<1> QED BY <1>8, <1>9

LEMMA WakeStep == WakeInv /\ [Next]_vars => WakeInv'
<1> SUFFICES ASSUME WakeInv, [Next]_vars PROVE WakeInv'
  OBVIOUS
<1>1. ASSUME NEW i \in Instances, Capture(i) PROVE WakeInv'
  BY <1>1, CaptureWake
<1>2. ASSUME NEW w \in Workers, Work(w) PROVE WakeInv'
  <2>1. TypeOK'
    BY <1>2, WorkType DEF WakeInv
  <2>2. CASE Sleep(w)
    BY <2>2, SleepWake
  <2>3. CASE Exit(w)
    BY <2>1, <2>3, MoveWake DEF Exit, chanVars, instVars
  <2>4. CASE Take(w)
    BY <2>4, TakeWake
  <2>5. CASE Raise(w)
    <3>1. w \notin idle
      BY <2>5 DEF Raise, WakeInv, NoLostWakeup, NoSleepingWorkerHasWork
    <3> QED BY <2>1, <2>5, <3>1, MoveWake DEF Raise, chanVars
  <2>6. CASE Finish(w)
    BY <2>6, FinishWake
  <2> QED BY <1>2, <2>2, <2>3, <2>4, <2>5, <2>6 DEF Work
<1>3. CASE Stop
  <2>1. TypeOK'
    BY <1>3, StopType DEF WakeInv
  <2> QED BY <1>3, <2>1, PoolFrame DEF Stop, NotifyAll, chanVars, instVars
<1>4. CASE UNCHANGED vars
  <2>1. TypeOK'
    BY <1>4 DEF WakeInv, TypeOK, vars, chanVars, objVars, poolVars, instVars
  <2> QED BY <1>4, <2>1, PoolFrame DEF vars, chanVars, poolVars, instVars
<1> QED BY <1>1, <1>2, <1>3, <1>4 DEF Next

(* Every reachable state of the scheduler satisfies the strengthening. *)
THEOREM WakeInvariant == Spec => []WakeInv
BY WakeInit, WakeStep, PTL DEF Spec

(* The fields of the scheduler keep their types in every run. *)
THEOREM TypeCorrect == Spec => []TypeOK
<1>1. WakeInv => TypeOK
  BY DEF WakeInv
<1> QED BY <1>1, WakeInvariant, PTL

(* No worker sleeps on a queued id, no capture thread sleeps on a channel   *)
(* with room, and no queued frame is stranded: the notify_all calls of      *)
(* backend/scheduler.py are enough, whatever the number of workers and      *)
(* streams and however ids are reused.                                      *)
THEOREM NoWakeupIsLost == Spec => []NoLostWakeup
<1>1. WakeInv => NoLostWakeup
  BY DEF WakeInv
<1> QED BY <1>1, WakeInvariant, PTL
-----------------------------------------------------------------------------
(* Part 2: one worker per stream.  Two workers in one channel are excluded  *)
(* because everything that concerns a stream happens at its pinned worker,  *)
(* as long as no entry queued for an earlier instance can reach the channel.*)

QueuedAt(w, s) == \E k \in 1 .. Len(ready[w]) : ready[w][k] = s

(* w is inside c's channel or has its id in the queue. *)
Serves(w, c) == cur[w] = c \/ QueuedAt(w, StreamOf[c])

(* Only the pinned worker serves a stream whose id is used once. *)
ServedAtHome ==
  \A c \in Instances : IdUsedOnce(c) =>
    \A w \in Workers : Serves(w, c) => pc[c] # "new" /\ w = pinned[c]

HomeInv == WakeInv /\ ServedAtHome

(* A step keeps ServedAtHome when registered instances stay where they are  *)
(* and whatever it adds to a worker is added at home.                       *)
LEMMA HomeFrame ==
  ASSUME ServedAtHome,
         \A c \in Instances : pc[c] # "new" => pc'[c] # "new" /\ pinned'[c] = pinned[c],
         \A c \in Instances, w \in Workers :
           IdUsedOnce(c) /\ Serves(w, c)' =>
             Serves(w, c) \/ (pc'[c] # "new" /\ w = pinned'[c])
  PROVE  ServedAtHome'
BY DEF ServedAtHome, IdUsedOnce

(* Steps that leave the workers and the queues alone. *)
LEMMA HomeStill ==
  ASSUME ServedAtHome, UNCHANGED <<ready, cur>>,
         \A c \in Instances : pc[c] # "new" => pc'[c] # "new" /\ pinned'[c] = pinned[c]
  PROVE  ServedAtHome'
<1>1. \A c \in Instances, w \in Workers : Serves(w, c)' = Serves(w, c)
  BY DEF Serves, QueuedAt
<1> QED BY <1>1, HomeFrame

(* What an append adds is the id appended. *)
LEMMA QueuedAtAppend ==
  ASSUME TypeOK, NEW w \in Workers, NEW s \in Streams, NEW v \in Workers, NEW t \in Streams,
         ready' = [ready EXCEPT ![w] = Append(ready[w], s)], QueuedAt(v, t)'
  PROVE  QueuedAt(v, t) \/ (v = w /\ t = s)
<1>1. CASE v # w
  BY <1>1 DEF TypeOK, QueuedAt
<1>2. CASE v = w
  <2>1. ready'[w] = Append(ready[w], s) /\ ready[w] \in Seq(Streams)
    BY DEF TypeOK
  <2>2. PICK k \in 1 .. Len(Append(ready[w], s)) : Append(ready[w], s)[k] = t
    BY <1>2, <2>1 DEF QueuedAt
  <2>3. CASE k = Len(ready[w]) + 1
    BY <1>2, <2>1, <2>2, <2>3
  <2>4. CASE k # Len(ready[w]) + 1
    <3>1. k \in 1 .. Len(ready[w]) /\ ready[w][k] = t
      BY <2>1, <2>2, <2>4
    <3> QED BY <1>2, <3>1 DEF QueuedAt
  <2> QED BY <2>3, <2>4
<1> QED BY <1>1, <1>2

(* submit() queues the id at the channel's pinned worker. *)
LEMMA OfferHome ==
  ASSUME HomeInv, NEW i \in Instances, NEW c \in Instances \union {NoChannel}, NEW n \in Nat,
         StreamOf[i] \in Streams, pc[i] # "new", UNCHANGED offerFrame, Offer(i, c, n),
         IF c = NoChannel THEN channels[StreamOf[i]] = NoChannel
                          ELSE StreamOf[c] = StreamOf[i]
  PROVE  ServedAtHome'
<1>1. UNCHANGED <<cur, pinned>>
  BY DEF offerFrame, chanVars
<1>2. \A d \in Instances : pc[d] # "new" => pc'[d] # "new" /\ pinned'[d] = pinned[d]
  BY <1>1 DEF Offer, Refuse, Await, Enqueue, HomeInv, WakeInv, TypeOK
<1>3. CASE Refuse(i) \/ Await(i, c)
  BY <1>1, <1>2, <1>3, HomeStill DEF Refuse, Await, HomeInv
<1>4. CASE Enqueue(i, c, n)
  <2>1. CASE inFlight[c] \/ enqueued[c]
    BY <1>1, <1>2, <1>4, <2>1, HomeStill DEF Enqueue, HomeInv
  <2>2. CASE ~(inFlight[c] \/ enqueued[c]) /\ c \in Instances
    <3>1. ready' = [ready EXCEPT ![pinned[c]] = Append(ready[pinned[c]], StreamOf[i])]
      BY <1>4, <2>2 DEF Enqueue
    <3>2. pinned[c] \in Workers /\ TypeOK
      BY <2>2 DEF HomeInv, WakeInv, TypeOK
    <3> SUFFICES ASSUME NEW d \in Instances, NEW w \in Workers, IdUsedOnce(d), Serves(w, d)'
                 PROVE  Serves(w, d) \/ (pc'[d] # "new" /\ w = pinned'[d])
      BY <1>2, HomeFrame DEF HomeInv
    <3>3. CASE cur[w] = d
      BY <3>3 DEF Serves
    <3>4. CASE QueuedAt(w, StreamOf[d])'
      <4>1. StreamOf[d] \in Streams
        BY SchedulerAssumption
      <4>2. QueuedAt(w, StreamOf[d]) \/ (w = pinned[c] /\ StreamOf[d] = StreamOf[i])
        BY <3>1, <3>2, <3>4, <4>1, QueuedAtAppend
      <4>3. StreamOf[d] = StreamOf[i] => d = i /\ d = c
        BY <2>2, SchedulerAssumption DEF IdUsedOnce
      <4> QED BY <1>1, <1>2, <4>2, <4>3 DEF Serves
    <3> QED BY <1>1, <3>3, <3>4 DEF Serves
  <2>3. c # NoChannel
    BY <1>4, SchedulerAssumption DEF Enqueue, Gone, HomeInv, WakeInv, TypeOK
  <2> QED BY <2>1, <2>2, <2>3
<1> QED BY <1>3, <1>4 DEF Offer

LEMMA CaptureHome ==
  ASSUME HomeInv, NEW i \in Instances, Capture(i) PROVE ServedAtHome'
<1>1. StreamOf[i] \in Streams
  BY SchedulerAssumption
<1>2. TypeOK /\ ServedAtHome
  BY DEF HomeInv, WakeInv
<1>3. CASE Register(i)
  <2>1. UNCHANGED <<ready, cur>> /\ pc[i] = "new" /\ pc' = [pc EXCEPT ![i] = "capturing"]
    BY <1>3 DEF Register, Pin, poolVars
  <2>2. \A c \in Instances \ {i} : pinned'[c] = pinned[c]
    BY <1>2, <1>3 DEF Register, Pin, chanVars, TypeOK
  <2> QED BY <1>2, <2>1, <2>2, HomeStill DEF TypeOK
<1>4. CASE Submit(i)
  <2>1. /\ pc[i] = "capturing" /\ UNCHANGED offerFrame
        /\ Offer(i, channels[StreamOf[i]], sent[i] + 1)
    BY <1>4 DEF Submit
  <2>2. channels[StreamOf[i]] \in Instances \union {NoChannel} /\ sent[i] + 1 \in Nat
    BY <1>1, <1>2 DEF TypeOK
  <2>3. channels[StreamOf[i]] # NoChannel => StreamOf[channels[StreamOf[i]]] = StreamOf[i]
    BY <1>1 DEF HomeInv, WakeInv, ChannelOfOwnId
  <2> QED BY <1>1, <2>1, <2>2, <2>3, OfferHome
<1>5. CASE Resume(i)
  <2>1. /\ pc[i] = "blocked" /\ UNCHANGED offerFrame /\ Offer(i, held[i], sent[i])
    BY <1>5 DEF Resume
  <2>2. held[i] \in Instances /\ sent[i] \in Nat
    BY <1>2, <2>1 DEF HomeInv, WakeInv, TypeOK, BlockedHolds
  <2>3. held[i] # NoChannel /\ StreamOf[held[i]] = StreamOf[i]
    BY <2>2, SchedulerAssumption DEF HomeInv, WakeInv, HeldOfOwnId
  <2> QED BY <1>1, <2>1, <2>2, <2>3, OfferHome
<1>6. ASSUME StopStream(i) \/ EndCapture(i) \/ Unregister(i) \/ Drained(i)
      PROVE  ServedAtHome'
  <2>1. UNCHANGED <<ready, cur, pinned>>
    BY <1>6 DEF StopStream, EndCapture, Unregister, Drained, DropChannel, poolVars, chanVars
  <2>2. pc' = pc \/ \E p \in {"unregister", "draining", "done"} : pc' = [pc EXCEPT ![i] = p]
    BY <1>6 DEF StopStream, EndCapture, Unregister, Drained, DropChannel
  <2> QED BY <1>2, <2>1, <2>2, HomeStill DEF TypeOK
<1> QED BY <1>3, <1>4, <1>5, <1>6 DEF Capture

(* A worker takes what its own queue names, and a finished channel goes     *)
(* back into the queue of the worker that served it.                        *)
LEMMA WorkHome ==
  ASSUME HomeInv, NEW w \in Workers, Work(w) PROVE ServedAtHome'
<1>1. TypeOK /\ ServedAtHome
  BY DEF HomeInv, WakeInv
<1>2. UNCHANGED <<pc, pinned>>
  BY DEF Work, Sleep, Exit, Take, Raise, Finish, chanVars, instVars
<1>3. CASE Sleep(w) \/ Exit(w) \/ Raise(w)
  <2>1. UNCHANGED <<ready, cur>>
    BY <1>3 DEF Sleep, Exit, Raise, poolVars
  <2> QED BY <1>1, <1>2, <2>1, HomeStill
<1>4. CASE Take(w)
  <2>1. PICK h \in Streams, c \in Instances \union {NoChannel} :
          h = Head(ready[w]) /\ c = channels[h]
    BY <1>1, <1>4, QueuedTail DEF Take, TypeOK
  <2>2. ready[w] # <<>> /\ ready' = [ready EXCEPT ![w] = Tail(ready[w])]
    BY <1>4 DEF Take
  <2>3. \A v \in Workers : cur'[v] = cur[v] \/ (v = w /\ cur'[v] = c /\ c # NoChannel)
    BY <1>1, <1>4, <2>1 DEF Take, TypeOK
  <2>4. QueuedAt(w, h)
    <3>1. ready[w] \in Seq(Streams)
      BY <1>1 DEF TypeOK
    <3>2. 1 \in 1 .. Len(ready[w]) /\ ready[w][1] = h
      BY <2>1, <2>2, <3>1
    <3> QED BY <3>2 DEF QueuedAt
  <2>5. \A v \in Workers, s \in Streams : QueuedAt(v, s)' => QueuedAt(v, s)
    <3>1. ready[w] \in Seq(Streams)
      BY <1>1 DEF TypeOK
    <3>2. \A k \in 1 .. Len(Tail(ready[w])) :
            k + 1 \in 1 .. Len(ready[w]) /\ Tail(ready[w])[k] = ready[w][k + 1]
      BY <2>2, <3>1
    <3>3. ready'[w] = Tail(ready[w]) /\ \A v \in Workers \ {w} : ready'[v] = ready[v]
      BY <1>1, <2>2 DEF TypeOK
    <3> SUFFICES ASSUME NEW v \in Workers, NEW s \in Streams,
                        NEW k \in 1 .. Len(ready'[v]), ready'[v][k] = s
                 PROVE  \E j \in 1 .. Len(ready[v]) : ready[v][j] = s
      BY DEF QueuedAt
    <3>4. CASE v = w
      <4>1. k + 1 \in 1 .. Len(ready[w]) /\ ready[w][k + 1] = s
        BY <3>2, <3>3, <3>4
      <4> QED BY <3>4, <4>1
    <3>5. CASE v # w
      BY <3>3, <3>5
    <3> QED BY <3>4, <3>5
  <2> SUFFICES ASSUME NEW d \in Instances, NEW v \in Workers, IdUsedOnce(d), Serves(v, d)'
               PROVE  Serves(v, d)
    BY <1>1, <1>2, HomeFrame
  <2>6. StreamOf[d] \in Streams
    BY SchedulerAssumption
  <2>7. CASE QueuedAt(v, StreamOf[d])'
    BY <2>5, <2>6, <2>7 DEF Serves
  <2>8. CASE cur'[v] = d
    <3>1. CASE cur'[v] = cur[v]
      BY <2>8, <3>1 DEF Serves
    <3>2. CASE v = w /\ d = c /\ c # NoChannel
      <4>1. StreamOf[d] = h
        BY <2>1, <3>2 DEF HomeInv, WakeInv, ChannelOfOwnId
      <4> QED BY <2>4, <3>2, <4>1 DEF Serves
    <3> QED BY <2>3, <2>8, <3>1, <3>2
  <2> QED BY <2>7, <2>8 DEF Serves
<1>5. CASE Finish(w)
  <2>1. PICK c \in Instances, s \in Streams : c = cur[w] /\ s = StreamOf[c]
    BY <1>5, SchedulerAssumption DEF Finish, HomeInv, WakeInv, TypeOK, CurMatchesPc
  <2>2. cur' = [cur EXCEPT ![w] = NoChannel]
        /\ (ready' = ready \/ ready' = [ready EXCEPT ![w] = Append(ready[w], s)])
    BY <1>5, <2>1 DEF Finish
  <2> SUFFICES ASSUME NEW d \in Instances, NEW v \in Workers, IdUsedOnce(d), Serves(v, d)'
               PROVE  Serves(v, d)
    BY <1>1, <1>2, HomeFrame
  <2>3. StreamOf[d] \in Streams /\ d # NoChannel
    BY SchedulerAssumption
  <2>4. CASE cur'[v] = d
    BY <1>1, <2>2, <2>3, <2>4 DEF Serves, TypeOK
  <2>5. CASE QueuedAt(v, StreamOf[d])'
    <3>1. QueuedAt(v, StreamOf[d]) \/ (v = w /\ StreamOf[d] = s)
      <4>1. CASE ready' = ready
        BY <2>5, <4>1 DEF QueuedAt
      <4>2. CASE ready' = [ready EXCEPT ![w] = Append(ready[w], s)]
        BY <1>1, <2>3, <2>5, <4>2, QueuedAtAppend
      <4> QED BY <2>2, <4>1, <4>2
    <3>2. StreamOf[d] = s => c = d
      BY <2>1 DEF IdUsedOnce
    <3> QED BY <2>1, <3>1, <3>2 DEF Serves
  <2> QED BY <2>4, <2>5 DEF Serves
<1> QED BY <1>3, <1>4, <1>5 DEF Work

LEMMA HomeStep == HomeInv /\ [Next]_vars => HomeInv'
<1> SUFFICES ASSUME HomeInv, [Next]_vars PROVE ServedAtHome'
  BY WakeStep DEF HomeInv
<1>1. CASE Stop \/ UNCHANGED vars
  <2>1. UNCHANGED <<ready, cur, pinned, pc>>
    BY <1>1 DEF Stop, vars, chanVars, poolVars, instVars
  <2> QED BY <2>1, HomeStill DEF HomeInv
<1> QED BY <1>1, CaptureHome, WorkHome DEF Next

LEMMA HomeInit == Init => HomeInv
<1> SUFFICES ASSUME Init PROVE ServedAtHome
  BY WakeInit DEF HomeInv
<1>1. \A w \in Workers : ready[w] = <<>> /\ cur[w] = NoChannel
  BY DEF Init
<1>2. \A w \in Workers, c \in Instances : ~Serves(w, c)
  BY <1>1, SchedulerAssumption DEF Serves, QueuedAt
<1> QED BY <1>2 DEF ServedAtHome

(* A stream whose id is started only once is never processed by two workers *)
(* at a time, so its tracker and event engine need no lock: the header of   *)
(* backend/scheduler.py, lines 12-14, as far as it is true.                 *)
THEOREM OneWorkerWhenIdUsedOnce == Spec => []OneWorkerUnlessReused
<1>1. Spec => []HomeInv
  BY HomeInit, HomeStep, PTL DEF Spec
<1>2. HomeInv => OneWorkerUnlessReused
  BY DEF HomeInv, WakeInv, TypeOK, ServedAtHome, Serves, OneWorkerUnlessReused
<1> QED BY <1>1, <1>2, PTL
-----------------------------------------------------------------------------
(* Part 3: a stream's own thread tears down only what no worker is inside.  *)
(* unregister() looks at in_flight of the channel the id maps to, once; that *)
(* is enough because the mapping stays put while the thread lives and a     *)
(* worker inside the channel keeps the flag up.                             *)

(* No thread of an earlier or later instance meddles with c's id: the id is *)
(* used once, or the registry lets its threads follow one another.          *)
Sole(c) == IdUsedOnce(c) \/ (~WaitsExpire /\ Unlisted = {})

(* The id maps to c's channel exactly while c's thread is between           *)
(* register() and the end of unregister().                                  *)
OwnChannel(c) == pc[c] \notin {"new", "done"} <=> channels[StreamOf[c]] = c

(* A flag is_running is set only while the thread reads frames. *)
RunningIsLive == \A i \in Instances : running[i] => pc[i] \in {"capturing", "blocked"}

(* A thread that waits in unregister() holds a channel object. *)
DrainingHolds == \A i \in Instances : pc[i] = "draining" => held[i] \in Instances

(* A worker inside c's channel has in_flight set. *)
FlightShows(c) == \A w \in Workers : cur[w] = c => inFlight[c]

(* The pool stops after every stream the service knows, and no worker is    *)
(* inside the channel of one whose thread has ended.                        *)
EndedIsLeft(c) ==
  /\ stopping => pc[c] \in {"new", "done"}
  /\ \A w \in Workers : cur[w] = c => pc[c] # "done"

ChannelInv ==
  /\ HomeInv /\ RunningIsLive /\ DrainingHolds
  /\ \A c \in Instances : Sole(c) => OwnChannel(c)

DrainInv ==
  /\ ChannelInv
  /\ \A c \in Instances : IdUsedOnce(c) => FlightShows(c)
  /\ ~WaitsExpire =>
       \A c \in Instances \ Unlisted : IdUsedOnce(c) => EndedIsLeft(c)

(* What a step does to a capture thread other than to start or to end it. *)
LEMMA CapturePlain ==
  ASSUME TypeOK, NEW i \in Instances,
         \/ Submit(i) \/ Resume(i) \/ StopStream(i) \/ EndCapture(i)
         \/ Unregister(i) /\ Busy(channels[StreamOf[i]])
  PROVE  /\ UNCHANGED <<channels, inFlight, cur, stopping>>
         /\ \A c \in Instances :
              \/ pc'[c] = pc[c]
              \/ pc[c] \notin {"new", "done"} /\ pc'[c] \notin {"new", "done"}
<1>1. CASE Submit(i) \/ Resume(i)
  <2>1. PICK c, n : Offer(i, c, n)
    BY <1>1 DEF Submit, Resume
  <2>2. UNCHANGED offerFrame /\ pc[i] \in {"capturing", "blocked"}
    BY <1>1 DEF Submit, Resume
  <2>3. \E q \in {"capturing", "blocked"} : pc' = [pc EXCEPT ![i] = q]
    BY <2>1 DEF Offer, Refuse, Await, Enqueue
  <2> QED BY <2>2, <2>3 DEF offerFrame, chanVars, TypeOK
<1>2. CASE StopStream(i) \/ EndCapture(i)
  BY <1>2 DEF StopStream, EndCapture, chanVars, objVars, poolVars, TypeOK
<1>3. CASE Unregister(i) /\ Busy(channels[StreamOf[i]])
  BY <1>3 DEF Unregister, chanVars, objVars, poolVars, TypeOK
<1> QED BY <1>1, <1>2, <1>3

(* An unregistering thread drops the channel unless a frame is in flight. *)
LEMMA CaptureDrops ==
  ASSUME NEW i \in Instances, Capture(i)
  PROVE  \/ Register(i)
         \/ Submit(i) \/ Resume(i) \/ StopStream(i) \/ EndCapture(i)
         \/ Unregister(i) /\ Busy(channels[StreamOf[i]])
         \/ /\ DropChannel(i)
            /\ \/ pc[i] = "unregister" /\ ~Busy(channels[StreamOf[i]])
               \/ pc[i] = "draining" /\ (~Busy(held[i]) \/ WaitsExpire)
BY DEF Capture, Unregister, Drained

LEMMA OwnChannelStep ==
  ASSUME WakeInv, \A c \in Instances : Sole(c) => OwnChannel(c), [Next]_vars,
         NEW c \in Instances, Sole(c)
  PROVE  OwnChannel(c)'
<1>1. OwnChannel(c) /\ TypeOK /\ c # NoChannel /\ StreamOf[c] \in Streams
  BY SchedulerAssumption DEF WakeInv
<1>2. \A j \in Instances : StreamOf[j] = StreamOf[c] /\ j # c => Sole(j)
  BY DEF Sole, IdUsedOnce
<1>3. ASSUME NEW i \in Instances, Capture(i) PROVE OwnChannel(c)'
  <2>1. CASE Register(i)
    <3>1. pc[i] = "new" /\ pc' = [pc EXCEPT ![i] = "capturing"] /\ IdFree(i)
      BY <2>1 DEF Register
    <3>2. CASE i = c
      <4>1. channels[StreamOf[c]] # c
        BY <1>1, <3>1, <3>2 DEF WakeInv, NewIsUnknown
      <4>2. channels[StreamOf[c]] = NoChannel
        <5> SUFFICES ASSUME NEW d \in Instances, channels[StreamOf[c]] = d PROVE FALSE
          BY <1>1 DEF TypeOK
        <5>1. StreamOf[d] = StreamOf[c] /\ d # c
          BY <1>1, <4>1, SchedulerAssumption DEF WakeInv, ChannelOfOwnId
        <5>2. ~WaitsExpire /\ Unlisted = {} /\ pc[d] \notin {"new", "done"}
          BY <1>2, <5>1 DEF Sole, IdUsedOnce, OwnChannel
        <5> QED BY <3>1, <3>2, <5>1, <5>2 DEF IdFree
      <4>3. channels' = [channels EXCEPT ![StreamOf[c]] = c]
        BY <2>1, <3>2, <4>2 DEF Register
      <4> QED BY <1>1, <3>1, <3>2, <4>3 DEF TypeOK, OwnChannel
    <3>3. CASE i # c
      <4>1. \/ channels'[StreamOf[c]] = channels[StreamOf[c]]
            \/ channels[StreamOf[c]] = NoChannel /\ channels'[StreamOf[c]] = i
        BY <1>1, <2>1 DEF Register, chanVars, TypeOK
      <4> QED BY <1>1, <3>1, <3>3, <4>1 DEF TypeOK, OwnChannel
    <3> QED BY <3>2, <3>3
  <2>2. CASE \/ Submit(i) \/ Resume(i) \/ StopStream(i) \/ EndCapture(i)
             \/ Unregister(i) /\ Busy(channels[StreamOf[i]])
    BY <1>1, <2>2, CapturePlain DEF OwnChannel
  <2>3. CASE DropChannel(i) /\ pc[i] \in {"unregister", "draining"}
    <3>1. /\ channels' = [channels EXCEPT ![StreamOf[i]] = NoChannel]
          /\ pc' = [pc EXCEPT ![i] = "done"]
      BY <2>3 DEF DropChannel
    <3>2. CASE i # c /\ StreamOf[i] = StreamOf[c]
      <4>1. channels[StreamOf[c]] = i
        BY <1>2, <2>3, <3>2 DEF OwnChannel
      <4> QED BY <1>1, <3>1, <3>2, <4>1 DEF TypeOK, OwnChannel
    <3>3. CASE i = c \/ StreamOf[i] # StreamOf[c]
      BY <1>1, <3>1, <3>3 DEF TypeOK, OwnChannel
    <3> QED BY <3>2, <3>3
  <2> QED BY <1>3, <2>1, <2>2, <2>3, CaptureDrops
<1>4. ASSUME NEW w \in Workers, Work(w) PROVE OwnChannel(c)'
  BY <1>1, <1>4 DEF Work, Sleep, Exit, Take, Raise, Finish, chanVars, instVars, OwnChannel
<1>5. CASE Stop \/ UNCHANGED vars
  BY <1>1, <1>5 DEF Stop, vars, chanVars, instVars, OwnChannel
<1> QED BY <1>3, <1>4, <1>5 DEF Next

LEMMA RunningStep ==
  ASSUME TypeOK, RunningIsLive, DrainingHolds, [Next]_vars
  PROVE  RunningIsLive' /\ DrainingHolds'
<1>0. \A i \in Instances : i # NoChannel /\ StreamOf[i] \in Streams
  BY SchedulerAssumption
<1>1. ASSUME NEW i \in Instances, Capture(i) PROVE RunningIsLive' /\ DrainingHolds'
  <2>1. CASE Register(i) \/ StopStream(i) \/ EndCapture(i)
    <3>1. /\ held' = held
          /\ \/ pc' = [pc EXCEPT ![i] = "capturing"] /\ running' = [running EXCEPT ![i] = TRUE]
             \/ pc' = pc /\ running' = [running EXCEPT ![i] = FALSE]
             \/ /\ pc' = [pc EXCEPT ![i] = "unregister"]
                /\ running' = [running EXCEPT ![i] = FALSE]
      BY <2>1 DEF Register, StopStream, EndCapture
    <3>2. \A j \in Instances : pc'[j] = "draining" => pc[j] = "draining"
      BY <3>1 DEF TypeOK
    <3>3. \A j \in Instances :
            running'[j] => \/ pc'[j] = "capturing"
                           \/ running[j] /\ pc'[j] = pc[j]
      BY <3>1 DEF TypeOK
    <3> QED BY <3>1, <3>2, <3>3 DEF RunningIsLive, DrainingHolds
  <2>2. CASE Submit(i) \/ Resume(i)
    <3>1. PICK c, n : Offer(i, c, n)
      BY <2>2 DEF Submit, Resume
    <3>2. \E q \in {"capturing", "blocked"} : pc' = [pc EXCEPT ![i] = q]
      BY <3>1 DEF Offer, Refuse, Await, Enqueue
    <3>3. running' = running /\ \A j \in Instances \ {i} : held'[j] = held[j]
      BY <2>2, <3>1
         DEF Submit, Resume, offerFrame, Offer, Refuse, Await, Enqueue, TypeOK
    <3> QED BY <3>2, <3>3 DEF TypeOK, RunningIsLive, DrainingHolds
  <2>3. CASE Unregister(i) \/ Drained(i)
    <3>1. running' = running /\ \A j \in Instances \ {i} : held'[j] = held[j]
      BY <2>3 DEF Unregister, Drained, DropChannel, TypeOK
    <3>2. CASE pc' = [pc EXCEPT ![i] = "done"]
      BY <2>3, <3>1, <3>2 DEF Unregister, Drained, TypeOK, RunningIsLive, DrainingHolds
    <3>3. CASE pc' # [pc EXCEPT ![i] = "done"]
      <4>1. /\ pc[i] = "unregister" /\ pc' = [pc EXCEPT ![i] = "draining"]
            /\ channels[StreamOf[i]] # NoChannel
            /\ held' = [held EXCEPT ![i] = channels[StreamOf[i]]]
        BY <2>3, <3>3 DEF Unregister, Drained, DropChannel, Busy
      <4>2. channels[StreamOf[i]] \in Instances
        BY <1>0, <4>1 DEF TypeOK
      <4> QED BY <3>1, <4>1, <4>2 DEF TypeOK, RunningIsLive, DrainingHolds
    <3> QED BY <3>2, <3>3
  <2> QED BY <1>1, <2>1, <2>2, <2>3 DEF Capture
<1>2. ASSUME NEW w \in Workers, Work(w) PROVE RunningIsLive' /\ DrainingHolds'
  <2>1. CASE Raise(w)
    BY <2>1 DEF Raise, TypeOK, RunningIsLive, DrainingHolds
  <2>2. CASE ~Raise(w)
    BY <1>2, <2>2 DEF Work, Sleep, Exit, Take, Finish, instVars, RunningIsLive, DrainingHolds
  <2> QED BY <2>1, <2>2
<1>3. CASE Stop \/ UNCHANGED vars
  BY <1>3 DEF Stop, vars, instVars, RunningIsLive, DrainingHolds
<1> QED BY <1>1, <1>2, <1>3 DEF Next

LEMMA ChannelStep == ChannelInv /\ [Next]_vars => ChannelInv'
<1> SUFFICES ASSUME ChannelInv, [Next]_vars PROVE ChannelInv'
  OBVIOUS
<1>1. HomeInv' /\ WakeInv /\ TypeOK
  BY HomeStep DEF ChannelInv, HomeInv, WakeInv
<1>2. RunningIsLive' /\ DrainingHolds'
  BY <1>1, RunningStep DEF ChannelInv
<1>3. \A c \in Instances : Sole(c) => OwnChannel(c)'
  BY <1>1, OwnChannelStep DEF ChannelInv
<1>4. \A c \in Instances : Sole(c)' <=> Sole(c)
  BY DEF Sole, IdUsedOnce
<1> QED BY <1>1, <1>2, <1>3, <1>4 DEF ChannelInv

LEMMA ChannelInit == Init => ChannelInv
<1> SUFFICES ASSUME Init PROVE ChannelInv
  OBVIOUS
<1>1. HomeInv
  BY HomeInit
<1>2. RunningIsLive /\ DrainingHolds
  BY DEF Init, RunningIsLive, DrainingHolds
<1>3. \A c \in Instances : OwnChannel(c)
  BY SchedulerAssumption DEF Init, OwnChannel
<1> QED BY <1>1, <1>2, <1>3 DEF ChannelInv

(* A running stream has the channel it registered, however often its id is  *)
(* started: the registry's rule that an id is started only when its last    *)
(* thread is gone is enough (backend/scheduler.py, line 117).               *)
THEOREM RunningStreamOwnsItsChannel == Spec => []RunningHasOwnChannel
<1>1. Spec => []ChannelInv
  BY ChannelInit, ChannelStep, PTL DEF Spec
<1>2. ChannelInv => RunningHasOwnChannel
  BY DEF ChannelInv, RunningIsLive, OwnChannel, Sole, RunningHasOwnChannel
<1> QED BY <1>1, <1>2, PTL

(* A worker that takes an id from its queue finds nothing, or goes into the *)
(* channel the id maps to with the newest frame that waits there.           *)
LEMMA TakeEffect ==
  ASSUME WakeInv, NEW w \in Workers, Take(w)
  PROVE  \/ UNCHANGED <<pending, inFlight, cur, item>>
         \/ \E d \in Instances :
              /\ channels[StreamOf[d]] = d /\ pending[d] # <<>>
              /\ pending'  = [pending EXCEPT ![d] = <<>>]
              /\ inFlight' = [inFlight EXCEPT ![d] = TRUE]
              /\ cur'  = [cur EXCEPT ![w] = d]
              /\ item' = [item EXCEPT ![w] = pending[d][Len(pending[d])][2]]
<1>1. PICK h \in Streams, d \in Instances \union {NoChannel} :
        h = Head(ready[w]) /\ d = channels[h]
  BY QueuedTail DEF WakeInv, TypeOK, Take
<1>2. CASE d = NoChannel \/ pending[d] = <<>>
  BY <1>1, <1>2 DEF Take, objVars
<1>3. CASE d # NoChannel /\ pending[d] # <<>>
  <2>1. d \in Instances /\ channels[StreamOf[d]] = d
    BY <1>1, <1>3 DEF WakeInv, ChannelOfOwnId
  <2>2. /\ pending'  = [pending EXCEPT ![d] = <<>>]
        /\ inFlight' = [inFlight EXCEPT ![d] = TRUE]
        /\ cur'  = [cur EXCEPT ![w] = d]
        /\ item' = [item EXCEPT ![w] = pending[d][Len(pending[d])][2]]
    BY <1>1, <1>3 DEF Take
  <2> QED BY <1>3, <2>1, <2>2
<1> QED BY <1>2, <1>3

LEMMA FlightStep ==
  ASSUME HomeInv, [Next]_vars, NEW c \in Instances, IdUsedOnce(c), FlightShows(c)
  PROVE  FlightShows(c)'
<1>1. TypeOK /\ c # NoChannel
  BY SchedulerAssumption DEF HomeInv, WakeInv
<1>2. \A w \in Workers : cur[w] = c => pc[c] # "new" /\ w = pinned[c]
  BY DEF HomeInv, ServedAtHome, Serves
<1>3. ASSUME NEW i \in Instances, Capture(i) PROVE FlightShows(c)'
  <2>1. CASE Register(i)
    BY <1>1, <1>2, <2>1 DEF Register, poolVars, objVars, TypeOK, FlightShows
  <2>2. CASE DropChannel(i)
    BY <2>2 DEF DropChannel, poolVars, objVars, FlightShows
  <2> QED BY <1>1, <1>3, <2>1, <2>2, CapturePlain, CaptureDrops DEF FlightShows
<1>4. ASSUME NEW w \in Workers, Work(w) PROVE FlightShows(c)'
  <2>1. CASE Sleep(w) \/ Exit(w) \/ Raise(w)
    BY <2>1 DEF Sleep, Exit, Raise, poolVars, objVars, FlightShows
  <2>2. CASE Take(w)
    <3>1. CASE UNCHANGED <<inFlight, cur>>
      BY <3>1 DEF FlightShows
    <3>2. CASE ~UNCHANGED <<inFlight, cur>>
      <4>1. PICK d \in Instances : /\ inFlight' = [inFlight EXCEPT ![d] = TRUE]
                                   /\ cur'  = [cur EXCEPT ![w] = d]
        BY <2>2, <3>2, TakeEffect DEF HomeInv
      <4> QED BY <1>1, <4>1 DEF TypeOK, FlightShows
    <3> QED BY <3>1, <3>2
  <2>3. CASE Finish(w)
    <3>1. /\ cur' = [cur EXCEPT ![w] = NoChannel]
          /\ inFlight' = [inFlight EXCEPT ![cur[w]] = FALSE]
      BY <2>3 DEF Finish
    <3> QED BY <1>1, <1>2, <3>1 DEF TypeOK, FlightShows
  <2> QED BY <1>4, <2>1, <2>2, <2>3 DEF Work
<1>5. CASE Stop \/ UNCHANGED vars
  BY <1>5 DEF Stop, vars, poolVars, objVars, FlightShows
<1> QED BY <1>3, <1>4, <1>5 DEF Next

LEMMA EndedStep ==
  ASSUME DrainInv, [Next]_vars, ~WaitsExpire, NEW c \in Instances \ Unlisted, IdUsedOnce(c)
  PROVE  EndedIsLeft(c)'
<1>1. TypeOK /\ c # NoChannel /\ OwnChannel(c) /\ FlightShows(c) /\ EndedIsLeft(c)
  BY SchedulerAssumption DEF DrainInv, ChannelInv, HomeInv, WakeInv, Sole
<1>2. ASSUME NEW i \in Instances, Capture(i) PROVE EndedIsLeft(c)'
  <2>1. CASE Register(i)
    BY <1>1, <2>1 DEF Register, poolVars, TypeOK, EndedIsLeft
  <2>2. CASE /\ DropChannel(i)
             /\ \/ pc[i] = "unregister" /\ ~Busy(channels[StreamOf[i]])
                \/ pc[i] = "draining" /\ (~Busy(held[i]) \/ WaitsExpire)
    <3>1. pc' = [pc EXCEPT ![i] = "done"] /\ UNCHANGED <<stopping, cur>>
      BY <2>2 DEF DropChannel, poolVars
    <3>2. CASE i # c
      BY <1>1, <3>1, <3>2 DEF TypeOK, EndedIsLeft
    <3>3. CASE i = c
      <4>1. ~stopping /\ channels[StreamOf[c]] = c
        BY <1>1, <2>2, <3>3 DEF EndedIsLeft, OwnChannel
      <4>2. pc[c] = "draining" => held[c] = c
        <5> SUFFICES ASSUME pc[c] = "draining" PROVE held[c] = c
          OBVIOUS
        <5>1. held[c] \in Instances /\ StreamOf[held[c]] = StreamOf[c]
          BY SchedulerAssumption
             DEF DrainInv, ChannelInv, DrainingHolds, HomeInv, WakeInv, HeldOfOwnId
        <5> QED BY <5>1 DEF IdUsedOnce
      <4>3. ~inFlight[c]
        BY <1>1, <2>2, <3>3, <4>1, <4>2 DEF Busy, TypeOK
      <4> QED BY <1>1, <3>1, <3>3, <4>3 DEF FlightShows, EndedIsLeft, TypeOK
    <3> QED BY <3>2, <3>3
  <2> QED BY <1>1, <1>2, <2>1, <2>2, CapturePlain, CaptureDrops DEF EndedIsLeft
<1>3. ASSUME NEW w \in Workers, Work(w) PROVE EndedIsLeft(c)'
  <2>1. UNCHANGED <<pc, stopping>>
    BY <1>3 DEF Work, Sleep, Exit, Take, Raise, Finish, poolVars, instVars
  <2>2. \A v \in Workers : cur'[v] = c => cur[v] = c \/ channels[StreamOf[c]] = c
    <3>1. CASE Take(w)
      <4>1. CASE cur' = cur
        BY <4>1
      <4>2. CASE cur' # cur
        <5>1. PICK d \in Instances : channels[StreamOf[d]] = d /\ cur' = [cur EXCEPT ![w] = d]
          BY <3>1, <4>2, TakeEffect DEF DrainInv, ChannelInv, HomeInv
        <5> QED BY <1>1, <5>1 DEF TypeOK
      <4> QED BY <4>1, <4>2
    <3>2. CASE ~Take(w)
      BY <1>1, <1>3, <3>2 DEF Work, Sleep, Exit, Raise, Finish, poolVars, TypeOK
    <3> QED BY <3>1, <3>2
  <2> QED BY <1>1, <2>1, <2>2 DEF EndedIsLeft, OwnChannel
<1>4. CASE Stop
  BY <1>1, <1>4 DEF Stop, instVars, EndedIsLeft
<1>5. CASE UNCHANGED vars
  BY <1>1, <1>5 DEF vars, poolVars, instVars, EndedIsLeft
<1> QED BY <1>2, <1>3, <1>4, <1>5 DEF Next

LEMMA DrainStep == DrainInv /\ [Next]_vars => DrainInv'
<1> SUFFICES ASSUME DrainInv, [Next]_vars PROVE DrainInv'
  OBVIOUS
<1>1. HomeInv /\ ChannelInv'
  BY ChannelStep DEF DrainInv, ChannelInv
<1>2. \A c \in Instances : IdUsedOnce(c) => FlightShows(c)'
  BY <1>1, FlightStep DEF DrainInv
<1>3. ~WaitsExpire => \A c \in Instances \ Unlisted : IdUsedOnce(c) => EndedIsLeft(c)'
  BY EndedStep
<1>4. \A c \in Instances : IdUsedOnce(c)' <=> IdUsedOnce(c)
  BY DEF IdUsedOnce
<1> QED BY <1>1, <1>2, <1>3, <1>4 DEF DrainInv

LEMMA DrainInit == Init => DrainInv
<1> SUFFICES ASSUME Init PROVE DrainInv
  OBVIOUS
<1>1. \A c \in Instances, w \in Workers : cur[w] # c
  BY SchedulerAssumption DEF Init
<1>2. ~stopping
  BY DEF Init
<1> QED BY <1>1, <1>2, ChannelInit DEF DrainInv, FlightShows, EndedIsLeft

(* No worker is inside an instance's process_fn once its capture thread     *)
(* tears the detector down: looking at in_flight once is enough, whatever   *)
(* the order of the two threads, if inference takes less than the bounded   *)
(* wait (backend/scheduler.py, lines 170-174).                              *)
THEOREM TeardownFindsNoWorker == Spec => []CleanupAfterDrain
<1>1. Spec => []DrainInv
  BY DrainInit, DrainStep, PTL DEF Spec
<1>2. DrainInv => CleanupAfterDrain
  BY DEF DrainInv, ChannelInv, HomeInv, WakeInv, TypeOK, EndedIsLeft, CleanupAfterDrain
<1> QED BY <1>1, <1>2, PTL

-----------------------------------------------------------------------------
(* Part 4: frames in the order they were read.  Numbers only grow along the *)
(* way of a frame: done, being processed, waiting, in a blocked hand.       *)

(* The numbers of the frames that wait in c's channel. *)
Waiting(c) == {pending[c][k][2] : k \in 1 .. Len(pending[c])}

(* The frames a worker inside c, the channel and the thread hold come after *)
(* the one finished last, in that order.                                    *)
InOrder(c) ==
  /\ finished[c] <= sent[c]
  /\ \A n \in Waiting(c) : finished[c] < n /\ n <= sent[c]
  /\ \A w \in Workers : cur[w] = c =>
       /\ finished[c] < item[w] /\ item[w] <= sent[c]
       /\ \A n \in Waiting(c) : item[w] < n
  /\ pc[c] = "blocked" =>
       /\ held[c] = c /\ finished[c] < sent[c]
       /\ \A n \in Waiting(c) : n < sent[c]
       /\ \A w \in Workers : cur[w] = c => item[w] < sent[c]

OrderInv == HomeInv /\ \A c \in Instances : IdUsedOnce(c) => InOrder(c)

(* The last frame of a channel waits in it, and an appended one joins them. *)
LEMMA WaitingFacts ==
  ASSUME TypeOK, NEW c \in Instances
  PROVE  /\ \A n \in Waiting(c) : n \in Nat
         /\ pending[c] # <<>> => pending[c][Len(pending[c])][2] \in Waiting(c)
         /\ \A d \in Instances, m \in Nat :
              pending' = [pending EXCEPT ![c] = Append(pending[c], <<d, m>>)] =>
                \A n \in Waiting(c)' : n \in Waiting(c) \/ n = m
<1>1. pending[c] \in Seq(Frames) /\ Len(pending[c]) \in Nat
  BY DEF TypeOK
<1>2. \A n \in Waiting(c) : n \in Nat
  BY <1>1 DEF Waiting, Frames
<1>3. pending[c] # <<>> => Len(pending[c]) \in 1 .. Len(pending[c])
  BY <1>1
<1>4. ASSUME NEW d \in Instances, NEW m \in Nat,
             pending' = [pending EXCEPT ![c] = Append(pending[c], <<d, m>>)],
             NEW n \in Waiting(c)'
      PROVE  n \in Waiting(c) \/ n = m
  <2>1. pending'[c] = Append(pending[c], <<d, m>>)
    BY <1>4 DEF TypeOK
  <2>2. PICK k \in 1 .. Len(Append(pending[c], <<d, m>>)) :
          n = Append(pending[c], <<d, m>>)[k][2]
    BY <1>4, <2>1 DEF Waiting
  <2>3. CASE k = Len(pending[c]) + 1
    BY <1>1, <2>2, <2>3
  <2>4. CASE k # Len(pending[c]) + 1
    <3>1. k \in 1 .. Len(pending[c]) /\ Append(pending[c], <<d, m>>)[k] = pending[c][k]
      BY <1>1, <2>2, <2>4
    <3> QED BY <2>2, <3>1 DEF Waiting
  <2> QED BY <2>3, <2>4
<1> QED BY <1>2, <1>3, <1>4 DEF Waiting

(* Steps that leave c's frames and its thread's claim on one alone. *)
LEMMA OrderFrame ==
  ASSUME NEW c \in Instances, InOrder(c), pending'[c] = pending[c],
         UNCHANGED <<finished, cur, item>>, sent'[c] = sent[c],
         pc'[c] = "blocked" => pc[c] = "blocked" /\ held'[c] = held[c]
  PROVE  InOrder(c)'
<1>1. Waiting(c)' = Waiting(c)
  BY DEF Waiting
<1> QED BY <1>1 DEF InOrder

(* submit(): the frame a thread brings is newer than all before it. *)
LEMMA OfferOrder ==
  ASSUME HomeInv, NEW i \in Instances, NEW d \in Instances \union {NoChannel},
         d # NoChannel => StreamOf[d] = StreamOf[i],
         d = NoChannel => channels[StreamOf[i]] = NoChannel,
         sent' \in [Instances -> Nat],
         \A j \in Instances \ {i} : sent'[j] = sent[j],
         UNCHANGED offerFrame, Offer(i, d, sent'[i]),
         NEW c \in Instances, IdUsedOnce(c), InOrder(c),
         c = i => /\ sent[c] <= sent'[c] /\ finished[c] < sent'[c]
                  /\ \A n \in Waiting(c) : n < sent'[c]
                  /\ \A w \in Workers : cur[w] = c => item[w] < sent'[c]
  PROVE  InOrder(c)'
<1>1. /\ TypeOK /\ c # NoChannel /\ UNCHANGED <<finished, cur, item>>
      /\ sent[c] \in Nat /\ sent'[c] \in Nat /\ sent'[i] \in Nat
      /\ finished \in [Instances -> Nat] /\ item \in [Workers -> Nat]
  BY SchedulerAssumption DEF HomeInv, WakeInv, TypeOK, offerFrame
<1>2. d # NoChannel => (d = c <=> i = c)
  BY DEF IdUsedOnce
<1>3. /\ \A j \in Instances \ {i} : pc'[j] = pc[j] /\ held'[j] = held[j]
      /\ \A j \in Instances \ {d} : pending'[j] = pending[j]
  <2>1. CASE Refuse(i)
    BY <1>1, <2>1 DEF TypeOK, Refuse
  <2>2. CASE Await(i, d)
    BY <1>1, <2>2 DEF TypeOK, Await
  <2>3. CASE Enqueue(i, d, sent'[i])
    BY <1>1, <2>3 DEF TypeOK, Enqueue
  <2> QED BY <2>1, <2>2, <2>3 DEF Offer
<1>4. CASE i # c
  <2>1. d # c
    BY <1>1, <1>2, <1>4
  <2>2. /\ pending'[c] = pending[c] /\ sent'[c] = sent[c]
        /\ pc'[c] = pc[c] /\ held'[c] = held[c]
    BY <1>3, <1>4, <2>1
  <2> QED BY <1>1, <2>2, OrderFrame
<1>5. CASE i = c
  <2>1. \A n \in Waiting(c) : n \in Nat
    BY <1>1, WaitingFacts
  <2>2. CASE Refuse(i) \/ Await(i, d)
    <3>1. Waiting(c)' = Waiting(c)
      BY <2>2 DEF Refuse, Await, Waiting
    <3>2. pc'[c] = "blocked" => held'[c] = c
      <4>1. CASE Refuse(i)
        BY <1>1, <1>5, <4>1 DEF Refuse, TypeOK
      <4>2. CASE Await(i, d)
        BY <1>1, <1>2, <1>5, <4>2 DEF Await, Gone, TypeOK
      <4> QED BY <2>2, <4>1, <4>2
    <3> QED BY <1>1, <1>5, <2>1, <3>1, <3>2 DEF InOrder
  <2>3. CASE Enqueue(i, d, sent'[i])
    <3>1. d = c
      BY <1>2, <1>5, <2>3 DEF Enqueue, Gone
    <3>2. /\ pending' = [pending EXCEPT ![c] = Append(pending[c], <<i, sent'[i]>>)]
          /\ pc' = [pc EXCEPT ![i] = "capturing"]
      BY <2>3, <3>1 DEF Enqueue
    <3>3. \A n \in Waiting(c)' : n \in Waiting(c) \/ n = sent'[c]
      BY <1>1, <1>5, <3>2, WaitingFacts
    <3>4. pc'[c] # "blocked"
      BY <1>1, <1>5, <3>2 DEF TypeOK
    <3>5. \A w \in Workers : item[w] \in Nat
      BY <1>1
    <3>6. finished[c] \in Nat
      BY <1>1
    <3>7. \A n \in Waiting(c)' : finished'[c] < n /\ n <= sent'[c]
      BY <1>1, <1>5, <2>1, <3>3, <3>6 DEF InOrder
    <3>8. ASSUME NEW w \in Workers, cur'[w] = c
          PROVE  /\ finished'[c] < item'[w] /\ item'[w] <= sent'[c]
                 /\ \A n \in Waiting(c)' : item'[w] < n
      BY <1>1, <1>5, <2>1, <3>3, <3>5, <3>6, <3>8 DEF InOrder
    <3> QED BY <1>1, <1>5, <3>4, <3>6, <3>7, <3>8 DEF InOrder
  <2> QED BY <2>2, <2>3 DEF Offer
<1> QED BY <1>4, <1>5

LEMMA CaptureOrder ==
  ASSUME HomeInv, NEW i \in Instances, Capture(i),
         NEW c \in Instances, IdUsedOnce(c), InOrder(c)
  PROVE  InOrder(c)'
<1>1. TypeOK /\ c # NoChannel /\ StreamOf[i] \in Streams
  BY SchedulerAssumption DEF HomeInv, WakeInv
<1>2. CASE Register(i)
  <2>1. /\ pc' = [pc EXCEPT ![i] = "capturing"]
        /\ UNCHANGED <<finished, cur, item, held, sent>>
    BY <1>2 DEF Register, poolVars
  <2>2. pending' = pending \/ pending' = [pending EXCEPT ![i] = <<>>]
    BY <1>2 DEF Register, objVars
  <2>3. CASE pending'[c] = pending[c]
    BY <1>1, <2>1, <2>3, OrderFrame DEF TypeOK
  <2>4. CASE pending'[c] # pending[c]
    <3>1. pending'[c] = <<>> /\ c = i
      BY <1>1, <2>2, <2>4 DEF TypeOK
    <3>2. Waiting(c)' = {}
      BY <3>1 DEF Waiting
    <3>3. pc'[c] # "blocked"
      BY <1>1, <2>1, <3>1 DEF TypeOK
    <3> QED BY <2>1, <3>2, <3>3 DEF InOrder
  <2> QED BY <2>3, <2>4
<1>3. CASE Submit(i)
  <2>1. /\ sent' = [sent EXCEPT ![i] = sent[i] + 1] /\ UNCHANGED offerFrame
        /\ Offer(i, channels[StreamOf[i]], sent[i] + 1)
    BY <1>3 DEF Submit
  <2>2. sent'[i] = sent[i] + 1 /\ sent' \in [Instances -> Nat] /\ sent[i] \in Nat
    BY <1>1, <2>1 DEF TypeOK
  <2>3. PICK d \in Instances \union {NoChannel} : d = channels[StreamOf[i]]
    BY <1>1 DEF TypeOK
  <2>4. d # NoChannel => StreamOf[d] = StreamOf[i]
    BY <1>1, <2>3 DEF HomeInv, WakeInv, ChannelOfOwnId
  <2>5. ASSUME c = i
        PROVE  /\ sent[c] <= sent'[c] /\ finished[c] < sent'[c]
               /\ \A n \in Waiting(c) : n < sent'[c]
               /\ \A w \in Workers : cur[w] = c => item[w] < sent'[c]
    <3>1. \A n \in Waiting(c) : n \in Nat
      BY <1>1, WaitingFacts
    <3>2. finished[c] \in Nat /\ \A w \in Workers : item[w] \in Nat
      BY <1>1 DEF TypeOK
    <3> QED BY <2>2, <2>5, <3>1, <3>2 DEF InOrder
  <2>6. \A j \in Instances \ {i} : sent'[j] = sent[j]
    BY <1>1, <2>1 DEF TypeOK
  <2> QED BY <2>1, <2>2, <2>3, <2>4, <2>5, <2>6, OfferOrder
<1>4. CASE Resume(i)
  <2>1. /\ pc[i] = "blocked" /\ UNCHANGED <<offerFrame, sent>>
        /\ Offer(i, held[i], sent[i])
    BY <1>4 DEF Resume
  <2>2. held[i] \in Instances /\ held[i] # NoChannel /\ StreamOf[held[i]] = StreamOf[i]
    BY <2>1, SchedulerAssumption DEF HomeInv, WakeInv, BlockedHolds, HeldOfOwnId
  <2>3. ASSUME c = i
        PROVE  /\ sent[c] <= sent'[c] /\ finished[c] < sent'[c]
               /\ \A n \in Waiting(c) : n < sent'[c]
               /\ \A w \in Workers : cur[w] = c => item[w] < sent'[c]
    <3>1. sent[c] \in Nat
      BY <1>1 DEF TypeOK
    <3> QED BY <2>1, <2>3, <3>1 DEF InOrder
  <2>4. sent' \in [Instances -> Nat]
    BY <1>1, <2>1 DEF TypeOK
  <2> QED BY <2>1, <2>2, <2>3, <2>4, OfferOrder
<1>5. CASE StopStream(i) \/ EndCapture(i) \/ Unregister(i) \/ Drained(i)
  <2>1. /\ UNCHANGED <<pending, finished, cur, item, sent>>
        /\ \/ pc' = pc /\ held' = held
           \/ pc' = [pc EXCEPT ![i] = "unregister"] /\ held' = held
           \/ pc' = [pc EXCEPT ![i] = "done"] /\ held' = [held EXCEPT ![i] = NoChannel]
           \/ \E d : /\ pc' = [pc EXCEPT ![i] = "draining"]
                     /\ held' = [held EXCEPT ![i] = d]
    BY <1>5 DEF StopStream, EndCapture, Unregister, Drained, DropChannel, poolVars, objVars
  <2>2. pc'[c] = "blocked" => pc[c] = "blocked" /\ held'[c] = held[c]
    BY <1>1, <2>1 DEF TypeOK
  <2> QED BY <2>1, <2>2, OrderFrame
<1> QED BY <1>2, <1>3, <1>4, <1>5 DEF Capture

LEMMA WorkOrder ==
  ASSUME HomeInv, NEW w \in Workers, Work(w),
         NEW c \in Instances, IdUsedOnce(c), InOrder(c)
  PROVE  InOrder(c)'
<1>1. TypeOK /\ WakeInv /\ c # NoChannel /\ UNCHANGED <<pc, held, sent>>
  BY SchedulerAssumption
     DEF HomeInv, WakeInv, Work, Sleep, Exit, Take, Raise, Finish, instVars
<1>2. CASE Sleep(w) \/ Exit(w) \/ Raise(w)
  BY <1>1, <1>2, OrderFrame DEF Sleep, Exit, Raise, objVars, poolVars
<1>3. CASE Take(w)
  <2>1. finished' = finished
    BY <1>3 DEF Take
  <2>2. CASE UNCHANGED <<pending, inFlight, cur, item>>
    BY <1>1, <2>1, <2>2, OrderFrame
  <2>3. CASE ~UNCHANGED <<pending, inFlight, cur, item>>
    <3>1. PICK d \in Instances :
            /\ pending[d] # <<>>
            /\ pending' = [pending EXCEPT ![d] = <<>>]
            /\ cur'  = [cur EXCEPT ![w] = d]
            /\ item' = [item EXCEPT ![w] = pending[d][Len(pending[d])][2]]
      BY <1>1, <1>3, <2>3, TakeEffect
    <3>2. CASE d # c
      <4>1. Waiting(c)' = Waiting(c)
        BY <1>1, <3>1, <3>2 DEF TypeOK, Waiting
      <4>2. \A v \in Workers : cur'[v] = c => cur[v] = c /\ item'[v] = item[v]
        BY <1>1, <3>1, <3>2 DEF TypeOK
      <4> QED BY <1>1, <2>1, <4>1, <4>2 DEF InOrder
    <3>3. CASE d = c
      <4>1. Waiting(c)' = {}
        BY <1>1, <3>1, <3>3 DEF TypeOK, Waiting
      <4>2. item'[w] \in Waiting(c)
        BY <1>1, <3>1, <3>3, WaitingFacts DEF TypeOK
      <4>3. \A v \in Workers : cur'[v] = c => v = w \/ (cur[v] = c /\ item'[v] = item[v])
        <5>1. /\ cur \in [Workers -> Instances \union {NoChannel}]
              /\ item \in [Workers -> Nat]
          BY <1>1 DEF TypeOK
        <5>2. \A v \in Workers \ {w} : cur'[v] = cur[v] /\ item'[v] = item[v]
          BY <3>1, <5>1
        <5> QED BY <5>2
      <4>4. \A v \in Workers :
              cur'[v] = c => finished[c] < item'[v] /\ item'[v] <= sent[c]
        BY <4>2, <4>3 DEF InOrder
      <4>5. pc[c] = "blocked" =>
              /\ held[c] = c /\ finished[c] < sent[c]
              /\ \A v \in Workers : cur'[v] = c => item'[v] < sent[c]
        BY <4>2, <4>3 DEF InOrder
      <4> QED BY <1>1, <2>1, <4>1, <4>4, <4>5 DEF InOrder
    <3> QED BY <3>2, <3>3
  <2> QED BY <2>2, <2>3
<1>4. CASE Finish(w)
  <2>1. /\ UNCHANGED pending
        /\ cur' = [cur EXCEPT ![w] = NoChannel]
        /\ item' = [item EXCEPT ![w] = 0]
        /\ finished' = [finished EXCEPT ![cur[w]] = item[w]]
    BY <1>4 DEF Finish
  <2>2. Waiting(c)' = Waiting(c)
    BY <2>1 DEF Waiting
  <2>3. \A v \in Workers : cur'[v] = c => v # w /\ cur[v] = c /\ item'[v] = item[v]
    BY <1>1, <2>1 DEF TypeOK
  <2>4. CASE cur[w] # c
    <3>1. finished'[c] = finished[c]
      BY <1>1, <2>1, <2>4 DEF TypeOK
    <3> QED BY <1>1, <2>2, <2>3, <3>1 DEF InOrder
  <2>5. CASE cur[w] = c
    <3>1. finished'[c] = item[w]
      BY <1>1, <2>1, <2>5 DEF TypeOK
    <3>2. \A v \in Workers : cur[v] = c => v = w
      BY <2>5 DEF HomeInv, ServedAtHome, Serves
    <3> QED BY <1>1, <2>2, <2>3, <2>5, <3>1, <3>2 DEF InOrder
  <2> QED BY <2>4, <2>5
<1> QED BY <1>2, <1>3, <1>4 DEF Work

LEMMA OrderStep == OrderInv /\ [Next]_vars => OrderInv'
<1> SUFFICES ASSUME OrderInv, [Next]_vars PROVE OrderInv'
  OBVIOUS
<1>1. HomeInv /\ HomeInv'
  BY HomeStep DEF OrderInv
<1> SUFFICES ASSUME NEW c \in Instances, IdUsedOnce(c), InOrder(c) PROVE InOrder(c)'
  BY <1>1 DEF OrderInv, IdUsedOnce
<1>2. CASE Stop \/ UNCHANGED vars
  BY <1>2, OrderFrame DEF Stop, vars, objVars, poolVars, instVars
<1> QED BY <1>1, <1>2, CaptureOrder, WorkOrder DEF Next

LEMMA OrderInit == Init => OrderInv
<1> SUFFICES ASSUME Init, NEW c \in Instances PROVE InOrder(c)
  BY HomeInit DEF OrderInv
<1>1. \A w \in Workers : cur[w] # c
  BY SchedulerAssumption DEF Init
<1>2. Waiting(c) = {} /\ finished[c] = 0 /\ sent[c] = 0 /\ pc[c] = "new"
  BY DEF Init, Waiting
<1> QED BY <1>1, <1>2 DEF InOrder

(* Frames of a stream whose id is started once are finished in the order    *)
(* they were read, however long its thread was blocked and however often    *)
(* take_newest dropped a backlog (header of backend/scheduler.py, 12-13).   *)
THEOREM FramesAreNotOvertaken == Spec => FramesFinishInOrder
<1>1. OrderInv /\ [Next]_vars =>
        [\A i \in Instances : IdUsedOnce(i) => finished'[i] >= finished[i]]_finished
  <2> SUFFICES ASSUME OrderInv, [Next]_vars, finished' # finished,
                      NEW i \in Instances, IdUsedOnce(i)
               PROVE  finished'[i] >= finished[i]
    OBVIOUS
  <2>1. TypeOK /\ InOrder(i)
    BY DEF OrderInv, HomeInv, WakeInv
  <2>2. PICK w \in Workers : Finish(w)
    <3>1. \A j \in Instances : Capture(j) => finished' = finished
      BY DEF Capture, Register, Submit, Resume, StopStream, EndCapture, Unregister, Drained,
             DropChannel, offerFrame, poolVars
    <3>2. Stop \/ UNCHANGED vars => finished' = finished
      BY DEF Stop, vars, poolVars
    <3>3. \A w \in Workers : Sleep(w) \/ Exit(w) \/ Take(w) \/ Raise(w) => finished' = finished
      BY DEF Sleep, Exit, Take, Raise, poolVars
    <3> QED BY <3>1, <3>2, <3>3 DEF Next, Work
  <2>3. finished' = [finished EXCEPT ![cur[w]] = item[w]]
    BY <2>2 DEF Finish
  <2>4. finished[i] \in Nat /\ item[w] \in Nat
    BY <2>1 DEF TypeOK
  <2> QED BY <2>1, <2>3, <2>4 DEF InOrder, TypeOK
<1> QED BY <1>1, OrderInit, OrderStep, PTL DEF Spec, FramesFinishInOrder
=============================================================================
