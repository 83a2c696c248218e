---------------------------- MODULE BatchingProofs ----------------------------
(* Proofs about Batching for any number of streams and frames and any       *)
(* max_size.                                                                *)
EXTENDS Batching, FiniteSetTheorems, TLAPS

-----------------------------------------------------------------------------
(* The inductive invariant *)

(* A call belongs to a member of the coordinator or to a stream that was    *)
(* given up on, and is about a frame.                                       *)
PlacesOk ==
  \A i \in Streams :
    pc[i] # "idle" => /\ life[i] = "member" \/ i \in overrun
                      /\ frame[i] \in Frames

(* The request of i is queued, or in the batch. *)
Queued(i)  == \E k \in 1 .. Len(queue) : queue[k] = i
Batched(i) == \E k \in 1 .. Len(batch) : batch[k] = i

(* Requests on their way are of callers that wait, and nobody's twice; and  *)
(* who waits has an answer or a request on its way.                         *)
RequestsOk ==
  /\ \A k \in 1 .. Len(queue) : pc[queue[k]] = "waiting" /\ slot[queue[k]] = None
  /\ \A k \in 1 .. Len(batch) : pc[batch[k]] = "waiting" /\ slot[batch[k]] = None
  /\ \A k, l \in 1 .. Len(queue) : queue[k] = queue[l] => k = l
  /\ \A k, l \in 1 .. Len(batch) : batch[k] = batch[l] => k = l
  /\ \A k \in 1 .. Len(queue), l \in 1 .. Len(batch) : queue[k] # batch[l]
  /\ \A i \in Streams :
       pc[i] = "waiting" /\ slot[i] = None => Queued(i) \/ Batched(i)

(* The batch thread has a batch from the first request it takes to the last *)
(* answer, and ends with nothing queued after a stop.                       *)
LoopOk ==
  /\ bpc \in {"looking", "asleep", "ended"} <=> batch = << >>
  /\ bpc = "lingering" => Len(batch) < MaxSize
  /\ bpc = "scattering" =>
       /\ Len(results) = Len(batch)
       /\ \A k \in 1 .. Len(batch) : results[k] \in {OwnResult(batch[k]), Error}
  /\ bpc = "ended" => stopping /\ queue = << >>

(* An answer is to the call that waits for it. *)
SlotsOk ==
  \A i \in Streams :
    slot[i] # None => pc[i] = "waiting" /\ slot[i] \in {OwnResult(i), Error}

Members == {i \in Streams : life[i] = "member"}

(* The count is never too low, so a stream that finds it at one is alone. *)
CountOk == Cardinality(Members) <= count

(* Together they are inductive. *)
Inv == PlacesOk /\ RequestsOk /\ LoopOk /\ SlotsOk /\ CountOk /\ LonePathIsLone

-----------------------------------------------------------------------------
(* What an action does to the sequences *)

(* The requests taken are the first n of the queue, n at least one. *)
LEMMA ShareOk ==
  ASSUME TypeOK, LoopOk, queue # << >>, bpc \in {"looking", "lingering"}
  PROVE  Share \in 1 .. Len(queue) /\ Share <= MaxSize - Len(batch)
<1>1. Len(queue) \in Nat \ {0} /\ Len(batch) \in Nat
  BY DEF TypeOK
<1>2. Len(batch) < MaxSize
  BY BatchingAssumption DEF LoopOk
<1> QED BY <1>1, <1>2, BatchingAssumption DEF Share

(* Where the requests are after they were taken. *)
LEMMA Taken ==
  ASSUME TypeOK, LoopOk, Fill
  PROVE  /\ batch' \in Seq(Streams) /\ queue' \in Seq(Streams)
         /\ Len(batch') = Len(batch) + Share /\ Len(queue') = Len(queue) - Share
         /\ Share \in 1 .. Len(queue) /\ Len(batch') <= MaxSize
         /\ \A k \in 1 .. Len(batch') :
              batch'[k] = IF k <= Len(batch) THEN batch[k] ELSE queue[k - Len(batch)]
         /\ \A k \in 1 .. Len(queue') : queue'[k] = queue[k + Share]
<1> DEFINE n == Share
<1>1. n \in 1 .. Len(queue) /\ n <= MaxSize - Len(batch)
  BY ShareOk DEF Fill
<1>2. queue \in Seq(Streams) /\ batch \in Seq(Streams) /\ Len(batch) <= MaxSize
  BY DEF TypeOK
<1>3. batch' = batch \o SubSeq(queue, 1, n) /\ queue' = SubSeq(queue, n + 1, Len(queue))
  BY DEF Fill
<1> HIDE DEF n
<1>4. Len(queue) \in Nat /\ Len(batch) \in Nat /\ MaxSize \in Nat
  BY <1>2, BatchingAssumption
<1>5. /\ SubSeq(queue, 1, n) \in Seq(Streams) /\ Len(SubSeq(queue, 1, n)) = n
      /\ \A k \in 1 .. n : SubSeq(queue, 1, n)[k] = queue[k]
  BY <1>1, <1>2, <1>4
<1>6. /\ queue' \in Seq(Streams) /\ Len(queue') = Len(queue) - n
      /\ \A k \in 1 .. Len(queue) - n : queue'[k] = queue[k + n]
  BY <1>1, <1>2, <1>3, <1>4
<1>7. /\ batch' \in Seq(Streams) /\ Len(batch') = Len(batch) + n
      /\ \A k \in 1 .. Len(batch) + n :
           batch'[k] = IF k <= Len(batch) THEN batch[k] ELSE queue[k - Len(batch)]
  BY <1>1, <1>2, <1>3, <1>4, <1>5
<1> QED BY <1>1, <1>4, <1>6, <1>7 DEF n

-----------------------------------------------------------------------------
(* Types *)

(* A result of a stream's own frame is a result. *)
LEMMA OwnTyped ==
  ASSUME TypeOK, PlacesOk, NEW i \in Streams, pc[i] # "idle"
  PROVE  OwnResult(i) \in Results
<1> QED BY DEF PlacesOk, OwnResult, Results

LEMMA TypeStep ==
  ASSUME TypeOK, Inv, [Next]_vars PROVE TypeOK'
<1> USE DEF TypeOK
<1>1. CASE \E i \in Streams : Register(i) \/ Call(i)
  <2>1. CASE \E i \in Streams : Register(i)
    BY <2>1 DEF Register, callVars, loopVars
  <2>2. CASE \E i \in Streams : Call(i)
    BY <2>2 DEF Call, Ask, Goto, lifeVars, loopVars
  <2> QED BY <1>1, <2>1, <2>2
<1>2. ASSUME NEW i \in Streams, Leave(i) PROVE TypeOK'
  <2>1. ~retired => count - 1 \in Nat
    <3>1. IsFiniteSet(Members) /\ i \in Members
      BY <1>2, BatchingAssumption, FS_Subset DEF Leave, Members
    <3>2. Cardinality(Members) \in Nat /\ Cardinality(Members) # 0
      BY <3>1, FS_CardinalityType, FS_EmptySet
    <3> QED BY <3>2 DEF Inv, CountOk
  <2>2. overrun' \subseteq Overrunning
    BY <1>2 DEF Leave
  <2> QED BY <1>2, <2>1, <2>2 DEF Leave, callVars, loopVars
<1>3. CASE StopAll \/ Stop
  BY <1>3 DEF StopAll, Stop, Notify, callVars, lifeVars, loopVars
<1>4. ASSUME NEW i \in Streams, LoneReturns(i) PROVE TypeOK'
  <2>1. OwnResult(i) \in Results /\ Error \in Results
    BY <1>4, OwnTyped DEF LoneReturns, Inv, Results
  <2> QED BY <1>4, <2>1 DEF LoneReturns, Return, Goto, lifeVars, loopVars
<1>5. ASSUME NEW i \in Streams, Enqueue(i) PROVE TypeOK'
  BY <1>5 DEF Enqueue, Goto, Notify, lifeVars
<1>6. ASSUME NEW i \in Streams, Refuse(i) \/ Answered(i) PROVE TypeOK'
  <2>1. Error \in Results
    BY DEF Results
  <2> QED BY <1>6, <2>1 DEF Refuse, Answered, Return, Goto, lifeVars, loopVars
<1>7. CASE Sleep \/ End \/ Deadline
  BY <1>7 DEF Sleep, End, Deadline, Rest, callVars, lifeVars
<1>8. CASE Fill
  <2>1. bpc' \in {"lingering", "computing"}
    BY <1>8 DEF Fill
  <2> QED BY <1>8, <2>1, Taken DEF Inv, Fill, Rest, callVars, lifeVars
<1>9. CASE Compute \/ ComputeFails
  <2>1. \A k \in 1 .. Len(batch) : batch[k] \in Streams /\ OwnResult(batch[k]) \in Results
    BY OwnTyped DEF Inv, RequestsOk
  <2>2. Error \in Results
    BY DEF Results
  <2>3. results' \in Seq(Results)
    BY <1>9, <2>1, <2>2 DEF Compute, ComputeFails
  <2> QED BY <1>9, <2>3 DEF Compute, ComputeFails, Rest, callVars, lifeVars
<1>10. CASE Scatter
  <2>1. batch # << >> /\ results # << >>
    BY <1>10 DEF Scatter, Inv, LoopOk
  <2>2. /\ Head(batch) \in Streams /\ Tail(batch) \in Seq(Streams)
        /\ Len(Tail(batch)) <= MaxSize
        /\ Head(results) \in Results /\ Tail(results) \in Seq(Results)
    BY <2>1, BatchingAssumption
  <2> QED BY <1>10, <2>2 DEF Scatter, lifeVars
<1>11. CASE UNCHANGED vars
  BY <1>11 DEF vars, callVars, lifeVars, loopVars
<1> QED BY <1>1, <1>2, <1>3, <1>4, <1>5, <1>6, <1>7, <1>8, <1>9, <1>10, <1>11
        DEF Next, CallStep, BatchStep

-----------------------------------------------------------------------------
(* One lemma per conjunct of the invariant *)

LEMMA PlacesStep ==
  ASSUME TypeOK, Inv, [Next]_vars PROVE PlacesOk'
<1> USE DEF TypeOK, Inv, PlacesOk
<1>1. ASSUME NEW i \in Streams, Register(i) \/ Leave(i) PROVE PlacesOk'
  BY <1>1 DEF Register, Leave, callVars
<1>2. ASSUME NEW i \in Streams, Call(i) PROVE PlacesOk'
  BY <1>2 DEF Call, Ask, Goto, lifeVars
<1>3. ASSUME NEW i \in Streams, CallStep(i) PROVE PlacesOk'
  BY <1>3 DEF CallStep, LoneReturns, Enqueue, Refuse, Answered, Return, Goto, lifeVars
<1>4. CASE StopAll \/ Stop
  BY <1>4 DEF StopAll, Stop, callVars, lifeVars
<1>5. CASE BatchStep
  BY <1>5 DEF BatchStep, Sleep, End, Fill, Deadline, Compute, ComputeFails, Scatter,
              Rest, callVars, lifeVars
<1>6. CASE UNCHANGED vars
  BY <1>6 DEF vars, callVars, lifeVars
<1> QED BY <1>1, <1>2, <1>3, <1>4, <1>5, <1>6 DEF Next

(* What is queued or batched are streams. *)
LEMMA Entries ==
  ASSUME TypeOK
  PROVE  /\ Len(queue) \in Nat /\ \A k \in 1 .. Len(queue) : queue[k] \in Streams
         /\ Len(batch) \in Nat /\ \A k \in 1 .. Len(batch) : batch[k] \in Streams
<1> QED BY DEF TypeOK

(* A request that is appended is of a caller that had none. *)
LEMMA RequestsEnqueue ==
  ASSUME TypeOK, Inv, NEW i \in Streams, Enqueue(i) PROVE RequestsOk'
<1>0. RequestsOk /\ SlotsOk
  BY DEF Inv
<1>1. pc[i] = "queueing" /\ slot[i] = None
  BY <1>0 DEF Enqueue, SlotsOk
<1>2. /\ queue' = Append(queue, i) /\ UNCHANGED <<slot, batch>>
      /\ \A j \in Streams : pc'[j] = IF j = i THEN "waiting" ELSE pc[j]
  BY DEF Enqueue, Goto, TypeOK
<1>3. /\ Len(queue) \in Nat /\ Len(queue') = Len(queue) + 1
      /\ queue'[Len(queue) + 1] = i
      /\ \A k \in 1 .. Len(queue) : queue'[k] = queue[k]
      /\ \A k \in 1 .. Len(queue') : k \in 1 .. Len(queue) \/ k = Len(queue) + 1
  BY <1>2 DEF TypeOK
<1>4. /\ \A k \in 1 .. Len(queue) : queue[k] \in Streams /\ queue[k] # i
      /\ \A k \in 1 .. Len(batch) : batch[k] \in Streams /\ batch[k] # i
  BY <1>0, <1>1, Entries DEF RequestsOk
<1>5. \A j \in Streams :
        pc'[j] = "waiting" /\ slot'[j] = None => Queued(j)' \/ Batched(j)'
  <2> SUFFICES ASSUME NEW j \in Streams, pc'[j] = "waiting", slot'[j] = None
               PROVE  Queued(j)' \/ Batched(j)'
    OBVIOUS
  <2>1. CASE j = i
    BY <2>1, <1>3 DEF Queued
  <2>2. CASE j # i
    <3>1. Queued(j) \/ Batched(j)
      BY <1>0, <2>2, <1>2 DEF RequestsOk
    <3> QED BY <3>1, <1>2, <1>3 DEF Queued, Batched
  <2> QED BY <2>1, <2>2
<1>6. \A k \in 1 .. Len(queue') : pc'[queue'[k]] = "waiting" /\ slot'[queue'[k]] = None
  BY <1>0, <1>1, <1>2, <1>3, <1>4 DEF RequestsOk
<1>7. \A k \in 1 .. Len(batch') : pc'[batch'[k]] = "waiting" /\ slot'[batch'[k]] = None
  BY <1>0, <1>2, <1>4 DEF RequestsOk
<1>8. /\ \A k, l \in 1 .. Len(queue') : queue'[k] = queue'[l] => k = l
      /\ \A k, l \in 1 .. Len(batch') : batch'[k] = batch'[l] => k = l
      /\ \A k \in 1 .. Len(queue'), l \in 1 .. Len(batch') : queue'[k] # batch'[l]
  BY <1>0, <1>2, <1>3, <1>4 DEF RequestsOk
<1> QED BY <1>5, <1>6, <1>7, <1>8 DEF RequestsOk

(* Requests that are taken move from the queue to the batch. *)
LEMMA RequestsFill ==
  ASSUME TypeOK, Inv, Fill PROVE RequestsOk'
<1>0. RequestsOk /\ LoopOk
  BY DEF Inv
<1>1. UNCHANGED <<pc, slot>>
  BY DEF Fill, Rest, callVars
<1>2. /\ Len(queue) \in Nat /\ Len(batch) \in Nat /\ Share \in 1 .. Len(queue)
      /\ Len(batch') = Len(batch) + Share /\ Len(queue') = Len(queue) - Share
      /\ \A k \in 1 .. Len(batch') :
           batch'[k] = IF k <= Len(batch) THEN batch[k] ELSE queue[k - Len(batch)]
      /\ \A k \in 1 .. Len(queue') : queue'[k] = queue[k + Share]
  BY <1>0, Entries, Taken
<1>3. ASSUME NEW k \in 1 .. Len(queue')
      PROVE  \E m \in 1 .. Len(queue) : m = k + Share /\ queue'[k] = queue[m]
  <2>1. k + Share \in 1 .. Len(queue)
    BY <1>2
  <2> QED BY <1>2, <2>1
<1>4. ASSUME NEW k \in 1 .. Len(batch')
      PROVE  \/ k \in 1 .. Len(batch) /\ batch'[k] = batch[k]
             \/ \E m \in 1 .. Len(queue) :
                  m = k - Len(batch) /\ m <= Share /\ batch'[k] = queue[m]
  <2>1. CASE k <= Len(batch)
    BY <1>2, <2>1
  <2>2. CASE k > Len(batch)
    <3>1. k - Len(batch) \in 1 .. Len(queue) /\ k - Len(batch) <= Share
      BY <1>2, <2>2
    <3>2. batch'[k] = queue[k - Len(batch)]
      BY <1>2, <2>2
    <3> QED BY <3>1, <3>2
  <2> QED BY <1>2, <2>1, <2>2
<1>5. /\ \A k \in 1 .. Len(queue') : pc'[queue'[k]] = "waiting" /\ slot'[queue'[k]] = None
      /\ \A k \in 1 .. Len(batch') : pc'[batch'[k]] = "waiting" /\ slot'[batch'[k]] = None
  <2>1. ASSUME NEW k \in 1 .. Len(queue')
        PROVE  pc[queue'[k]] = "waiting" /\ slot[queue'[k]] = None
    BY <1>0, <1>3 DEF RequestsOk
  <2>2. ASSUME NEW k \in 1 .. Len(batch')
        PROVE  pc[batch'[k]] = "waiting" /\ slot[batch'[k]] = None
    BY <1>0, <1>4 DEF RequestsOk
  <2> QED BY <1>1, <2>1, <2>2
<1>6. ASSUME NEW k \in 1 .. Len(queue'), NEW l \in 1 .. Len(queue'), queue'[k] = queue'[l]
      PROVE  k = l
  <2>1. PICK m \in 1 .. Len(queue) : m = k + Share /\ queue'[k] = queue[m]
    BY <1>3
  <2>2. PICK n \in 1 .. Len(queue) : n = l + Share /\ queue'[l] = queue[n]
    BY <1>3
  <2>3. m = n
    BY <1>0, <1>6, <2>1, <2>2 DEF RequestsOk
  <2> QED BY <1>2, <2>1, <2>2, <2>3
<1>7. ASSUME NEW k \in 1 .. Len(batch'), NEW l \in 1 .. Len(batch'), batch'[k] = batch'[l]
      PROVE  k = l
  <2>1. ASSUME k \in 1 .. Len(batch), batch'[k] = batch[k],
               l \in 1 .. Len(batch), batch'[l] = batch[l]
        PROVE  k = l
    BY <1>0, <1>7, <2>1 DEF RequestsOk
  <2>2. ASSUME k \in 1 .. Len(batch), batch'[k] = batch[k],
               NEW m \in 1 .. Len(queue), batch'[l] = queue[m]
        PROVE  FALSE
    BY <1>0, <1>7, <2>2 DEF RequestsOk
  <2>3. ASSUME l \in 1 .. Len(batch), batch'[l] = batch[l],
               NEW m \in 1 .. Len(queue), batch'[k] = queue[m]
        PROVE  FALSE
    BY <1>0, <1>7, <2>3 DEF RequestsOk
  <2>4. ASSUME NEW m \in 1 .. Len(queue), m = k - Len(batch), batch'[k] = queue[m],
               NEW n \in 1 .. Len(queue), n = l - Len(batch), batch'[l] = queue[n]
        PROVE  k = l
    <3>1. m = n
      BY <1>0, <1>7, <2>4 DEF RequestsOk
    <3> QED BY <1>2, <2>4, <3>1
  <2> QED BY <1>4, <2>1, <2>2, <2>3, <2>4
<1>8. ASSUME NEW k \in 1 .. Len(queue'), NEW l \in 1 .. Len(batch'), queue'[k] = batch'[l]
      PROVE  FALSE
  <2>1. PICK m \in 1 .. Len(queue) : m = k + Share /\ queue'[k] = queue[m]
    BY <1>3
  <2>2. CASE l \in 1 .. Len(batch) /\ batch'[l] = batch[l]
    BY <1>0, <1>8, <2>1, <2>2 DEF RequestsOk
  <2>3. ASSUME NEW n \in 1 .. Len(queue), n <= Share, batch'[l] = queue[n]
        PROVE  FALSE
    <3>1. m = n
      BY <1>0, <1>8, <2>1, <2>3 DEF RequestsOk
    <3> QED BY <1>2, <2>1, <2>3, <3>1
  <2> QED BY <1>4, <2>2, <2>3
<1>9. ASSUME NEW i \in Streams, pc'[i] = "waiting", slot'[i] = None
      PROVE  Queued(i)' \/ Batched(i)'
  <2>1. CASE Queued(i)
    <3>1. PICK k \in 1 .. Len(queue) : queue[k] = i
      BY <2>1 DEF Queued
    <3>2. CASE k <= Share
      <4>1. /\ Len(batch) + k \in 1 .. Len(batch')
            /\ batch'[Len(batch) + k] = i
        BY <1>2, <3>1, <3>2
      <4> QED BY <4>1 DEF Batched
    <3>3. CASE k > Share
      <4>1. k - Share \in 1 .. Len(queue') /\ queue'[k - Share] = i
        BY <1>2, <3>1, <3>3
      <4> QED BY <4>1 DEF Queued
    <3> QED BY <1>2, <3>2, <3>3
  <2>2. CASE Batched(i)
    BY <2>2, <1>2 DEF Batched
  <2> QED BY <1>0, <1>1, <1>9, <2>1, <2>2 DEF RequestsOk
<1> QED BY <1>5, <1>6, <1>7, <1>8, <1>9 DEF RequestsOk

(* The request that is answered leaves the batch. *)
LEMMA RequestsScatter ==
  ASSUME TypeOK, Inv, Scatter PROVE RequestsOk'
<1>0. RequestsOk /\ LoopOk /\ PlacesOk
  BY DEF Inv
<1>1. batch # << >> /\ results # << >>
  BY <1>0, Entries DEF Scatter, LoopOk
<1>2. /\ UNCHANGED <<pc, queue>> /\ batch' = Tail(batch)
      /\ \A j \in Streams : slot'[j] = IF j = batch[1] THEN results[1] ELSE slot[j]
  BY <1>1 DEF Scatter, TypeOK
<1>3. /\ Len(batch) \in Nat \ {0} /\ Len(batch') = Len(batch) - 1
      /\ \A k \in 1 .. Len(batch') : batch'[k] = batch[k + 1]
      /\ \A k \in 1 .. Len(batch) : batch[k] \in Streams
      /\ \A k \in 1 .. Len(queue) : queue[k] \in Streams
  BY <1>1, <1>2 DEF TypeOK
<1>4. results[1] # None
  <2>1. results[1] \in {OwnResult(batch[1]), Error}
    BY <1>0, <1>3 DEF Scatter, LoopOk
  <2>2. frame[batch[1]] \in Frames
    BY <1>0, <1>3 DEF RequestsOk, PlacesOk
  <2> QED BY <1>3, <2>1, <2>2, BatchingAssumption DEF OwnResult
<1>5. \A k \in 1 .. Len(batch') : batch'[k] # batch[1]
  BY <1>0, <1>3 DEF RequestsOk
<1>6. \A k \in 1 .. Len(queue) : queue[k] # batch[1]
  BY <1>0, <1>3 DEF RequestsOk
<1>7. /\ \A k \in 1 .. Len(queue') : pc'[queue'[k]] = "waiting" /\ slot'[queue'[k]] = None
      /\ \A k \in 1 .. Len(batch') : pc'[batch'[k]] = "waiting" /\ slot'[batch'[k]] = None
  BY <1>0, <1>2, <1>3, <1>5, <1>6 DEF RequestsOk
<1>8. /\ \A k, l \in 1 .. Len(queue') : queue'[k] = queue'[l] => k = l
      /\ \A k, l \in 1 .. Len(batch') : batch'[k] = batch'[l] => k = l
      /\ \A k \in 1 .. Len(queue'), l \in 1 .. Len(batch') : queue'[k] # batch'[l]
  BY <1>0, <1>2, <1>3 DEF RequestsOk
<1>9. ASSUME NEW i \in Streams, pc'[i] = "waiting", slot'[i] = None
      PROVE  Queued(i)' \/ Batched(i)'
  <2>1. i # batch[1] /\ pc[i] = "waiting" /\ slot[i] = None
    BY <1>2, <1>3, <1>4, <1>9
  <2>2. CASE Queued(i)
    BY <2>2, <1>2 DEF Queued
  <2>3. CASE Batched(i)
    <3>1. PICK k \in 1 .. Len(batch) : batch[k] = i
      BY <2>3 DEF Batched
    <3>2. k # 1
      BY <2>1, <3>1
    <3>3. k - 1 \in 1 .. Len(batch') /\ batch'[k - 1] = batch[k]
      BY <1>3, <3>1, <3>2
    <3> QED BY <3>1, <3>3 DEF Batched
  <2> QED BY <1>0, <2>1, <2>2, <2>3 DEF RequestsOk
<1> QED BY <1>7, <1>8, <1>9 DEF RequestsOk

(* A step of a caller without a request on its way moves no other. *)
LEMMA RequestsFree ==
  ASSUME TypeOK, RequestsOk, UNCHANGED <<queue, batch>>,
         NEW i \in Streams, ~(pc[i] = "waiting" /\ slot[i] = None),
         pc'[i] # "waiting",
         \A j \in Streams \ {i} : pc'[j] = pc[j] /\ slot'[j] = slot[j]
  PROVE  RequestsOk'
<1>1. /\ \A k \in 1 .. Len(queue) : queue[k] \in Streams \ {i}
      /\ \A k \in 1 .. Len(batch) : batch[k] \in Streams \ {i}
  BY Entries DEF RequestsOk
<1>2. \A j \in Streams :
        pc'[j] = "waiting" /\ slot'[j] = None => Queued(j)' \/ Batched(j)'
  BY DEF RequestsOk, Queued, Batched
<1> QED BY <1>1, <1>2 DEF RequestsOk

LEMMA RequestsStep ==
  ASSUME TypeOK, Inv, [Next]_vars PROVE RequestsOk'
<1>1. ASSUME NEW i \in Streams, Register(i) \/ Leave(i) PROVE RequestsOk'
  BY <1>1 DEF Inv, RequestsOk, Queued, Batched, Register, Leave, callVars, loopVars
<1>2. ASSUME NEW i \in Streams, Call(i) \/ LoneReturns(i) \/ Refuse(i) \/ Answered(i)
      PROVE  RequestsOk'
  <2>1. UNCHANGED <<queue, batch>>
    BY <1>2 DEF Call, LoneReturns, Refuse, Answered, loopVars
  <2>2. ~(pc[i] = "waiting" /\ slot[i] = None)
    BY <1>2 DEF Call, LoneReturns, Refuse, Answered
  <2>3. /\ pc'[i] # "waiting"
        /\ \A j \in Streams \ {i} : pc'[j] = pc[j] /\ slot'[j] = slot[j]
    BY <1>2 DEF Call, LoneReturns, Refuse, Answered, Return, Goto, TypeOK
  <2> QED BY <2>1, <2>2, <2>3, RequestsFree DEF Inv
<1>4. CASE StopAll \/ Stop
  BY <1>4 DEF Inv, RequestsOk, Queued, Batched, StopAll, Stop, callVars, loopVars
<1>5. CASE Sleep \/ End \/ Deadline \/ Compute \/ ComputeFails
  BY <1>5 DEF Inv, RequestsOk, Queued, Batched, Sleep, End, Deadline, Compute,
              ComputeFails, Rest, callVars
<1>6. CASE UNCHANGED vars
  BY <1>6 DEF Inv, RequestsOk, Queued, Batched, vars, callVars, loopVars
<1> QED BY <1>1, <1>2, <1>4, <1>5, <1>6, RequestsEnqueue, RequestsFill,
           RequestsScatter
        DEF Next, CallStep, BatchStep

(* Requests keep their batch until each is answered. *)
LEMMA LoopStep ==
  ASSUME TypeOK, Inv, [Next]_vars PROVE LoopOk'
<1>1. ASSUME UNCHANGED <<batch, results, frame>>, stopping => stopping',
             bpc' = bpc \/ (bpc = "asleep" /\ bpc' = "looking"),
             bpc = "ended" => UNCHANGED queue
      PROVE  LoopOk'
  BY <1>1 DEF Inv, LoopOk, OwnResult
<1>2. ASSUME NEW i \in Streams, Register(i) \/ Leave(i) \/ LoneReturns(i) \/ Refuse(i)
                                \/ Answered(i)
      PROVE  LoopOk'
  BY <1>1, <1>2 DEF Register, Leave, LoneReturns, Refuse, Answered, Return, callVars,
                    loopVars
<1>3. ASSUME NEW i \in Streams, Call(i) PROVE LoopOk'
  <2>1. \A k \in 1 .. Len(batch) : batch[k] # i
    BY <1>3 DEF Inv, RequestsOk, Call
  <2>2. \A k \in 1 .. Len(batch) : OwnResult(batch[k])' = OwnResult(batch[k])
    BY <1>3, <2>1, Entries DEF TypeOK, OwnResult, Call, Ask, loopVars
  <2>3. UNCHANGED <<batch, results, bpc, queue, stopping>>
    BY <1>3 DEF Call, loopVars
  <2> QED BY <2>2, <2>3 DEF Inv, LoopOk
<1>4. ASSUME NEW i \in Streams, Enqueue(i) PROVE LoopOk'
  <2>1. bpc # "ended"
    BY <1>4 DEF Inv, LoopOk, Enqueue
  <2> QED BY <1>1, <1>4, <2>1 DEF Enqueue, Notify
<1>5. CASE StopAll \/ Stop
  BY <1>1, <1>5 DEF StopAll, Stop, Notify, callVars, loopVars
<1>6. CASE Sleep \/ End \/ Deadline
  BY <1>6 DEF Inv, LoopOk, Sleep, End, Deadline, Rest
<1>7. CASE Fill
  <2>1. Len(batch') # 0
    BY <1>7, Taken, Entries DEF Inv
  <2>2. batch' # << >>
    BY <2>1
  <2>3. bpc' \in {"lingering", "computing"} /\ (bpc' = "lingering" => Len(batch') < MaxSize)
    BY <1>7 DEF Fill
  <2> QED BY <2>2, <2>3 DEF LoopOk
<1>8. CASE Compute \/ ComputeFails
  <2>1. UNCHANGED <<batch, frame>> /\ bpc = "computing" /\ bpc' = "scattering"
    BY <1>8 DEF Compute, ComputeFails, Rest, callVars
  <2>2. /\ Len(results') = Len(batch)
        /\ \A k \in 1 .. Len(batch) : results'[k] \in {OwnResult(batch[k]), Error}
    BY <1>8, Entries DEF Compute, ComputeFails
  <2> QED BY <2>1, <2>2 DEF Inv, LoopOk, OwnResult
<1>9. CASE Scatter
  <2>1. batch # << >> /\ Len(results) = Len(batch)
    BY <1>9 DEF Scatter, Inv, LoopOk
  <2>2. UNCHANGED frame /\ batch' = Tail(batch) /\ results' = Tail(results)
    BY <1>9 DEF Scatter
  <2>3. /\ Len(batch') = Len(batch) - 1 /\ Len(results') = Len(batch')
        /\ \A k \in 1 .. Len(batch') : batch'[k] = batch[k + 1] /\ results'[k] = results[k + 1]
    BY <2>1, <2>2 DEF TypeOK
  <2>4. \A k \in 1 .. Len(batch') : k + 1 \in 1 .. Len(batch)
    BY <2>3, Entries
  <2>5. \A k \in 1 .. Len(batch) : results[k] \in {OwnResult(batch[k]), Error}
    BY <1>9 DEF Scatter, Inv, LoopOk
  <2>6. \A k \in 1 .. Len(batch') : results'[k] \in {OwnResult(batch[k + 1]), Error}
    BY <2>3, <2>4, <2>5
  <2>7. (\A k \in 1 .. Len(batch) : results[k] \in {OwnResult(batch[k]), Error})'
    BY <2>2, <2>3, <2>6 DEF OwnResult
  <2>8. bpc' = IF batch' = << >> THEN "looking" ELSE "scattering"
    BY <1>9 DEF Scatter
  <2> QED BY <2>3, <2>7, <2>8 DEF LoopOk
<1>10. CASE UNCHANGED vars
  BY <1>1, <1>10 DEF vars, callVars, loopVars
<1> QED BY <1>2, <1>3, <1>4, <1>5, <1>6, <1>7, <1>8, <1>9, <1>10
        DEF Next, CallStep, BatchStep

LEMMA SlotsStep ==
  ASSUME TypeOK, Inv, [Next]_vars PROVE SlotsOk'
<1>1. CASE UNCHANGED <<pc, frame, slot>>
  BY <1>1 DEF Inv, SlotsOk, OwnResult
<1>2. ASSUME NEW i \in Streams, Call(i) \/ CallStep(i) PROVE SlotsOk'
  <2>1. \A j \in Streams \ {i} : UNCHANGED <<pc[j], frame[j], slot[j]>>
    BY <1>2 DEF TypeOK, Call, CallStep, LoneReturns, Enqueue, Refuse, Answered, Ask,
                Return, Goto
  <2>2. slot'[i] = None
    BY <1>2 DEF TypeOK, Inv, SlotsOk, Call, CallStep, LoneReturns, Enqueue, Refuse,
                Answered, Ask, Return, Goto
  <2> QED BY <2>1, <2>2 DEF Inv, SlotsOk, OwnResult
<1>3. CASE Scatter
  <2>1. batch # << >> /\ results # << >>
    BY <1>3, Entries DEF Scatter, Inv, LoopOk
  <2>2. 1 \in 1 .. Len(batch) /\ batch[1] \in Streams
    BY <2>1, Entries DEF TypeOK
  <2>3. pc[batch[1]] = "waiting" /\ results[1] \in {OwnResult(batch[1]), Error}
    BY <1>3, <2>2 DEF Scatter, Inv, LoopOk, RequestsOk
  <2>4. /\ UNCHANGED <<pc, frame>>
        /\ \A j \in Streams : slot'[j] = IF j = batch[1] THEN results[1] ELSE slot[j]
    BY <1>3, <2>1 DEF Scatter, TypeOK
  <2> QED BY <2>3, <2>4 DEF Inv, SlotsOk, OwnResult
<1> QED BY <1>1, <1>2, <1>3
        DEF Next, BatchStep, Register, Leave, StopAll, Stop, Sleep, End, Fill, Deadline,
            Compute, ComputeFails, Rest, vars, callVars

LEMMA CountStep ==
  ASSUME TypeOK, Inv, [Next]_vars PROVE CountOk'
<1>0. IsFiniteSet(Members) /\ Cardinality(Members) \in Nat
  BY BatchingAssumption, FS_Subset, FS_CardinalityType DEF Members
<1>1. ASSUME NEW i \in Streams, Register(i) PROVE CountOk'
  <2>1. Members' = Members \union {i} /\ i \notin Members
    BY <1>1 DEF Register, Members, TypeOK
  <2>2. Cardinality(Members') = Cardinality(Members) + 1
    BY <1>0, <2>1, FS_AddElement
  <2> QED BY <1>0, <1>1, <2>2 DEF Register, Inv, CountOk, TypeOK
<1>2. ASSUME NEW i \in Streams, Leave(i) PROVE CountOk'
  <2>1. Members' = Members \ {i} /\ i \in Members
    BY <1>2 DEF Leave, Members, TypeOK
  <2>2. Cardinality(Members') = Cardinality(Members) - 1
    BY <1>0, <2>1, FS_RemoveElement
  <2> QED BY <1>0, <1>2, <2>2 DEF Leave, Inv, CountOk, TypeOK
<1>3. CASE UNCHANGED <<life, count>>
  BY <1>3 DEF Inv, CountOk, Members
<1> QED BY <1>1, <1>2, <1>3
        DEF Next, CallStep, BatchStep, Call, LoneReturns, Enqueue, Refuse, Answered,
            Return, StopAll, Stop, Sleep, End, Fill, Deadline, Compute, ComputeFails,
            Scatter, Rest, vars, lifeVars

(* A stream that finds the count at one is the only member. *)
LEMMA Alone ==
  ASSUME TypeOK, CountOk, count <= 1, NEW i \in Members, NEW j \in Members
  PROVE  i = j
<1>1. IsFiniteSet(Members) /\ Cardinality(Members) \in Nat
  BY BatchingAssumption, FS_Subset, FS_CardinalityType DEF Members
<1>2. IsFiniteSet(Members \ {i}) /\ Cardinality(Members \ {i}) = Cardinality(Members) - 1
  BY <1>1, FS_RemoveElement
<1>3. Cardinality(Members \ {i}) = 0
  BY <1>1, <1>2, FS_CardinalityType DEF CountOk, TypeOK
<1> QED BY <1>2, <1>3, FS_EmptySet

LEMMA LoneStep ==
  ASSUME TypeOK, Inv, [Next]_vars PROVE LonePathIsLone'
<1>1. ASSUME NEW i \in Streams, Call(i) PROVE LonePathIsLone'
  <2>1. UNCHANGED overrun
    BY <1>1 DEF Call, lifeVars
  <2>2. CASE count <= 1
    <3>1. \A j \in Lone \ overrun : j = i
      BY <1>1, <2>2, Alone DEF Call, Inv, PlacesOk, Lone, Members
    <3>2. \A j \in Lone' : j = i \/ j \in Lone
      BY <1>1 DEF Call, Goto, Lone, TypeOK
    <3> QED BY <2>1, <3>1, <3>2 DEF LonePathIsLone
  <2>3. CASE ~(count <= 1)
    <3>1. Lone' \subseteq Lone
      BY <1>1, <2>3 DEF Call, Goto, Lone, TypeOK
    <3> QED BY <2>1, <3>1 DEF Inv, LonePathIsLone
  <2> QED BY <2>2, <2>3
<1>2. ASSUME Lone' \subseteq Lone, overrun \subseteq overrun' PROVE LonePathIsLone'
  BY <1>2 DEF Inv, LonePathIsLone
<1>3. ASSUME NEW i \in Streams, CallStep(i) PROVE LonePathIsLone'
  <2>1. Lone' \subseteq Lone
    BY <1>3 DEF CallStep, LoneReturns, Enqueue, Refuse, Answered, Return, Goto, Lone, TypeOK
  <2> QED BY <1>2, <1>3, <2>1
          DEF CallStep, LoneReturns, Enqueue, Refuse, Answered, Return, lifeVars
<1>4. CASE UNCHANGED pc /\ overrun \subseteq overrun'
  BY <1>2, <1>4 DEF Lone
<1> QED BY <1>1, <1>3, <1>4
        DEF Next, BatchStep, Register, Leave, StopAll, Stop, Sleep, End, Fill, Deadline,
            Compute, ComputeFails, Scatter, Rest, vars, callVars, lifeVars

-----------------------------------------------------------------------------
(* Theorems *)

(* The inductive invariant of every behaviour. *)
THEOREM BatchInvariant == Spec => [](TypeOK /\ Inv)
<1>1. Init => TypeOK /\ Inv
  <2> SUFFICES ASSUME Init PROVE TypeOK /\ Inv
    OBVIOUS
  <2>1. TypeOK
    <3>1. /\ << >> \in Seq(Streams) /\ << >> \in Seq(Results)
          /\ Len(queue) = 0 /\ Len(batch) = 0
      BY DEF Init
    <3>2. 0 <= MaxSize
      BY BatchingAssumption
    <3> QED BY <3>1, <3>2 DEF Init, TypeOK
  <2>2. Members = {} /\ Lone = {}
    BY DEF Init, Members, Lone
  <2>3. CountOk /\ LonePathIsLone
    BY <2>2, FS_EmptySet DEF Init, CountOk, LonePathIsLone
  <2>4. PlacesOk /\ RequestsOk /\ LoopOk /\ SlotsOk
    BY DEF Init, PlacesOk, RequestsOk, LoopOk, SlotsOk
  <2> QED BY <2>1, <2>3, <2>4 DEF Inv
<1>2. TypeOK /\ Inv /\ [Next]_vars => TypeOK' /\ Inv'
  BY TypeStep, PlacesStep, RequestsStep, LoopStep, SlotsStep, CountStep, LoneStep DEF Inv
<1> QED BY <1>1, <1>2, PTL DEF Spec

(* Types, and the bound on the size of a fused pass. *)
THEOREM TypeCorrect == Spec => []TypeOK
<1> QED BY BatchInvariant, PTL

(* A batch thread that has ended leaves no caller waiting.  It ends with    *)
(* nothing queued after a stop, and nothing is queued after that.           *)
THEOREM NobodyIsStranded == Spec => []NobodyStranded
<1>1. TypeOK /\ Inv => NobodyStranded
  <2> SUFFICES ASSUME TypeOK, Inv, bpc = "ended", NEW i \in Streams,
                      pc[i] = "waiting", slot[i] = None
               PROVE  FALSE
    BY DEF NobodyStranded
  <2>1. queue = << >> /\ batch = << >>
    BY DEF Inv, LoopOk
  <2>2. Queued(i) \/ Batched(i)
    BY DEF Inv, RequestsOk
  <2> QED BY <2>1, <2>2 DEF Queued, Batched
<1> QED BY <1>1, BatchInvariant, PTL

(* At most one stream that was not given up on is on the lone path. *)
THEOREM LonePathsAreLone == Spec => []LonePathIsLone
<1>1. TypeOK /\ Inv => LonePathIsLone
  BY DEF Inv
<1> QED BY <1>1, BatchInvariant, PTL

(* The coordinator does what Predictions promises. *)
THEOREM Implementation == Spec => ImplementsPredictions
<1>1. Init => P!Init
  BY DEF Init, P!Init
<1>2. TypeOK /\ Inv /\ [Next]_vars => [P!Next]_(P!promise)
  <2> SUFFICES ASSUME TypeOK, Inv, [Next]_vars PROVE P!Next \/ UNCHANGED P!promise
    BY DEF P!promise
  <2>1. ASSUME NEW i \in Streams, Call(i) PROVE P!Ask(i)
    BY <2>1 DEF Call, Ask, Goto, TypeOK, P!Ask
  <2>2. ASSUME NEW i \in Streams, LoneReturns(i) \/ Refuse(i) \/ Answered(i)
        PROVE  P!Return(i)
    <3>1. PICK x \in {OwnResult(i), Error} : Return(i, x)
      BY <2>2 DEF LoneReturns, Refuse, Answered, Inv, SlotsOk
    <3>2. pc[i] # "idle"
      BY <2>2 DEF LoneReturns, Refuse, Answered
    <3> QED BY <3>1, <3>2 DEF Return, Goto, TypeOK, OwnResult, P!Return
  <2>3. ASSUME NEW i \in Streams, Enqueue(i) PROVE UNCHANGED P!promise
    BY <2>3 DEF Enqueue, Goto, TypeOK, P!promise
  <2>4. CASE UNCHANGED <<pc, frame, outcome>>
    BY <2>4 DEF P!promise
  <2> QED BY <2>1, <2>2, <2>3, <2>4
          DEF Next, CallStep, BatchStep, Register, Leave, StopAll, Stop, Sleep, End,
              Fill, Deadline, Compute, ComputeFails, Scatter, Rest, vars, callVars,
              P!Next
<1> QED BY <1>1, <1>2, BatchInvariant, PTL DEF Spec, ImplementsPredictions, P!Spec
=============================================================================
