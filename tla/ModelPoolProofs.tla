--------------------------- MODULE ModelPoolProofs ---------------------------
(* Proofs about ModelPool for any number of streams, signatures and models, *)
(* and any settings.                                                        *)
EXTENDS ModelPool, FiniteSetTheorems, TLAPS

-----------------------------------------------------------------------------
(* The inductive invariant *)

(* Of a pooled model in use no other signature has the detector; the        *)
(* numbers of uses do not run ahead.                                        *)
PoolOk ==
  /\ \A s \in Signatures :
       /\ lastUse[s] <= uses /\ det[s] <= uses
       /\ refs[s] > 0 => s \in Resident
  /\ \A r, s \in Resident : r # s => det[r] # det[s]

(* Who may be where: with the scheduler stop() never cleans up; a flag is   *)
(* set in the loop alone; shutdown() comes after the starts and the stops.  *)
PlacesOk ==
  /\ \A i \in Streams :
       /\ pc[Own(i)] \in OwnPlaces /\ pc[Stopper(i)] \in StopPlaces
       /\ scheduling => pc[Stopper(i)] \in {"idle", "join"}
       /\ i \in running => pc[Own(i)] = "running"
       /\ phase # "up" => i \notin running /\ pc[Own(i)] # "opening"

(* A frame that nobody gave up on is in a stream that has yet to clean up.  *)
FramesOk ==
  CleanedOnce =>
    \A i \in Streams :
      i \in inside \ overrun =>
        /\ phase = "up"
        /\ pc[Own(i)] \in {"running", "draining"}
        /\ ~scheduling => i \in running

(* What a stream holds is in the pool. *)
LinksOk ==
  CleanedOnce /\ phase # "down" =>
    \A i \in Streams :
      Holding(i) => SigOf[i] \in Resident /\ detOf[i] = det[SigOf[i]]

(* Streams between acquire() and the end of BatchManager.release(). *)
Serving(i) == Holding(i) /\ pc[Own(i)] # "drop"
Members(s) == {i \in Streams : SigOf[i] = s /\ Serving(i)}

(* Coordinators are made by acquire() and counted by the streams they serve. *)
CoordOk ==
  /\ \A i \in Streams :
       pc[Own(i)] \in {"new", "refused"} =>
         i \notin stopped /\ \A s \in Signatures : coord[s] # i
  /\ ~batching => \A s \in Signatures : coord[s] = None
  /\ phase # "up" => \A s \in Signatures : coord[s] = None
  /\ \A s \in Signatures :
       coord[s] # None => SigOf[coord[s]] = s /\ coord[s] \notin stopped

ServedOk ==
  CleanedOnce =>
    /\ \A s \in Signatures :
         coord[s] # None =>
           members[coord[s]] = Cardinality(Members(s)) /\ members[coord[s]] > 0
    /\ batching /\ phase = "up" =>
         \A i \in Streams :
           Serving(i) => /\ coordOf[i] = coord[SigOf[i]] /\ coordOf[i] # None
                         /\ built[coordOf[i]] = detOf[i]

(* Together they are inductive. *)
PoolInv ==
  /\ PoolOk /\ PlacesOk /\ FramesOk /\ LinksOk /\ CoordOk /\ ServedOk
  /\ CountIsHolders /\ OnlyPooledIsLoaded

-----------------------------------------------------------------------------
(* Threads *)

(* A thread is a stream's own or the one inside its stop(). *)
LEMMA ThreadsAre ==
  /\ \A i \in Streams : Own(i) \in Threads /\ Own(i)[1] = i
  /\ \A i \in Streams : Stopper(i) \in Threads /\ Stopper(i)[1] = i
  /\ \A t \in Threads : \E i \in Streams : t = Own(i) \/ t = Stopper(i)
<1> QED BY DEF Threads, Own, Stopper

(* Every thread is of a stream, and that has a signature. *)
LEMMA ThreadSignature == \A t \in Threads : SigOf[t[1]] \in Signatures
<1> QED BY ThreadsAre, ModelPoolAssumption

(* A step of a stream's own thread moves no other thread. *)
LEMMA OwnMoves ==
  ASSUME TypeOK, NEW i \in Streams, NEW p, Goto(Own(i), p)
  PROVE  \A j \in Streams : /\ pc'[Own(j)] = IF j = i THEN p ELSE pc[Own(j)]
                            /\ pc'[Stopper(j)] = pc[Stopper(j)]
<1> QED BY DEF TypeOK, Goto, Threads, Own, Stopper

(* Nor does a step of stop(). *)
LEMMA StopMoves ==
  ASSUME TypeOK, NEW i \in Streams, NEW p, Goto(Stopper(i), p)
  PROVE  \A j \in Streams : /\ pc'[Stopper(j)] = IF j = i THEN p ELSE pc[Stopper(j)]
                            /\ pc'[Own(j)] = pc[Own(j)]
<1> QED BY DEF TypeOK, Goto, Threads, Own, Stopper

(* Which steps write a variable. *)
LEMMA Writers ==
  ASSUME [Next]_vars
  PROVE
    /\ UNCHANGED settings
    /\ \/ UNCHANGED <<lastUse, det, loaded, uses>> \/ Unload
       \/ \E i \in Streams : Acquire(i) \/ CannotLoad(i)
       \/ \E s \in Signatures : Warm(s)
    /\ \/ UNCHANGED refs \/ Unload
       \/ \E i \in Streams : Acquire(i)
       \/ \E s \in Signatures : Warm(s)
       \/ \E t \in Threads : DropModel(t) \/ ReleaseModel(t)
    /\ \/ UNCHANGED coordVars \/ StopPools
       \/ \E i \in Streams : Acquire(i)
       \/ \E t \in Threads : LeaveCoordinator(t)
    /\ \/ UNCHANGED pc
       \/ \E i \in Streams :
            \/ Acquire(i) \/ CannotLoad(i) \/ Opened(i) \/ CannotOpen(i)
            \/ EndLoop(i) \/ Drained(i) \/ StopStream(i) \/ Joined(i)
       \/ \E t \in Threads : Cleanup(t)
    /\ \/ UNCHANGED detOf
       \/ \E i \in Streams : Acquire(i)
       \/ \E t \in Threads : ReleaseModel(t)
    /\ \/ UNCHANGED coordOf
       \/ \E i \in Streams : Acquire(i)
       \/ \E t \in Threads : DropModel(t)
    /\ \/ UNCHANGED running
       \/ \E i \in Streams : Opened(i) \/ EndLoop(i) \/ StopStream(i)
    /\ \/ UNCHANGED inside
       \/ \E i \in Streams : Enter(i) \/ Leave(i)
    /\ \/ UNCHANGED overrun \/ StopPools
       \/ \E i \in Streams : Drained(i)
    /\ \/ UNCHANGED phase \/ StopPools \/ Unload
<1> QED BY DEF vars, settings, poolVars, coordVars, linkVars, flowVars, Next,
            StreamStep, Cleanup, Acquire, CannotLoad, Opened, CannotOpen, Enter,
            Leave, EndLoop, Drained, StopStream, Joined, LeaveCoordinator,
            DropModel, ReleaseModel, Warm, StopPools, Unload, LoadFails, Release

(* A stop() that was called stays called. *)
LEMMA OnceBefore ==
  ASSUME TypeOK, [Next]_vars, CleanedOnce' PROVE CleanedOnce
<1> SUFFICES ASSUME ~scheduling, NEW i \in Streams, pc[Stopper(i)] # "idle"
             PROVE  pc'[Stopper(i)] # "idle"
  BY Writers DEF CleanedOnce, settings
<1>1. ASSUME NEW j \in Streams,
             \/ Acquire(j) \/ CannotLoad(j) \/ Opened(j) \/ CannotOpen(j)
             \/ EndLoop(j) \/ Drained(j)
      PROVE  pc'[Stopper(i)] = pc[Stopper(i)]
  BY <1>1, OwnMoves DEF Acquire, CannotLoad, Opened, CannotOpen, EndLoop, Drained
<1>2. ASSUME NEW j \in Streams, StopStream(j) \/ Joined(j)
      PROVE  pc'[Stopper(i)] # "idle"
  BY <1>2, StopMoves DEF StopStream, Joined
<1>3. ASSUME NEW t \in Threads, Cleanup(t)
      PROVE  pc'[Stopper(i)] # "idle"
  <2>1. PICK j \in Streams : t = Own(j) \/ t = Stopper(j)
    BY ThreadsAre
  <2> QED BY <2>1, <1>3, OwnMoves, StopMoves
          DEF Cleanup, LeaveCoordinator, DropModel, ReleaseModel
<1> QED BY <1>1, <1>2, <1>3, Writers

(* While each stream is cleaned up once, its own thread does it. *)
LEMMA OwnCleans ==
  ASSUME PlacesOk, CleanedOnce, NEW t \in Threads, pc[t] \in {"cleanup", "drop"}
  PROVE  \E i \in Streams : t = Own(i)
<1> QED BY ThreadsAre DEF PlacesOk, CleanedOnce

-----------------------------------------------------------------------------
(* The pool *)

(* Only idle models are evicted. *)
LEMMA VictimsIdle == Victims \subseteq Idle
<1> QED BY DEF Victims

(* An acquire or a warm-up counts what it should, whether hit or miss. *)
LEMMA FetchCounts ==
  ASSUME TypeOK, PoolOk, NEW s \in Signatures, NEW r \in Nat, Fetch(s, r)
  PROVE  refs' = [refs EXCEPT ![s] = @ + r]
<1>1. CASE s \in Resident
  BY <1>1 DEF Fetch, Hit
<1>2. CASE s \notin Resident
  BY <1>2 DEF Fetch, Load, TypeOK, PoolOk
<1> QED BY <1>1, <1>2

(* It leaves the detectors of the models in use, and puts its own in. *)
LEMMA FetchKeeps ==
  ASSUME TypeOK, PoolOk, NEW s \in Signatures, NEW r \in Nat, Fetch(s, r)
  PROVE  /\ s \in Resident'
         /\ \A x \in Resident : refs[x] > 0 => x \in Resident' /\ det'[x] = det[x]
<1> USE VictimsIdle DEF TypeOK, PoolOk, Resident, Idle
<1>1. CASE s \in Resident
  BY <1>1 DEF Fetch, Hit
<1>2. CASE s \notin Resident
  BY <1>2 DEF Fetch, Load
<1> QED BY <1>1, <1>2

(* The pool stays well formed and holds all that is loaded. *)
LEMMA FetchPool ==
  ASSUME TypeOK, PoolOk, OnlyPooledIsLoaded,
         NEW s \in Signatures, NEW r \in Nat, Fetch(s, r)
  PROVE  PoolOk' /\ OnlyPooledIsLoaded'
<1> USE VictimsIdle DEF TypeOK, PoolOk, OnlyPooledIsLoaded, Resident, Idle
<1>1. CASE s \in Resident
  BY <1>1 DEF Fetch, Hit
<1>2. CASE s \notin Resident
  <2> USE <1>2 DEF Fetch, Load, Evict
  <2>1. PoolOk'
    OBVIOUS
  <2>2. Resident' = (Resident \ Victims) \union {s}
    OBVIOUS
  <2>3. OnlyPooledIsLoaded'
    BY <2>2
  <2> QED BY <2>1, <2>3
<1> QED BY <1>1, <1>2

-----------------------------------------------------------------------------
(* Every step keeps the invariant, a lemma for each part of it *)

(* Every step keeps the types. *)
LEMMA TypeKept ==
  ASSUME TypeOK, CoordOk, [Next]_vars PROVE TypeOK'
<1> USE ModelPoolAssumption DEF TypeOK
<1>1. /\ lastUse' \in [Signatures -> Nat] /\ refs' \in [Signatures -> Nat]
      /\ det' \in [Signatures -> Nat] /\ loaded' \subseteq Nat /\ uses' \in Nat
  <2> DEFINE Typed ==
        /\ lastUse' \in [Signatures -> Nat] /\ refs' \in [Signatures -> Nat]
        /\ det' \in [Signatures -> Nat] /\ loaded' \subseteq Nat /\ uses' \in Nat
  <2>1. ASSUME NEW s \in Signatures, NEW r \in Nat, Fetch(s, r) PROVE Typed
    <3>1. CASE Hit(s, r)
      BY <3>1 DEF Hit
    <3>2. CASE Load(s, r)
      <4>1. lastUse' \in [Signatures -> Nat]
        BY <3>2 DEF Load
      <4>2. refs' \in [Signatures -> Nat] /\ det' \in [Signatures -> Nat]
        BY <3>2 DEF Load
      <4>3. loaded' \subseteq Nat /\ uses' \in Nat
        <5>1. Evict \subseteq Nat
          BY DEF Evict
        <5> QED BY <3>2, <5>1 DEF Load
      <4> QED BY <4>1, <4>2, <4>3
    <3> QED BY <2>1, <3>1, <3>2 DEF Fetch
  <2>2. ASSUME NEW i \in Streams, Acquire(i) PROVE Typed
    <3>1. Fetch(SigOf[i], 1) /\ SigOf[i] \in Signatures
      BY <2>2 DEF Acquire
    <3> QED BY <2>1, <3>1
  <2>3. ASSUME NEW s \in Signatures, Warm(s) PROVE Typed
    BY <2>1, <2>3 DEF Warm
  <2>4. ASSUME NEW i \in Streams, CannotLoad(i) PROVE Typed
    BY <2>4 DEF CannotLoad, LoadFails, Evict
  <2>5. ASSUME NEW t \in Threads, DropModel(t) \/ ReleaseModel(t) PROVE Typed
    <3>1. PICK s \in Signatures : Release(s)
      BY <2>5, ThreadSignature DEF DropModel, ReleaseModel
    <3> QED BY <3>1 DEF Release
  <2>6. CASE Unload
    BY <2>6 DEF Unload
  <2>7. CASE UNCHANGED <<lastUse, refs, det, loaded, uses>>
    BY <2>7
  <2> QED BY <2>2, <2>3, <2>4, <2>5, <2>6, <2>7, Writers
<1>2. /\ coord' \in [Signatures -> Streams \union {None}]
      /\ members' \in [Streams -> Nat] /\ built' \in [Streams -> Nat]
      /\ stopped' \subseteq Streams
      /\ detOf' \in [Streams -> Nat]
      /\ coordOf' \in [Streams -> Streams \union {None}]
  <2> DEFINE Typed ==
        /\ coord' \in [Signatures -> Streams \union {None}]
        /\ members' \in [Streams -> Nat] /\ built' \in [Streams -> Nat]
        /\ stopped' \subseteq Streams
        /\ detOf' \in [Streams -> Nat]
        /\ coordOf' \in [Streams -> Streams \union {None}]
  <2>1. ASSUME NEW i \in Streams, Acquire(i) PROVE Typed
    <3>1. SigOf[i] \in Signatures /\ det'[SigOf[i]] \in Nat
      BY <1>1
    <3>2. CASE SharedLink(i) /\ coord[SigOf[i]] # None
      BY <3>1, <3>2 DEF SharedLink
    <3>3. CASE NewLink(i)
      BY <3>1, <3>3 DEF NewLink, coordVars
    <3> QED BY <2>1, <3>2, <3>3 DEF Acquire
  <2>2. ASSUME NEW t \in Threads, LeaveCoordinator(t) PROVE Typed
    <3>1. SigOf[t[1]] \in Signatures
      BY ThreadSignature
    <3>2. members' \in [Streams -> Nat] /\ coord' \in [Signatures -> Streams \union {None}]
      BY <2>2, <3>1 DEF LeaveCoordinator, Deregister
    <3>3. stopped' \subseteq Streams
      BY <2>2, <3>1 DEF LeaveCoordinator, Deregister
    <3> QED BY <2>2, <3>2, <3>3 DEF LeaveCoordinator, linkVars
  <2>3. ASSUME NEW t \in Threads, DropModel(t) \/ ReleaseModel(t) PROVE Typed
    BY <2>3 DEF DropModel, ReleaseModel, coordVars, linkVars
  <2>4. CASE StopPools
    BY <2>4 DEF StopPools, linkVars
  <2>5. CASE UNCHANGED <<coordVars, detOf, coordOf>>
    BY <2>5 DEF coordVars
  <2> QED BY <2>1, <2>2, <2>3, <2>4, <2>5, Writers
<1>3. pc' \in [Threads -> OwnPlaces \union StopPlaces]
  <2>1. ASSUME NEW t \in Threads, NEW p \in OwnPlaces \union StopPlaces, Goto(t, p)
        PROVE  pc' \in [Threads -> OwnPlaces \union StopPlaces]
    BY <2>1 DEF Goto
  <2>2. ASSUME NEW i \in Streams,
               \/ Acquire(i) \/ CannotLoad(i) \/ Opened(i) \/ CannotOpen(i)
               \/ EndLoop(i) \/ Drained(i)
        PROVE  \E p \in OwnPlaces : Goto(Own(i), p)
    BY <2>2 DEF Acquire, CannotLoad, Opened, CannotOpen, EndLoop, Drained, OwnPlaces
  <2>3. ASSUME NEW i \in Streams, StopStream(i) \/ Joined(i)
        PROVE  \E p \in StopPlaces : Goto(Stopper(i), p)
    BY <2>3 DEF StopStream, Joined, StopPlaces
  <2>4. ASSUME NEW t \in Threads, Cleanup(t)
        PROVE  \E p \in StopPlaces : Goto(t, p)
    BY <2>4 DEF Cleanup, LeaveCoordinator, DropModel, ReleaseModel, StopPlaces
  <2> QED BY <2>1, <2>2, <2>3, <2>4, ThreadsAre, Writers
<1>4. running' \subseteq Streams /\ inside' \subseteq Streams /\ overrun' \subseteq Streams
  BY Writers DEF Opened, EndLoop, StopStream, Enter, Leave, Drained, StopPools
<1>5. phase' \in {"up", "stopping", "down"}
  BY Writers DEF StopPools, Unload
<1> QED BY <1>1, <1>2, <1>3, <1>4, <1>5, Writers DEF settings

(* Loads, hits, evictions and the shutdown keep the pool well formed. *)
LEMMA PoolKept ==
  ASSUME TypeOK, PoolOk, OnlyPooledIsLoaded, [Next]_vars
  PROVE  PoolOk' /\ OnlyPooledIsLoaded'
<1>1. ASSUME NEW i \in Streams, Acquire(i) PROVE PoolOk' /\ OnlyPooledIsLoaded'
  BY <1>1, FetchPool, ModelPoolAssumption DEF Acquire
<1>2. ASSUME NEW s \in Signatures, Warm(s) PROVE PoolOk' /\ OnlyPooledIsLoaded'
  BY <1>2, FetchPool DEF Warm
<1> USE VictimsIdle DEF TypeOK, PoolOk, OnlyPooledIsLoaded, Resident, Idle
<1>3. ASSUME NEW i \in Streams, CannotLoad(i) PROVE PoolOk' /\ OnlyPooledIsLoaded'
  BY <1>3 DEF CannotLoad, LoadFails, Evict
<1>4. ASSUME NEW t \in Threads, DropModel(t) \/ ReleaseModel(t)
      PROVE  PoolOk' /\ OnlyPooledIsLoaded'
  BY <1>4 DEF DropModel, ReleaseModel, Release
<1>5. CASE Unload
  BY <1>5 DEF Unload
<1>6. CASE UNCHANGED <<lastUse, refs, det, loaded, uses>>
  BY <1>6
<1> QED BY <1>1, <1>2, <1>3, <1>4, <1>5, <1>6, Writers

(* Threads and flags stay where they may be. *)
LEMMA PlacesKept ==
  ASSUME TypeOK, PlacesOk, [Next]_vars
  PROVE  PlacesOk'
<1> USE DEF PlacesOk, OwnPlaces, StopPlaces, settings, flowVars, LoopFree
<1>1. ASSUME NEW i \in Streams,
             \/ Acquire(i) \/ CannotLoad(i) \/ Opened(i) \/ CannotOpen(i)
             \/ EndLoop(i) \/ Drained(i)
      PROVE  PlacesOk'
  BY <1>1, OwnMoves
     DEF Acquire, CannotLoad, Opened, CannotOpen, EndLoop, Drained
<1>2. ASSUME NEW i \in Streams, StopStream(i) \/ Joined(i)
      PROVE  PlacesOk'
  BY <1>2, StopMoves DEF StopStream, Joined
<1>3. ASSUME NEW t \in Threads, Cleanup(t) PROVE PlacesOk'
  <2>1. PICK i \in Streams : t = Own(i) \/ t = Stopper(i)
    BY ThreadsAre
  <2> QED BY <1>3, <2>1, OwnMoves, StopMoves
          DEF Cleanup, LeaveCoordinator, DropModel, ReleaseModel
<1>4. CASE StopPools \/ Unload
  BY <1>4 DEF StopPools, Unload
<1>5. CASE UNCHANGED <<settings, pc, running, phase>>
  BY <1>5
<1> QED BY <1>1, <1>2, <1>3, <1>4, <1>5, Writers DEF StopPools, Unload

(* The capture thread waits for the worker, shutdown() for the pool. *)
LEMMA FramesKept ==
  ASSUME TypeOK, PlacesOk, FramesOk, [Next]_vars
  PROVE  FramesOk'
<1> SUFFICES ASSUME CleanedOnce, CleanedOnce' PROVE FramesOk'
  BY OnceBefore DEF FramesOk
<1> USE DEF PlacesOk, FramesOk, settings, flowVars
<1>1. ASSUME NEW i \in Streams,
             Acquire(i) \/ CannotLoad(i) \/ Opened(i) \/ CannotOpen(i)
      PROVE  FramesOk'
  <2>1. \A j \in Streams \ {i} : pc'[Own(j)] = pc[Own(j)]
    BY <1>1, OwnMoves DEF Acquire, CannotLoad, Opened, CannotOpen
  <2>2. pc[Own(i)] \in {"new", "opening"} /\ UNCHANGED <<inside, overrun, phase, scheduling>>
    BY <1>1 DEF Acquire, CannotLoad, Opened, CannotOpen
  <2>3. running \subseteq running'
    BY <1>1 DEF Acquire, CannotLoad, Opened, CannotOpen
  <2> QED BY <2>1, <2>2, <2>3
<1>2. ASSUME NEW i \in Streams, StopStream(i) PROVE FramesOk'
  BY <1>2, StopMoves DEF StopStream, CleanedOnce
<1>3. ASSUME NEW i \in Streams, Joined(i) PROVE FramesOk'
  BY <1>3, StopMoves DEF Joined
<1>4. ASSUME NEW i \in Streams, EndLoop(i) PROVE FramesOk'
  <2>1. pc'[Own(i)] = IF scheduling THEN "draining" ELSE "cleanup"
    BY <1>4, OwnMoves DEF EndLoop
  <2>2. \A j \in Streams \ {i} : pc'[Own(j)] = pc[Own(j)]
    BY <1>4, OwnMoves DEF EndLoop
  <2> QED BY <1>4, <2>1, <2>2 DEF EndLoop
<1>5. ASSUME NEW i \in Streams, Drained(i) PROVE FramesOk'
  <2>1. \A j \in Streams \ {i} : pc'[Own(j)] = pc[Own(j)]
    BY <1>5, OwnMoves DEF Drained
  <2> QED BY <1>5, <2>1 DEF Drained
<1>6. ASSUME NEW t \in Threads, Cleanup(t) PROVE FramesOk'
  <2>1. PICK i \in Streams : t = Own(i)
    BY <1>6, OwnCleans DEF Cleanup, LeaveCoordinator, DropModel, ReleaseModel
  <2> QED BY <1>6, <2>1, OwnMoves
          DEF Cleanup, LeaveCoordinator, DropModel, ReleaseModel
<1>7. ASSUME NEW i \in Streams, Enter(i) \/ Leave(i) PROVE FramesOk'
  BY <1>7 DEF Enter, Leave
<1>8. CASE StopPools \/ Unload
  BY <1>8 DEF StopPools, Unload
<1>9. CASE UNCHANGED <<settings, pc, running, inside, overrun, phase>>
  BY <1>9
<1> QED BY <1>1, <1>2, <1>3, <1>4, <1>5, <1>6, <1>7, <1>8, <1>9, Writers
        DEF StopPools, Unload

(* Which steps change who holds a model and who is served. *)
LEMMA HoldingMoves ==
  ASSUME TypeOK, PlacesOk, CleanedOnce, [Next]_vars
  PROVE
    \/ \A j \in Streams : (Holding(j)' <=> Holding(j)) /\ (Serving(j)' <=> Serving(j))
    \/ \E i \in Streams :
         /\ \A j \in Streams \ {i} :
              (Holding(j)' <=> Holding(j)) /\ (Serving(j)' <=> Serving(j))
         /\ \/ Acquire(i) /\ ~Holding(i) /\ Serving(i)'
            \/ LeaveCoordinator(Own(i)) /\ Serving(i) /\ Holding(i)' /\ ~Serving(i)'
            \/ DropModel(Own(i)) /\ Holding(i) /\ ~Serving(i) /\ ~Holding(i)'
            \/ ReleaseModel(Own(i)) /\ Serving(i) /\ ~Holding(i)'
<1> USE DEF Holding, Serving
<1>1. ASSUME NEW i \in Streams, Acquire(i)
      PROVE  /\ ~Holding(i) /\ Serving(i)'
             /\ \A j \in Streams \ {i} :
                  (Holding(j)' <=> Holding(j)) /\ (Serving(j)' <=> Serving(j))
  BY <1>1, OwnMoves DEF Acquire
<1>2. ASSUME NEW i \in Streams,
             \/ CannotLoad(i) \/ Opened(i) \/ CannotOpen(i) \/ EndLoop(i) \/ Drained(i)
      PROVE  \A j \in Streams :
               (Holding(j)' <=> Holding(j)) /\ (Serving(j)' <=> Serving(j))
  BY <1>2, OwnMoves DEF CannotLoad, Opened, CannotOpen, EndLoop, Drained
<1>3. ASSUME NEW i \in Streams, StopStream(i) \/ Joined(i)
      PROVE  \A j \in Streams :
               (Holding(j)' <=> Holding(j)) /\ (Serving(j)' <=> Serving(j))
  BY <1>3, StopMoves DEF StopStream, Joined
<1>4. ASSUME NEW t \in Threads, Cleanup(t)
      PROVE  \E i \in Streams :
               /\ \A j \in Streams \ {i} :
                    (Holding(j)' <=> Holding(j)) /\ (Serving(j)' <=> Serving(j))
               /\ \/ LeaveCoordinator(Own(i)) /\ Serving(i) /\ Holding(i)' /\ ~Serving(i)'
                  \/ DropModel(Own(i)) /\ Holding(i) /\ ~Serving(i) /\ ~Holding(i)'
                  \/ ReleaseModel(Own(i)) /\ Serving(i) /\ ~Holding(i)'
  <2>1. PICK i \in Streams : t = Own(i)
    BY <1>4, OwnCleans DEF Cleanup, LeaveCoordinator, DropModel, ReleaseModel
  <2>2. \A j \in Streams \ {i} : pc'[Own(j)] = pc[Own(j)]
    BY <1>4, <2>1, OwnMoves DEF Cleanup, LeaveCoordinator, DropModel, ReleaseModel
  <2>3. CASE LeaveCoordinator(t)
    BY <2>1, <2>2, <2>3, OwnMoves DEF LeaveCoordinator
  <2>4. CASE DropModel(t)
    <3>1. pc[Own(i)] = "drop" /\ pc'[Own(i)] = "done"
      BY <2>1, <2>4, OwnMoves DEF DropModel
    <3>2. DropModel(Own(i))
      BY <2>1, <2>4
    <3> QED BY <2>2, <3>1, <3>2
  <2>5. CASE ReleaseModel(t)
    <3>1. pc[Own(i)] = "cleanup" /\ pc'[Own(i)] = "done"
      BY <2>1, <2>5, OwnMoves DEF ReleaseModel
    <3>2. ReleaseModel(Own(i))
      BY <2>1, <2>5
    <3> QED BY <2>2, <3>1, <3>2
  <2> QED BY <1>4, <2>3, <2>4, <2>5 DEF Cleanup
<1>5. CASE UNCHANGED pc
  BY <1>5
<1> QED BY <1>1, <1>2, <1>3, <1>4, <1>5, Writers

(* The holders of a model are finitely many. *)
LEMMA HoldersFinite ==
  \A s : IsFiniteSet(Holders(s)) /\ Cardinality(Holders(s)) \in Nat
<1>1. \A s : Holders(s) \subseteq Streams
  BY DEF Holders
<1> QED BY <1>1, FS_Subset, FS_CardinalityType, ModelPoolAssumption

(* So are the streams a coordinator serves. *)
LEMMA MembersFinite ==
  \A s : IsFiniteSet(Members(s)) /\ Cardinality(Members(s)) \in Nat
<1>1. \A s : Members(s) \subseteq Streams
  BY DEF Members
<1> QED BY <1>1, FS_Subset, FS_CardinalityType, ModelPoolAssumption

(* Where a stream holds a model, the count is positive. *)
LEMMA HeldIsCounted ==
  ASSUME CountIsHolders, CleanedOnce, phase # "down", NEW i \in Streams, Holding(i),
         SigOf[i] \in Signatures
  PROVE  refs[SigOf[i]] > 0
<1>1. i \in Holders(SigOf[i])
  BY DEF Holders
<1>2. Cardinality(Holders(SigOf[i])) # 0
  BY <1>1, HoldersFinite, FS_EmptySet
<1> QED BY <1>2, HoldersFinite DEF CountIsHolders

(* shutdown() does not go back. *)
LEMMA PhaseGoesOn ==
  ASSUME [Next]_vars
  PROVE  /\ phase' # "down" => phase # "down"
         /\ phase' = "up" => phase = "up"
<1> QED BY Writers DEF StopPools, Unload

(* A reference is taken where a holder comes and returned where one goes. *)
LEMMA CountKept ==
  ASSUME TypeOK, PoolOk, PlacesOk, CountIsHolders, [Next]_vars
  PROVE  CountIsHolders'
<1> SUFFICES ASSUME CleanedOnce, phase # "down", phase' # "down",
                    NEW s \in Signatures
             PROVE  refs'[s] = Cardinality(Holders(s)')
  BY OnceBefore, PhaseGoesOn DEF CountIsHolders
<1>1. refs[s] = Cardinality(Holders(s))
  BY DEF CountIsHolders
<1>2. ASSUME NEW i \in Streams, Acquire(i), ~Holding(i), Holding(i)',
             \A j \in Streams \ {i} : Holding(j)' <=> Holding(j)
      PROVE  refs'[s] = Cardinality(Holders(s)')
  <2>1. SigOf[i] \in Signatures
    BY ModelPoolAssumption
  <2>2. refs' = [refs EXCEPT ![SigOf[i]] = @ + 1]
    BY <1>2, <2>1, FetchCounts DEF Acquire
  <2>3. CASE s = SigOf[i]
    <3>1. Holders(s)' = Holders(s) \union {i} /\ i \notin Holders(s)
      BY <1>2, <2>3 DEF Holders
    <3>2. Cardinality(Holders(s)') = Cardinality(Holders(s)) + 1
      BY <3>1, HoldersFinite, FS_AddElement
    <3> QED BY <1>1, <2>1, <2>2, <2>3, <3>2 DEF TypeOK
  <2>4. CASE s # SigOf[i]
    <3>1. Holders(s)' = Holders(s)
      BY <1>2, <2>4 DEF Holders
    <3> QED BY <1>1, <2>2, <2>4, <3>1 DEF TypeOK
  <2> QED BY <2>3, <2>4
<1>3. ASSUME NEW i \in Streams, Release(SigOf[i]), Holding(i), ~Holding(i)',
             \A j \in Streams \ {i} : Holding(j)' <=> Holding(j)
      PROVE  refs'[s] = Cardinality(Holders(s)')
  <2>1. SigOf[i] \in Signatures
    BY ModelPoolAssumption
  <2>2. CASE s = SigOf[i]
    <3>1. Holders(s)' = Holders(s) \ {i} /\ i \in Holders(s)
      BY <1>3, <2>2 DEF Holders
    <3>2. Cardinality(Holders(s)') = Cardinality(Holders(s)) - 1
      BY <3>1, HoldersFinite, FS_RemoveElement
    <3>3. refs[s] > 0
      BY <1>3, <2>1, <2>2, HeldIsCounted
    <3> QED BY <1>1, <1>3, <2>1, <2>2, <3>2, <3>3 DEF TypeOK, Release
  <2>3. CASE s # SigOf[i]
    <3>1. Holders(s)' = Holders(s)
      BY <1>3, <2>3 DEF Holders
    <3> QED BY <1>1, <1>3, <2>3, <3>1 DEF TypeOK, Release
  <2> QED BY <2>2, <2>3
<1>4. ASSUME UNCHANGED refs, \A j \in Streams : Holding(j)' <=> Holding(j)
      PROVE  refs'[s] = Cardinality(Holders(s)')
  <2>1. Holders(s)' = Holders(s)
    BY <1>4 DEF Holders
  <2> QED BY <1>1, <1>4, <2>1
<1>5. ASSUME NEW r \in Signatures, Warm(r)
      PROVE  refs'[s] = Cardinality(Holders(s)')
  <2>1. refs' = [refs EXCEPT ![r] = @ + 0]
    BY <1>5, FetchCounts DEF Warm
  <2>2. UNCHANGED refs /\ UNCHANGED pc
    BY <1>5, <2>1 DEF TypeOK, Warm
  <2> QED BY <1>4, <2>2 DEF Holding
<1>6. ASSUME NEW i \in Streams, DropModel(Own(i)) \/ ReleaseModel(Own(i))
      PROVE  Release(SigOf[i])
  BY <1>6, ThreadsAre DEF DropModel, ReleaseModel
<1>7. ~Unload
  BY DEF Unload
<1>8. CASE \A j \in Streams : (Holding(j)' <=> Holding(j)) /\ (Serving(j)' <=> Serving(j))
  <2>1. ASSUME NEW i \in Streams, Acquire(i) PROVE FALSE
    BY <1>8, <2>1, OwnMoves DEF Acquire, Holding
  <2>2. ASSUME NEW t \in Threads, DropModel(t) \/ ReleaseModel(t) PROVE FALSE
    <3>1. PICK i \in Streams : t = Own(i)
      BY <2>2, OwnCleans DEF DropModel, ReleaseModel
    <3> QED BY <1>8, <2>2, <3>1, OwnMoves DEF DropModel, ReleaseModel, Holding
  <2> QED BY <1>4, <1>5, <1>7, <1>8, <2>1, <2>2, Writers
<1>9. CASE ~(\A j \in Streams : (Holding(j)' <=> Holding(j)) /\ (Serving(j)' <=> Serving(j)))
  <2>1. PICK i \in Streams :
          /\ \A j \in Streams \ {i} : Holding(j)' <=> Holding(j)
          /\ \/ Acquire(i) /\ ~Holding(i) /\ Holding(i)'
             \/ LeaveCoordinator(Own(i)) /\ Holding(i) /\ Holding(i)'
             \/ DropModel(Own(i)) /\ Holding(i) /\ ~Holding(i)'
             \/ ReleaseModel(Own(i)) /\ Holding(i) /\ ~Holding(i)'
    BY <1>9, HoldingMoves DEF Serving
  <2>2. LeaveCoordinator(Own(i)) => UNCHANGED refs
    BY DEF LeaveCoordinator, poolVars
  <2> QED BY <1>2, <1>3, <1>4, <1>6, <2>1, <2>2
<1> QED BY <1>8, <1>9

(* A model in use is neither evicted nor loaded anew, so its holders keep   *)
(* the detector they were given.                                            *)
LEMMA LinksKept ==
  ASSUME TypeOK, PoolOk, PlacesOk, LinksOk, CoordOk, ServedOk, CountIsHolders,
         [Next]_vars
  PROVE  LinksOk'
<1> SUFFICES ASSUME CleanedOnce, phase # "down", phase' # "down",
                    NEW j \in Streams, Holding(j)'
             PROVE  SigOf[j] \in Resident' /\ detOf'[j] = det'[SigOf[j]]
  BY OnceBefore, PhaseGoesOn DEF LinksOk
<1>1. SigOf[j] \in Signatures
  BY ModelPoolAssumption
<1>2. ASSUME Holding(j)
      PROVE  SigOf[j] \in Resident /\ detOf[j] = det[SigOf[j]] /\ refs[SigOf[j]] > 0
  BY <1>1, <1>2, HeldIsCounted DEF LinksOk
<1>3. ASSUME NEW s \in Signatures, NEW r \in Nat, Fetch(s, r), Holding(j)
      PROVE  SigOf[j] \in Resident' /\ det'[SigOf[j]] = det[SigOf[j]]
  BY <1>2, <1>3, FetchKeeps
<1>4. ASSUME NEW i \in Streams, Acquire(i), i # j
      PROVE  SigOf[j] \in Resident' /\ detOf'[j] = det'[SigOf[j]]
  <2>1. Holding(j)
    BY <1>4, OwnMoves DEF Acquire, Holding
  <2>2. detOf'[j] = detOf[j]
    BY <1>4 DEF Acquire, NewLink, SharedLink, TypeOK
  <2>3. Fetch(SigOf[i], 1) /\ SigOf[i] \in Signatures
    BY <1>4, ModelPoolAssumption DEF Acquire
  <2> QED BY <1>2, <1>3, <2>1, <2>2, <2>3
<1>5. CASE Acquire(j)
  <2>1. Fetch(SigOf[j], 1)
    BY <1>5 DEF Acquire
  <2>2. SigOf[j] \in Resident'
    BY <1>1, <2>1, FetchKeeps
  <2>3. CASE NewLink(j)
    BY <2>2, <2>3 DEF NewLink, TypeOK
  <2>4. CASE SharedLink(j) /\ batching /\ coord[SigOf[j]] # None
    <3> DEFINE c == coord[SigOf[j]]
    <3>1. members[c] = Cardinality(Members(SigOf[j])) /\ members[c] > 0
      BY <1>1, <2>4 DEF ServedOk
    <3>2. PICK i \in Members(SigOf[j]) : TRUE
      BY <3>1, FS_EmptySet
    <3>3. i \in Streams /\ SigOf[i] = SigOf[j] /\ Holding(i) /\ Serving(i)
      BY <3>2 DEF Members, Serving
    <3>4. phase = "up"
      BY <1>5 DEF Acquire
    <3>5. built[c] = detOf[i]
      BY <2>4, <3>3, <3>4 DEF ServedOk
    <3>6. SigOf[i] \in Resident /\ detOf[i] = det[SigOf[i]] /\ refs[SigOf[i]] > 0
      BY <1>1, <3>3, HeldIsCounted DEF LinksOk
    <3>7. det'[SigOf[j]] = det[SigOf[j]]
      BY <1>1, <2>1, <3>3, <3>6, FetchKeeps
    <3> QED BY <2>2, <2>4, <3>3, <3>5, <3>6, <3>7 DEF SharedLink, TypeOK
  <2> QED BY <1>5, <2>3, <2>4 DEF Acquire
<1>6. ASSUME NEW i \in Streams, CannotLoad(i)
      PROVE  SigOf[j] \in Resident' /\ detOf'[j] = det'[SigOf[j]]
  <2>1. Holding(j)
    BY <1>6, OwnMoves DEF CannotLoad, Holding
  <2> QED BY <1>1, <1>2, <1>6, <2>1, VictimsIdle
          DEF CannotLoad, LoadFails, linkVars, Resident, Idle, TypeOK
<1>7. ASSUME NEW s \in Signatures, Warm(s)
      PROVE  SigOf[j] \in Resident' /\ detOf'[j] = det'[SigOf[j]]
  <2>1. Holding(j) /\ UNCHANGED detOf /\ Fetch(s, 0)
    BY <1>7 DEF Warm, Holding, linkVars
  <2> QED BY <1>2, <1>3, <2>1
<1>8. ASSUME UNCHANGED <<lastUse, det>>, Holding(j), detOf'[j] = detOf[j]
      PROVE  SigOf[j] \in Resident' /\ detOf'[j] = det'[SigOf[j]]
  BY <1>2, <1>8 DEF Resident
<1>9. ~Unload
  BY DEF Unload
<1>10. CASE /\ \A i \in Streams : ~Acquire(i) /\ ~CannotLoad(i)
            /\ \A s \in Signatures : ~Warm(s)
  <2>1. UNCHANGED <<lastUse, det>>
    BY <1>9, <1>10, Writers
  <2>2. Holding(j)
    <3>1. \/ Holding(j)' <=> Holding(j)
          \/ LeaveCoordinator(Own(j)) /\ Holding(j)
          \/ (DropModel(Own(j)) \/ ReleaseModel(Own(j))) /\ ~Holding(j)'
      BY <1>10, HoldingMoves DEF Serving
    <3> QED BY <3>1
  <2>3. ASSUME NEW t \in Threads, ReleaseModel(t) PROVE detOf'[j] = detOf[j]
    <3>1. PICK i \in Streams : t = Own(i)
      BY <2>3, OwnCleans DEF ReleaseModel
    <3>2. i # j
      BY <2>3, <3>1, OwnMoves DEF ReleaseModel, Holding
    <3>3. t[1] = i
      BY <3>1, ThreadsAre
    <3> QED BY <2>3, <3>2, <3>3 DEF ReleaseModel, TypeOK
  <2>4. detOf'[j] = detOf[j]
    BY <1>10, <2>3, Writers
  <2> QED BY <1>8, <2>1, <2>2, <2>4
<1> QED BY <1>4, <1>5, <1>6, <1>7, <1>10

(* A coordinator is new when it is made and dead when it leaves the registry. *)
LEMMA CoordKept ==
  ASSUME TypeOK, PlacesOk, CoordOk, [Next]_vars
  PROVE  CoordOk'
<1> USE ModelPoolAssumption DEF TypeOK, CoordOk, settings, coordVars
<1>1. ASSUME NEW i \in Streams, Acquire(i) PROVE CoordOk'
  <2>1. /\ pc'[Own(i)] = "opening" /\ pc[Own(i)] = "new"
        /\ \A j \in Streams \ {i} : pc'[Own(j)] = pc[Own(j)]
    BY <1>1, OwnMoves DEF Acquire
  <2>2. UNCHANGED <<batching, phase>> /\ phase = "up"
    BY <1>1 DEF Acquire, flowVars
  <2>3. CASE SharedLink(i)
    BY <2>1, <2>2, <2>3 DEF SharedLink
  <2>4. CASE NewLink(i)
    BY <2>1, <2>2, <2>4 DEF NewLink
  <2> QED BY <1>1, <2>3, <2>4 DEF Acquire
<1>2. ASSUME NEW i \in Streams,
             \/ CannotLoad(i) \/ Opened(i) \/ CannotOpen(i) \/ EndLoop(i) \/ Drained(i)
      PROVE  CoordOk'
  <2>1. pc[Own(i)] = "new" \/ pc'[Own(i)] \notin {"new", "refused"}
    BY <1>2, OwnMoves DEF CannotLoad, Opened, CannotOpen, EndLoop, Drained
  <2>2. \A j \in Streams \ {i} : pc'[Own(j)] = pc[Own(j)]
    BY <1>2, OwnMoves DEF CannotLoad, Opened, CannotOpen, EndLoop, Drained
  <2>3. UNCHANGED <<batching, phase, coord, stopped>>
    BY <1>2 DEF CannotLoad, Opened, CannotOpen, EndLoop, Drained, flowVars
  <2> QED BY <2>1, <2>2, <2>3
<1>3. ASSUME NEW i \in Streams, StopStream(i) \/ Joined(i) PROVE CoordOk'
  <2>1. \A j \in Streams : pc'[Own(j)] = pc[Own(j)]
    BY <1>3, StopMoves DEF StopStream, Joined
  <2>2. UNCHANGED <<batching, phase, coord, stopped>>
    BY <1>3 DEF StopStream, Joined, flowVars
  <2> QED BY <2>1, <2>2
<1>4. ASSUME NEW t \in Threads, Cleanup(t) PROVE CoordOk'
  <2>1. UNCHANGED <<batching, phase>>
    BY <1>4 DEF Cleanup, LeaveCoordinator, DropModel, ReleaseModel, flowVars
  <2>2. \A j \in Streams : pc'[Own(j)] \in {"new", "refused"} => pc'[Own(j)] = pc[Own(j)]
    <3>1. PICK i \in Streams : t = Own(i) \/ t = Stopper(i)
      BY ThreadsAre
    <3> QED BY <1>4, <3>1, OwnMoves, StopMoves
            DEF Cleanup, LeaveCoordinator, DropModel, ReleaseModel
  <2>3. CASE UNCHANGED <<coord, stopped>>
    BY <2>1, <2>2, <2>3
  <2>4. ASSUME LeaveCoordinator(t), coord[SigOf[t[1]]] # None PROVE CoordOk'
    <3> DEFINE s == SigOf[t[1]]
    <3>1. s \in Signatures
      BY ThreadSignature
    <3>2. CASE members[coord[s]] <= 1
      <4>1. /\ coord' = [coord EXCEPT ![s] = None]
            /\ stopped' = stopped \union {coord[s]}
        BY <2>4, <3>2 DEF LeaveCoordinator, Deregister
      <4> QED BY <2>1, <2>2, <2>4, <3>1, <4>1
    <3>3. CASE ~(members[coord[s]] <= 1)
      BY <2>3, <2>4, <3>3 DEF LeaveCoordinator, Deregister
    <3> QED BY <3>2, <3>3
  <2> QED BY <1>4, <2>3, <2>4 DEF Cleanup, LeaveCoordinator, DropModel, ReleaseModel
<1>5. CASE StopPools
  <2>1. UNCHANGED <<batching, pc>>
    BY <1>5 DEF StopPools
  <2> QED BY <1>5, <2>1 DEF StopPools
<1>6. CASE Unload
  BY <1>6 DEF Unload
<1>7. CASE UNCHANGED <<settings, coordVars, pc, phase>>
  BY <1>7
<1>8. \A t \in Threads : LeaveCoordinator(t) => Cleanup(t)
  BY DEF Cleanup
<1> QED BY <1>1, <1>2, <1>3, <1>4, <1>5, <1>6, <1>7, <1>8, Writers

(* The coordinator in the registry counts the streams it serves, and they   *)
(* use its detector.                                                        *)
LEMMA ServedKept ==
  ASSUME TypeOK, PlacesOk, CoordOk, ServedOk, [Next]_vars
  PROVE  ServedOk'
<1> SUFFICES ASSUME CleanedOnce PROVE ServedOk'
  BY OnceBefore DEF ServedOk
<1> DEFINE Counted(s) ==
      coord[s] # None =>
        members[coord[s]] = Cardinality(Members(s)) /\ members[coord[s]] > 0
           Linked(i) ==
      batching /\ phase = "up" /\ Serving(i) =>
        /\ coordOf[i] = coord[SigOf[i]] /\ coordOf[i] # None
        /\ built[coordOf[i]] = detOf[i]
<1>0. /\ \A s \in Signatures : Counted(s)
      /\ \A i \in Streams : Linked(i)
  BY DEF ServedOk
<1>q. SUFFICES /\ \A s \in Signatures : Counted(s)'
               /\ \A i \in Streams : Linked(i)'
  BY DEF ServedOk
<1>1. ASSUME NEW i \in Streams, Acquire(i), ~Serving(i), Serving(i)',
             \A j \in Streams \ {i} : Serving(j)' <=> Serving(j)
      PROVE  /\ \A s \in Signatures : Counted(s)'
             /\ \A j \in Streams : Linked(j)'
  <2> DEFINE s == SigOf[i]
  <2> HIDE DEF s
  <2>1. s \in Signatures /\ s = SigOf[i]
    BY ModelPoolAssumption DEF s
  <2>2. phase = "up" /\ UNCHANGED <<batching, phase>>
    BY <1>1 DEF Acquire, settings, flowVars
  <2>3. Members(s)' = Members(s) \union {i} /\ i \notin Members(s)
    BY <1>1, <2>1 DEF Members
  <2>4. Cardinality(Members(s)') = Cardinality(Members(s)) + 1
    BY <2>3, MembersFinite, FS_AddElement
  <2>5. \A r \in Signatures \ {s} : Members(r)' = Members(r)
    BY <1>1, <2>1 DEF Members
  <2>6. \A r \in Signatures : coord[r] # None => SigOf[coord[r]] = r
    BY DEF CoordOk
  <2>7. CASE batching /\ coord[s] # None
    <3>1. SharedLink(i)
      BY <1>1, <2>1, <2>7 DEF Acquire
    <3>2. /\ coord' = coord /\ built' = built
          /\ members' = [members EXCEPT ![coord[s]] = @ + 1]
          /\ detOf' = [detOf EXCEPT ![i] = built[coord[s]]]
          /\ coordOf' = [coordOf EXCEPT ![i] = coord[s]]
      BY <2>1, <3>1 DEF SharedLink
    <3>3. \A r \in Signatures : Counted(r)'
      <4>1. Counted(s)'
        BY <1>0, <2>1, <2>4, <2>7, <3>2, MembersFinite DEF TypeOK
      <4>2. ASSUME NEW r \in Signatures \ {s} PROVE Counted(r)'
        BY <1>0, <2>1, <2>5, <2>6, <2>7, <3>2 DEF TypeOK
      <4> QED BY <4>1, <4>2
    <3>4. \A j \in Streams : Linked(j)'
      BY <1>0, <1>1, <2>1, <2>2, <2>7, <3>2 DEF TypeOK
    <3> QED BY <3>3, <3>4
  <2>8. CASE batching /\ coord[s] = None
    <3>1. NewLink(i)
      BY <1>1, <2>1, <2>8 DEF Acquire
    <3>2. /\ coord' = [coord EXCEPT ![s] = i]
          /\ members' = [members EXCEPT ![i] = 1]
          /\ built' = [built EXCEPT ![i] = det'[s]]
          /\ detOf' = [detOf EXCEPT ![i] = det'[s]]
          /\ coordOf' = [coordOf EXCEPT ![i] = i]
      BY <2>1, <2>8, <3>1 DEF NewLink
    <3>3. \A r \in Signatures : coord[r] # i
      BY <1>1 DEF CoordOk, Acquire
    <3>4. Members(s) = {}
      <4>1. \A j \in Streams : SigOf[j] = s => ~Serving(j)
        BY <1>0, <2>2, <2>8
      <4> QED BY <4>1 DEF Members
    <3>5. Cardinality(Members(s)') = 1
      BY <2>4, <3>4, FS_EmptySet
    <3>6. i # None
      BY ModelPoolAssumption
    <3>7. \A r \in Signatures : Counted(r)'
      <4>1. Counted(s)'
        BY <2>1, <3>2, <3>5 DEF TypeOK
      <4>2. ASSUME NEW r \in Signatures \ {s} PROVE Counted(r)'
        BY <1>0, <2>1, <2>5, <3>2, <3>3 DEF TypeOK
      <4> QED BY <4>1, <4>2
    <3>8. Linked(i)'
      BY <2>1, <3>2, <3>6 DEF TypeOK
    <3>9. ASSUME NEW j \in Streams \ {i} PROVE Linked(j)'
      <4>1. ASSUME batching, phase = "up", Serving(j)
            PROVE  /\ SigOf[j] # s /\ coordOf[j] = coord[SigOf[j]]
                   /\ coordOf[j] # None /\ coordOf[j] # i
                   /\ built[coordOf[j]] = detOf[j] /\ coordOf[j] \in Streams
        BY <1>0, <2>8, <3>3, <4>1, ModelPoolAssumption DEF TypeOK
      <4> QED BY <1>1, <2>1, <2>2, <3>2, <4>1, ModelPoolAssumption DEF TypeOK
    <3> QED BY <3>7, <3>8, <3>9
  <2>9. CASE ~batching
    <3>1. \A r \in Signatures : coord[r] = None
      BY <2>9 DEF CoordOk
    <3>2. UNCHANGED coord
      BY <1>1, <2>9 DEF Acquire, NewLink, coordVars
    <3> QED BY <2>2, <2>9, <3>1, <3>2
  <2> QED BY <2>7, <2>8, <2>9 DEF TypeOK
<1>2. ASSUME NEW i \in Streams, LeaveCoordinator(Own(i)), Serving(i), ~Serving(i)',
             \A j \in Streams \ {i} : Serving(j)' <=> Serving(j)
      PROVE  /\ \A s \in Signatures : Counted(s)'
             /\ \A j \in Streams : Linked(j)'
  <2> DEFINE s == SigOf[i]
  <2> HIDE DEF s
  <2>1. s \in Signatures /\ s = SigOf[i] /\ s = SigOf[Own(i)[1]]
    BY ModelPoolAssumption, ThreadsAre DEF s
  <2>2. UNCHANGED <<batching, phase, built, detOf, coordOf>>
    BY <1>2 DEF LeaveCoordinator, settings, flowVars, linkVars
  <2>3. CASE coord[s] = None
    <3>1. UNCHANGED <<coord, members>>
      BY <1>2, <2>1, <2>3 DEF LeaveCoordinator
    <3>2. ASSUME NEW r \in Signatures, coord[r] # None PROVE Members(r)' = Members(r)
      BY <1>2, <2>1, <2>3, <3>2 DEF Members
    <3> QED BY <1>0, <1>2, <2>2, <3>1, <3>2
  <2>4. CASE coord[s] # None
    <3>1. Deregister(s)
      BY <1>2, <2>1, <2>4 DEF LeaveCoordinator
    <3>2. Members(s)' = Members(s) \ {i} /\ i \in Members(s)
      BY <1>2, <2>1 DEF Members
    <3>3. Cardinality(Members(s)') = Cardinality(Members(s)) - 1
      BY <3>2, MembersFinite, FS_RemoveElement
    <3>4. \A r \in Signatures \ {s} : Members(r)' = Members(r)
      BY <1>2, <2>1 DEF Members
    <3>5. members[coord[s]] = Cardinality(Members(s)) /\ members[coord[s]] > 0
      BY <1>0, <2>1, <2>4
    <3>6. coord[s] \in Streams
      BY <2>1, <2>4 DEF TypeOK
    <3>7. members' = [members EXCEPT ![coord[s]] = @ - 1]
      BY <3>1, <3>5, <3>6 DEF Deregister, TypeOK
    <3>8. \A r \in Signatures \ {s} : coord[r] # None => coord[r] # coord[s]
      BY <2>1, <2>4 DEF CoordOk
    <3>9. CASE members[coord[s]] = 1
      <4>1. coord' = [coord EXCEPT ![s] = None]
        BY <3>1, <3>9 DEF Deregister
      <4>2. Members(s)' = {}
        BY <3>2, <3>3, <3>5, <3>9, MembersFinite, FS_EmptySet, FS_RemoveElement
      <4>3. \A r \in Signatures : Counted(r)'
        BY <1>0, <2>1, <3>4, <3>7, <3>8, <4>1 DEF TypeOK
      <4>4. \A j \in Streams : SigOf[j] = s => ~Serving(j)'
        BY <4>2 DEF Members
      <4> QED BY <1>0, <1>2, <2>1, <2>2, <4>1, <4>3, <4>4, ModelPoolAssumption DEF TypeOK
    <3>10. CASE members[coord[s]] # 1
      <4>1. coord' = coord /\ members[coord[s]] > 1
        BY <3>1, <3>5, <3>6, <3>10 DEF Deregister, TypeOK
      <4>2. Counted(s)'
        BY <3>3, <3>5, <3>6, <3>7, <4>1, MembersFinite DEF TypeOK
      <4>3. \A r \in Signatures \ {s} : Counted(r)'
        BY <1>0, <3>4, <3>7, <3>8, <4>1 DEF TypeOK
      <4> QED BY <1>0, <1>2, <2>2, <4>1, <4>2, <4>3
    <3> QED BY <3>9, <3>10
  <2> QED BY <2>3, <2>4
<1>3. ASSUME UNCHANGED <<batching, phase, coord, members, built, detOf>>,
             \A j \in Streams : Serving(j)' <=> Serving(j),
             \A j \in Streams : Serving(j) => coordOf'[j] = coordOf[j]
      PROVE  /\ \A s \in Signatures : Counted(s)'
             /\ \A j \in Streams : Linked(j)'
  <2>1. \A s \in Signatures : Members(s)' = Members(s)
    BY <1>3 DEF Members
  <2> QED BY <1>0, <1>3, <2>1
<1>4. ASSUME (~batching \/ phase' # "up"), UNCHANGED batching,
             \A s \in Signatures : coord'[s] = None
      PROVE  /\ \A s \in Signatures : Counted(s)'
             /\ \A j \in Streams : Linked(j)'
  BY <1>4
<1>5. ASSUME NEW i \in Streams, ReleaseModel(Own(i)), Serving(i)
      PROVE  /\ \A s \in Signatures : Counted(s)'
             /\ \A j \in Streams : Linked(j)'
  <2>1. coordOf[i] = None /\ UNCHANGED <<batching, phase, coord>>
    BY <1>5, ThreadsAre DEF ReleaseModel, settings, flowVars, coordVars
  <2>2. ~batching \/ phase # "up"
    BY <1>0, <1>5, <2>1
  <2> QED BY <1>4, <2>1, <2>2 DEF CoordOk
<1>6. ASSUME NEW i \in Streams, DropModel(Own(i)), ~Serving(i), ~Serving(i)',
             \A j \in Streams \ {i} : Serving(j)' <=> Serving(j)
      PROVE  /\ \A s \in Signatures : Counted(s)'
             /\ \A j \in Streams : Linked(j)'
  <2>1. UNCHANGED <<batching, phase, coord, members, built, detOf>>
    BY <1>6 DEF DropModel, settings, flowVars, coordVars
  <2>2. \A j \in Streams \ {i} : coordOf'[j] = coordOf[j]
    BY <1>6, ThreadsAre DEF DropModel, TypeOK
  <2> QED BY <1>3, <1>6, <2>1, <2>2
<1>7. CASE StopPools \/ Unload
  <2>1. phase' # "up" /\ UNCHANGED batching
    BY <1>7 DEF StopPools, Unload, settings
  <2>2. \A s \in Signatures : coord'[s] = None
    BY <1>7 DEF StopPools, Unload, CoordOk, coordVars
  <2> QED BY <1>4, <2>1, <2>2
<1>8. CASE /\ ~StopPools /\ ~Unload
           /\ \A j \in Streams : (Holding(j)' <=> Holding(j)) /\ (Serving(j)' <=> Serving(j))
  <2>1. ASSUME NEW i \in Streams, Acquire(i) PROVE FALSE
    BY <1>8, <2>1, OwnMoves DEF Acquire, Holding
  <2>2. ASSUME NEW t \in Threads, Cleanup(t) PROVE FALSE
    <3>1. PICK i \in Streams : t = Own(i)
      BY <2>2, OwnCleans DEF Cleanup, LeaveCoordinator, DropModel, ReleaseModel
    <3>2. pc[Own(i)] \in {"cleanup", "drop"} /\ pc'[Own(i)] \in {"drop", "done"}
          /\ pc[Own(i)] # pc'[Own(i)]
      BY <2>2, <3>1, OwnMoves DEF Cleanup, LeaveCoordinator, DropModel, ReleaseModel
    <3> QED BY <1>8, <3>2 DEF Holding, Serving
  <2>3. \A t \in Threads : ~DropModel(t) /\ ~ReleaseModel(t) /\ ~LeaveCoordinator(t)
    BY <2>2 DEF Cleanup
  <2>4. UNCHANGED <<batching, phase, coord, members, built, detOf, coordOf>>
    BY <1>8, <2>1, <2>3, Writers DEF settings, coordVars
  <2> QED BY <1>3, <1>8, <2>4
<1>9. CASE ~(\A j \in Streams : (Holding(j)' <=> Holding(j)) /\ (Serving(j)' <=> Serving(j)))
  <2>1. PICK i \in Streams :
          /\ \A j \in Streams \ {i} : Serving(j)' <=> Serving(j)
          /\ \/ Acquire(i) /\ ~Serving(i) /\ Serving(i)'
             \/ LeaveCoordinator(Own(i)) /\ Serving(i) /\ ~Serving(i)'
             \/ DropModel(Own(i)) /\ ~Serving(i) /\ ~Serving(i)'
             \/ ReleaseModel(Own(i)) /\ Serving(i)
    BY <1>9, HoldingMoves DEF Serving
  <2> QED BY <1>1, <1>2, <1>5, <1>6, <2>1
<1> QED BY <1>7, <1>8, <1>9

-----------------------------------------------------------------------------
(* Theorems *)

(* The initial states satisfy the invariant. *)
LEMMA InitHolds == Init => TypeOK /\ PoolInv
<1> SUFFICES ASSUME Init PROVE TypeOK /\ PoolInv
  OBVIOUS
<1> USE ModelPoolAssumption, ThreadsAre DEF Init
<1>1. pc = [t \in Threads |-> IF t[2] = "own" THEN "new" ELSE "idle"]
  OBVIOUS
<1>2. \A i \in Streams : pc[Own(i)] = "new" /\ pc[Stopper(i)] = "idle"
  BY <1>1 DEF Own, Stopper
<1>3. \A i \in Streams : ~Holding(i) /\ ~Serving(i)
  BY <1>2 DEF Holding, Serving
<1>4. \A s : Holders(s) = {}
  BY <1>3 DEF Holders
<1>5. TypeOK
  BY <1>1 DEF TypeOK, OwnPlaces, StopPlaces
<1>6. Resident = {}
  BY DEF Resident
<1>7. PoolOk /\ OnlyPooledIsLoaded
  BY <1>6 DEF PoolOk, OnlyPooledIsLoaded
<1>8. PlacesOk /\ FramesOk
  BY <1>2 DEF PlacesOk, FramesOk, OwnPlaces, StopPlaces
<1>9. LinksOk /\ CoordOk /\ ServedOk
  BY <1>3 DEF LinksOk, CoordOk, ServedOk
<1>10. CountIsHolders
  BY <1>4, FS_EmptySet DEF CountIsHolders
<1> QED BY <1>5, <1>7, <1>8, <1>9, <1>10 DEF PoolInv

(* So does every state a step leads to. *)
LEMMA InvKept ==
  TypeOK /\ PoolInv /\ [Next]_vars => TypeOK' /\ PoolInv'
<1> QED BY TypeKept, PoolKept, PlacesKept, FramesKept, CountKept, LinksKept,
            CoordKept, ServedKept DEF PoolInv

(* The invariant behind the properties below. *)
THEOREM PoolInvariant == Spec => [](TypeOK /\ PoolInv)
<1> QED BY InitHolds, InvKept, PTL DEF Spec

(* The variables keep their types: no count of the pool or of a coordinator *)
(* ever falls below zero, however often a stream is cleaned up.             *)
THEOREM TypeCorrect == Spec => []TypeOK
<1>1. TypeOK /\ PoolInv => TypeOK
  OBVIOUS
<1> QED BY <1>1, PoolInvariant, PTL

(* As long as each stream is cleaned up once, the pool's count of a model   *)
(* is the number of the streams that hold it.                               *)
THEOREM CountsAreRight == Spec => []CountIsHolders
<1>1. TypeOK /\ PoolInv => CountIsHolders
  BY DEF PoolInv
<1> QED BY <1>1, PoolInvariant, PTL

(* What is in memory is what the pool knows, whatever fails, and nothing    *)
(* after shutdown().                                                        *)
THEOREM NothingLeaks == Spec => []OnlyPooledIsLoaded
<1>1. TypeOK /\ PoolInv => OnlyPooledIsLoaded
  BY DEF PoolInv
<1> QED BY <1>1, PoolInvariant, PTL

(* A stream that holds a model has it loaded. *)
LEMMA HeldIsLoaded == TypeOK /\ PoolInv => HeldStaysLoaded
<1> QED BY DEF PoolInv, HeldStaysLoaded, LinksOk, OnlyPooledIsLoaded

(* No model is unloaded while a stream that is cleaned up once holds it. *)
THEOREM HeldModelsStay == Spec => []HeldStaysLoaded
<1> QED BY HeldIsLoaded, PoolInvariant, PTL

(* No frame is inside a detector that was unloaded, unless the wait for it  *)
(* ran out.                                                                 *)
THEOREM PassesHaveModels == Spec => []PassHasModel
<1>1. TypeOK /\ PoolInv => PassHasModel
  <2> SUFFICES ASSUME TypeOK, PoolInv, CleanedOnce, NEW i \in inside \ overrun
               PROVE  detOf[i] \in loaded
    BY DEF PassHasModel
  <2>1. i \in Streams /\ Holding(i) /\ phase # "down"
    BY DEF TypeOK, PoolInv, FramesOk, Holding
  <2> QED BY <2>1, HeldIsLoaded DEF HeldStaysLoaded
<1> QED BY <1>1, PoolInvariant, PTL

(* Streams of one signature share a detector and, with batching, the one    *)
(* live coordinator.                                                        *)
THEOREM SharingIsSound == Spec => []SharersShare
<1>1. TypeOK /\ PoolInv => SharersShare
  <2> SUFFICES ASSUME TypeOK, PoolInv, CleanedOnce, phase = "up",
                      NEW i \in Streams, Holding(i)
               PROVE  /\ \A j \in Holders(SigOf[i]) : detOf[j] = detOf[i]
                      /\ batching /\ pc[Own(i)] # "drop" =>
                           coordOf[i] = coord[SigOf[i]] /\ coordOf[i] \notin stopped
    BY DEF SharersShare
  <2>1. \A j \in Holders(SigOf[i]) : detOf[j] = detOf[i]
    BY DEF PoolInv, LinksOk, Holders
  <2>2. ASSUME batching, pc[Own(i)] # "drop"
        PROVE  coordOf[i] = coord[SigOf[i]] /\ coordOf[i] \notin stopped
    BY <2>2, ModelPoolAssumption DEF PoolInv, ServedOk, CoordOk, Serving
  <2> QED BY <2>1, <2>2
<1> QED BY <1>1, PoolInvariant, PTL
=============================================================================
