------------------------------ MODULE ModelPool ------------------------------
(***************************************************************************)
(* The shared detectors of one process: the pool of                        *)
(* backend/model_manager.py, the coordinators that                         *)
(* backend/batching.py keeps per detector signature, and the streams of    *)
(* backend/service.py that acquire them in start() and give them back in   *)
(* _cleanup().                                                             *)
(*                                                                         *)
(* A stream is one InferenceStream object and acquires at most once, so a  *)
(* coordinator is named by the stream whose acquire() made it.  Every load *)
(* and every hit is numbered: a detector is named by the number of its     *)
(* load, and the order of an OrderedDict is that of the numbers of the     *)
(* last uses.                                                              *)
(*                                                                         *)
(* Two threads may run _cleanup() of a stream: its own and, without the    *)
(* scheduler, the one inside stop().  ModelManager._lock and               *)
(* BatchManager._lock make their critical sections one step each.          *)
(***************************************************************************)
EXTENDS Integers, FiniteSets

CONSTANTS
  Streams,      (* InferenceStream objects                                 *)
  Signatures,   (* detector_signature() of the configurations in use       *)
  SigOf,        (* the signature of each stream                            *)
  MaxLoaded,    (* max_loaded                                              *)
  Warmable,     (* bound: the signatures somebody calls warm() on          *)
  WarmBound,    (* bound: and the number of uses before the last such call *)
  Stoppable,    (* bound: the streams somebody calls stop() on             *)
  None

ASSUME ModelPoolAssumption ==
  /\ IsFiniteSet(Streams) /\ IsFiniteSet(Signatures)
  /\ SigOf \in [Streams -> Signatures]
  /\ MaxLoaded \in Nat \ {0}
  /\ Warmable \subseteq Signatures /\ WarmBound \in Nat
  /\ Stoppable \subseteq Streams
  /\ None \notin Streams

VARIABLES
  batching,     (* settings, read once: batching_enabled                   *)
  scheduling,   (*   and scheduler_enabled; model_manager_enabled is on    *)
  lastUse,      (* _entries: number of the last use, 0 for no entry        *)
  refs,         (* entry.refcount                                          *)
  det,          (* entry.detector                                          *)
  loaded,       (* detectors whose model and provider are set              *)
  uses,         (* how many loads and hits there were                      *)
  coord,        (* BatchManager._coordinator: a coordinator or None        *)
  members,      (* coordinator._stream_count                               *)
  built,        (* coordinator.detector                                    *)
  stopped,      (* coordinators that were told to stop                     *)
  pc,           (* where each stream's own thread and its stop() are       *)
  detOf,        (* stream.detector, 0 for None                             *)
  coordOf,      (* stream._coordinator                                     *)
  running,      (* streams whose is_running is set                         *)
  inside,       (* streams with a frame inside _process_frame()            *)
  overrun,      (* history: a bounded wait for a worker ran out            *)
  phase         (* how far shutdown() is: up, stopping, down               *)

settings  == <<batching, scheduling>>
poolVars  == <<lastUse, refs, det, loaded, uses>>
coordVars == <<coord, members, built, stopped>>
linkVars  == <<detOf, coordOf>>
flowVars  == <<running, inside, overrun, phase>>
vars == <<settings, poolVars, coordVars, pc, linkVars, flowVars>>

Own(i)     == <<i, "own">>     (* the thread that runs the stream          *)
Stopper(i) == <<i, "stop">>    (* the thread inside stop()                 *)
Threads    == Streams \X {"own", "stop"}

Init ==
  /\ batching \in BOOLEAN /\ scheduling \in BOOLEAN
  /\ lastUse = [s \in Signatures |-> 0]
  /\ refs    = [s \in Signatures |-> 0]
  /\ det     = [s \in Signatures |-> 0]
  /\ loaded = {} /\ uses = 0
  /\ coord   = [s \in Signatures |-> None]
  /\ members = [i \in Streams |-> 0]
  /\ built   = [i \in Streams |-> 0]
  /\ stopped = {}
  /\ pc      = [t \in Threads |-> IF t[2] = "own" THEN "new" ELSE "idle"]
  /\ detOf   = [i \in Streams |-> 0]
  /\ coordOf = [i \in Streams |-> None]
  /\ running = {} /\ inside = {} /\ overrun = {}
  /\ phase = "up"

Goto(t, where) == pc' = [pc EXCEPT ![t] = where]

-----------------------------------------------------------------------------
(* The pool *)

Resident == {s \in Signatures : lastUse[s] > 0}
Idle     == {s \in Resident : refs[s] = 0}

(* Mutant: the pool may fill before anything is evicted. *)
ExcessLate == Cardinality(Resident) - MaxLoaded

(* How many models must go before one more is inserted. *)
Excess == Cardinality(Resident) - MaxLoaded + 1

(* Mutant: the least recently used models go, in use or not. *)
VictimsInUse ==
  {s \in Resident : Cardinality({r \in Resident : lastUse[r] < lastUse[s]}) < Excess}

(* The loop of _evict_locked(): the least recently used idle ones, as many  *)
(* as needed or as there are.                                               *)
Victims ==
  {s \in Idle : Cardinality({r \in Idle : lastUse[r] < lastUse[s]}) < Excess}

Evict == loaded \ {det[v] : v \in Victims}

(* A miss: make room, load, insert with r references. *)
Load(s, r) ==
  /\ lastUse' = [x \in Signatures |->
                   IF x = s THEN uses + 1 ELSE IF x \in Victims THEN 0 ELSE lastUse[x]]
  /\ refs'   = [refs EXCEPT ![s] = r]
  /\ det'    = [det EXCEPT ![s] = uses + 1]
  /\ loaded' = Evict \union {uses + 1}
  /\ uses'   = uses + 1

(* Mutant: a hit takes no reference. *)
HitUncounted(s, r) ==
  /\ lastUse' = [lastUse EXCEPT ![s] = uses + 1]
  /\ uses' = uses + 1
  /\ UNCHANGED <<refs, det, loaded>>

(* A hit: r more references, most recently used. *)
Hit(s, r) ==
  /\ lastUse' = [lastUse EXCEPT ![s] = uses + 1]
  /\ refs' = [refs EXCEPT ![s] = @ + r]
  /\ uses' = uses + 1
  /\ UNCHANGED <<det, loaded>>

Fetch(s, r) == IF s \in Resident THEN Hit(s, r) ELSE Load(s, r)

(* The factory raises: what was evicted stays so, nothing is inserted. *)
LoadFails(s) ==
  /\ s \notin Resident
  /\ lastUse' = [x \in Signatures |-> IF x \in Victims THEN 0 ELSE lastUse[x]]
  /\ loaded' = Evict
  /\ UNCHANGED <<refs, det, uses>>

(* Mutant: the count is not kept from going below zero. *)
ReleaseUnchecked(s) ==
  /\ refs' = [refs EXCEPT ![s] = @ - 1]
  /\ UNCHANGED <<lastUse, det, loaded, uses>>

Release(s) ==
  /\ refs' = [refs EXCEPT ![s] = IF @ > 0 THEN @ - 1 ELSE 0]
  /\ UNCHANGED <<lastUse, det, loaded, uses>>

Warm(s) ==
  /\ phase = "up" /\ s \in Warmable /\ uses < WarmBound
  /\ Fetch(s, 0)
  /\ UNCHANGED <<settings, coordVars, pc, linkVars, flowVars>>

-----------------------------------------------------------------------------
(* start(): acquire, open the source, run *)

(* Requests start streams on the event loop, one call at a time. *)
LoopFree == \A i \in Streams : pc[Own(i)] # "opening"

(* Without batching, or for the first stream of a signature: the detector   *)
(* is what the pool returns.                                                *)
NewLink(i) ==
  LET s == SigOf[i] IN
  /\ detOf' = [detOf EXCEPT ![i] = det'[s]]
  /\ IF batching
     THEN /\ coord'   = [coord EXCEPT ![s] = i]
          /\ members' = [members EXCEPT ![i] = 1]
          /\ built'   = [built EXCEPT ![i] = det'[s]]
          /\ coordOf' = [coordOf EXCEPT ![i] = i]
          /\ UNCHANGED stopped
     ELSE UNCHANGED <<coordVars, coordOf>>

(* With a coordinator at hand its detector is used and the pool's answer    *)
(* ignored.                                                                 *)
SharedLink(i) ==
  LET c == coord[SigOf[i]] IN
  /\ detOf'   = [detOf EXCEPT ![i] = built[c]]
  /\ coordOf' = [coordOf EXCEPT ![i] = c]
  /\ members' = [members EXCEPT ![c] = @ + 1]
  /\ UNCHANGED <<coord, built, stopped>>

Acquire(i) ==
  /\ phase = "up" /\ pc[Own(i)] = "new" /\ LoopFree
  /\ Goto(Own(i), "opening")
  /\ Fetch(SigOf[i], 1)
  /\ IF batching /\ coord[SigOf[i]] # None THEN SharedLink(i) ELSE NewLink(i)
  /\ UNCHANGED <<settings, flowVars>>

CannotLoad(i) ==
  /\ phase = "up" /\ pc[Own(i)] = "new" /\ LoopFree
  /\ Goto(Own(i), "refused")
  /\ LoadFails(SigOf[i])
  /\ UNCHANGED <<settings, coordVars, linkVars, flowVars>>

Opened(i) ==
  /\ pc[Own(i)] = "opening"
  /\ Goto(Own(i), "running")
  /\ running' = running \union {i}
  /\ UNCHANGED <<settings, poolVars, coordVars, linkVars, inside, overrun, phase>>

(* The source cannot be opened: start() raises and nothing is given back. *)
CannotOpen(i) ==
  /\ pc[Own(i)] = "opening"
  /\ Goto(Own(i), "failed")
  /\ UNCHANGED <<settings, poolVars, coordVars, linkVars, flowVars>>

-----------------------------------------------------------------------------
(* Frames and the end of the loop *)

(* A frame passes the test of is_running and is processed, by the stream's  *)
(* thread or, with the scheduler, by a worker that has its channel.         *)
Enter(i) ==
  /\ pc[Own(i)] = "running" /\ i \notin inside
  /\ IF scheduling THEN phase = "up" ELSE i \in running
  /\ inside' = inside \union {i}
  /\ UNCHANGED <<settings, poolVars, coordVars, pc, linkVars, running, overrun, phase>>

Leave(i) ==
  /\ i \in inside
  /\ inside' = inside \ {i}
  /\ UNCHANGED <<settings, poolVars, coordVars, pc, linkVars, running, overrun, phase>>

(* Mutant: the capture thread does not wait for the worker. *)
EndLoopAtOnce(i) ==
  /\ pc[Own(i)] = "running"
  /\ scheduling \/ i \notin inside
  /\ Goto(Own(i), "cleanup")
  /\ running' = running \ {i}
  /\ UNCHANGED <<settings, poolVars, coordVars, linkVars, inside, overrun, phase>>

(* The source ends, a frame raises or the flag is clear. *)
EndLoop(i) ==
  /\ pc[Own(i)] = "running"
  /\ scheduling \/ i \notin inside
  /\ Goto(Own(i), IF scheduling THEN "draining" ELSE "cleanup")
  /\ running' = running \ {i}
  /\ UNCHANGED <<settings, poolVars, coordVars, linkVars, inside, overrun, phase>>

(* unregister() returns: the worker left the frame, or five seconds passed. *)
Drained(i) ==
  /\ pc[Own(i)] = "draining"
  /\ Goto(Own(i), "cleanup")
  /\ overrun' = IF i \in inside THEN overrun \union {i} ELSE overrun
  /\ UNCHANGED <<settings, poolVars, coordVars, linkVars, running, inside, phase>>

StopStream(i) ==
  /\ i \in Stoppable \intersect running /\ pc[Stopper(i)] = "idle"
  /\ Goto(Stopper(i), "join")
  /\ running' = running \ {i}
  /\ UNCHANGED <<settings, poolVars, coordVars, linkVars, inside, overrun, phase>>

(* The join returns: the thread ended, or stop_timeout_seconds passed.      *)
(* With the scheduler stop() has nothing left to do.                        *)
Joined(i) ==
  /\ ~scheduling /\ pc[Stopper(i)] = "join"
  /\ Goto(Stopper(i), "cleanup")
  /\ UNCHANGED <<settings, poolVars, coordVars, linkVars, flowVars>>

-----------------------------------------------------------------------------
(* _cleanup() *)

(* Mutant: the first stream to leave stops the coordinator. *)
DeregisterFirst(s) ==
  /\ coord' = [coord EXCEPT ![s] = None]
  /\ stopped' = stopped \union {coord[s]}
  /\ UNCHANGED members

(* unregister(), and stop() when the last stream left. *)
Deregister(s) ==
  LET c == coord[s]
      last == members[c] <= 1
  IN
  /\ members' = [members EXCEPT ![c] = IF @ > 0 THEN @ - 1 ELSE 0]
  /\ coord'   = IF last THEN [coord EXCEPT ![s] = None] ELSE coord
  /\ stopped' = IF last THEN stopped \union {c} ELSE stopped

(* BatchManager.release() up to the end of its lock. *)
LeaveCoordinator(t) ==
  LET s == SigOf[t[1]] IN
  /\ pc[t] = "cleanup" /\ coordOf[t[1]] # None
  /\ Goto(t, "drop")
  /\ IF coord[s] = None THEN UNCHANGED <<coord, members, stopped>> ELSE Deregister(s)
  /\ UNCHANGED <<settings, poolVars, built, linkVars, flowVars>>

(* Its last line and _coordinator = None.  The other cleanup, if there is   *)
(* one, may have read _coordinator before.                                  *)
DropModel(t) ==
  /\ pc[t] = "drop"
  /\ Goto(t, "done")
  /\ Release(SigOf[t[1]])
  /\ coordOf' = [coordOf EXCEPT ![t[1]] = None]
  /\ UNCHANGED <<settings, coordVars, detOf, flowVars>>

(* No coordinator, or not any more: _detector_signature is still set. *)
ReleaseModel(t) ==
  /\ pc[t] = "cleanup" /\ coordOf[t[1]] = None
  /\ Goto(t, "done")
  /\ Release(SigOf[t[1]])
  /\ detOf' = [detOf EXCEPT ![t[1]] = 0]
  /\ UNCHANGED <<settings, coordVars, coordOf, flowVars>>

Cleanup(t) == LeaveCoordinator(t) \/ DropModel(t) \/ ReleaseModel(t)

-----------------------------------------------------------------------------
(* The end of shutdown(), when no stream has its flag set any more *)

(* scheduler.stop() waits for the workers, for five seconds; stop_all(). *)
StopPools ==
  /\ phase = "up" /\ running = {} /\ LoopFree
  /\ phase' = "stopping"
  /\ overrun' = IF scheduling THEN overrun \union inside ELSE overrun
  /\ coord' = [s \in Signatures |-> None]
  /\ stopped' = stopped \union ({coord[s] : s \in Signatures} \ {None})
  /\ UNCHANGED <<settings, poolVars, members, built, pc, linkVars, running, inside>>

(* Mutant: a model somebody still refers to is left alone. *)
UnloadIdle ==
  /\ phase = "stopping"
  /\ phase' = "down"
  /\ lastUse' = [s \in Signatures |-> 0]
  /\ refs'    = [s \in Signatures |-> 0]
  /\ loaded'  = loaded \ {det[s] : s \in Idle}
  /\ UNCHANGED <<settings, det, uses, coordVars, pc, linkVars, running, inside, overrun>>

(* shutdown_model_manager(): empty the pool, unload what was in it. *)
Unload ==
  /\ phase = "stopping"
  /\ phase' = "down"
  /\ lastUse' = [s \in Signatures |-> 0]
  /\ refs'    = [s \in Signatures |-> 0]
  /\ loaded'  = loaded \ {det[s] : s \in Resident}
  /\ UNCHANGED <<settings, det, uses, coordVars, pc, linkVars, running, inside, overrun>>

-----------------------------------------------------------------------------
StreamStep(i) ==
  \/ Acquire(i) \/ CannotLoad(i) \/ Opened(i) \/ CannotOpen(i)
  \/ Enter(i) \/ Leave(i) \/ EndLoop(i) \/ Drained(i)
  \/ StopStream(i) \/ Joined(i)

Next ==
  \/ \E i \in Streams : StreamStep(i)
  \/ \E t \in Threads : Cleanup(t)
  \/ \E s \in Signatures : Warm(s)
  \/ StopPools \/ Unload

Spec == Init /\ [][Next]_vars

-----------------------------------------------------------------------------
(* Properties *)

OwnPlaces ==
  {"new", "opening", "refused", "failed", "running", "draining",
   "cleanup", "drop", "done"}

StopPlaces == {"idle", "join", "cleanup", "drop", "done"}

(* The values of the variables; a reference count is never negative         *)
(* (model_manager.py:101), however often a stream is cleaned up.            *)
TypeOK ==
  /\ batching \in BOOLEAN /\ scheduling \in BOOLEAN
  /\ lastUse \in [Signatures -> Nat]
  /\ refs \in [Signatures -> Nat]
  /\ det \in [Signatures -> Nat]
  /\ loaded \subseteq Nat /\ uses \in Nat
  /\ coord \in [Signatures -> Streams \union {None}]
  /\ members \in [Streams -> Nat]
  /\ built \in [Streams -> Nat]
  /\ stopped \subseteq Streams
  /\ pc \in [Threads -> OwnPlaces \union StopPlaces]
  /\ detOf \in [Streams -> Nat]
  /\ coordOf \in [Streams -> Streams \union {None}]
  /\ running \subseteq Streams /\ inside \subseteq Streams /\ overrun \subseteq Streams
  /\ phase \in {"up", "stopping", "down"}

(* A stream holds a reference from acquire() until _cleanup() returns it;   *)
(* one whose source could not be opened holds it for ever.                  *)
Holding(i) ==
  pc[Own(i)] \in {"opening", "failed", "running", "draining", "cleanup", "drop"}

Holders(s) == {i \in Streams : SigOf[i] = s /\ Holding(i)}

(* Every stream is cleaned up by one thread: the scheduler is in use, or    *)
(* stop() was never called.                                                 *)
CleanedOnce == scheduling \/ \A i \in Streams : pc[Stopper(i)] = "idle"

(* The count of each model is the number of streams that hold it: across    *)
(* hits, misses, evictions, coordinators, failed starts and late cleanups   *)
(* (model_manager.py:82,90,101), as long as each is cleaned up once.        *)
CountIsHolders ==
  CleanedOnce /\ phase # "down" => \A s \in Signatures : refs[s] = Cardinality(Holders(s))

(* A stream that holds a model is never left with one whose weights were    *)
(* dropped, whatever is loaded meanwhile (model_manager.py:12-13).          *)
HeldStaysLoaded ==
  CleanedOnce /\ phase # "down" =>
    \A i \in Streams : Holding(i) => detOf[i] \in loaded

(* No frame is inside a detector that was unloaded, even at shutdown        *)
(* (service.py:250-255, 1231-1238), unless the wait for it ran out.         *)
PassHasModel ==
  CleanedOnce => \A i \in inside \ overrun : detOf[i] \in loaded

(* Streams of one signature use one detector and, with batching, one live   *)
(* coordinator, the registered one (batching.py:222-240, 242-252).          *)
SharersShare ==
  CleanedOnce /\ phase = "up" =>
    \A i \in Streams :
      /\ Holding(i) => \A j \in Holders(SigOf[i]) : detOf[j] = detOf[i]
      /\ batching /\ Holding(i) /\ pc[Own(i)] # "drop" =>
           coordOf[i] = coord[SigOf[i]] /\ coordOf[i] \notin stopped

(* Nothing is in memory but what the pool knows, and nothing at all after   *)
(* shutdown (model_manager.py:116-123, 149-166): no interleaving and no     *)
(* failed load makes the pool lose a model without unloading it.            *)
OnlyPooledIsLoaded == loaded = {det[s] : s \in Resident}

(* The cap is passed only when every other model is in use                  *)
(* (model_manager.py:152-154).                                              *)
OverCapOnlyInUse ==
  [][\A s \in Signatures :
       s \in Resident' \ Resident /\ Cardinality(Resident') > MaxLoaded =>
         \A r \in Resident' \ {s} : refs'[r] > 0]_vars

(* What the header of model_manager.py (lines 12-13) says: a model a live   *)
(* stream still holds is never evicted.                                     *)
LiveModelIsLoaded ==
  phase = "up" => \A i \in running : detOf[i] \in loaded
=============================================================================
