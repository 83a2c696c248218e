---------------------------- MODULE StreamService ----------------------------
(***************************************************************************)
(* The life of streams on one replica: InferenceService's registry in      *)
(* backend/service.py, the threads of its streams, the threads that stop   *)
(* them and the leases they hold.                                          *)
(*                                                                         *)
(* An instance is one InferenceStream object, one life of a stream id.     *)
(* start_stream(), list_streams() and the checks they make run on the      *)
(* event loop, one call at a time; stop_stream() runs on any number of     *)
(* threads: one per request and one per lost lease.                        *)
(*                                                                         *)
(* A lease is what the LeaseManager's registry says of the id: module      *)
(* Ownership has its key, its heartbeats and the other replicas.           *)
(***************************************************************************)
EXTENDS Naturals, FiniteSets

CONSTANTS
  Ids,         (* stream ids                                               *)
  Lives,       (* bound: how many streams are created under an id          *)
  Stoppers,    (* threads that call stop_stream()                          *)
  Boss,        (* the one of them that runs shutdown()                     *)
  None,        (* no instance                                              *)
  JoinExpires, (* may a bounded thread join time out?                      *)
  RowsPruned   (* are the rows of ended sessions deleted by an operator    *)
               (* before their id is used again?                           *)

(* The InferenceStream objects: an id and the number of the life. *)
Instances == Ids \X (1 .. Lives)
IdOf(i) == i[1]

ASSUME ServiceAssumption ==
  /\ Lives \in Nat
  /\ Boss \in Stoppers
  /\ None \notin Instances
  /\ JoinExpires \in BOOLEAN /\ RowsPruned \in BOOLEAN

VARIABLES
  streams,   (* the registry: id -> instance or None                       *)
  stopping,  (* _stopping                                                  *)
  lease,     (* id -> none, held, or lost (still registered, known lost)   *)
  rows,      (* ids with a row in stream_sessions, whose id is unique      *)
  running,   (* InferenceStream.is_running                                 *)
  tpc,       (* an instance's thread: new, loop, ended, done               *)
  spc,       (* where the event loop is in a call                          *)
  starting,  (* the instance it starts, None for list_streams()            *)
  reaped,    (* the streams reap_finished() has popped and joins           *)
  kpc,       (* where each stop_stream() call is                           *)
  kOf,       (* the stream it looked up                                    *)
  alarms,    (* ids whose lease-lost thread has yet to call stop_stream()  *)
  phase,     (* shutdown: up, stopping, down                               *)
  todo,      (* the ids shutdown() has yet to stop                         *)
  overlapped (* history: ids that two stop_stream() calls stopped together *)

registry  == <<streams, stopping>>
threads   == <<running, tpc>>
eventLoop == <<spc, starting, reaped>>
stops     == <<kpc, kOf, overlapped>>
closing   == <<phase, todo>>
vars == <<registry, lease, rows, threads, eventLoop, stops, alarms, closing>>

Init ==
  /\ streams = [s \in Ids |-> None] /\ stopping = {}
  /\ lease = [s \in Ids |-> "none"]
  /\ rows = {}
  /\ running = [i \in Instances |-> FALSE]
  /\ tpc = [i \in Instances |-> "new"]
  /\ spc = "idle" /\ starting = None /\ reaped = {}
  /\ kpc = [k \in Stoppers |-> "idle"]
  /\ kOf = [k \in Stoppers |-> None]
  /\ alarms = {}
  /\ phase = "up" /\ todo = {}
  /\ overlapped = {}

-----------------------------------------------------------------------------
(* The event loop: list_streams() and start_stream() *)

(* Mutant: shutdown() does not turn new streams away. *)
MayAlwaysCall(i) == spc = "idle"

(* start_stream() refuses when the service is shutting down. *)
MayCall(i) == spc = "idle" /\ (i # None => phase = "up")

(* The streams reap_finished() drops: flag clear and not being stopped. *)
Finishers ==
  {i \in Instances : streams[IdOf(i)] = i /\ ~running[i] /\ IdOf(i) \notin stopping}

(* reap_finished(), called first by list_streams() and by start_stream(i):  *)
(* pop under the lock, then join each.                                      *)
Reap(i) ==
  /\ MayCall(i)
  /\ i # None => tpc[i] = "new" /\ \A n \in 1 .. i[2] - 1 : tpc[<<IdOf(i), n>>] # "new"
  /\ spc' = "reaping" /\ starting' = i /\ reaped' = Finishers
  /\ streams' = [s \in Ids |-> IF streams[s] \in Finishers THEN None ELSE streams[s]]
  /\ UNCHANGED <<stopping, lease, rows, threads, stops, alarms, closing>>

Joined(i) == tpc[i] = "done" \/ JoinExpires

Idle == spc' = "idle" /\ starting' = None /\ reaped' = {}

Listed ==
  /\ spc = "reaping" /\ starting = None /\ \A i \in reaped : Joined(i)
  /\ Idle
  /\ UNCHANGED <<registry, lease, rows, threads, stops, alarms, closing>>

(* "already exists" *)
Refuse ==
  /\ spc = "reaping" /\ starting # None /\ \A i \in reaped : Joined(i)
  /\ streams[IdOf(starting)] # None
  /\ Idle
  /\ UNCHANGED <<registry, lease, rows, threads, stops, alarms, closing>>

(* A lease that is registered and not lost is returned as it is; otherwise  *)
(* Redis grants it or not.                                                  *)
Acquire ==
  /\ spc = "reaping" /\ starting # None /\ \A i \in reaped : Joined(i)
  /\ streams[IdOf(starting)] = None
  /\ \/ /\ lease' = [lease EXCEPT ![IdOf(starting)] = "held"]
        /\ spc' = "leased" /\ reaped' = {} /\ UNCHANGED starting
     \/ /\ lease[IdOf(starting)] # "held"
        /\ Idle /\ UNCHANGED lease
  /\ UNCHANGED <<registry, rows, threads, stops, alarms, closing>>

(* stream.start(): components, flag and thread; or the source cannot be     *)
(* opened and start_stream() raises, keeping the lease.                     *)
Launch ==
  /\ spc = "leased"
  /\ spc' = "launched"
  /\ running' = [running EXCEPT ![starting] = TRUE]
  /\ tpc' = [tpc EXCEPT ![starting] = "loop"]
  /\ UNCHANGED <<registry, lease, rows, starting, reaped, stops, alarms, closing>>

CannotOpen ==
  /\ spc = "leased"
  /\ tpc' = [tpc EXCEPT ![starting] = "failed"]
  /\ Idle
  /\ UNCHANGED <<registry, lease, rows, running, stops, alarms, closing>>

(* The session row goes in after the thread has started.  A row of an       *)
(* earlier session of the id makes the insert fail and start_stream() raise.*)
InsertRow ==
  /\ spc = "launched"
  /\ IF IdOf(starting) \in rows /\ ~RowsPruned
     THEN Idle /\ UNCHANGED rows
     ELSE /\ rows' = rows \union {IdOf(starting)}
          /\ spc' = "recorded" /\ UNCHANGED <<starting, reaped>>
  /\ UNCHANGED <<registry, lease, threads, stops, alarms, closing>>

Register ==
  /\ spc = "recorded"
  /\ streams' = [streams EXCEPT ![IdOf(starting)] = starting]
  /\ Idle
  /\ UNCHANGED <<stopping, lease, rows, threads, stops, alarms, closing>>

-----------------------------------------------------------------------------
(* An instance's thread *)

(* The source ends, a frame raises, or the cleared flag is noticed; the     *)
(* finally block clears the flag before it waits for the scheduler and      *)
(* tears the components down.                                               *)
EndLoop(i) ==
  /\ tpc[i] = "loop"
  /\ tpc' = [tpc EXCEPT ![i] = "ended"]
  /\ running' = [running EXCEPT ![i] = FALSE]
  /\ UNCHANGED <<registry, lease, rows, eventLoop, stops, alarms, closing>>

(* LeaseManager.release.  A renewal in flight may find the key just deleted *)
(* and report the released lease as lost.                                   *)
ReleaseLease(s) ==
  /\ lease' = [lease EXCEPT ![s] = "none"]
  /\ \/ UNCHANGED alarms
     \/ lease[s] = "held" /\ phase = "up" /\ alarms' = alarms \union {s}

(* Mutant: the callback does not look for a newer stream of the id. *)
DropsAny(i) == IdOf(i) \notin stopping /\ streams[IdOf(i)] # None

(* _handle_stream_finished leaves the id alone while somebody stops it, or  *)
(* if the registry has another stream for it.                               *)
DropsItself(i) == IdOf(i) \notin stopping /\ streams[IdOf(i)] = i

(* Mutant: stop_stream() joins with the registry lock held, for which the   *)
(* callback waits.                                                          *)
CallsBackUnlessJoined(i) == tpc[i] = "ended" /\ \A k \in Stoppers : kpc[k] # "join"

CallsBack(i) == tpc[i] = "ended"

Finished(i) ==
  /\ CallsBack(i)
  /\ tpc' = [tpc EXCEPT ![i] = "done"]
  /\ IF DropsItself(i)
     THEN /\ streams' = [streams EXCEPT ![IdOf(i)] = None]
          /\ ReleaseLease(IdOf(i))
     ELSE UNCHANGED <<streams, lease, alarms>>
  /\ UNCHANGED <<stopping, rows, running, eventLoop, stops, closing>>

-----------------------------------------------------------------------------
(* stop_stream() *)

Busy(k, s) == kpc[k] # "idle" /\ IdOf(kOf[k]) = s

(* Mutant: no "not found". *)
LookupAny(k, s) ==
  /\ kpc[k] = "idle"
  /\ stopping' = stopping \union {s}
  /\ kpc' = [kpc EXCEPT ![k] = "flag"]
  /\ kOf' = [kOf EXCEPT ![k] = streams[s]]
  /\ UNCHANGED overlapped

(* Look the stream up and mark the id, under the registry lock. *)
Lookup(k, s) ==
  /\ kpc[k] = "idle" /\ streams[s] # None
  /\ stopping' = stopping \union {s}
  /\ kpc' = [kpc EXCEPT ![k] = "flag"]
  /\ kOf' = [kOf EXCEPT ![k] = streams[s]]
  /\ overlapped' = IF \E m \in Stoppers : Busy(m, s) THEN overlapped \union {s}
                   ELSE overlapped

(* Mutant: the id is marked before it is looked up. *)
MarkedNotFound(s) == stopping' = stopping \union {s} /\ UNCHANGED stops

(* ValueError *)
NotFound(s) == UNCHANGED <<stopping, stops>>

UserStops(k, s) ==
  /\ k # Boss /\ Lookup(k, s)
  /\ UNCHANGED <<streams, lease, rows, threads, eventLoop, alarms, closing>>

(* The heartbeat thread learns that the lease is lost; its callback starts  *)
(* a thread that stops the stream.                                          *)
LoseLease(s) ==
  /\ lease[s] = "held" /\ phase = "up"
  /\ lease' = [lease EXCEPT ![s] = "lost"]
  /\ alarms' = alarms \union {s}
  /\ UNCHANGED <<registry, rows, threads, eventLoop, stops, closing>>

(* That thread finds the stream, or nothing to stop. *)
StopLost(k, s) ==
  /\ k # Boss /\ s \in alarms /\ kpc[k] = "idle"
  /\ alarms' = alarms \ {s}
  /\ IF streams[s] # None THEN Lookup(k, s) ELSE NotFound(s)
  /\ UNCHANGED <<streams, lease, rows, threads, eventLoop, closing>>

(* Mutant: the thread is told to stop, not waited for. *)
ClearFlagOnly(k) ==
  /\ kpc[k] = "flag"
  /\ kpc' = [kpc EXCEPT ![k] = "release"]
  /\ running' = [running EXCEPT ![kOf[k]] = FALSE]
  /\ UNCHANGED <<registry, lease, rows, tpc, eventLoop, kOf, overlapped, alarms, closing>>

(* InferenceStream.stop(): a stream whose flag is clear is not joined. *)
ClearFlag(k) ==
  /\ kpc[k] = "flag"
  /\ kpc' = [kpc EXCEPT ![k] = IF running[kOf[k]] THEN "join" ELSE "release"]
  /\ running' = [running EXCEPT ![kOf[k]] = FALSE]
  /\ UNCHANGED <<registry, lease, rows, tpc, eventLoop, kOf, overlapped, alarms, closing>>

Join(k) ==
  /\ kpc[k] = "join" /\ Joined(kOf[k])
  /\ kpc' = [kpc EXCEPT ![k] = "release"]
  /\ UNCHANGED <<registry, lease, rows, threads, eventLoop, kOf, overlapped, alarms, closing>>

(* The lease is released by id, whoever acquired it. *)
Release(k) ==
  /\ kpc[k] = "release"
  /\ ReleaseLease(IdOf(kOf[k]))
  /\ kpc' = [kpc EXCEPT ![k] = "drop"]
  /\ UNCHANGED <<registry, rows, threads, eventLoop, kOf, overlapped, closing>>

(* Mutant: pop without asking for whom. *)
DeregisterAny(s, i) ==
  /\ streams' = [streams EXCEPT ![s] = None]
  /\ stopping' = stopping \ {s}

(* A newer stream that reused the id is not removed. *)
Deregister(s, i) ==
  /\ streams' = [streams EXCEPT ![s] = IF @ = i THEN None ELSE @]
  /\ stopping' = stopping \ {s}

Drop(k) ==
  /\ kpc[k] = "drop"
  /\ Deregister(IdOf(kOf[k]), kOf[k])
  /\ kpc' = [kpc EXCEPT ![k] = "idle"]
  /\ kOf' = [kOf EXCEPT ![k] = None]
  /\ UNCHANGED <<lease, rows, threads, eventLoop, overlapped, alarms, closing>>

-----------------------------------------------------------------------------
(* shutdown(), called when the event loop serves no more requests *)

Shutdown ==
  /\ phase = "up" /\ spc = "idle"
  /\ phase' = "stopping"
  /\ todo' = {s \in Ids : streams[s] # None}
  /\ UNCHANGED <<registry, lease, rows, threads, eventLoop, stops, alarms>>

(* An id that has left the registry meanwhile raises, and its lease is      *)
(* released.                                                                *)
StopNext(s) ==
  /\ phase = "stopping" /\ s \in todo /\ kpc[Boss] = "idle"
  /\ todo' = todo \ {s}
  /\ IF streams[s] # None
     THEN Lookup(Boss, s) /\ UNCHANGED lease
     ELSE lease' = [lease EXCEPT ![s] = "none"] /\ NotFound(s)
  /\ UNCHANGED <<streams, rows, threads, eventLoop, alarms, phase>>

ReleaseAll ==
  /\ phase = "stopping" /\ todo = {} /\ kpc[Boss] = "idle"
  /\ phase' = "down"
  /\ lease' = [s \in Ids |-> "none"]
  /\ UNCHANGED <<registry, rows, threads, eventLoop, stops, alarms, todo>>

-----------------------------------------------------------------------------

Serve ==
  \/ \E i \in Instances \union {None} : Reap(i)
  \/ Listed \/ Refuse \/ Acquire \/ Launch \/ CannotOpen \/ InsertRow \/ Register

Thread(i) == EndLoop(i) \/ Finished(i)

StopStep(k) == ClearFlag(k) \/ Join(k) \/ Release(k) \/ Drop(k)

Next ==
  \/ Serve
  \/ \E i \in Instances : Thread(i)
  \/ \E k \in Stoppers : StopStep(k) \/ \E s \in Ids : UserStops(k, s) \/ StopLost(k, s)
  \/ \E s \in Ids : LoseLease(s) \/ StopNext(s)
  \/ Shutdown \/ ReleaseAll

Spec == Init /\ [][Next]_vars

(* Every thread that can run is scheduled; a loop whose flag is clear       *)
(* notices it.  Nothing makes a source end, a user call or a lease get lost.*)
Fairness ==
  /\ WF_vars(Listed \/ Refuse \/ Acquire \/ Launch \/ CannotOpen \/ InsertRow \/ Register)
  /\ \A i \in Instances : WF_vars(~running[i] /\ EndLoop(i)) /\ WF_vars(Finished(i))
  /\ \A k \in Stoppers : WF_vars(StopStep(k))
  /\ \A s \in Ids : WF_vars(StopNext(s)) /\ WF_vars(\E k \in Stoppers : StopLost(k, s))
  /\ WF_vars(ReleaseAll)

FairSpec == Spec /\ Fairness

-----------------------------------------------------------------------------
(* Properties *)

(* The types of the registry, the leases and the threads' positions; a      *)
(* stop_stream() call under way has a stream in hand.                       *)
TypeOK ==
  /\ streams \in [Ids -> Instances \union {None}]
  /\ stopping \subseteq Ids
  /\ lease \in [Ids -> {"none", "held", "lost"}]
  /\ rows \subseteq Ids
  /\ running \in [Instances -> BOOLEAN]
  /\ tpc \in [Instances -> {"new", "failed", "loop", "ended", "done"}]
  /\ spc \in {"idle", "reaping", "leased", "launched", "recorded"}
  /\ starting \in Instances \union {None}
  /\ reaped \subseteq Instances
  /\ kpc \in [Stoppers -> {"idle", "flag", "join", "release", "drop"}]
  /\ kOf \in [Stoppers -> Instances \union {None}]
  /\ \A k \in Stoppers : kpc[k] = "idle" <=> kOf[k] = None
  /\ alarms \subseteq Ids
  /\ phase \in {"up", "stopping", "down"}
  /\ todo \subseteq Ids
  /\ overlapped \subseteq Ids

(* stop_stream(), lines 1137-1141, and its rivals: the registry forgets a   *)
(* stream only when that stream's own flag is clear, so a running stream    *)
(* can be listed and stopped, whoever ends an older stream of its id late.  *)
RegisteredUntilStopped ==
  [][\A s \in Ids :
       streams[s] # None /\ streams'[s] # streams[s] => ~running[streams[s]]]_streams

(* start_stream(), lines 1087-1091: a stream runs under a lease, until two  *)
(* stop_stream() calls for its id overlap.                                  *)
LeasedUnlessStopsOverlap ==
  \A i \in Instances :
    running[i] /\ RowsPruned /\ IdOf(i) \notin overlapped => lease[IdOf(i)] # "none"

(* An id has one thread reading its source at a time, if threads end within *)
(* the bounded joins, no two stops of the id overlap and the registry knows *)
(* every running stream.                                                    *)
OneThreadPerId ==
  ~JoinExpires /\ RowsPruned =>
    \A i, j \in Instances :
      tpc[i] = "loop" /\ tpc[j] = "loop" /\ i # j =>
        IdOf(i) # IdOf(j) \/ IdOf(i) \in overlapped

(* An id is marked as being stopped only while a stop_stream() call for it  *)
(* is under way; a stale mark would keep it from ever being reaped.         *)
NoStaleStopping == \A s \in stopping : \E k \in Stoppers : Busy(k, s)

(* shutdown(), lines 1233-1234: once it has returned no stream runs.        *)
ShutdownStopsAll == RowsPruned /\ phase = "down" => \A i \in Instances : ~running[i]

(* stop_stream() comes to an end: joining a thread that itself calls back   *)
(* into the registry does not block.                                        *)
StopReturns == \A k \in Stoppers : kpc[k] # "idle" ~> kpc[k] = "idle"

(* start_stream(), lines 1036-1037: a completed run does not block reusing  *)
(* its id, so between two calls a running stream is in the registry.        *)
RunningIsRegistered ==
  spc = "idle" => \A i \in Instances : running[i] => streams[IdOf(i)] = i

(* start_stream(), lines 1087-1091: a running stream of the registry is     *)
(* leased.                                                                  *)
RegisteredIsLeased ==
  \A s \in Ids : streams[s] # None => (running[streams[s]] => lease[s] # "none")

(* The stream lifecycle tests, lines 1-3: a stream whose thread has ended   *)
(* releases its lease at once, without waiting for an unrelated request.    *)
EndedIsReleased ==
  \A s \in Ids :
    /\ \A i \in Instances : IdOf(i) = s => tpc[i] \in {"new", "done"}
    /\ spc = "idle" /\ \A k \in Stoppers : ~Busy(k, s)
    => lease[s] = "none"
=============================================================================
