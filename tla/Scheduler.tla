------------------------------ MODULE Scheduler ------------------------------
(***************************************************************************)
(* The shared inference worker pool of backend/scheduler.py, together with *)
(* the capture threads of backend/service.py that feed it.                 *)
(*                                                                         *)
(* An *instance* is one InferenceStream object: one life of a stream id.   *)
(* Starting the same id again makes a new instance, so several instances   *)
(* may share an id (StreamOf).  register() is the only place a             *)
(* _StreamChannel object is made and an instance registers at most once,   *)
(* so a channel object is named by the instance that made it: pinned,      *)
(* pending, inFlight and enqueued are its fields.                          *)
(*                                                                         *)
(* One threading.Condition serves workers and submitters.  A thread inside *)
(* cond.wait() is in idle (workers) or parked (submitters) and cannot move *)
(* until a notify_all empties both sets, so a forgotten notification shows *)
(* up as a thread that sleeps for ever.                                    *)
(***************************************************************************)
EXTENDS Naturals, Sequences, FiniteSets

CONSTANTS
  Instances,    (* InferenceStream objects                                 *)
  Streams,      (* stream ids                                              *)
  StreamOf,     (* the id an instance was started under                    *)
  NumWorkers,   (* size of the pool                                        *)
  Capacity,     (* stream_queue_capacity                                   *)
  FrameBudget,  (* bound: frames each capture thread reads                 *)
  Unlisted,     (* instances that run though start_stream() raised: their  *)
                (* session row was refused, so the registry lacks them     *)
  WaitsExpire,  (* do the bounded waits (unregister, thread joins) expire? *)
  NoChannel     (* "no channel": the None of dict.get                      *)

Workers == 0 .. NumWorkers - 1
Frames  == Instances \X Nat

ASSUME SchedulerAssumption ==
  /\ StreamOf \in [Instances -> Streams]
  /\ NumWorkers \in Nat \ {0}
  /\ Capacity \in Nat \ {0}
  /\ FrameBudget \in [Instances -> Nat]
  /\ Unlisted \subseteq Instances
  /\ WaitsExpire \in BOOLEAN
  /\ NoChannel \notin Instances

VARIABLES
  channels,   (* _channels: stream id -> channel object or NoChannel       *)
  pinned,     (* channel.worker_index                                      *)
  pending,    (* channel.pending, newest last                              *)
  inFlight,   (* channel.in_flight                                         *)
  enqueued,   (* channel.enqueued                                          *)
  ready,      (* _ready: ids waiting at each worker                        *)
  load,       (* _load                                                     *)
  stopping,   (* _stopping                                                 *)
  idle,       (* workers inside cond.wait()                                *)
  parked,     (* capture threads inside cond.wait() of submit              *)
  wpc,        (* where each worker thread is                               *)
  cur,        (* the channel whose process_fn a worker is inside           *)
  item,       (* the frame it processes there                              *)
  pc,         (* where each capture thread is                              *)
  running,    (* InferenceStream.is_running                                *)
  held,       (* the channel object a blocked submit or unregister holds   *)
  sent,       (* frames read so far by each capture thread                 *)
  finished    (* history: number of the frame each processor last finished *)

chanVars == <<channels, pinned, load>>
objVars  == <<pending, inFlight, enqueued>>
poolVars == <<ready, stopping, wpc, cur, item, finished>>
instVars == <<pc, running, held, sent>>
vars == <<chanVars, objVars, poolVars, idle, parked, instVars>>

Init ==
  /\ channels = [s \in Streams |-> NoChannel]
  /\ pinned   = [i \in Instances |-> 0]
  /\ pending  = [i \in Instances |-> <<>>]
  /\ inFlight = [i \in Instances |-> FALSE]
  /\ enqueued = [i \in Instances |-> FALSE]
  /\ ready    = [w \in Workers |-> <<>>]
  /\ load     = [w \in Workers |-> 0]
  /\ stopping = FALSE
  /\ idle = {} /\ parked = {}
  /\ wpc      = [w \in Workers |-> "loop"]
  /\ cur      = [w \in Workers |-> NoChannel]
  /\ item     = [w \in Workers |-> 0]
  /\ pc       = [i \in Instances |-> "new"]
  /\ running  = [i \in Instances |-> FALSE]
  /\ held     = [i \in Instances |-> NoChannel]
  /\ sent     = [i \in Instances |-> 0]
  /\ finished = [i \in Instances |-> 0]

(* Mutant: notify() where the code has notify_all(). *)
NotifyOne ==
  \/ \E w \in idle : idle' = idle \ {w} /\ parked' = parked
  \/ \E i \in parked : parked' = parked \ {i} /\ idle' = idle
  \/ idle = {} /\ parked = {} /\ UNCHANGED <<idle, parked>>

NotifyAll == idle' = {} /\ parked' = {}

-----------------------------------------------------------------------------
(* Capture threads and the service calls that drive them *)

(* min(range(num_workers), key=load): the first of the least loaded. *)
LeastLoaded(w) ==
  \A v \in Workers : load[w] < load[v] \/ (load[w] = load[v] /\ w <= v)

(* Mutant: the pool's workers are counted from one. *)
PinFromOne(i) ==
  \E w \in Workers :
    /\ LeastLoaded(w)
    /\ pinned' = [pinned EXCEPT ![i] = w + 1]
    /\ load'   = [load EXCEPT ![w] = @ + 1]

Pin(i) ==
  \E w \in Workers :
    /\ LeastLoaded(w)
    /\ pinned' = [pinned EXCEPT ![i] = w]
    /\ load'   = [load EXCEPT ![w] = @ + 1]

(* Mutant: an id may be restarted while its thread is still ending. *)
IdFreeUnjoined(i) ==
  \A j \in Instances \ {i} : StreamOf[j] = StreamOf[i] => ~running[j]

(* The service starts an id only when it is not in its registry.  It leaves *)
(* the registry once is_running is false; by then its thread was joined,    *)
(* unless the bounded join expired.  StreamService models the registry.     *)
IdFree(i) ==
  \A j \in Instances \ (Unlisted \union {i}) :
    StreamOf[j] = StreamOf[i] =>
      IF WaitsExpire THEN ~running[j] ELSE pc[j] \in {"new", "done"}

Register(i) ==
  LET s == StreamOf[i] IN
  /\ pc[i] = "new" /\ ~stopping /\ IdFree(i)
  /\ pc' = [pc EXCEPT ![i] = "capturing"]
  /\ running' = [running EXCEPT ![i] = TRUE]
  /\ IF channels[s] # NoChannel
     THEN UNCHANGED <<chanVars, objVars>>
     ELSE /\ channels' = [channels EXCEPT ![s] = i]
          /\ Pin(i)
          /\ pending'  = [pending EXCEPT ![i] = <<>>]
          /\ inFlight' = [inFlight EXCEPT ![i] = FALSE]
          /\ enqueued' = [enqueued EXCEPT ![i] = FALSE]
  /\ UNCHANGED <<poolVars, idle, parked, held, sent>>

(* submit() from its while loop on, with channel object c in hand.  The     *)
(* loop tests the id, not the object, and a new entry in ready is notified  *)
(* only when the channel is neither in flight nor enqueued already.         *)
Gone(s) == stopping \/ channels[s] = NoChannel

Refuse(i) ==
  /\ Gone(StreamOf[i])
  /\ pc' = [pc EXCEPT ![i] = "capturing"]
  /\ held' = [held EXCEPT ![i] = NoChannel]
  /\ UNCHANGED <<pending, enqueued, ready, idle, parked>>

Await(i, c) ==
  /\ ~Gone(StreamOf[i]) /\ Len(pending[c]) >= Capacity
  /\ pc' = [pc EXCEPT ![i] = "blocked"]
  /\ held' = [held EXCEPT ![i] = c]
  /\ parked' = parked \union {i}
  /\ UNCHANGED <<pending, enqueued, ready, idle>>

(* Mutant: work stealing, a frame goes to whichever worker is least loaded *)
(* unless the channel is queued already.                                    *)
EnqueueStealing(i, c, n) ==
  /\ ~Gone(StreamOf[i]) /\ Len(pending[c]) < Capacity
  /\ pc' = [pc EXCEPT ![i] = "capturing"]
  /\ held' = [held EXCEPT ![i] = NoChannel]
  /\ pending' = [pending EXCEPT ![c] = Append(@, <<i, n>>)]
  /\ enqueued' = [enqueued EXCEPT ![c] = TRUE]
  /\ IF enqueued[c] THEN UNCHANGED <<ready, idle, parked>>
     ELSE /\ \E w \in Workers : ready' = [ready EXCEPT ![w] = Append(@, StreamOf[i])]
          /\ NotifyAll

Enqueue(i, c, n) ==
  /\ ~Gone(StreamOf[i]) /\ Len(pending[c]) < Capacity
  /\ pc' = [pc EXCEPT ![i] = "capturing"]
  /\ held' = [held EXCEPT ![i] = NoChannel]
  /\ pending' = [pending EXCEPT ![c] = Append(@, <<i, n>>)]
  /\ IF inFlight[c] \/ enqueued[c]
     THEN UNCHANGED <<enqueued, ready, idle, parked>>
     ELSE /\ enqueued' = [enqueued EXCEPT ![c] = TRUE]
          /\ ready' = [ready EXCEPT ![pinned[c]] = Append(@, StreamOf[i])]
          /\ NotifyAll

Offer(i, c, n) == Refuse(i) \/ Await(i, c) \/ Enqueue(i, c, n)

offerFrame == <<chanVars, inFlight, stopping, wpc, cur, item, finished, running>>

Submit(i) ==
  /\ pc[i] = "capturing" /\ running[i] /\ sent[i] < FrameBudget[i]
  /\ sent' = [sent EXCEPT ![i] = @ + 1]
  /\ Offer(i, channels[StreamOf[i]], sent[i] + 1)
  /\ UNCHANGED offerFrame

(* A notified submitter re-tests the loop condition. *)
Resume(i) ==
  /\ pc[i] = "blocked" /\ i \notin parked
  /\ Offer(i, held[i], sent[i])
  /\ UNCHANGED <<offerFrame, sent>>

(* InferenceStream.stop() clears the flag and joins with a timeout. *)
StopStream(i) ==
  /\ running[i] /\ i \notin Unlisted
  /\ running' = [running EXCEPT ![i] = FALSE]
  /\ UNCHANGED <<chanVars, objVars, poolVars, idle, parked, pc, held, sent>>

(* The capture loop ends: end of the source, or the flag was cleared.  The  *)
(* finally block clears the flag before it calls unregister().              *)
EndCapture(i) ==
  /\ pc[i] = "capturing"
  /\ pc' = [pc EXCEPT ![i] = "unregister"]
  /\ running' = [running EXCEPT ![i] = FALSE]
  /\ UNCHANGED <<chanVars, objVars, poolVars, idle, parked, held, sent>>

(* The tail of unregister(): whatever channel the id maps to now goes. *)
DropChannel(i) ==
  LET s == StreamOf[i] IN
  /\ pc' = [pc EXCEPT ![i] = "done"]
  /\ held' = [held EXCEPT ![i] = NoChannel]
  /\ channels' = [channels EXCEPT ![s] = NoChannel]
  /\ load' = IF channels[s] = NoChannel THEN load
             ELSE [load EXCEPT ![pinned[channels[s]]] = IF @ = 0 THEN 0 ELSE @ - 1]
  /\ NotifyAll
  /\ UNCHANGED <<pinned, objVars, poolVars, running, sent>>

(* Mutant: unregister() waits for the queue, not for the frame in flight. *)
BusyQueued(c) == c # NoChannel /\ enqueued[c] /\ ~stopping

Busy(c) == c # NoChannel /\ inFlight[c] /\ ~stopping

Unregister(i) ==
  LET c == channels[StreamOf[i]] IN
  /\ pc[i] = "unregister"
  /\ IF Busy(c)
     THEN /\ pc' = [pc EXCEPT ![i] = "draining"]
          /\ held' = [held EXCEPT ![i] = c]
          /\ UNCHANGED <<chanVars, objVars, poolVars, idle, parked, running, sent>>
     ELSE DropChannel(i)

(* The wait polls every 50 ms, so it needs no notification; it ends when    *)
(* the frame is done or when the five seconds are over.                     *)
Drained(i) ==
  /\ pc[i] = "draining"
  /\ ~Busy(held[i]) \/ WaitsExpire
  /\ DropChannel(i)

(* shutdown() stops every stream, joining each with a timeout, and then the *)
(* scheduler.                                                               *)
Stop ==
  /\ ~stopping
  /\ \A i \in Instances \ Unlisted :
       IF WaitsExpire THEN ~running[i] ELSE pc[i] \in {"new", "done"}
  /\ stopping' = TRUE
  /\ NotifyAll
  /\ UNCHANGED <<chanVars, objVars, ready, wpc, cur, item, finished, instVars>>

-----------------------------------------------------------------------------
(* Worker threads *)

(* The lock section at the top of _worker_loop. *)
Sleep(w) ==
  /\ wpc[w] = "loop" /\ ready[w] = <<>> /\ ~stopping
  /\ w \notin idle
  /\ idle' = idle \union {w}
  /\ UNCHANGED <<chanVars, objVars, poolVars, parked, instVars>>

Exit(w) ==
  /\ wpc[w] = "loop" /\ ready[w] = <<>> /\ stopping /\ w \notin idle
  /\ wpc' = [wpc EXCEPT ![w] = "exited"]
  /\ UNCHANGED <<chanVars, objVars, ready, stopping, cur, item, finished,
                 idle, parked, instVars>>

(* popleft, look the id up, take_newest: the rest of the backlog is dropped. *)
Take(w) ==
  /\ wpc[w] = "loop" /\ ready[w] # <<>> /\ w \notin idle
  /\ ready' = [ready EXCEPT ![w] = Tail(@)]
  /\ LET c == channels[Head(ready[w])] IN
     IF c = NoChannel
     THEN UNCHANGED <<objVars, wpc, cur, item, idle, parked>>
     ELSE /\ enqueued' = [enqueued EXCEPT ![c] = FALSE]
          /\ IF pending[c] = <<>>
             THEN UNCHANGED <<pending, inFlight, wpc, cur, item, idle, parked>>
             ELSE /\ pending'  = [pending EXCEPT ![c] = <<>>]
                  /\ inFlight' = [inFlight EXCEPT ![c] = TRUE]
                  /\ wpc'  = [wpc EXCEPT ![w] = "processing"]
                  /\ cur'  = [cur EXCEPT ![w] = c]
                  /\ item' = [item EXCEPT ![w] = pending[c][Len(pending[c])][2]]
                  /\ NotifyAll
  /\ UNCHANGED <<chanVars, stopping, finished, instVars>>

(* process_fn raised: _run_one clears the flag of the id's current owner,   *)
(* the instance that made the id's current channel.                         *)
Raise(w) ==
  /\ wpc[w] = "processing"
  /\ wpc' = [wpc EXCEPT ![w] = "raised"]
  /\ LET owner == channels[StreamOf[cur[w]]] IN
     running' = IF owner = NoChannel THEN running
                ELSE [running EXCEPT ![owner] = FALSE]
  /\ UNCHANGED <<chanVars, objVars, ready, stopping, cur, item, finished,
                 idle, parked, pc, held, sent>>

(* Mutant: off by one, the newest frame alone does not count. *)
HasMoreThanOne(c) ==
  /\ ~stopping /\ Len(pending[c]) > 1 /\ ~enqueued[c]
  /\ channels[StreamOf[c]] # NoChannel

HasMore(c) ==
  /\ ~stopping /\ pending[c] # <<>> /\ ~enqueued[c]
  /\ channels[StreamOf[c]] # NoChannel

(* The lock section after _run_one. *)
Finish(w) ==
  LET c == cur[w] IN
  /\ wpc[w] \in {"processing", "raised"}
  /\ wpc'  = [wpc EXCEPT ![w] = "loop"]
  /\ cur'  = [cur EXCEPT ![w] = NoChannel]
  /\ item' = [item EXCEPT ![w] = 0]
  /\ finished' = [finished EXCEPT ![c] = item[w]]
  /\ inFlight' = [inFlight EXCEPT ![c] = FALSE]
  /\ IF HasMore(c)
     THEN /\ enqueued' = [enqueued EXCEPT ![c] = TRUE]
          /\ ready' = [ready EXCEPT ![w] = Append(@, StreamOf[c])]
          /\ NotifyAll
     ELSE UNCHANGED <<enqueued, ready, idle, parked>>
  /\ UNCHANGED <<chanVars, pending, stopping, instVars>>

-----------------------------------------------------------------------------

Capture(i) ==
  Register(i) \/ Submit(i) \/ Resume(i) \/ StopStream(i)
    \/ EndCapture(i) \/ Unregister(i) \/ Drained(i)

Work(w) == Sleep(w) \/ Exit(w) \/ Take(w) \/ Raise(w) \/ Finish(w)

Next ==
  \/ \E i \in Instances : Capture(i)
  \/ \E w \in Workers : Work(w)
  \/ Stop

Spec == Init /\ [][Next]_vars

(* Every thread that can run is scheduled, inference calls return, and a    *)
(* capture loop whose flag is clear notices it; nothing forces a source to  *)
(* end, an operator to stop a stream, or a frame to raise.                  *)
Fairness ==
  /\ \A w \in Workers : WF_vars(Sleep(w) \/ Exit(w) \/ Take(w) \/ Finish(w))
  /\ \A i \in Instances :
       /\ WF_vars(Resume(i)) /\ WF_vars(Unregister(i)) /\ WF_vars(Drained(i))
       /\ WF_vars(~running[i] /\ EndCapture(i))

FairSpec == Spec /\ Fairness

-----------------------------------------------------------------------------
(* Properties *)

(* The types of the scheduler's fields and of the threads' positions. *)
TypeOK ==
  /\ channels \in [Streams -> Instances \union {NoChannel}]
  /\ pinned   \in [Instances -> Workers]
  /\ pending  \in [Instances -> Seq(Frames)]
  /\ inFlight \in [Instances -> BOOLEAN]
  /\ enqueued \in [Instances -> BOOLEAN]
  /\ ready    \in [Workers -> Seq(Streams)]
  /\ load     \in [Workers -> Nat]
  /\ stopping \in BOOLEAN
  /\ idle \subseteq Workers
  /\ parked \subseteq Instances
  /\ wpc      \in [Workers -> {"loop", "processing", "raised", "exited"}]
  /\ cur      \in [Workers -> Instances \union {NoChannel}]
  /\ item     \in [Workers -> Nat]
  /\ pc       \in [Instances -> {"new", "capturing", "blocked", "unregister",
                                 "draining", "done"}]
  /\ running  \in [Instances -> BOOLEAN]
  /\ held     \in [Instances -> Instances \union {NoChannel}]
  /\ sent     \in [Instances -> Nat]
  /\ finished \in [Instances -> Nat]

(* No worker sleeps while an id is queued for it or the pool is stopping.   *)
NoSleepingWorkerHasWork ==
  \A w \in idle : wpc[w] = "loop" /\ ready[w] = <<>> /\ ~stopping

(* No capture thread sleeps in submit() once its loop condition is false:   *)
(* room in the channel, id gone, or pool stopping.                          *)
NoSleepingSubmitterHasRoom ==
  \A i \in parked :
    /\ pc[i] = "blocked" /\ ~stopping
    /\ channels[StreamOf[i]] # NoChannel
    /\ Len(pending[held[i]]) >= Capacity

(* Some worker has the id in its queue. *)
Queued(s) == \E w \in Workers : \E k \in 1 .. Len(ready[w]) : ready[w][k] = s

(* Frames waiting in a registered channel are never stranded: the id is in  *)
(* some worker's queue, or a worker is inside the channel and will look.    *)
PendingIsScheduled ==
  \A s \in Streams :
    LET c == channels[s] IN
    c # NoChannel /\ ~stopping =>
      (pending[c] # <<>> => Queued(s) \/ \E w \in Workers : cur[w] = c)

NoLostWakeup ==
  /\ NoSleepingWorkerHasWork
  /\ NoSleepingSubmitterHasRoom
  /\ PendingIsScheduled

(* No other instance was or will be started under c's stream id. *)
IdUsedOnce(c) == \A i \in Instances : StreamOf[i] = StreamOf[c] => i = c

(* Header, lines 12-14: a stream's tracker and event engine are only ever   *)
(* touched by one worker: never two workers inside one channel's process_fn.*)
OneWorkerPerStream ==
  \A v, w \in Workers : cur[v] # NoChannel /\ cur[v] = cur[w] => v = w

(* The same for a stream whose id is not started again. *)
OneWorkerUnlessReused ==
  \A v, w \in Workers :
    cur[v] # NoChannel /\ cur[v] = cur[w] /\ IdUsedOnce(cur[v]) => v = w

(* Header, lines 12-13: the frames of a stream are processed in the order   *)
(* they were captured, for a stream whose id is not started again.          *)
FramesFinishInOrder ==
  [][\A i \in Instances : IdUsedOnce(i) => finished'[i] >= finished[i]]_finished

(* unregister(), lines 170-174: no worker is inside an instance's process_fn *)
(* once its capture thread has gone on to tear the detector down, if inference *)
(* takes less than the bounded wait, the id is not started again and the      *)
(* service knows the stream: one it does not know is still running when the   *)
(* pool stops, and a stopping pool no longer makes unregister() wait.         *)
CleanupAfterDrain ==
  \A w \in Workers :
    cur[w] # NoChannel /\ IdUsedOnce(cur[w]) /\ cur[w] \notin Unlisted /\ ~WaitsExpire =>
      pc[cur[w]] # "done"

(* register(), line 117: a running stream has the channel it registered, so *)
(* its frames reach its own processor, if the registry knows every running  *)
(* stream and their threads end within the bounded joins.                   *)
RunningHasOwnChannel ==
  ~WaitsExpire /\ Unlisted = {} =>
    \A i \in Instances : running[i] => channels[StreamOf[i]] = i

(* Once a stream's flag is clear its capture thread runs to its end, also   *)
(* when it was blocked in submit() at the time.                             *)
StopCompletes ==
  \A i \in Instances : (pc[i] # "new" /\ ~running[i]) ~> pc[i] = "done"

(* Queued frames are taken or dropped unless the stream or the pool stops.  *)
BacklogIsDrained ==
  \A i \in Instances :
    pending[i] # <<>> ~>
      (pending[i] = <<>> \/ channels[StreamOf[i]] # i \/ stopping)
=============================================================================
