# OmniTrack, verified

TLA+ models of the OmniTrack backend (`backend/`), of its inference pipeline
(`inference/`) and of its releases (`scripts/ci/`), the TLC runs that check them
on small instances, and TLAPS proofs of their safety properties for every value of
the constants.  Everything is translated from the Python source; line numbers
refer to it.  `PROJECT.json` lists the runs, the lines each definition stands
for, the hazards, the findings and the theorems.

To repeat the checks:

    tlc -workers 2 -config MCScheduler_pool.cfg MCScheduler.tla    # and so on
    tlapm SchedulerProofs.tla                                       # and so on

## 1. The system

OmniTrack runs object detection on video streams.  One process (a *replica*)
serves HTTP and WebSocket clients on an asyncio event loop and runs each stream
on threads; several replicas share a Redis server.

| Component | State | Operations | Hard because |
|---|---|---|---|
| `scheduler.py` | a channel per stream id, a ready queue per worker, one condition variable | register, submit, unregister, stop, worker loop | three kinds of threads on one condition; ids outlive channels |
| `ownership/` | a Redis key with a TTL per stream; per process a registry of leases and one heartbeat thread | acquire, heartbeat, release, loss callback, stop | lost answers, expiry, crashes, clocks, a lock held during retries |
| `service.py` registry | `streams`, `_stopping`, session rows, leases | start_stream, stop_stream, list_streams, reap, finished-callback, shutdown | calls on the event loop, request threads, lease-lost threads and the streams' own threads |
| `service.py` stream | flag, thread, components, output queue | start, stop, loop, cleanup | bounded joins, two paths to cleanup |
| `model_manager.py` | a detector and a reference count per signature, in LRU order | acquire, release, warm, evict, shutdown | references released twice or never |
| `batching.py` | a coordinator per signature: stream count, queue, batch thread | acquire, release, predict, dispatch, stop | lock-free fast path beside the batch thread; waiters without timeout |
| `event_store.py` | a ring buffer and subscribers per stream id | append, extend, subscribe, snapshot | delivery outside the lock; subscriptions never end |
| `alerts/` | rules in a cache, marks, alert rows with a history, two bounded queues | handle_event, trigger, acknowledge, resolve, suppress, expiry, notify, stop | read-then-write transactions, deduplication, drains beside workers |
| `analytics/` | counters per stream, a flush thread, cached answers | handle_event, flush, stop, read | counters cleared after a commit, with no lock |
| `recording/`, `frame_pool.py` | recordings, pre-buffer, frame queue, writer task; free buffers | start, stop, push_frame, trigger_event, delete, quota; acquire, release | task hand-off, buffers with three owners, files before rows |
| `inference/tracker.py`, `inference/events/` | tracks; latches, stays and last centroids by track; the regions | update, process, reconfigure | state that outlives tracks and regions, greedy matching, boundary cases of the geometry |
| `inference/frame_source.py`, `detector.py`, `backend/inference/` | a capture and its reconnect count; a shared provider | open, read, reconnect, predict, failover | bounded retries inside read(), two threads in one failover |
| `main.py` | WebSocket sets, start times | routes, lifespan, lease-lost callback | event loop against threads |
| `observability/` | worker registrations; readiness checks | check, restart, evaluate | restarts against shutdown |
| `scripts/ci/`, `alembic/` | revisions of the deployment, migrations of the database | validate, migrate, roll out, smoke-test, undo | old and new pods side by side, undo of the wrong revision |
| `auth/`, `cache/`, `messaging/` | tokens, clients | requests, publish | mostly I/O |

How they interact: a request (or the event loop) calls `start_stream()`, which
acquires the lease, starts the stream's thread and inserts it in the registry;
the thread reads frames and either processes them itself or, with the scheduler
enabled, submits them to a channel that one worker drains; a heartbeat thread
renews all leases and, when one is lost, starts a thread that calls
`stop_stream()`; a stream that ends calls back into the registry.  Detectors are
shared through the model manager and the batching coordinators; events derived
from tracks go to the stream's event buffer and from there to WebSockets,
analytics, alerts and Kafka.

What makes each part correct, in short: no queued frame and no sleeping thread
is forgotten, and one worker at a time is inside a stream (scheduler); at most
one replica runs a stream, up to a stated window (ownership); what runs is
registered, leased and can be stopped, and what ended holds nothing (service);
a model in use is loaded (model manager); each caller gets the result of its own
frame (batching); what a client misses it is told (event store); every event is
counted in one window (analytics); one active alert per deduplication key, no step
back from a finished state, and every notification sent or given up (alerts);
nobody draws on a frame that is still to be shown, and evidence has its file
(recording); entries less exits is what is inside (events); a source that is gone
ends its stream, and a backend that fails does not while another works (intake);
what was stopped stays stopped, and what died comes back or is shown (workers);
a failed release leaves the one before it in service (deployment).

## 2. Modules

| Module | Models |
|---|---|
| `Scheduler` | the worker pool and the capture threads that feed it |
| `Ownership` | one stream's lease: the key, and each replica's registry entry, heartbeat thread and releases, in discrete time |
| `StreamService` | the registry of one replica: starts, stops, callbacks, reaping, shutdown |
| `ModelPool` | the shared detectors: the model manager, the registry of batch coordinators, and the streams that acquire and give back |
| `Batching` | one batch coordinator: its streams, their calls, the queue, the batch thread, the end |
| `Predictions` | abstract: what a call of `predict()` promises, for any number of streams |
| `EventFeed` | the buffer of a stream id, its subscriptions over several runs, the bus, and the event sockets |
| `Analytics` | a stream's counters, the flush loop and `stop()`, a cached answer |
| `Alerts` | the engine's queue, rules and marks; alerts with their history; notifications; both shutdowns |
| `Recording` | a rendered frame's way through the frame pool, the output queue, a socket, the recorder and a clip; deletions |
| `Scene` | the tracker, the event engine with its five detectors, and changes of the regions |
| `Intake` | frame sources with their reconnection, the choice of an inference provider and its failover |
| `Workers` | the supervised threads, the supervisor, startup and shutdown of the process |
| `Readiness` | what `GET /ready` answers in a given condition |
| `Deploy` | the releases: migrations, the deploy driver, the cluster |
| `SchedulerProofs`, `OwnershipProofs`, `StreamServiceProofs`, `ModelPoolProofs`, `BatchingProofs` | the proofs about the module of that name |
| `ConsumersProofs` | the proofs about `Analytics`, `Alerts` and `EventFeed` |
| `PipelineProofs` | the proofs about `Recording`, `Scene` and `Intake` |
| `OperationsProofs` | the proofs about `Workers` and `Deploy` |
| `MCScheduler`, `MCOwnership`, `MCStreamService`, `MCModelPool`, `MCBatching`, `MCEventFeed`, `MCRecording` | constants for TLC |
| `MCConsumers`, `MCPipeline`, `MCOperations` | two components each for TLC |

`Batching` looks into a coordinator of which `ModelPool` knows only who made it,
whom it counts and whether it was stopped.  `Deploy` uses `Readiness` for the pods
of a release.  `Analytics`, `Alerts` and the sockets of `EventFeed` are the
subscribers of one buffer; since the delivery to one does not wait for another,
each is modelled by itself, with the records that reach it as its input.

`MCConsumers` (`Analytics`, `Alerts`), `MCPipeline` (`Scene`, `Intake`) and
`MCOperations` (`Workers`, `Deploy`) explore two components *side by side*: the
variable `side` is chosen in the initial state, one component moves and the
variables of the other rest.  The components of a pair share no state, so their
interleavings would show nothing; a behaviour of either is explored in full.

### Scheduler

An *instance* is one `InferenceStream` object, one life of a stream id;
`StreamOf` gives its id.  An instance registers at most once, so a channel
object is named by the instance that made it.  Every critical section of
`_lock` is one action: `Register`, `Submit`/`Resume` (the loop of `submit()`:
refuse, wait or enqueue), `Unregister`/`Drained`/`DropChannel`, `Stop`, `Sleep`,
`Exit`, `Take`, `Finish`.  `process_fn` lies between `Take` and `Finish`;
`Raise` is its exception.  A thread inside `cond.wait()` is in `idle` or
`parked` and moves only after `notify_all()` has emptied both sets: a wakeup
that is forgotten is a thread that sleeps for ever.  Spurious wakeups are left
out, which makes the model stricter.  `unregister()` polls every 50 ms, so
`Drained` needs no notification.  Frames carry the instance that read them and
a number.

Constants that describe the environment: `WaitsExpire` says whether the bounded
waits (five seconds in `unregister`, the joins in `stop()` and `shutdown()`) run
out, `Unlisted` are instances that run although `start_stream()` raised (finding
`service_orphan`), which nobody can stop.  `IdFree` is what the registry
guarantees to `register()`; `StreamService` models the registry itself.

### Ownership

Time is discrete and `Tick` is disabled while something is due: threads run on
time, a Redis call is answered or fails within `Delay` (the client's socket
timeout).  A call is three steps: sent, effect at the server, answer; either of
the last two may be lost on a replica in `Faulty`.  `LockForOther` holds the
manager's lock for up to `Hold` ticks, as `acquire()` for another stream does
while it retries.  Each acquired lease has a number, because the heartbeat
thread works on a list of lease objects it copied earlier.  A crash forgets
everything but the key.  A replica is a `Stray` while it runs the stream and the
key is not its own; the history variable `overlap` counts its ticks as one, and
`lapsed` remembers that the key of its registered lease expired.

Two assumptions are part of the model.  A replica does not acquire an id while
it is releasing it: the registry guarantees that except when two stops of the
id overlap (`RegisteredIsLeased` below).  A heartbeat thread that waits for the
manager's lock is not overtaken twice in a row: `threading.RLock` promises no
such order, and without the assumption `HealthyLeaseIsKept` fails by
starvation.  That is listed as a hazard.

### StreamService

The event loop runs `list_streams()` and `start_stream()` (`spc`), any number
of threads run `stop_stream()` (`kpc`), one of them, `Boss`, runs `shutdown()`,
and every instance has its own thread (`tpc`).  Each section under
`_streams_lock` is one action, and so is each step between two sections at
which another thread can come in: the reap and its joins, the lease, the start
of the thread, the session row, the insert; lookup, flag, join, release of the
lease, removal.  The lease of an id is what the local `LeaseManager` says of it:
none, held, or lost; `Ownership` models the rest.  `ReleaseLease` may also
raise the alarm of a renewal in flight that finds the key it renews deleted.
`alarms` are lease-lost threads that have not called `stop_stream()` yet.

`stream_sessions.stream_id` is unique and the code never deletes rows, so the
second start of an id fails on its session row, after the thread was started.
`RowsPruned` says that an operator deletes the rows of ended sessions; the
properties about restarts suppose it, as the rest of the code does, and
`service_orphan` shows what happens otherwise.

### ModelPool

A stream is again one `InferenceStream` object.  Its own thread (`Own`) acquires
in `start()`, runs and cleans up; without the scheduler the thread inside
`stop()` (`Stopper`) runs `_cleanup()` as well once its join has returned, so
`pc` has an entry for both.  `ModelManager` is `lastUse`, `refs`, `det` and
`loaded`: loads and hits are numbered, the number of a load names its detector,
and the order of the last uses is the LRU order in which `Victims` go.
`BatchManager` is `coord`, `members`, `built`, `stopped`; a coordinator is named
by the stream that made it.  `Acquire` is `_acquire_detector()`, with the batch
registry's `acquire()` and the pool's inside it.  The release is two steps,
`LeaveCoordinator` and `DropModel`, because the registry's lock ends between
them; `DropModel` includes `_coordinator = None`, which only the other cleanup of
the same stream reads, so the merge hides no step while `CleanedOnce` holds.

`Enter` and `Leave` bracket a frame inside the detector; `inside` counts frames
that passed the test of `is_running`.  With the scheduler a frame is in a
worker's hands, and `Drained` and `StopPools` may give up on it: `overrun`
remembers that.  `StopPools` and `Unload` are the end of `shutdown()`.

The settings `batching` and `scheduling` are chosen in `Init`; the model manager
is on.  The combination of batching without a model manager, and a private
detector per stream (neither setting), are not modelled: neither shares a pool.
A failed start keeps its reference, as in the code (`service.py` acquires before
it opens the source and the caller does not clean up).  `CleanedOnce` is the
premise of most properties: the scheduler is in use, or `stop()` was never
called.  What happens otherwise is finding 2.

### Batching

A stream has one call in progress at a time, on its own thread or on a worker's,
so its `_Pending` goes by its name: `slot` is the pending's result or error, and
is forgotten when the call returns.  Each section under `_count_lock` or
`_queue_cond` is one action: `Call` (the stream count is read and the path
chosen), `Enqueue` or `Refuse`, `Answered`; on the batch thread `Sleep`, `End`,
`Fill`, `Deadline`, then `Compute` or `ComputeFails` under the compute lock, and
`Scatter`, one request at a time.  Reading the count and queueing the request are
separate sections, so a stop may come between them.  A thread in `wait()` without
a timeout (`bpc = "asleep"`, `pc[i] = "waiting"`) moves only when it is notified
or its slot is set.  The linger wait has a timeout: how long it lasts is left
open, so a batch that is not full may wait or go.  A result is the pair of stream
and frame it was computed from; `Detector.predict()` and `predict_batch()`
return it or raise.

`Register`, `Leave` and `StopAll` are what the batch manager does to one
coordinator: the last `release()`, or `stop_all()`, takes it out of the registry
(`retired`), and `Stop` follows on the same thread; `release()` keeps the
registry's lock meanwhile, and later streams get another coordinator, which is
not part of this one's model.  Streams leave when no call of theirs is in
progress, except those in `Overrunning`, for which a bounded wait (the join in
`stop()`, the drain in `unregister()`) ran out.  `_infer()` tests and then uses
`_coordinator`; a cleanup of an overrun stream between the two is left out.

`Predictions` has a stream, its frame and its outcome: ask, then get the result
of that frame or an error.  A `busy` stream is one whose `pc` is not idle; the
count, the queue, the batch and the thread are hidden.

### EventFeed

A record is its sequence number, `ring` the deque with its `maxlen`, `subs` the
subscribers with their tokens, in the order of subscription.  A thread's `append()`
or `extend()` is `Extend` (under the lock), `StartNotify` (the copy of the
subscribers, after the lock) and then one callback at a time (`Publish`, `Analyse`,
`Hand`): every callback for the first record, then every callback for the second
(`Advance`).  `StartStream` subscribes at every start of the id and nothing takes
the subscriptions back (`service.py` 1055-1086), so a record reaches the bus once
per start.  A socket's handler is `Connect` (its stop event is registered), then
`Redirect`, `NoStream` or `Subscribe`, then `TakeNext` and `SendEvent` until
`Leave`; `Hand` puts a record on the event loop's list of callbacks, which
`Enqueue` takes in order and which evicts the oldest record of a full queue and
counts it.  `CloseSockets` is `close_stream()`: it wakes the sockets that are
registered at that moment.  `crossed` remembers that two threads delivered at once.
`GapsAreExact` looks at what a client has received and what its queue holds for it:
each event's number is one more than that of the event before it and the number in
the notice between them, if there is one.

### Analytics

`Count` is `handle_event()` of a record whose type the aggregator knows.  A flush
is `Wake` or `Stop` (the counters are read), `Commit` or `CommitFails`, and
`Reset`; nothing excludes a record, or the other flush, in between, and `unclean`
remembers that it happened, or that a commit failed.  Two counters stand for all:
a row is written for each class that appeared, and every other figure of the
window is a column of such a row, so a window without an appearance loses the
others (`windowed`).

### Alerts

The engine's worker (`Worker`) and the thread that drains in `stop()` (`Drainer`)
run the same evaluation (`eval`): take an event, get the rules, judge, look for an
active alert, insert, mark.  A rule's state is `enabled`; the cache holds "on" or
"off" and an age that is fresh or not.  The sections between two database
statements or two locks are separate actions: `LoadRules` and `StoreRules`,
`FindActive` and `Insert`, `Ask` and `Grant`, `ReadExpired` and `WriteExpired`,
`Disable` and `Reload`.  `Compare`, `Holds` and `Matched` are the rule language;
the snapshot and the event a rule is judged against are chosen among the values the
rule can tell apart.  A write whose read is outdated sets `stale`, a stop that gave
up waiting for its worker sets `late`.  Notifications are jobs in a queue, taken by
the manager's worker or the drain and attempted up to `MaxRetries` more times.
Events, requests, changes of the rule and stops are inputs, bounded together.

### Recording

A *frame* is a buffer with the number it is meant to show; `content` is what each
buffer shows, so a buffer reused too early is one that shows another frame.  A
buffer is named by the frame that made it and a number, 0 for its own and more for
those that the first frame seeds the pool with (`Spares`).  `Render` takes a buffer from the pool and draws; `Put`, `Evict`, `Reput` and
`Drop` are the output queue's adaptive drop, with the socket's thread (`View`,
`Encoded`, `Lost`) between any two of them; `Push`, `Submit` and `Trigger` are the
recorder's part.  `OtherStream` is any other stream that shares the pool.  Only
frames that were not yet shown are claimed to be intact: the recorder's pre-buffer
and the clips keep references to buffers that go back to the pool.
`Drain` and `EndDrain` are the writer task, `Encode`, `Insert` and `ClipFails` a
clip, `DeleteFiles`, `DeleteRows` and `DeleteFails` a deletion by a request or by
the quota pass.  `early` collects recordings deleted while they were being made or
a clip of them was; the code does not exclude that, and what is then left on disk
is nobody's.

### Scene

`Process` is one frame: `Update` of the tracker (greedy matching by distance,
centroids that age and are deleted), then the five detectors in the engine's order,
then `cleanup()` with the ids that live.  `Swap` is `reconfigure()`, between two
frames.  Points are integers and distances squared, so the predicates of
`geometry.py` (`Side`, `Inside`, `Intersect`, `CrossingSign`) are exact where the
code has floating point; a frame is a unit of time.  `books` counts per zone what
was entered, left and dropped; `path` keeps a track's first and last side of a
line and the signs reported between.

### Intake

A stream's thread opens its source, delivers frames and calls the shared detector.
A source is `capture`, `attempt` and `idle`; a network camera that is gone (`Die`)
sends read() into `_handle_reconnection()`, which waits (`idle` counts ticks) and
reconnects (`LoseStream`, `Reconnect`), at most `RetryAttempts` times.  The
detector is built by the first stream (`Build`), in the order of `auto`, by the
benchmark's file, or by name.  A call whose backend is broken goes through
`Infer`, `Rebuild`, `Load` and `Retry` with no lock, so two threads may be in it
at once.  `hit` remembers that a backend broke during a call, `raced` that another
thread replaced the provider of a failing call, `spoilt` that such a call marked
the fallback exhausted for everybody, and `lost` the streams that failed although a
backup worked.

### Workers, Readiness and Deploy

`Workers` has a thread and a flag for each supervised worker, the supervisor's
thread (`sup`, `todo`, `nap`) and the position of `lifespan()` (`life`).  Time
passes only in `Tick`, while the supervisor sleeps before a restart and shutdown
waits for it; everything else is quick beside that.  `SeenRunning` is
`getattr(obj, "_running", True)`: the lease manager has no such attribute.
`Readiness` translates each check and `evaluate()`.  In `Deploy` a job validates the
migrations of its image, applies them, sets the image, waits, tests and, if need
be, undoes; the cluster keeps revisions in the order of their last use, surges and
retires pods, and asks `Ready` of a pod's condition.  A migration is a record of
revision, parents, tables added and dropped.  That one run of the pipeline waits
for the one before (`Serialized`) is an assumption: the workflows name no
concurrency group.

## 3. Runs

| Run | Shows | Instance |
|---|---|---|
| `sched_pool` | `NoLostWakeup`, `OneWorkerUnlessReused`, `CleanupAfterDrain`, `FramesFinishInOrder`, `StopCompletes`, `BacklogIsDrained` | two workers; an id started twice, and an id used once with three frames and capacity 1, so that one frame is in flight, one waits and one blocks its submitter |
| `lease` | `FreshLeaseOwnsKey`, `OverlapBounded`, `HealthyLeaseIsKept` | two replicas, one with a faulty connection and two leases; TTL 4, interval 1, delay 1, hold 1 |
| `service_life` | `LeasedUnlessStopsOverlap`, `OneThreadPerId`, `ShutdownStopsAll`, `StopReturns` | one id with three lives, two stopping threads and the one that shuts down; session rows pruned |
| `service_orphan` | `RunningIsRegistered` violated | the same, session rows kept |
| `models_pool` | `CountIsHolders`, `HeldStaysLoaded`, `SharersShare`, `OnlyPooledIsLoaded` | two streams of a signature, one of another, a third signature that is warmed; room for one model; all four settings |
| `models_twice` | `LiveModelIsLoaded` violated | the same; somebody stops a stream of the shared signature |
| `batch_predict` | `NobodyStranded`, `ImplementsPredictions`, `CallsReturn` | three streams, two of which may be given up on during a call; passes of at most two |
| `events` | `GapsAreExact`, `WokenSocketsEnd` | two threads, three records, an id started twice; a ring of two, one socket with a queue of one |
| `consumers` | `BooksBalance`; `OneActiveAlert`, `HistoryExplainsState`, `DisabledRuleGoesQuiet`, `JobsAreEnded` | two records of each kind and two rounds of the loop; a rule on a count and a class, queues of one, two alerts, four inputs |
| `recording` | `DeliveredFramesAreIntact`, `NoStrandedFrame`, `ClipsAreWhole` | two lives, two frames, one clip; a pool, an output queue and a frame queue of one |
| `pipeline` | `OccupancyIsExplained`, `CrossingsAreSides`, `MatchingIsStable`; `FailsOnlyWithoutBackup`, `DeadCameraEnds` | four points, two objects, four frames, one change of regions; a network camera beside a webcam or a file, three backends, one fault, two reconnections |
| `operations` | `StoppedStaysStopped`, `AbandonedIsShown`, `DeadWorkersComeBack`; `PodsFindTheirTables`, `FailedDeployIsUndone` | three workers, four deaths, the code's 5 s and 2 s; three releases, one broken and one that drops a table, two outages |

The modules' type invariants (`TypeOK` and the like) hold in the same instances;
those of `Scheduler`, `Ownership`, `StreamService`, `ModelPool`, `Batching`,
`EventFeed`, `Analytics`, `Alerts`, `Recording` and `Scene` are also proved.

Why the bounds are enough.  In the scheduler the interesting cases are two
threads of a kind asleep, a queue at its limit, and an id in two ready queues:
two workers, capacity 1 and two lives reach all of them, and a third frame adds
the blocked submitter.  In the lease model the interesting orders are those of
expiry, the other replica's grant, a late answer and a crash; the TTL is the
smallest that leaves a healthy replica one failed interval
(`Beat + Hold + 2 * Delay <= TTL`), and the second lease of a replica lets an old
heartbeat meet a new lease.  In the service ids do not interact but through the
event loop and the shutdown; three lives let a late stop of the first meet the
third.  In the pool two sharers and a stranger compete for one place: the sharers
give a count of two and a coordinator with two members, the stranger evicts or
finds nothing idle and goes over the cap, and the warmed signature makes idle
models, so that one insertion must evict two.  `Warmable` and `WarmBound` keep
the calls of `warm()` few (the numbers of uses would grow for ever), `Stoppable`
the calls of `stop()`; `models_pool` stops the stranger, which is enough to put a
second cleanup beside two sharers.  The sharers are interchangeable, so
`models_pool`, which has no liveness property, uses their symmetry.  In the
coordinator three streams and passes of two leave one request in the queue while a
pass is under way, and a full and a partial batch both occur; two streams that may
overrun allow the count to fall to one, or the coordinator to stop, while two calls
are in progress.  A stream's frames alternate between two, which is enough to tell
the present frame's result from the last one's.

In the feed a queue of one overflows with the second record, a third follows a gap
notice, two starts double the bus's subscription, and two threads deliver across
each other.  Two rounds of the flush loop and the flush of `stop()` let any two
flushes meet around a record.  Two alerts are what a second active one needs, and
four inputs an event, a request, a change of the rule and a stop in any order.  In
the recording a pool of one buffer makes its release and reuse by another stream
visible at once; with an output queue of one every second frame goes through the
eviction; two lives let a clip of the first meet the second's recorder.  In the
scene two objects compete for a track, one may age out and be replaced, and three
points in a row, one of them on the line and on the border of a zone, with one point
above, give all answers of the geometry; four frames suffice for a stay with dwell,
a loss and a return.  In the intake a backend that is missing from the start, one
that breaks, and two streams in one failover exhaust the fallbacks in every order; a
fallback given up because calls raced, and then missed by a third call (`spoilt`),
takes three streams and two faults, and is left to the theorem.
The supervisor's times are the code's own; three workers that die in one round keep
it asleep for 6 s of the 7 s that shutdown waits, a fourth death follows a restart.
Three releases are a good one, a broken one to undo and one whose migration must be
refused; two outages can hit a rollout and its undo.

Deadlock is not checked where the system really stops: a worker pool that was
stopped, a service and its detectors that were shut down, a coordinator whose
streams have left, and everything whose inputs are bounded by a constant.  In the
lease model time goes on for ever and deadlock is checked.

### Fairness

Scheduler: weak fairness for every worker and every capture thread in the
kernel's hands; inference calls return; a capture loop whose flag is clear
notices it, since it tests the flag for every frame the source delivers.
Nothing makes a source end, a user call or a frame raise.  Service: weak fairness
for every thread and for the event loop's calls; nothing makes a source end, a user
call or a lease get lost.  Coordinator: weak fairness for the batch thread and for
each call in progress, so forward passes return or raise; nothing makes a stream
call, leave or the coordinator stop.

Feed: weak fairness for a socket's handler between its registration and its wait,
and for one that was woken: tasks of an event loop.  Nothing makes a client
connect, a thread append or a stream stop.  Alerts: weak fairness for the engine's
worker, for the thread that stops and drains, for the end of a job or a pass, for
the age of a cache entry and for the reload after a change; strong fairness for
taking a job, because each turn of the manager's loop takes one before it may begin
an expiry pass, and the pass disables the taking.  Intake: weak fairness for each
stream's thread, whose reads and waits are bounded; nothing makes a camera die or a
backend break.  Workers: weak fairness for the supervisor, the lifespan and a loop
that is to stop; nothing makes a thread die or the process shut down.

The leases, the pool of models, analytics, recording, the scene and the deployment
have safety properties only, and no fairness.

### Findings

1. `service_orphan`: the second start of an id raises after its thread was
   started; the stream runs outside the registry.
2. `models_twice`: without the scheduler both the stream's thread and `stop()`
   run `_cleanup()`, and each returns the one reference.  The second return is
   another stream's: its model becomes idle while in use, and is evicted by the
   next load.  The header says that a model a live stream holds is never evicted.

What follows was met while modelling and has no run of its own any more.  Where a
definition is named, the module states it, TLC refutes it in the instance of the
run (with the change given), and no run lists it.

- `Scheduler.OneWorkerPerStream` (two frames in the second life): a ready entry of
  an ended life puts a second worker into the restarted stream's processor
  (`scheduler.py` 217); the header rules that out.
- `Ownership.ShutdownKeepsLease` (TTL 3, a shutdown of 4 ticks): the heartbeats stop
  before the streams, so a long shutdown outlives its leases; the docstring
  (`ownership/__init__.py` 348-351) says they stay held.
- `StreamService.RegisteredIsLeased`: the slower of two overlapping stops releases
  the lease of the next life (`service.py` 1134).
- `StreamService.EndedIsReleased`: a stream that ends before it is registered, or is
  reaped before its callback, keeps its lease for ever (`service.py` 1152).
- `Batching.OnePass` (nobody is given up on): a call on the fast path holds no lock,
  so it is still in the detector when a second stream registers and the batch thread
  starts a pass; the header says that one forward pass is in flight per detector.
- `Analytics.EngineEventsAreCounted`: the aggregator compares event types with
  upper-case names, and the event engine emits lower-case ones; no branch matches.
- `Analytics.CachedIsCurrent`: `analytics/cache.py` 4-5 says that a flush
  invalidates the cached answers; no flush does, and `invalidate_all()` is empty.
- `Recording.ClipsShowFrames`: the stream pushes a dictionary for each frame
  (`service.py` 634-641) and `generate_clip()` encodes arrays (`clip.py` 23-42), so
  a clip has no image.
- `Scene.EveryCrossingIsSeen`: a centroid that stops on the line makes neither of
  the two motions a crossing.
- `Intake.BackupKeepsStreams`: two threads that fail over at once may pass by the
  backend that works and mark the fallback exhausted (`detector.py` 242-267); the
  second stream ends.
- `Workers.StoppedStaysStopped` with all four workers (`MCFour`): four restarts of
  2 s outlast the `interval + 2 = 7` s that `stop()` waits (`supervisor.py` 98), the
  round goes on without looking at the stop event, and the restart starts a worker
  that shutdown has stopped.  Whether the fourth is registered is a setting.

Smaller ones, read in the code: the scheduler's header promises that a full queue
drops its oldest frame while `submit()` blocks the capture thread; the ownership
header says that a stream stops the moment its lease is lost while two replicas may
run it together for the window `OverlapBounded` states; the coordinator's header
says that `stop()` ends pending requests with an error, while the batch thread
computes them.  A socket that registers after `close_stream()` is woken by nobody,
and one that is redirected leaves its stop event behind.  `POST
/analytics/{id}/flush` hands `flush()` a session where it calls a session factory,
and always answers 500.  With a pre-buffer of 0 the slice `[-0:]` keeps everything
(`recording/manager.py` 243).  A stream that ends by itself leaves its recorder
running.  The quota pass subtracts the size of a file it has just deleted
(`recording/manager.py` 185), which is 0, and so deletes more than it must.  Expiry
passes over suppressed alerts, and nothing ends a suppression.  After a failed
reconnection the capture is `None` and the next read raises an `AttributeError`
instead of counting an attempt.  The heartbeat thread does not exist before the
first lease, so the supervisor's first round counts it as failed and starts it; a
worker's restart budget is never refilled.  `/ready` builds and loads the inference
provider on each call, which `readiness.py` 69 calls fast and non-blocking.  A
`TimeoutExpired` in `rollout_status()` ends the deploy driver with no rollback
(`deploy.py` 111-117), and a deployment that repeats the current image undoes a
release that was good.

## 4. Proofs

All proof modules are checked for every value of the constants, from the
named assumptions of the component modules alone.

*Scheduler.* `TypeCorrect`, `NoWakeupIsLost`, `OneWorkerWhenIdUsedOnce`,
`RunningStreamOwnsItsChannel`, `TeardownFindsNoWorker`, `FramesAreNotOvertaken`.
The lost-wakeup invariant is inductive once it says for each sleeping thread that
its condition is false and for each backlog that the id is queued with a worker
or a worker is inside the channel and will look; the last part needs that
`enqueued` and `in_flight` tell the truth about the ready queues and the workers
for the channel an id has now.  That a worker excludes all others follows from
counting: the entries of an id in all ready queues and the workers inside its
channel are at most one together, as long as the id is used once.  The teardown
needs that a running stream still has the channel it registered, which is what
`IdFree` is for: then a worker inside shows in `in_flight` of the very channel that
`unregister()` looks at (`FlightShows`), and once its thread has left nobody can
take a frame of it (`EndedIsLeft`).  For the order, the numbers of an instance's
frames go up from those that are done over the one in its worker's hands and those
in the channel to the one its thread holds (`InOrder`).

*Ownership.* `TypeCorrect`, `FreshLeaseIsSafe`, `DuplicateRunsAreBounded`,
`HealthyReplicaKeepsItsLease`, `LossesAreReal`.  The invariant adds up ages: an
answer on its way, whether to a grant or a renewal, and the age of a fresh lease
each tell how long the key still has to live (`left + age + Delay >= TTL`), and who
owns it.  The window of a duplicate run is bounded by the lease's age while it is not
stale; once it is, the round of the heartbeat in progress, or the next one, ends it,
so the bound follows the position of that thread: between rounds, waiting for the
manager's lock, in a round about this lease or an earlier one (`Window`).  For a replica
that reaches Redis it bounds from below what its key has left, at the same positions
(`Kept`).  A lease can be lost from the registry only through an answer "not yours",
which the history `lapsed` explains, or through its age.  All of it holds for any
TTL, interval and delay, any number of replicas, and whatever fails.

*StreamService.* `TypeCorrect`, `RunsUnderLease`, `ShutdownIsComplete`, `StopsUnmark`,
`RunningStaysRegistered`, `OneThreadAtATime`.  The invariant says who may add to the registry
(only the event loop, between its check and its insert), that the flag is set
in the loop alone, that a stop has cleared it when it goes on, that a stop keeps
its stream registered and marked unless calls overlap, that a running stream is
registered or about to be, and that shutdown has yet to stop what runs.  A lemma
per conjunct goes through the steps that write its variables.  Where joins outlast
the threads, a thread in its loop with a clear flag is one that somebody is joining
(`LoopOk`), so its id is not free for the next life.

*ModelPool.* `TypeCorrect`, `CountsAreRight`, `NothingLeaks`, `HeldModelsStay`,
`PassesHaveModels`, `SharingIsSound`, all from `PoolInvariant`.  A stream that
holds a model is counted in `refs`, so the count is the cardinality of a
non-empty set, the model is not idle and no victim: what is held stays in the
pool, under the same detector.  Coordinators repeat the argument one level up: the
registered one counts exactly the streams it serves, so it is stopped only with
the last of them, and its detector is the one each of them holds.  A frame nobody
gave up on is in a stream that has not begun to clean up, which therefore holds.
Two resident signatures never share a detector, because a load takes a number
larger than all before; so an eviction unloads what it removes and nothing else.

*Batching.* `TypeCorrect`, `NobodyIsStranded`, `LonePathsAreLone`,
`Implementation`, all from `BatchInvariant`.  The requests in the queue and those
left in the batch are together without duplicates and are exactly those of the
waiting callers whose slot is not set; the results left to scatter are aligned
with the batch and each belongs to the request at its place.  Hence a slot that is
set holds the caller's own result or an error, which is the refinement: `Return` of
`Predictions` is the return of a call on either path, `Ask` is `Call`, and every
other action is a stutter.  The batch thread ends only with an empty queue after
`stopping`, under the lock that also guards the test before a request is queued, so
no unanswered request is left.  The count is never
below the number of members (nobody leaves it twice), so a member that reads 1 is
the only one; streams given up on are excepted.

*Analytics.* `AnalyticsTypeCorrect`, `BooksAreKept`.  While nothing is unclean, one
flusher at a time is at work, what it writes is what the counters hold, and after
`stop()` they hold nothing; the equations then follow from what the rows of a
window add up to (`RowsOfBatch`).

*Alerts.* `AlertsTypeCorrect`, `OneAlertPerKey`, `HistoriesAreChains`.  The worker
takes events only while the engine is up and the drain only after the join, so
unless the worker was left behind one of them evaluates at a time, and when it
reaches its insert no alert is active: a request or a pass that is not outdated
writes to an alert that is active already.  A history gets each entry with the
state it led to, in one commit.

*EventFeed.* `FeedTypeCorrect`, `GapsAreReported`.  As long as one thread delivers
at a time, everything on its way to a client is one stretch of numbers: the record
queued last, then those scheduled on the event loop, in this order, then those the
thread still owes (`Shape`); the stretch has no hole, and it reaches the last record
stored while the client listens.  So what `Enqueue` puts into the queue is one more
than the last, and an eviction moves the first number of the queue and the counter
together (`QueueOK`), and what goes onto the wire continues it (`WireOK`).  This
needs that a client has one subscription and that a thread's copy holds it at most
once (`SubsInv`, `ThreadInv`).

*Recording.* `RecordingTypeCorrect`, `FramesArriveIntact`, `QueuedFramesHaveAWriter`,
`ClipsStayWhole`.  A buffer has one owner: the free list, the output queue, the frame
a socket is encoding, or the stream that draws; so what is drawn on is nobody's
(`OneOwner`).  A recorder, and a clip in the making, belong to a recording that
is in the database, or was deleted while they used it (`UsedIsKept`), and a deletion
that is under way has taken files only of clips that were done (`ListedIsGone`).

*Scene.* `SceneTypeCorrect`, `ZonesBalance`, `CrossingsAddUp`, `NobodyEnvies`.  The
books of a zone move with the set of its stays: each step adds what is entered and
takes what is left and what is dropped, three disjoint sets.  The crossings need that
`prev` is the centroid whose side `path` saw last, and that a crossing between two
sides is half their difference; a line that an object can go around has no such sum,
which is why `LinesAreLong` is a premise (TLC evaluates it for the geometries of the
run).  The matching is a function that recurses over the rounds; that it exists and
what its rounds have is shown by the least round that would be a counterexample
(`LeastOf`).  After each round the pairs are a matching, every pair within the
threshold is still open or conflicts with a taken one that is not longer, and a
round that finds an open pair uses up a detection, so that after `MaxObjects` rounds
none is open.

*Intake.* `BackupsSaveStreams`.  A call that nobody disturbed knows that what it
replaces is broken and that what it has loaded works; so when it gives up, and when
it marks the fallback exhausted, every fallback is broken (`FailoverInv`).

*Workers.* `AbandonedAreShown`, `StoppedStay`.  A noticed death is a gauge at 0 and
a dead thread, until a restart succeeds.  `Left` adds up what the supervisor may
still sleep in its round; it never exceeds one delay for each registered worker,
falls with every second the shutdown waits, and no step before the next round raises
it.  So a wait that is longer than a full round (`Fits`, an assumption of the
theorem: it is true of three workers with the code's times and false of four, see
Findings) ends with the supervisor's thread, and nothing sets a flag after that.

*Deploy.* `TablesAreThere`, `RollbackIsDone`.  With validated migrations tables are
only added, and what a migration of a valid image adds is there once any image has
applied it, provided that valid images agree on it (`Agreed`, an assumption: the
files are never edited); so the current image, those it may go back to and those
that run all find their tables, whether or not jobs overlap.  For the rollback, a job
that is alone finds its own image last and the one from before it second to last, so
that the undo brings that one to the end.

Every safety and action property of a passing run is a theorem.  Only model-checked
are the liveness properties (`StopCompletes`, `BacklogIsDrained`, `StopReturns`,
`CallsReturn`, `WokenSocketsEnd`, `DisabledRuleGoesQuiet`, `JobsAreEnded`,
`DeadCameraEnds`, `DeadWorkersComeBack`), since the prover has no rules for fairness
or `ENABLED`; the type invariant of `Workers`, beyond what its proofs
use; and what counting and folding operators return: that `Victims` of
`ModelPool` has as many members as the pool exceeds its cap by, and the mean that
`Spread` of `Scene` takes.  No theorem reads either value.

## 5. Plan

Every component that keeps state is modelled, and what its runs check of safety is
proved.  What is left, in this order:

1. Composition of `StreamService` and `Ownership`: the reaction to a lost lease in
   every phase of a start (`main.py` 243), with the abstract specification that a
   stream id is run by at most one replica outside a bounded window, and the proof
   that the composition implements it.
2. An abstract log of which every event socket sees a subsequence with its gaps
   named, implemented by `EventFeed`; `GapsAreReported` is its core.
3. The cap of the pool: that an insertion evicts exactly the excess, by the least
   counterexample over the number of evictions, as in `NobodyEnvies`.
4. A second stream in `Alerts` and a second key, to show that marks of different
   keys do not meet; age-based retention and segment switches in `Recording`.

## 6. Not modelled

`PROJECT.json` lists every component with its status.  Left out as a whole:

- *Authentication*: transactions over users and tokens within one request; no state
  is shared with the streams.
- *The front end*: a TypeScript client, a program of its own.  Read in passing: a
  frame that is decoded late is drawn after a newer one (`CanvasFrameRenderer.ts`
  73-87, against its lines 7-8), and after a reconnection nothing is fetched that
  was missed in between.

Left out of the modelled parts:

- everywhere: logging, correlation, metrics and the figures of `get_metrics()` and
  `stats()`; listing routes and the shape of what they return; connections and
  encodings of Redis, Kafka and the database, which appear through what their
  callers see of them (an answer, a failure, an entry that expires);
- scheduler, service, pool and batching: spurious wakeups, the DB session of a
  worker, the rows written for detections and tracks, the creation and reset of the
  process-wide managers, private detectors, batching without a model manager;
- leases: `LeaderLease`, of which the analytics and alerts see only whether the
  replica leads; `check_ownership()`, which only tests call; that the key of an
  orphaned lease goes away is Redis' expiry and an assumption;
- events, alerts and analytics: the alert and system sockets, the broadcast to
  them, the texts of notifications, retention of analytics rows, trajectories;
- recording: age-based retention, segment switches, the detector's own buffers;
- scene: classes, confidences and the payload of events; floating point;
- intake: what the providers do inside (torch, ONNX Runtime, OpenVINO, TensorRT),
  frame sizes, the drain of a camera's own buffer;
- operations: the system sampler, which is not supervised; the other scripts,
  images and manifests; the cluster and the database, which are external and
  modelled from how the driver and the migrations use them.
