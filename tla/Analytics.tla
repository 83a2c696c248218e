------------------------------ MODULE Analytics ------------------------------
(***************************************************************************)
(* The analytics aggregator of one stream (backend/analytics/aggregator.py, *)
(* cache.py and router.py).  Stream threads count records in memory with    *)
(* no lock held; the flush loop, stop() and nobody else read the counters,  *)
(* write them to the database, and reset them.  Reads go through a cache    *)
(* that no flush invalidates.                                              *)
(*                                                                         *)
(* Two counters stand for all of them: a summary row is written per class   *)
(* that was counted ("appeared"), and every other figure of the window      *)
(* ("stationary", and likewise entries, exits and dwell seconds) rides on   *)
(* such a row.  The aggregator knows event types by their upper-case names; *)
(* the event engine emits the lower-case ones.                             *)
(***************************************************************************)
EXTENDS Naturals

CONSTANTS
  MaxHandled, (* bound: records handled                                      *)
  MaxFlushes  (* bound: rounds of the flush loop                             *)

ASSUME AnalyticsAssumption == MaxHandled \in Nat /\ MaxFlushes \in Nat

Loop == "loop"
Stopper == "stopper"
Flushers == {Loop, Stopper}

Kinds == {"appeared", "stationary"}

VARIABLES
  counts,   \* kind -> what _StreamAgg counts in this window
  rows,     \* kind -> what the database rows add up to
  flushing, \* flusher -> "no", "started", "wrote"
  batch,    \* flusher -> the counts it is writing
  rounds,   \* rounds the flush loop has made
  running,  \* the _running flag
  stopped,  \* stop() has returned
  cached,   \* the cached answer about "appeared"
  handled,  \* history: kind -> records of it that were handled
  unclean,  \* history: a record met a flush, two flushes met, or a commit failed
  passedOver, \* history: a record of the event engine was not counted
  windowed  \* history: every window written had an appearance, or was empty

anaVars == <<counts, rows, flushing, batch, rounds, running, stopped, cached,
             handled, unclean, passedOver, windowed>>

Zero == [k \in Kinds |-> 0]

AnaInit ==
  /\ counts = Zero /\ rows = Zero
  /\ flushing = [f \in Flushers |-> "no"]
  /\ batch = [f \in Flushers |-> Zero]
  /\ rounds = 0 /\ running = TRUE /\ stopped = FALSE
  /\ cached = [value |-> 0, valid |-> FALSE]
  /\ handled = Zero /\ unclean = FALSE /\ passedOver = FALSE /\ windowed = TRUE

InFlush == \E f \in Flushers : flushing[f] # "no"

\* handle_event() of a record whose type the aggregator knows.
Count(k) ==
  /\ handled[k] < MaxHandled
  /\ counts' = [counts EXCEPT ![k] = @ + 1]
  /\ handled' = [handled EXCEPT ![k] = @ + 1]
  /\ unclean' = (unclean \/ InFlush \/ ~running)
  /\ UNCHANGED <<passedOver, rows, flushing, batch, rounds, running, stopped, cached, windowed>>

\* A record as the event engine spells its type matches no branch.
Ignore ==
  /\ ~passedOver /\ passedOver' = TRUE
  /\ UNCHANGED <<counts, rows, flushing, batch, rounds, running, stopped, cached,
                 handled, unclean, windowed>>

\* The flush loop wakes after its window and finds itself running and leader.
Wake ==
  /\ running /\ flushing[Loop] = "no" /\ rounds < MaxFlushes
  /\ rounds' = rounds + 1
  /\ flushing' = [flushing EXCEPT ![Loop] = "started"]
  /\ batch' = [batch EXCEPT ![Loop] = counts]
  /\ unclean' = (unclean \/ InFlush)
  /\ UNCHANGED <<passedOver, counts, rows, running, stopped, cached, handled, windowed>>

\* ... or finds another replica leading: nothing is written this round.
NotLeader ==
  /\ running /\ flushing[Loop] = "no" /\ rounds < MaxFlushes
  /\ rounds' = rounds + 1
  /\ UNCHANGED <<passedOver, counts, rows, flushing, batch, running, stopped, cached,
                 handled, unclean, windowed>>

\* stop() clears the flag and flushes, whatever the loop is doing.
Stop ==
  /\ running /\ running' = FALSE
  /\ flushing' = [flushing EXCEPT ![Stopper] = "started"]
  /\ batch' = [batch EXCEPT ![Stopper] = counts]
  /\ unclean' = (unclean \/ InFlush)
  /\ UNCHANGED <<passedOver, counts, rows, rounds, stopped, cached, handled, windowed>>

\* The rows of a window: one per class counted; the other figures are columns
\* of those rows.
RowsOf(b) == [k \in Kinds |-> IF b["appeared"] > 0 THEN b[k] ELSE 0]

Commit(f) ==
  /\ flushing[f] = "started"
  /\ rows' = [k \in Kinds |-> rows[k] + RowsOf(batch[f])[k]]
  /\ flushing' = [flushing EXCEPT ![f] = "wrote"]
  /\ windowed' = (windowed /\ (batch[f]["appeared"] = 0 => batch[f] = Zero))
  /\ UNCHANGED <<passedOver, counts, batch, rounds, running, stopped, cached, handled, unclean>>

\* A failing commit is rolled back, and the window is reset all the same.
CommitFails(f) ==
  /\ flushing[f] = "started"
  /\ flushing' = [flushing EXCEPT ![f] = "wrote"]
  /\ unclean' = TRUE
  /\ UNCHANGED <<passedOver, counts, rows, batch, rounds, running, stopped, cached, handled,
                 windowed>>

\* Mutant of AfterReset: the counters survive the flush.
AfterReset_Keeps == counts

AfterReset == Zero

Reset(f) ==
  /\ flushing[f] = "wrote"
  /\ counts' = AfterReset
  /\ flushing' = [flushing EXCEPT ![f] = "no"]
  /\ stopped' = (stopped \/ f = Stopper)
  /\ UNCHANGED <<passedOver, rows, batch, rounds, running, cached, handled, unclean, windowed>>

\* GET .../current, object-counts, zone-occupancy and line-crossings answer
\* from the cache, or from the counters and cache the answer.
Read ==
  /\ ~cached.valid
  /\ cached' = [value |-> counts["appeared"], valid |-> TRUE]
  /\ UNCHANGED <<passedOver, counts, rows, flushing, batch, rounds, running, stopped,
                 handled, unclean, windowed>>

\* The cached answer reaches its time to live.
CacheExpires ==
  /\ cached.valid
  /\ cached' = [value |-> 0, valid |-> FALSE]
  /\ UNCHANGED <<passedOver, counts, rows, flushing, batch, rounds, running, stopped,
                 handled, unclean, windowed>>

AnaNext ==
  \/ \E k \in Kinds : Count(k)
  \/ Ignore
  \/ Wake \/ NotLeader \/ Stop
  \/ \E f \in Flushers : Commit(f) \/ CommitFails(f) \/ Reset(f)
  \/ Read \/ CacheExpires

AnaSpec == AnaInit /\ [][AnaNext]_anaVars

------------------------------------------------------------------------------
AnaTypeOK ==
  /\ counts \in [Kinds -> Nat] /\ rows \in [Kinds -> Nat]
  /\ flushing \in [Flushers -> {"no", "started", "wrote"}]
  /\ batch \in [Flushers -> [Kinds -> Nat]]
  /\ rounds \in 0..MaxFlushes /\ running \in BOOLEAN /\ stopped \in BOOLEAN
  /\ cached \in [value : Nat, valid : BOOLEAN]
  /\ handled \in [Kinds -> 0..MaxHandled]
  /\ unclean \in BOOLEAN /\ passedOver \in BOOLEAN /\ windowed \in BOOLEAN

\* What the counters hold that no row holds yet.
Unwritten(k) == IF \E f \in Flushers : flushing[f] = "wrote" THEN 0 ELSE counts[k]

\* The books balance: unless a record arrived during a flush, two flushes
\* overlapped, or a commit failed, every appearance handled is in a row or in
\* the current window, and never in both, and once stop() has returned all are
\* in rows.  The other figures balance as long as each window written also
\* counted an appearance (_StreamAgg.flush, which commits, then clears, with no
\* lock against handle_event, and stop(), which flushes beside the loop).
BooksBalance ==
  ~unclean =>
    /\ handled["appeared"] = rows["appeared"] + Unwritten("appeared")
    /\ stopped => Unwritten("appeared") = 0
    /\ windowed => handled["stationary"] = rows["stationary"] + Unwritten("stationary")

\* A cached answer is the current window's.  AnalyticsCache says "Cache keys
\* are invalidated on analytics flush so stale data is never served"; flush()
\* invalidates nothing.
CachedIsCurrent == cached.valid => cached.value <= counts["appeared"]

\* "Consumes derived events from the existing EventBuffer infrastructure and
\* maintains per-stream counters": the events the engine derives are counted.
EngineEventsAreCounted == ~passedOver
=============================================================================
