---------------------------- MODULE ConsumersProofs ----------------------------
(* Proofs about the records of a stream and those who consume them: the      *)
(* analytics aggregator, for any number of records and flushes; the alerts,  *)
(* for any rule, queue limits and number of alerts; and the feed that hands  *)
(* the records to the clients of the event socket, for any number of         *)
(* threads and clients, any buffer and any queue.                            *)
EXTENDS Analytics, Alerts, EventFeed, FiniteSetTheorems, SequenceTheorems, TLAPS

-----------------------------------------------------------------------------
(* Analytics: the inductive invariant *)

(* stop() is the last to flush. *)
StopIsLast == stopped \/ flushing[Stopper] # "no" => ~running

(* While nothing is unclean, one flusher at a time is at work, and what it   *)
(* writes is what the counters hold; after stop() they hold nothing.         *)
FlushesAreAlone ==
  /\ \A f, g \in Flushers : flushing[f] # "no" /\ flushing[g] # "no" => f = g
  /\ \A f \in Flushers : flushing[f] = "started" => batch[f] = counts
  /\ stopped => counts = Zero /\ ~InFlush

LedgerInv == AnaTypeOK /\ StopIsLast /\ (~unclean => FlushesAreAlone) /\ BooksBalance

(* What the rows of a window add up to. *)
LEMMA RowsOfBatch ==
  ASSUME NEW b \in [Kinds -> Nat]
  PROVE  /\ RowsOf(b) \in [Kinds -> Nat]
         /\ RowsOf(b)["appeared"] = b["appeared"]
         /\ (b["appeared"] = 0 => b = Zero) => RowsOf(b)["stationary"] = b["stationary"]
<1>1. RowsOf(b) \in [Kinds -> Nat]
  BY DEF RowsOf, Kinds
<1>2. RowsOf(b)["appeared"] = b["appeared"]
  BY DEF RowsOf, Kinds
<1>3. ASSUME b["appeared"] = 0 => b = Zero
      PROVE  RowsOf(b)["stationary"] = b["stationary"]
  <2>1. CASE b["appeared"] > 0
    BY <2>1 DEF RowsOf, Kinds
  <2>2. CASE ~(b["appeared"] > 0)
    <3>1. b["appeared"] = 0
      BY <2>2 DEF Kinds
    <3>2. b["stationary"] = 0
      BY <3>1, <1>3 DEF Zero, Kinds
    <3>3. QED
      BY <2>2, <3>2 DEF RowsOf, Kinds
  <2>3. QED
    BY <2>1, <2>2
<1>4. QED
  BY <1>1, <1>2, <1>3

(* Every step of the aggregator keeps the types. *)
LEMMA LedgerTypes ==
  ASSUME AnaTypeOK, AnaNext
  PROVE  AnaTypeOK'
<1> USE AnalyticsAssumption DEF AnaTypeOK
<1>1. ASSUME NEW k \in Kinds, Count(k) PROVE AnaTypeOK'
  BY <1>1 DEF Count
<1>2. CASE Ignore
  BY <1>2 DEF Ignore
<1>3. CASE Wake
  <2>1. rounds' \in 0..MaxFlushes
    BY <1>3 DEF Wake
  <2>2. batch' \in [Flushers -> [Kinds -> Nat]]
    BY <1>3 DEF Wake
  <2>3. unclean' \in BOOLEAN
    BY <1>3 DEF Wake
  <2>4. QED
    BY <2>1, <2>2, <2>3, <1>3 DEF Wake
<1>4. CASE NotLeader
  BY <1>4 DEF NotLeader
<1>5. CASE Stop
  BY <1>5 DEF Stop
<1>6. ASSUME NEW f \in Flushers, Commit(f) PROVE AnaTypeOK'
  <2>1. RowsOf(batch[f]) \in [Kinds -> Nat]
    BY RowsOfBatch
  <2>2. rows' \in [Kinds -> Nat]
    BY <2>1, <1>6 DEF Commit
  <2>3. QED
    BY <2>2, <1>6 DEF Commit
<1>7. ASSUME NEW f \in Flushers, CommitFails(f) PROVE AnaTypeOK'
  BY <1>7 DEF CommitFails
<1>8. ASSUME NEW f \in Flushers, Reset(f) PROVE AnaTypeOK'
  BY <1>8 DEF Reset, AfterReset, Zero
<1>9. CASE Read
  BY <1>9 DEF Read, Kinds
<1>10. CASE CacheExpires
  BY <1>10 DEF CacheExpires
<1>11. QED
  BY <1>1, <1>2, <1>3, <1>4, <1>5, <1>6, <1>7, <1>8, <1>9, <1>10 DEF AnaNext

(* Every step of the aggregator keeps the order of its flushes. *)
LEMMA LedgerFlushes ==
  ASSUME AnaTypeOK, StopIsLast, ~unclean => FlushesAreAlone, AnaNext
  PROVE  StopIsLast' /\ (~unclean' => FlushesAreAlone')
<1> USE DEF AnaTypeOK, StopIsLast, FlushesAreAlone, InFlush
<1>1. ASSUME NEW k \in Kinds, Count(k)
      PROVE  StopIsLast' /\ (~unclean' => FlushesAreAlone')
  BY <1>1 DEF Count
<1>2. CASE Ignore
  BY <1>2 DEF Ignore
<1>3. CASE Wake
  BY <1>3 DEF Wake, Flushers, Loop, Stopper
<1>4. CASE NotLeader
  BY <1>4 DEF NotLeader
<1>5. CASE Stop
  BY <1>5 DEF Stop, Flushers, Loop, Stopper
<1>6. ASSUME NEW f \in Flushers, Commit(f)
      PROVE  StopIsLast' /\ (~unclean' => FlushesAreAlone')
  BY <1>6 DEF Commit
<1>7. ASSUME NEW f \in Flushers, CommitFails(f)
      PROVE  StopIsLast' /\ (~unclean' => FlushesAreAlone')
  BY <1>7 DEF CommitFails
<1>8. ASSUME NEW f \in Flushers, Reset(f)
      PROVE  StopIsLast' /\ (~unclean' => FlushesAreAlone')
  BY <1>8 DEF Reset, AfterReset
<1>9. CASE Read
  BY <1>9 DEF Read
<1>10. CASE CacheExpires
  BY <1>10 DEF CacheExpires
<1>11. QED
  BY <1>1, <1>2, <1>3, <1>4, <1>5, <1>6, <1>7, <1>8, <1>9, <1>10 DEF AnaNext

(* Every step of the aggregator keeps its books. *)
LEMMA LedgerBalances ==
  ASSUME LedgerInv, AnaNext
  PROVE  BooksBalance'
<1>0. AnaTypeOK' /\ StopIsLast' /\ (~unclean' => FlushesAreAlone')
  BY LedgerTypes, LedgerFlushes DEF LedgerInv
<1> USE DEF LedgerInv, AnaTypeOK, BooksBalance, Unwritten
<1>1. ASSUME NEW k \in Kinds, Count(k) PROVE BooksBalance'
  <2> SUFFICES ASSUME ~unclean' PROVE BooksBalance'
    OBVIOUS
  <2>1. ~unclean /\ running /\ ~InFlush /\ ~stopped /\ ~stopped'
    BY <1>1 DEF Count, StopIsLast
  <2>2. \A j \in Kinds : Unwritten(j) = counts[j] /\ Unwritten(j)' = counts'[j]
    BY <1>1, <2>1 DEF Count, InFlush
  <2>3. \A j \in Kinds : counts[j] \in Nat /\ rows[j] \in Nat /\ handled[j] \in Nat
    OBVIOUS
  <2>4. \A j \in Kinds : rows'[j] = rows[j] /\ \E d \in 0..1 : counts'[j] = counts[j] + d
                                                     /\ handled'[j] = handled[j] + d
    BY <1>1, <2>3 DEF Count
  <2>5. \A j \in Kinds : counts'[j] \in Nat /\ handled'[j] \in Nat
    BY <1>0
  <2>6. windowed' = windowed
    BY <1>1 DEF Count
  <2>7. ASSUME NEW j \in Kinds, handled[j] = rows[j] + Unwritten(j)
        PROVE  handled'[j] = rows'[j] + Unwritten(j)'
    <3>1. handled[j] = rows[j] + counts[j]
      BY <2>2, <2>7
    <3>2. handled'[j] = rows'[j] + counts'[j]
      BY <3>1, <2>3, <2>4, <2>5
    <3>3. QED
      BY <3>2, <2>2
  <2> HIDE DEF AnaTypeOK, LedgerInv, Unwritten
  <2>8. QED
    BY <2>1, <2>6, <2>7 DEF Kinds, LedgerInv
<1>2. CASE Ignore
  BY <1>2 DEF Ignore
<1>3. CASE Wake
  BY <1>3 DEF Wake, InFlush
<1>4. CASE NotLeader
  BY <1>4 DEF NotLeader
<1>5. CASE Stop
  BY <1>5 DEF Stop, InFlush, StopIsLast
<1>6. ASSUME NEW f \in Flushers, Commit(f) PROVE BooksBalance'
  <2> SUFFICES ASSUME ~unclean' PROVE BooksBalance'
    OBVIOUS
  <2>1. ~unclean /\ flushing[f] = "started" /\ batch[f] = counts /\ ~stopped /\ ~stopped'
    BY <1>6 DEF Commit, FlushesAreAlone, InFlush
  <2>2. \A g \in Flushers : flushing[g] # "wrote"
    BY <2>1 DEF FlushesAreAlone
  <2>3. flushing'[f] = "wrote"
    BY <1>6 DEF Commit
  <2>4. \A j \in Kinds : Unwritten(j) = counts[j] /\ Unwritten(j)' = 0
    BY <2>2, <2>3
  <2>5. \A j \in Kinds : rows'[j] = rows[j] + RowsOf(counts)[j] /\ handled'[j] = handled[j]
    BY <1>6, <2>1 DEF Commit
  <2>6. \A j \in Kinds : counts[j] \in Nat /\ rows[j] \in Nat /\ handled[j] \in Nat
    OBVIOUS
  <2>7. RowsOf(counts)["appeared"] = counts["appeared"]
    BY RowsOfBatch
  <2>8. windowed' => windowed /\ RowsOf(counts)["stationary"] = counts["stationary"]
    BY <1>6, <2>1, RowsOfBatch DEF Commit
  <2> HIDE DEF AnaTypeOK, LedgerInv, Unwritten
  <2>9. QED
    BY <2>1, <2>4, <2>5, <2>6, <2>7, <2>8 DEF Kinds, LedgerInv
<1>7. ASSUME NEW f \in Flushers, CommitFails(f) PROVE BooksBalance'
  BY <1>7 DEF CommitFails
<1>8. ASSUME NEW f \in Flushers, Reset(f) PROVE BooksBalance'
  BY <1>8 DEF Reset, AfterReset, Zero, Kinds, FlushesAreAlone
<1>9. CASE Read
  BY <1>9 DEF Read
<1>10. CASE CacheExpires
  BY <1>10 DEF CacheExpires
<1>11. QED
  BY <1>1, <1>2, <1>3, <1>4, <1>5, <1>6, <1>7, <1>8, <1>9, <1>10 DEF AnaNext

(* The ledger holds in every reachable state. *)
LEMMA LedgerHolds == AnaSpec => []LedgerInv
<1>1. AnaInit => LedgerInv
  <2> SUFFICES ASSUME AnaInit PROVE LedgerInv
    OBVIOUS
  <2>0. Zero \in [Kinds -> Nat] /\ Zero \in [Kinds -> 0..MaxHandled] /\ 0 \in 0..MaxFlushes
    BY AnalyticsAssumption DEF Zero
  <2>1. AnaTypeOK
    BY <2>0 DEF AnaInit, AnaTypeOK
  <2>2. StopIsLast /\ FlushesAreAlone
    BY DEF AnaInit, StopIsLast, FlushesAreAlone, InFlush, Flushers, Stopper
  <2>3. BooksBalance
    BY DEF AnaInit, BooksBalance, Unwritten, Zero, Kinds
  <2>4. QED
    BY <2>1, <2>2, <2>3 DEF LedgerInv
<1>2. LedgerInv /\ [AnaNext]_anaVars => LedgerInv'
  <2> SUFFICES ASSUME LedgerInv, [AnaNext]_anaVars PROVE LedgerInv'
    OBVIOUS
  <2>1. CASE AnaNext
    BY <2>1, LedgerTypes, LedgerFlushes, LedgerBalances DEF LedgerInv
  <2>2. CASE UNCHANGED anaVars
    BY <2>2 DEF anaVars, LedgerInv, AnaTypeOK, StopIsLast, FlushesAreAlone,
                BooksBalance, InFlush, Unwritten
  <2>3. QED
    BY <2>1, <2>2
<1>3. QED
  BY <1>1, <1>2, PTL DEF AnaSpec

(* The aggregator's variables have their types, whatever is handled and      *)
(* flushed (aggregator.py).                                                  *)
THEOREM AnalyticsTypeCorrect == AnaSpec => []AnaTypeOK
<1>1. LedgerInv => AnaTypeOK
  BY DEF LedgerInv
<1>2. QED
  BY <1>1, LedgerHolds, PTL

(* Nothing that was counted is lost or written twice, and stop() leaves       *)
(* nothing uncounted, for any number of records and windows, unless a record  *)
(* met a flush, two flushes met, or a commit failed (_StreamAgg.flush() and   *)
(* stop()).                                                                   *)
THEOREM BooksAreKept == AnaSpec => []BooksBalance
<1>1. LedgerInv => BooksBalance
  BY DEF LedgerInv
<1>2. QED
  BY <1>1, LedgerHolds, PTL

-----------------------------------------------------------------------------
(* Alerts: the inductive invariant *)

Entries == (States \cup {"none"}) \X States
Rows == [state : States, history : Seq(Entries)]

(* The last entry of a history names the state. *)
Explains(a) == a.history # << >> /\ a.history[Len(a.history)][2] = a.state

(* Each entry starts where the one before ended, and that was not final. *)
Linked(h) ==
  \A k \in 2..Len(h) : h[k][1] = h[k - 1][2] /\ h[k][1] \notin Final

(* The alerts with their histories, and what a request or a pass has read of *)
(* them.                                                                    *)
RowsTyped ==
  /\ alerts \in Seq(Rows)
  /\ request = NoRequest \/ /\ request.op \in Operations /\ request.id \in Ids
                            /\ request.from \in AllowedFrom(request.op)
  /\ DOMAIN pass \subseteq Ids
  /\ \A i \in DOMAIN pass : pass[i] \in {"none", "triggered", "acknowledged"}

HistoriesOk ==
  \A i \in Ids : Explains(alerts[i]) /\ (~stale => Linked(alerts[i].history))

(* The drain has the engine to itself, unless the worker was left behind. *)
TurnsOk ==
  /\ ~At(Drainer, "idle") => engine = "draining"
  /\ ~late /\ engine \in {"draining", "down"} => At(Worker, "idle")

(* One alert is active, and none when another is about to be inserted. *)
ActiveOk ==
  ~late /\ ~stale =>
    /\ \A i, j \in Existing : i = j
    /\ \A t \in Threads : At(t, "insert") => Existing = {}

(* The write of a state and of the entry about it. *)
LEMMA WrittenRow ==
  ASSUME NEW a \in Rows, NEW from \in States, NEW to \in States
  PROVE  /\ Written(a, from, to) \in Rows
         /\ Written(a, from, to).state = to
         /\ Written(a, from, to).history = Append(a.history, <<from, to>>)
<1>1. a.history \in Seq(Entries) /\ <<from, to>> \in Entries
  BY DEF Rows, Entries
<1>2. Append(a.history, <<from, to>>) \in Seq(Entries)
  BY <1>1
<1>3. ASSUME NEW h \in Seq(Entries)
      PROVE  LET w == [a EXCEPT !.state = to, !.history = h]
             IN w \in Rows /\ w.state = to /\ w.history = h
  BY DEF Rows
<1>4. QED
  BY <1>2, <1>3 DEF Written

LEMMA WrittenHistory ==
  ASSUME NEW a \in Rows, NEW from \in States, NEW to \in States, Explains(a)
  PROVE  /\ Explains(Written(a, from, to))
         /\ Linked(a.history) /\ a.state = from /\ from \notin Final
              => Linked(Written(a, from, to).history)
<1> DEFINE h == a.history
           g == Append(h, <<from, to>>)
<1>1. h \in Seq(Entries) /\ Len(h) \in Nat /\ Len(h) > 0 /\ g \in Seq(Entries)
  BY DEF Rows, Entries, Explains
<1>2. /\ Len(g) = Len(h) + 1 /\ g[Len(h) + 1] = <<from, to>>
      /\ \A k \in 1..Len(h) : g[k] = h[k]
  BY <1>1
<1>3. Explains(Written(a, from, to))
  BY <1>1, <1>2, WrittenRow DEF Explains
<1>4. ASSUME Linked(h), a.state = from, from \notin Final PROVE Linked(g)
  <2> SUFFICES ASSUME NEW k \in 2..Len(g)
               PROVE  g[k][1] = g[k - 1][2] /\ g[k][1] \notin Final
    BY DEF Linked
  <2>1. CASE k = Len(h) + 1
    <3>1. g[k - 1] = h[Len(h)] /\ h[Len(h)][2] = from
      BY <2>1, <1>1, <1>2, <1>4 DEF Explains
    <3>2. g[k][1] = from
      BY <2>1, <1>2
    <3>3. QED
      BY <3>1, <3>2, <1>4
  <2>2. CASE k # Len(h) + 1
    <3>1. k \in 2..Len(h) /\ g[k] = h[k] /\ g[k - 1] = h[k - 1]
      BY <2>2, <1>1, <1>2
    <3>2. QED
      BY <3>1, <1>4 DEF Linked
  <2>3. QED
    BY <2>1, <2>2
<1>5. QED
  BY <1>3, <1>4, WrittenRow

(* The steps that touch the alerts or what was read of them. *)
rowVars == <<alerts, request, pass, stale>>
RowStep ==
  \/ \E t \in Threads : Insert(t)
  \/ \E i \in Ids, op \in Operations : Ask(op, i)
  \/ Grant \/ Refuse \/ ReadExpired \/ WriteExpired \/ ExpiryFails

LEMMA RowSteps == Next => RowStep \/ UNCHANGED rowVars
<1> SUFFICES ASSUME Next, ~RowStep PROVE UNCHANGED rowVars
  OBVIOUS
<1> USE DEF rowVars
<1>1. CASE HandleEvent \/ CacheAges \/ MarkExpires \/ Disable \/ Reload
  BY <1>1 DEF HandleEvent, CacheAges, MarkExpires, Disable, Reload
<1>2. ASSUME NEW t \in Threads, Evaluate(t) PROVE UNCHANGED rowVars
  BY <1>2 DEF RowStep, Evaluate, Take, CachedRules, LoadRules, StoreRules, Discard, Match,
              FindActive, InsertFails, Mark
<1>3. ASSUME NEW t \in Threads, Notify(t) \/ Retry(t) PROVE UNCHANGED rowVars
  BY <1>3 DEF Notify, TakeJob, EndJob, Retry
<1>4. CASE StopEngine \/ Shutdown
  BY <1>4 DEF StopEngine, Shutdown, DrainEngine, EngineDown, StopManager, DrainManager,
              ManagerDown
<1>5. QED
  BY <1>1, <1>2, <1>3, <1>4 DEF Next, RowStep

(* A pass or a request leads from an active state to another state. *)
LEMMA FromActive ==
  ASSUME NEW op \in Operations, NEW from \in AllowedFrom(op)
  PROVE  op \in States /\ from \in Active
BY DEF AllowedFrom, Operations, States, Active, Final

LEMMA ActiveNotFinal == Active \cap Final = {} /\ Active \subseteq States /\ Final \subseteq States
BY DEF Active, Final, States

(* Every step keeps the rows, their histories and what was read of them. *)
LEMMA RowsKept ==
  ASSUME RowsTyped, HistoriesOk, Next
  PROVE  RowsTyped' /\ HistoriesOk'
<1> USE DEF RowsTyped, HistoriesOk, Ids
<1>1. ASSUME NEW t \in Threads, Insert(t) PROVE RowsTyped' /\ HistoriesOk'
  <2>1. /\ NewAlert \in Rows /\ Explains(NewAlert) /\ Linked(NewAlert.history)
    BY DEF NewAlert, Rows, Entries, Explains, Linked, States, Active
  <2>2. /\ alerts' \in Seq(Rows) /\ Len(alerts') = Len(alerts) + 1
        /\ \A i \in 1..Len(alerts) : alerts'[i] = alerts[i]
        /\ alerts'[Len(alerts) + 1] = NewAlert
    BY <1>1, <2>1 DEF Insert
  <2>3. UNCHANGED <<request, pass, stale>>
    BY <1>1 DEF Insert
  <2>4. RowsTyped'
    BY <2>2, <2>3
  <2>5. HistoriesOk'
    BY <2>1, <2>2, <2>3
  <2>6. QED
    BY <2>4, <2>5
<1>2. ASSUME NEW i \in Ids, NEW op \in Operations, Ask(op, i)
      PROVE  RowsTyped' /\ HistoriesOk'
  BY <1>2 DEF Ask
<1>3. CASE Grant
  <2>1. /\ request.op \in Operations /\ request.id \in Ids
        /\ request.from \in AllowedFrom(request.op)
        /\ request.from \in States /\ request.op \in States /\ request.from \notin Final
    BY <1>3, FromActive, ActiveNotFinal DEF Grant
  <2> DEFINE i == request.id
             w == Written(alerts[i], request.from, request.op)
  <2>2. /\ alerts[i] \in Rows /\ w \in Rows /\ Explains(w)
        /\ Linked(alerts[i].history) /\ alerts[i].state = request.from => Linked(w.history)
    BY <2>1, WrittenRow, WrittenHistory
  <2>3. alerts' = [alerts EXCEPT ![i] = w]
    BY <1>3 DEF Grant
  <2>4. /\ alerts' \in Seq(Rows) /\ Len(alerts') = Len(alerts) /\ alerts'[i] = w
        /\ \A k \in Ids : k # i => alerts'[k] = alerts[k]
    BY <2>1, <2>2, <2>3
  <2>5. /\ request' = NoRequest /\ pass' = pass
        /\ ~stale' => ~stale /\ alerts[i].state = request.from
    BY <1>3 DEF Grant
  <2> HIDE DEF i, w
  <2>6. RowsTyped'
    BY <2>4, <2>5
  <2>7. ASSUME NEW k \in Ids' PROVE Explains(alerts'[k]) /\ (~stale' => Linked(alerts'[k].history))
    <3>1. CASE k = i
      BY <3>1, <2>1, <2>2, <2>4, <2>5 DEF i
    <3>2. CASE k # i
      BY <3>2, <2>4, <2>5
    <3>3. QED
      BY <3>1, <3>2
  <2>8. QED
    BY <2>6, <2>7
<1>4. CASE Refuse \/ ExpiryFails
  BY <1>4 DEF Refuse, ExpiryFails
<1>5. CASE ReadExpired
  BY <1>5 DEF ReadExpired, Expirable
<1>6. CASE WriteExpired
  <2> DEFINE w(k) == Written(alerts[k], pass[k], "expired")
  <2>1. \A k \in Due : k \in Ids /\ pass[k] \in Active
    BY DEF Due, Active
  <2>2. "expired" \in States
    BY DEF States, Final
  <2>3. \A k \in Due : /\ w(k) \in Rows /\ Explains(w(k))
                       /\ Linked(alerts[k].history) /\ alerts[k].state = pass[k]
                            => Linked(w(k).history)
    BY <2>1, <2>2, WrittenRow, WrittenHistory, ActiveNotFinal
  <2>4. alerts' = [k \in Ids |-> IF k \in Due THEN w(k) ELSE alerts[k]]
    BY <1>6 DEF WriteExpired
  <2>5. alerts' \in Seq(Rows) /\ Len(alerts') = Len(alerts)
    BY <2>3, <2>4
  <2>6. /\ pass' = << >> /\ request' = request
        /\ ~stale' => ~stale /\ \A k \in Due : alerts[k].state = pass[k]
    BY <1>6 DEF WriteExpired
  <2> HIDE DEF w
  <2>7. RowsTyped'
    BY <2>5, <2>6
  <2>8. ASSUME NEW k \in Ids' PROVE Explains(alerts'[k]) /\ (~stale' => Linked(alerts'[k].history))
    BY <2>3, <2>4, <2>5, <2>6
  <2>9. QED
    BY <2>7, <2>8
<1>7. CASE UNCHANGED rowVars
  BY <1>7 DEF rowVars
<1>8. QED
  BY <1>1, <1>2, <1>3, <1>4, <1>5, <1>6, <1>7, RowSteps DEF RowStep

(* What concerns neither the alerts nor a request or a pass. *)
EngineTyped ==
  /\ inputs \in 0..MaxInputs /\ queue \in 0..QueueMax
  /\ enabled \in BOOLEAN /\ reload \in BOOLEAN
  /\ cache \in [rules : {"none", "on", "off"}, fresh : BOOLEAN]
  /\ eval \in [Threads -> [pc : {"idle", "rules", "store", "judge", "look",
                                 "insert", "mark"},
                           rules : {"none", "on", "off"}]]
  /\ marked \in BOOLEAN
  /\ jobs \in 0..NotifyMax
  /\ job \in [Threads -> 0..(MaxRetries + 1)]
  /\ engine \in {"up", "stopping", "draining", "down"}
  /\ manager \in {"up", "stopping", "draining", "down"}
  /\ late \in BOOLEAN /\ stale \in BOOLEAN

LEMMA RowsHaveStates ==
  ASSUME RowsTyped
  PROVE  /\ \A i \in Ids : alerts[i].state \in States
         /\ request.op \in Operations \cup {"none"}
         /\ \A i \in DOMAIN pass : pass[i] \in States \cup {"none"}
<1>1. \A i \in Ids : alerts[i] \in Rows
  BY DEF RowsTyped, Ids
<1>2. \A i \in Ids : alerts[i].state \in States
  BY <1>1 DEF Rows
<1>3. request.op \in Operations \cup {"none"}
  BY DEF RowsTyped, NoRequest
<1>4. \A i \in DOMAIN pass : pass[i] \in States \cup {"none"}
  BY DEF RowsTyped, States, Active
<1>5. QED
  BY <1>2, <1>3, <1>4

LEMMA TypesTogether == EngineTyped /\ RowsTyped => TypeOK
<1> SUFFICES ASSUME EngineTyped, RowsTyped PROVE TypeOK
  OBVIOUS
<1>1. \A t \in Threads : job[t] \in 0..(MaxRetries + 1)
  BY DEF EngineTyped
<1>2. QED
  BY <1>1, RowsHaveStates DEF TypeOK, EngineTyped

(* Every step keeps the types of the engine, the manager and the rule. *)
LEMMA EngineTypes ==
  ASSUME EngineTyped, Next
  PROVE  EngineTyped'
<1> USE AlertsAssumption DEF EngineTyped, Input
<1>1. CASE HandleEvent \/ CacheAges \/ MarkExpires \/ Disable \/ Reload
  <2> USE DEF ruleVars, notifyVars, engineVars
  <2>1. CASE HandleEvent
    BY <2>1 DEF HandleEvent
  <2>2. CASE CacheAges
    BY <2>2 DEF CacheAges, Ages
  <2>3. CASE MarkExpires
    BY <2>3 DEF MarkExpires
  <2>4. CASE Disable
    <3>1. inputs' \in 0..MaxInputs
      BY <2>4 DEF Disable
    <3>2. enabled' \in BOOLEAN /\ reload' \in BOOLEAN
      BY <2>4 DEF Disable
    <3>3. UNCHANGED <<queue, cache, eval, marked, jobs, job, engine, manager, late, stale>>
      BY <2>4 DEF Disable
    <3>4. QED
      BY <3>1, <3>2, <3>3
  <2>5. CASE Reload
    BY <2>5 DEF Reload
  <2>6. QED
    BY <1>1, <2>1, <2>2, <2>3, <2>4, <2>5
<1>2. ASSUME NEW t \in Threads, Evaluate(t) PROVE EngineTyped'
  <2> USE DEF ruleVars, notifyVars, At, Go
  <2>1. CASE Take(t)
    BY <2>1 DEF Take
  <2>2. CASE CachedRules(t) \/ LoadRules(t)
    BY <2>2 DEF CachedRules, LoadRules
  <2>3. CASE StoreRules(t)
    BY <2>3 DEF StoreRules
  <2>4. CASE Discard(t) \/ Match(t)
    BY <2>4 DEF Discard, Match
  <2>5. CASE FindActive(t)
    BY <2>5 DEF FindActive
  <2>6. CASE Insert(t) \/ InsertFails(t)
    <3>1. jobs' \in 0..NotifyMax
      BY <2>6 DEF Insert, InsertFails
    <3>2. eval' \in [Threads -> [pc : {"idle", "rules", "store", "judge", "look",
                                     "insert", "mark"},
                               rules : {"none", "on", "off"}]]
      <4>1. CASE Insert(t)
        BY <4>1 DEF Insert
      <4>2. CASE InsertFails(t)
        BY <4>2 DEF InsertFails
      <4>3. QED
        BY <2>6, <4>1, <4>2
    <3>3. UNCHANGED <<inputs, queue, cache, marked, enabled, reload, job, engine, manager,
                      late, stale>>
      BY <2>6 DEF Insert, InsertFails
    <3>4. QED
      BY <3>1, <3>2, <3>3
  <2>7. CASE Mark(t)
    BY <2>7 DEF Mark
  <2>8. QED
    BY <1>2, <2>1, <2>2, <2>3, <2>4, <2>5, <2>6, <2>7 DEF Evaluate
<1>3. ASSUME NEW t \in Threads, Notify(t) \/ Retry(t) PROVE EngineTyped'
  <2> USE DEF ruleVars, engineVars
  <2>1. CASE TakeJob(t)
    BY <2>1 DEF TakeJob
  <2>2. CASE EndJob(t)
    BY <2>2 DEF EndJob
  <2>3. CASE Retry(t)
    BY <2>3 DEF Retry
  <2>4. QED
    BY <1>3, <2>1, <2>2, <2>3 DEF Notify
<1>4. ASSUME NEW i \in Ids, NEW op \in Operations, Ask(op, i) PROVE EngineTyped'
  BY <1>4 DEF Ask, ruleVars, notifyVars, engineVars
<1>5. CASE Grant \/ Refuse \/ ReadExpired \/ WriteExpired \/ ExpiryFails
  <2> USE DEF ruleVars, notifyVars, engineVars
  <2>1. CASE Grant
    BY <2>1 DEF Grant
  <2>2. CASE Refuse \/ ReadExpired \/ ExpiryFails
    BY <2>2 DEF Refuse, ReadExpired, ExpiryFails
  <2>3. CASE WriteExpired
    BY <2>3 DEF WriteExpired
  <2>4. QED
    BY <1>5, <2>1, <2>2, <2>3
<1>6. CASE StopEngine \/ Shutdown
  <2> USE DEF ruleVars, notifyVars, engineVars
  <2>1. CASE StopEngine
    BY <2>1 DEF StopEngine
  <2>2. CASE DrainEngine \/ EngineDown
    BY <2>2 DEF DrainEngine, EngineDown
  <2>3. CASE StopManager \/ DrainManager \/ ManagerDown
    BY <2>3 DEF StopManager, DrainManager, ManagerDown
  <2>4. QED
    BY <1>6, <2>1, <2>2, <2>3 DEF Shutdown
<1>7. QED
  BY <1>1, <1>2, <1>3, <1>4, <1>5, <1>6 DEF Next

(* Together they are inductive. *)
AlertInv == EngineTyped /\ RowsTyped /\ HistoriesOk /\ TurnsOk /\ ActiveOk

(* Every step keeps the turns of the worker and of the drain. *)
LEMMA TurnsKept ==
  ASSUME EngineTyped, TurnsOk, Next
  PROVE  TurnsOk'
<1> USE DEF EngineTyped, TurnsOk, At, Go, Threads, Worker, Drainer
<1>1. CASE HandleEvent \/ CacheAges \/ MarkExpires \/ Disable \/ Reload
  BY <1>1 DEF HandleEvent, CacheAges, MarkExpires, Disable, Reload, engineVars
<1>2. ASSUME NEW t \in Threads, Evaluate(t) PROVE TurnsOk'
  <2>1. CASE Take(t)
    BY <2>1 DEF Take, MayTake
  <2>2. CASE ~Take(t)
    BY <1>2, <2>2 DEF Evaluate, CachedRules, LoadRules, StoreRules, Discard, Match, FindActive,
                      Insert, InsertFails, Mark
  <2>3. QED
    BY <2>1, <2>2
<1>3. ASSUME NEW t \in Threads, Notify(t) \/ Retry(t) PROVE TurnsOk'
  BY <1>3 DEF Notify, TakeJob, EndJob, Retry, engineVars
<1>4. CASE RowStep /\ ~\E t \in Threads : Insert(t)
  BY <1>4 DEF RowStep, Ask, Grant, Refuse, ReadExpired, WriteExpired, ExpiryFails, engineVars
<1>5. CASE StopEngine \/ Shutdown
  BY <1>5 DEF StopEngine, Shutdown, DrainEngine, EngineDown, StopManager, DrainManager,
              ManagerDown, engineVars
<1>6. QED
  BY <1>1, <1>2, <1>3, <1>4, <1>5 DEF Next, RowStep, Evaluate

(* Nobody inserts while an alert is active, whatever the requests write.     *)
LEMMA ActiveKept ==
  ASSUME AlertInv, Next
  PROVE  ActiveOk'
<1> SUFFICES ASSUME ~late', ~stale' PROVE ActiveOk'
  BY DEF ActiveOk
<1>0. /\ \A i \in Ids : alerts[i].state \in States
      /\ RowsTyped' /\ Ids = 1..Len(alerts) /\ Ids' = 1..Len(alerts')
  BY RowsHaveStates, RowsKept DEF AlertInv, Ids
<1> USE DEF AlertInv, EngineTyped, ActiveOk, TurnsOk, Existing, At, Go
<1>1. CASE HandleEvent \/ CacheAges \/ MarkExpires \/ Disable \/ Reload
  BY <1>1 DEF HandleEvent, CacheAges, MarkExpires, Disable, Reload, engineVars, Ids
<1>2. ASSUME NEW t \in Threads, Evaluate(t) PROVE ActiveOk'
  <2>1. CASE Insert(t)
    <3>1. /\ Existing = {} /\ ~late /\ ~stale
      BY <2>1 DEF Insert
    <3>2. /\ Len(alerts') = Len(alerts) + 1
          /\ \A i \in 1..Len(alerts) : alerts'[i] = alerts[i]
      BY <2>1 DEF Insert, RowsTyped
    <3>3. \A i \in Existing' : i = Len(alerts) + 1
      BY <3>1, <3>2, <1>0 DEF RowsTyped
    <3>4. \A u \in Threads : ~At(u, "insert")'
      BY <2>1, <3>1 DEF Insert, Threads, Worker, Drainer
    <3>5. QED
      BY <3>3, <3>4
  <2>2. CASE FindActive(t)
    BY <2>2 DEF FindActive, Ids
  <2>3. CASE ~Insert(t) /\ ~FindActive(t)
    <3>1. UNCHANGED <<alerts, late, stale>>
      BY <1>2, <2>3 DEF Evaluate, Take, CachedRules, LoadRules, StoreRules, Discard, Match,
                        InsertFails, Mark
    <3>2. \A u \in Threads : At(u, "insert")' => At(u, "insert")
      BY <1>2, <2>3 DEF Evaluate, Take, CachedRules, LoadRules, StoreRules, Discard, Match,
                        InsertFails, Mark
    <3>3. QED
      BY <3>1, <3>2 DEF Ids
  <2>4. QED
    BY <2>1, <2>2, <2>3
<1>3. ASSUME NEW t \in Threads, Notify(t) \/ Retry(t) PROVE ActiveOk'
  BY <1>3 DEF Notify, TakeJob, EndJob, Retry, engineVars, Ids
<1>4. ASSUME NEW i \in Ids, NEW op \in Operations, Ask(op, i) PROVE ActiveOk'
  BY <1>4 DEF Ask, engineVars, Ids
<1>5. CASE Refuse \/ ReadExpired \/ ExpiryFails
  BY <1>5 DEF Refuse, ReadExpired, ExpiryFails, engineVars, Ids
<1>6. CASE Grant
  <2>1. /\ request.id \in Ids /\ request.from \in AllowedFrom(request.op)
        /\ request.op \in Operations /\ request.from \in Active
    BY <1>6, FromActive DEF Grant, RowsTyped
  <2>2. ~late /\ ~stale /\ alerts[request.id].state = request.from
    BY <1>6 DEF Grant
  <2>3. Len(alerts') = Len(alerts) /\ \A i \in Ids : i # request.id => alerts'[i] = alerts[i]
    BY <1>6, <2>1 DEF Grant, RowsTyped
  <2>4. Existing' \subseteq Existing
    BY <2>1, <2>2, <2>3, <1>0
  <2>5. UNCHANGED eval
    BY <1>6 DEF Grant, engineVars
  <2>6. QED
    BY <2>2, <2>4, <2>5
<1>7. CASE WriteExpired
  <2>1. ~late /\ ~stale /\ UNCHANGED eval
    BY <1>7 DEF WriteExpired, engineVars
  <2>2. \A i \in Due : i \in Ids /\ alerts[i] \in Rows /\ pass[i] \in States
    BY DEF Due, RowsTyped, Ids, States, Active
  <2>3. \A i \in Due : Written(alerts[i], pass[i], "expired").state = "expired"
    <3>1. "expired" \in States
      BY DEF States, Final
    <3>2. QED
      BY <2>2, <3>1, WrittenRow
  <2>4. /\ Ids' = Ids
        /\ \A i \in Ids : IF i \in Due THEN alerts'[i].state = "expired"
                          ELSE alerts'[i] = alerts[i]
    BY <1>7, <2>3 DEF WriteExpired, RowsTyped, Ids
  <2>5. Existing' \subseteq Existing
    BY <2>4 DEF Active
  <2>6. QED
    BY <2>1, <2>5
<1>8. CASE StopEngine \/ Shutdown
  BY <1>8 DEF StopEngine, Shutdown, DrainEngine, EngineDown, StopManager, DrainManager,
              ManagerDown, engineVars, Ids
<1>9. QED
  BY <1>1, <1>2, <1>3, <1>4, <1>5, <1>6, <1>7, <1>8 DEF Next

(* The invariant holds in every reachable state. *)
LEMMA AlertInvariant == Spec => []AlertInv
<1>1. Init => AlertInv
  <2> SUFFICES ASSUME Init PROVE AlertInv
    OBVIOUS
  <2>1. alerts = << >> /\ Len(alerts) = 0 /\ Ids = {}
    BY DEF Init, Ids
  <2>2. EngineTyped
    <3>1. /\ 0 \in 0..MaxInputs /\ 0 \in 0..QueueMax /\ 0 \in 0..NotifyMax
          /\ 0 \in 0..(MaxRetries + 1)
      BY AlertsAssumption
    <3>2. QED
      BY <3>1 DEF Init, EngineTyped
  <2>3. RowsTyped
    BY <2>1 DEF Init, RowsTyped
  <2>4. HistoriesOk /\ ActiveOk
    BY <2>1 DEF Init, HistoriesOk, ActiveOk, At, Existing
  <2>5. TurnsOk
    BY DEF Init, TurnsOk, At, Threads
  <2>6. QED
    BY <2>2, <2>3, <2>4, <2>5 DEF AlertInv
<1>2. AlertInv /\ [Next]_vars => AlertInv'
  <2> SUFFICES ASSUME AlertInv, [Next]_vars PROVE AlertInv'
    OBVIOUS
  <2>1. CASE Next
    BY <2>1, EngineTypes, RowsKept, TurnsKept, ActiveKept DEF AlertInv
  <2>2. CASE UNCHANGED vars
    BY <2>2 DEF vars, engineVars, ruleVars, notifyVars, AlertInv, EngineTyped, RowsTyped,
                HistoriesOk, TurnsOk, ActiveOk, At, Existing, Ids
  <2>3. QED
    BY <2>1, <2>2
<1>3. QED
  BY <1>1, <1>2, PTL DEF Spec

(* The variables of the alerts have their types. *)
THEOREM AlertsTypeCorrect == Spec => []TypeOK
<1>1. AlertInv => TypeOK
  BY TypesTogether DEF AlertInv
<1>2. QED
  BY <1>1, AlertInvariant, PTL

(* One alert of a key is active at a time, whatever the rule and however     *)
(* many alerts there were, unless a stop left the worker behind or a write   *)
(* was based on an outdated read (AlertManager.trigger()).                   *)
THEOREM OneAlertPerKey == Spec => []OneActiveAlert
<1>1. AlertInv => OneActiveAlert
  <2> SUFFICES ASSUME AlertInv, ~late, ~stale
               PROVE  Cardinality({i \in Ids : alerts[i].state \in Active}) <= 1
    BY DEF OneActiveAlert
  <2> DEFINE A == {i \in Ids : alerts[i].state \in Active}
  <2>1. \A i, j \in A : i = j
    BY DEF AlertInv, ActiveOk, Existing
  <2> SUFFICES Cardinality(A) <= 1
    OBVIOUS
  <2> HIDE DEF A
  <2>2. CASE A = {}
    BY <2>2, FS_EmptySet
  <2>3. CASE A # {}
    <3>1. PICK i \in A : TRUE
      BY <2>3
    <3>2. A = {i}
      BY <3>1, <2>1
    <3>3. Cardinality({i}) = 1
      BY FS_Singleton, Zenon
    <3>4. QED
      BY <3>2, <3>3
  <2>4. QED
    BY <2>2, <2>3
<1>2. QED
  BY <1>1, AlertInvariant, PTL

(* The history of an alert explains its state, however long it is            *)
(* (_transition() and run_expiry()).                                         *)
THEOREM HistoriesAreChains == Spec => []HistoryExplainsState
<1>1. AlertInv => HistoryExplainsState
  BY DEF AlertInv, HistoriesOk, Explains, Linked, HistoryExplainsState, Last
<1>2. QED
  BY <1>1, AlertInvariant, PTL

-----------------------------------------------------------------------------
(* EventFeed: the inductive invariant.  GapsAreExact relates what a client   *)
(* has got to nothing else; to see that it stays true one has to follow the  *)
(* records back to where they come from.  The next record queued for a       *)
(* client is the next number because the numbers on the event loop, those    *)
(* a thread still has to hand over and the last one queued are one stretch   *)
(* of consecutive numbers (Shape), which needs each client to be subscribed  *)
(* at most once and threads to deliver one at a time.                        *)

\* Who is subscribed: a token belongs to one subscription, a client has one
\* while its socket is open and none otherwise.
SubsInv ==
  /\ \A i, j \in DOMAIN subs : i # j => subs[i][1] # subs[j][1]
  /\ \A c \in Clients, i \in DOMAIN subs :
       subs[i][2] = c => sock[c] = "open" /\ subs[i][1] = token[c]
  /\ \A c \in Clients : sock[c] = "open" =>
       \E i \in DOMAIN subs : subs[i] = <<token[c], c>>

\* A socket that was never subscribed has got nothing and is owed nothing.
Fresh(c) == sock[c] \in {"new", "registered"}
FreshInv ==
  \A c \in Clients : Fresh(c) =>
    /\ wire[c] = <<>> /\ held[c] = 0 /\ inbox[c] = <<>> /\ dropped[c] = 0
    /\ \A i \in DOMAIN loop : loop[i][1] # c
    /\ \A t \in Appenders : \A p \in DOMAIN thr[t].calls : thr[t].calls[p] # c

\* The threads: those that deliver have records, and copy a client once.
ThreadInv ==
  /\ \A t \in Appenders :
       /\ thr[t].recs = <<>> => thr[t] = Free
       /\ thr[t].next = 0 => thr[t].calls = <<>>
       /\ \A c \in Clients, p, q \in DOMAIN thr[t].calls :
            thr[t].calls[p] = c /\ thr[t].calls[q] = c => p = q
  /\ ~crossed => \A t, u \in Appenders : t = u \/ Idle(t) \/ Idle(u)
  /\ ~crossed => \A t \in Appenders : \A k \in DOMAIN thr[t].recs :
                   thr[t].recs[k] = seq - Len(thr[t].recs) + k

\* What is on its way to a client: the records scheduled on the event loop,
\* and those that threads will still hand to it.
InLoop(c) == {x \in Records : \E i \in DOMAIN loop : loop[i] = <<c, x>>}
Left(t, c) ==
  LET n == Len(thr[t].recs)
  IN IF thr[t].next = 0 THEN IF sock[c] = "open" THEN n ELSE 0
     ELSE IF \E p \in DOMAIN thr[t].calls : thr[t].calls[p] = c
     THEN IF \E p \in DOMAIN thr[t].calls : thr[t].calls[p] = c /\ p >= thr[t].next THEN n ELSE n - 1
     ELSE 0
Owed(c) ==
  {x \in Records : \E t \in Appenders : seq - Left(t, c) < x /\ x <= seq}

\* The number of the last record put into its queue, 0 for none.
Reached(c) ==
  IF inbox[c] # <<>> THEN Last(inbox[c])
  ELSE IF held[c] # 0 THEN held[c]
  ELSE IF wire[c] # <<>> THEN Last(wire[c]).n ELSE 0

\* As three sets of numbers: those on the loop, those owed, and the one queued
\* last.  They come in this order, without holes, and up to the last record
\* when the client still listens.
Way(l, o, r) == l \cup o \cup ({r} \ {0})
Shape(l, o, r, s, open) ==
  /\ \A x \in l, y \in o : x < y
  /\ \A x \in l \cup o : r < x
  /\ \A x, z \in Way(l, o, r) : \A y \in x..z : y \in Way(l, o, r)
  /\ \A x \in Way(l, o, r) : x <= s
  /\ open /\ Way(l, o, r) # {} => s \in Way(l, o, r)
LoopOrdered(c) ==
  \A i, j \in DOMAIN loop :
    i < j /\ loop[i][1] = c /\ loop[j][1] = c => loop[i][2] < loop[j][2]

\* What GapsAreExact says of one sequence of messages, and of an event behind it.
Follows(s, x) ==
  Len(s) > 0 =>
    IF s[Len(s)].kind = "event" THEN x = s[Len(s)].n + 1
    ELSE Len(s) > 1 => s[Len(s) - 1].kind = "event" /\ x = s[Len(s) - 1].n + s[Len(s)].n + 1
Chain(s) ==
  \A i \in DOMAIN s \ {1} : s[i].kind = "event" =>
    IF s[i - 1].kind = "event" THEN s[i].n = s[i - 1].n + 1
    ELSE i > 2 => s[i - 2].kind = "event" /\ s[i].n = s[i - 2].n + s[i - 1].n + 1

\* The messages of one client: sent, being sent, and queued.
Sent(c) == IF held[c] # 0 THEN held[c] ELSE IF wire[c] # <<>> THEN Last(wire[c]).n ELSE 0
WireOK(c) ==
  /\ Chain(wire[c])
  /\ held[c] # 0 => Follows(wire[c], held[c])
  /\ held[c] = 0 /\ wire[c] # <<>> => Last(wire[c]).kind = "event" /\ Last(wire[c]).n # 0
QueueOK(c) ==
  /\ \A i \in DOMAIN inbox[c] \ {1} : inbox[c][i] = inbox[c][i - 1] + 1
  /\ inbox[c] = <<>> => dropped[c] = 0
  /\ inbox[c] # <<>> /\ Sent(c) # 0 => inbox[c][1] = Sent(c) + dropped[c] + 1

Served(c) ==
  /\ Shape(InLoop(c), Owed(c), Reached(c), seq, sock[c] = "open")
  /\ LoopOrdered(c) /\ WireOK(c) /\ QueueOK(c)

FeedInv ==
  /\ FeedTypeOK /\ SubsInv /\ FreshInv /\ ThreadInv
  /\ ~crossed => \A c \in Clients : Served(c)

------------------------------------------------------------------------------
ThreadStates == [recs : Seq(Records), calls : Seq(Callbacks), next : Nat]

\* A thread outside extend() is a state of a thread.
LEMMA FreeIsThread == Free \in ThreadStates /\ Free.recs = <<>> /\ Free.calls = <<>> /\ Free.next = 0
BY DEF Free, ThreadStates

(* A record state written out. *)
LEMMA ThreadState ==
  ASSUME NEW r \in Seq(Records), NEW c \in Seq(Callbacks), NEW n \in Nat
  PROVE  /\ [recs |-> r, calls |-> c, next |-> n] \in ThreadStates
         /\ [recs |-> r, calls |-> c, next |-> n].recs = r
         /\ [recs |-> r, calls |-> c, next |-> n].calls = c
         /\ [recs |-> r, calls |-> c, next |-> n].next = n
BY DEF ThreadStates

(* What a thread delivers next. *)
LEMMA AdvanceFacts ==
  ASSUME FeedTypeOK, ThreadInv, NEW t \in Appenders, NEW cb, Delivers(t, cb), Advance(t)
  PROVE  /\ thr' \in [Appenders -> ThreadStates]
         /\ \A u \in Appenders \ {t} : thr'[u] = thr[u]
         /\ thr'[t].next <= Len(thr'[t].calls)
         /\ thr[t].next \in 1 .. Len(thr[t].calls) /\ Len(thr[t].recs) > 0
         /\ \/ /\ thr[t].next < Len(thr[t].calls)
               /\ thr'[t].recs = thr[t].recs /\ thr'[t].calls = thr[t].calls
               /\ thr'[t].next = thr[t].next + 1
            \/ /\ thr[t].next = Len(thr[t].calls) /\ Len(thr[t].recs) > 1
               /\ thr'[t].recs = Tail(thr[t].recs) /\ thr'[t].calls = thr[t].calls
               /\ thr'[t].next = 1
            \/ /\ thr[t].next = Len(thr[t].calls) /\ Len(thr[t].recs) = 1 /\ thr'[t] = Free
<1> DEFINE r == thr[t].recs
           c == thr[t].calls
           n == thr[t].next
<1>1. /\ thr \in [Appenders -> ThreadStates] /\ r \in Seq(Records) /\ c \in Seq(Callbacks)
      /\ n \in Nat /\ n <= Len(c) /\ Len(c) \in Nat /\ Len(r) \in Nat
  BY DEF FeedTypeOK, ThreadStates
<1>2. n > 0 /\ r # <<>>
  <2>1. n > 0
    BY DEF Delivers
  <2>2. r # <<>>
    BY <2>1, FreeIsThread DEF ThreadInv
  <2> QED BY <2>1, <2>2
<1>3. Len(r) > 0 /\ Tail(r) \in Seq(Records)
  BY <1>1, <1>2
<1>4. thr' = [thr EXCEPT ![t] =
               IF n < Len(c) THEN [recs |-> r, calls |-> c, next |-> n + 1]
               ELSE IF Len(r) > 1 THEN [recs |-> Tail(r), calls |-> c, next |-> 1] ELSE Free]
  BY DEF Advance
<1> HIDE DEF r, c, n
<1>0. Len(r) \in Nat /\ Len(r) > 0 /\ n \in Nat /\ n > 0 /\ Len(c) \in Nat /\ n <= Len(c)
  BY <1>1, <1>2, <1>3
<1>5. CASE n < Len(c)
  <2>1. thr' = [thr EXCEPT ![t] = [recs |-> r, calls |-> c, next |-> n + 1]]
    BY <1>4, <1>5
  <2>2. n + 1 \in Nat /\ n + 1 <= Len(c)
    BY <1>1, <1>5
  <2> QED BY <1>1, <1>2, <1>3, <1>5, <2>1, <2>2, ThreadState DEF r, c, n
<1>6. CASE ~(n < Len(c)) /\ Len(r) > 1
  <2>1. thr' = [thr EXCEPT ![t] = [recs |-> Tail(r), calls |-> c, next |-> 1]]
    BY <1>4, <1>6
  <2>2. n = Len(c) /\ 1 <= Len(c)
    BY <1>6, <1>0
  <2>3. [recs |-> Tail(r), calls |-> c, next |-> 1] \in ThreadStates
    BY <1>1, <1>3, ThreadState
  <2>4. thr' \in [Appenders -> ThreadStates] /\ \A u \in Appenders \ {t} : thr'[u] = thr[u]
    BY <1>1, <2>1, <2>3
  <2>5. thr'[t].recs = Tail(r) /\ thr'[t].calls = c /\ thr'[t].next = 1
    BY <1>1, <1>3, <2>1, ThreadState
  <2> QED BY <1>6, <1>0, <2>2, <2>4, <2>5 DEF r, c, n
<1>7. CASE ~(n < Len(c)) /\ ~(Len(r) > 1)
  <2>1. thr' = [thr EXCEPT ![t] = Free]
    BY <1>4, <1>7
  <2>2. \A x, y \in Nat : ~(x < y) /\ x <= y => x = y
    OBVIOUS
  <2>3. n = Len(c)
    BY <1>0, <1>7, <2>2
  <2>4. Len(r) = 1
    BY <1>0, <1>7
  <2> QED BY <1>0, <1>1, <2>1, <2>3, <2>4, FreeIsThread DEF r, c, n
<1> QED BY <1>5, <1>6, <1>7

(* The buffer keeps the newest records. *)
LEMMA RetainFacts ==
  ASSUME FeedTypeOK, NEW n \in 1..2, seq + n <= MaxEvents
  PROVE  LET new == [i \in 1..n |-> seq + i]
             ring2 == Retain(ring \o new)
         IN /\ new \in Seq(Records) /\ Len(new) = n
            /\ ring2 \in Seq(Records) /\ Len(ring2) <= Capacity
            /\ \A i \in DOMAIN ring2 : ring2[i] = seq + n - Len(ring2) + i
<1> DEFINE new == [i \in 1..n |-> seq + i]
           all == ring \o new
           from == IF Len(all) > Capacity THEN Len(all) - Capacity + 1 ELSE 1
           ring2 == Retain(all)
<1>1. /\ seq \in Nat /\ MaxEvents \in Nat /\ Capacity \in Nat \ {0} /\ ring \in Seq(Records)
      /\ Len(ring) \in Nat /\ \A i \in 1..Len(ring) : ring[i] = seq - Len(ring) + i
  BY FeedAssumption DEF FeedTypeOK, Records
<1>2. new \in Seq(Records) /\ Len(new) = n /\ \A i \in 1..n : new[i] = seq + i
  BY <1>1 DEF Records
<1> HIDE DEF new
<1>3. /\ all \in Seq(Records) /\ Len(all) = Len(ring) + n
      /\ \A i \in 1..Len(all) : all[i] = seq - Len(ring) + i
  BY <1>1, <1>2
<1> HIDE DEF all
<1>4. from \in 1..Len(all) /\ ring2 = SubSeq(all, from, Len(all))
  BY <1>1, <1>3 DEF Retain
<1>5. ring2 \in Seq(Records) /\ Len(ring2) = Len(all) - from + 1
  BY <1>3, <1>4
<1>6. \A i \in 1..Len(ring2) : ring2[i] = all[from + i - 1]
  BY <1>3, <1>4, <1>5
<1>7. Len(ring2) <= Capacity
  BY <1>1, <1>3, <1>5
<1>8. \A i \in DOMAIN ring2 : ring2[i] = seq + n - Len(ring2) + i
  <2> TAKE i \in DOMAIN ring2
  <2>1. i \in 1..Len(ring2) /\ from + i - 1 \in 1..Len(all)
    BY <1>3, <1>4, <1>5
  <2>2. ring2[i] = seq - Len(ring) + (from + i - 1)
    BY <1>3, <1>6, <2>1
  <2> HIDE DEF from, ring2
  <2> QED BY <1>1, <1>3, <1>4, <1>5, <2>1, <2>2
<1> QED BY <1>2, <1>5, <1>7, <1>8 DEF all, new

\* Types, at the start and after every step.  Only unsubscribe() needs more:
\* the token it removes is that of a subscription.
LEMMA FeedTypeInit == FeedInit => FeedTypeOK
<1> SUFFICES ASSUME FeedInit PROVE FeedTypeOK
  OBVIOUS
<1>1. \A t \in Appenders : thr[t] = Free
  BY DEF FeedInit
<1>2. thr \in [Appenders -> ThreadStates] /\ \A t \in Appenders : thr[t].next <= Len(thr[t].calls)
  BY <1>1, FreeIsThread DEF FeedInit
<1>3. /\ ring \in Seq(Records) /\ Len(ring) <= Capacity /\ \A i \in DOMAIN ring : FALSE
      /\ subs \in Seq((1..lastToken) \X Callbacks)
  BY FeedAssumption DEF FeedInit
<1>4. /\ inbox \in [Clients -> Seq(Records)] /\ \A c \in Clients : Len(inbox[c]) <= InboxMax
      /\ wire \in [Clients -> Seq([kind : {"event", "gap"}, n : Nat])]
  BY FeedAssumption DEF FeedInit
<1>5. /\ seq \in 0..MaxEvents /\ lastToken \in Nat /\ starts \in 0..MaxStarts
      /\ token \in [Clients -> Nat] /\ dropped \in [Clients -> Nat]
      /\ held \in [Clients -> 0..MaxEvents]
  BY FeedAssumption DEF FeedInit
<1>6. /\ listed \in BOOLEAN /\ busClosed \in BOOLEAN /\ crossed \in BOOLEAN
      /\ stop \in [Clients -> {"none", "armed", "set"}]
      /\ sock \in [Clients -> {"new", "registered", "open", "ended", "redirected"}]
  BY DEF FeedInit
<1>7. loop \in Seq(Clients \X Records) /\ bus \in Seq(Records)
  BY DEF FeedInit
<1> QED BY <1>2, <1>3, <1>4, <1>5, <1>6, <1>7 DEF FeedTypeOK, ThreadStates

(* Removing an element of a sequence. *)
LEMMA RemoveFacts ==
  ASSUME NEW S, NEW s \in Seq(S), NEW k \in DOMAIN s
  PROVE  /\ RemoveAt(s, k) \in Seq(S) /\ Len(RemoveAt(s, k)) = Len(s) - 1
         /\ \A i \in 1 .. Len(s) - 1 : RemoveAt(s, k)[i] = IF i < k THEN s[i] ELSE s[i + 1]
<1> DEFINE a == SubSeq(s, 1, k - 1)
           b == SubSeq(s, k + 1, Len(s))
<1>1. k \in 1 .. Len(s) /\ Len(s) \in Nat
  OBVIOUS
<1>2. /\ a \in Seq(S) /\ Len(a) = k - 1
      /\ \A i \in 1 .. k - 1 : a[i] = s[i]
  BY <1>1
<1>3. b \in Seq(S) /\ Len(b) = Len(s) - k
  BY <1>1
<1>4. \A i \in 1 .. Len(s) - k : b[i] = s[k + i]
  BY <1>1
<1> HIDE DEF a, b
<1>5. /\ a \o b \in Seq(S) /\ Len(a \o b) = Len(s) - 1
      /\ \A i \in 1 .. Len(s) - 1 : (a \o b)[i] = IF i < k THEN a[i] ELSE b[i - (k - 1)]
  <2>1. /\ a \o b \in Seq(S) /\ Len(a \o b) = Len(a) + Len(b)
        /\ \A i \in 1 .. Len(a) + Len(b) : (a \o b)[i] = IF i <= Len(a) THEN a[i] ELSE b[i - Len(a)]
    BY <1>2, <1>3, ConcatProperties, Zenon
  <2>2. Len(a) + Len(b) = Len(s) - 1 /\ k \in Int
    BY <1>1, <1>2, <1>3
  <2>3. \A i \in 1 .. Len(s) - 1 : i <= k - 1 <=> i < k
    BY <1>1
  <2> QED BY <1>2, <2>1, <2>2, <2>3
<1>6. \A i \in 1 .. Len(s) - 1 : (a \o b)[i] = IF i < k THEN s[i] ELSE s[i + 1]
  <2> TAKE i \in 1 .. Len(s) - 1
  <2>1. CASE i < k
    BY <1>1, <1>2, <1>5, <2>1
  <2>2. CASE ~(i < k)
    <3>1. i - (k - 1) \in 1 .. Len(s) - k
      BY <1>1, <2>2
    <3>2. k + (i - (k - 1)) = i + 1
      BY <1>1
    <3> QED BY <1>4, <1>5, <2>2, <3>1, <3>2
  <2> QED BY <2>1, <2>2
<1> QED BY <1>5, <1>6 DEF RemoveAt, a, b

(* Tokens only grow. *)
LEMMA Widen ==
  ASSUME NEW m \in Nat, NEW n \in Nat, m <= n, NEW s \in Seq((1..m) \X Callbacks)
  PROVE  s \in Seq((1..n) \X Callbacks)
<1>1. (1..m) \X Callbacks \subseteq (1..n) \X Callbacks
  OBVIOUS
<1> QED BY <1>1

LEMMA FeedTypeStep == FeedTypeOK /\ SubsInv /\ ThreadInv /\ [FeedNext]_feedVars => FeedTypeOK'
<1> SUFFICES ASSUME FeedTypeOK, SubsInv, ThreadInv, [FeedNext]_feedVars PROVE FeedTypeOK'
  OBVIOUS
<1> USE FeedAssumption
<1>1. ASSUME NEW t \in Appenders, NEW n \in 1..2, Extend(t, n) PROVE FeedTypeOK'
  <2> DEFINE new == [i \in 1..n |-> seq + i]
  <2>1. /\ seq + n <= MaxEvents /\ seq' = seq + n /\ ring' = Retain(ring \o new)
        /\ thr' = [thr EXCEPT ![t] = [recs |-> new, calls |-> <<>>, next |-> 0]]
        /\ crossed' = (crossed \/ \E u \in Appenders \ {t} : ~Idle(u))
        /\ UNCHANGED <<subVars, listed, starts, sockVars, loop, bus, busClosed>>
    BY <1>1 DEF Extend
  <2>2. /\ new \in Seq(Records) /\ ring' \in Seq(Records) /\ Len(ring') <= Capacity
        /\ \A i \in DOMAIN ring' : ring'[i] = seq' - Len(ring') + i
    <3> DEFINE retained == Retain(ring \o new)
    <3>1. /\ new \in Seq(Records) /\ retained \in Seq(Records) /\ Len(retained) <= Capacity
          /\ \A i \in DOMAIN retained : retained[i] = seq + n - Len(retained) + i
      BY <2>1, RetainFacts
    <3>2. ring' = retained /\ seq' = seq + n
      BY <2>1
    <3> HIDE DEF new, retained
    <3>3. \A i \in DOMAIN retained : retained[i] = seq' - Len(retained) + i
      <4> TAKE i \in DOMAIN retained
      <4>1. seq \in Nat /\ Len(retained) \in Nat /\ i \in Nat
        BY <3>1 DEF FeedTypeOK
      <4>2. retained[i] = seq + n - Len(retained) + i
        BY <3>1
      <4> QED BY <3>2, <4>1, <4>2
    <3>4. ring' \in Seq(Records) /\ Len(ring') <= Capacity
      BY <3>1, <3>2
    <3>5. \A i \in DOMAIN ring' : ring'[i] = seq' - Len(ring') + i
      BY <3>2, <3>3
    <3> QED BY <3>1, <3>4, <3>5
  <2>3. /\ thr' \in [Appenders -> ThreadStates]
        /\ \A u \in Appenders : thr'[u].next <= Len(thr'[u].calls)
    <3> HIDE DEF new
    <3>1. /\ [recs |-> new, calls |-> <<>>, next |-> 0] \in ThreadStates
          /\ [recs |-> new, calls |-> <<>>, next |-> 0].calls = <<>>
          /\ [recs |-> new, calls |-> <<>>, next |-> 0].next = 0
      <4>1. new \in Seq(Records) /\ <<>> \in Seq(Callbacks) /\ 0 \in Nat
        BY <2>2
      <4> QED BY <4>1, ThreadState
    <3> QED BY <2>1, <3>1 DEF FeedTypeOK, ThreadStates
  <2>4. seq' \in 0..MaxEvents /\ crossed' \in BOOLEAN
    BY <2>1 DEF FeedTypeOK
  <2> HIDE DEF new
  <2> QED BY <2>1, <2>2, <2>3, <2>4
        DEF FeedTypeOK, ThreadStates, subVars, sockVars, Records, Callbacks
<1>2. ASSUME NEW t \in Appenders, StartNotify(t) PROVE FeedTypeOK'
  <2>1. subs \in Seq((1..lastToken) \X Callbacks)
    BY DEF FeedTypeOK
  <2> DEFINE cbs == [i \in DOMAIN subs |-> subs[i][2]]
  <2>2. cbs \in Seq(Callbacks) /\ Len(cbs) = Len(subs)
    <3>1. /\ DOMAIN subs = 1..Len(subs) /\ Len(subs) \in Nat
          /\ \A i \in 1..Len(subs) : subs[i][2] \in Callbacks
      BY <2>1
    <3> QED BY <2>1, <3>1
  <2> HIDE DEF cbs
  <2>3. subs # <<>> => 1 <= Len(cbs)
    BY <2>1, <2>2
  <2>4. thr[t].recs \in Seq(Records)
    BY DEF FeedTypeOK
  <2>5. /\ thr' \in [Appenders -> ThreadStates]
        /\ \A u \in Appenders : thr'[u].next <= Len(thr'[u].calls)
    <3>1. CASE subs = <<>>
      BY <1>2, <3>1, FreeIsThread DEF StartNotify, FeedTypeOK, ThreadStates
    <3>2. CASE subs # <<>>
      <4>1. thr' = [thr EXCEPT ![t] = [recs |-> thr[t].recs, calls |-> cbs, next |-> 1]]
        BY <1>2, <3>2 DEF StartNotify, cbs
      <4>2. /\ [recs |-> thr[t].recs, calls |-> cbs, next |-> 1] \in ThreadStates
            /\ [recs |-> thr[t].recs, calls |-> cbs, next |-> 1].calls = cbs
            /\ [recs |-> thr[t].recs, calls |-> cbs, next |-> 1].next = 1
        BY <2>2, <2>4, ThreadState
      <4> QED BY <2>3, <3>2, <4>1, <4>2 DEF FeedTypeOK, ThreadStates
    <3> QED BY <3>1, <3>2
  <2>6. UNCHANGED <<bufferVars, subVars, listed, starts, sockVars, loop, bus, busClosed, crossed>>
    BY <1>2 DEF StartNotify
  <2> QED BY <2>5, <2>6
        DEF FeedTypeOK, ThreadStates, bufferVars, subVars, sockVars, Records, Callbacks
<1>3. ASSUME NEW t \in Appenders, NEW cb, Delivers(t, cb), Advance(t)
      PROVE  /\ thr' \in [Appenders -> ThreadStates]
             /\ \A u \in Appenders : thr'[u].next <= Len(thr'[u].calls)
             /\ Head(thr[t].recs) \in Records
  <2>1. thr[t].recs \in Seq(Records) /\ Len(thr[t].recs) > 0
    BY <1>3, AdvanceFacts DEF FeedTypeOK
  <2>2. Head(thr[t].recs) \in Records
    BY <2>1
  <2>3. /\ thr' \in [Appenders -> ThreadStates] /\ thr'[t].next <= Len(thr'[t].calls)
        /\ \A u \in Appenders \ {t} : thr'[u] = thr[u]
    BY <1>3, AdvanceFacts
  <2> QED BY <2>2, <2>3 DEF FeedTypeOK
<1>4. ASSUME NEW t \in Appenders, Publish(t) PROVE FeedTypeOK'
  <2>1. bus' \in Seq(Records)
    BY <1>3, <1>4 DEF Publish, FeedTypeOK
  <2> QED BY <1>3, <1>4, <2>1
        DEF Publish, FeedTypeOK, ThreadStates, bufferVars, subVars, sockVars, Records, Callbacks
<1>5. ASSUME NEW t \in Appenders, Analyse(t) PROVE FeedTypeOK'
  BY <1>3, <1>5
     DEF Analyse, FeedTypeOK, ThreadStates, bufferVars, subVars, sockVars, Records, Callbacks
<1>6. ASSUME NEW t \in Appenders, NEW c \in Clients, Hand(t, c) PROVE FeedTypeOK'
  <2>1. loop' \in Seq(Clients \X Records)
    BY <1>3, <1>6 DEF Hand, FeedTypeOK
  <2> QED BY <1>3, <1>6, <2>1
        DEF Hand, FeedTypeOK, ThreadStates, bufferVars, subVars, sockVars, Records, Callbacks
<1>7. CASE CloseSockets
  BY <1>7 DEF CloseSockets, FeedTypeOK, bufferVars, subVars, Records, Callbacks
<1>8. CASE Unlist
  BY <1>8 DEF Unlist, FeedTypeOK, bufferVars, subVars, sockVars, Records, Callbacks
<1>9. CASE Ship
  <2>1. bus' \in Seq(Records)
    BY <1>9 DEF Ship, FeedTypeOK
  <2> QED BY <1>9, <2>1 DEF Ship, FeedTypeOK, bufferVars, subVars, sockVars, Records, Callbacks
<1>10. CASE CloseBus
  BY <1>10 DEF CloseBus, FeedTypeOK, bufferVars, subVars, sockVars, Records, Callbacks
<1>11. ASSUME NEW ok \in BOOLEAN, StartStream(ok) PROVE FeedTypeOK'
  <2>1. lastToken' = lastToken + 2 /\ lastToken \in Nat /\ subs \in Seq((1..lastToken) \X Callbacks)
    BY <1>11 DEF StartStream, FeedTypeOK
  <2>2. subs \in Seq((1..lastToken') \X Callbacks)
    BY <2>1, Widen
  <2>3. <<<<lastToken + 1, Bus>>, <<lastToken + 2, Aggregator>>>> \in Seq((1..lastToken') \X Callbacks)
    BY <2>1 DEF Callbacks
  <2>4. subs' \in Seq((1..lastToken') \X Callbacks)
    BY <1>11, <2>2, <2>3 DEF StartStream
  <2>5. lastToken' \in Nat /\ starts' \in 0..MaxStarts /\ listed' \in BOOLEAN
    BY <1>11 DEF StartStream, FeedTypeOK
  <2> QED BY <1>11, <2>4, <2>5 DEF StartStream, FeedTypeOK, bufferVars, sockVars, Records, Callbacks
<1>12. CASE Enqueue
  <2> DEFINE c == loop[1][1]
             r == loop[1][2]
             full == Len(inbox[c]) >= InboxMax
  <2>1. /\ loop # <<>> /\ loop' = Tail(loop)
        /\ inbox' = [inbox EXCEPT ![c] = IF full THEN Overflow(inbox[c], r) ELSE Append(inbox[c], r)]
        /\ dropped' = [dropped EXCEPT ![c] = IF full THEN dropped[c] + 1 ELSE dropped[c]]
        /\ UNCHANGED <<bufferVars, subVars, thr, listed, starts, stop, sock, token, held, wire,
                       bus, busClosed, crossed>>
    BY <1>12 DEF Enqueue
  <2>2. c \in Clients /\ r \in Records /\ loop' \in Seq(Clients \X Records)
    <3>1. loop \in Seq(Clients \X Records)
      BY DEF FeedTypeOK
    <3>2. loop[1] \in Clients \X Records /\ Tail(loop) \in Seq(Clients \X Records)
      BY <2>1, <3>1
    <3> QED BY <2>1, <3>2
  <2> HIDE DEF c, r
  <2>3. /\ inbox[c] \in Seq(Records) /\ Len(inbox[c]) \in Nat /\ Len(inbox[c]) <= InboxMax
        /\ dropped[c] \in Nat
    BY <2>2 DEF FeedTypeOK
  <2>4. CASE full
    <3>1. inbox[c] # <<>>
      BY <2>3, <2>4
    <3>2. Overflow(inbox[c], r) \in Seq(Records) /\ Len(Overflow(inbox[c], r)) <= InboxMax
      BY <2>2, <2>3, <3>1 DEF Overflow
    <3>3. /\ inbox' \in [Clients -> Seq(Records)] /\ \A d \in Clients : Len(inbox'[d]) <= InboxMax
          /\ dropped' \in [Clients -> Nat]
      <4> DEFINE q == Overflow(inbox[c], r)
      <4>1. inbox' = [inbox EXCEPT ![c] = q] /\ dropped' = [dropped EXCEPT ![c] = dropped[c] + 1]
        BY <2>1, <2>4
      <4>2. q \in Seq(Records) /\ Len(q) <= InboxMax
        BY <3>2
      <4> HIDE DEF full, q
      <4> QED BY <2>2, <2>3, <4>1, <4>2 DEF FeedTypeOK
    <3> QED BY <2>1, <2>2, <3>3 DEF FeedTypeOK, bufferVars, subVars, Callbacks
  <2>5. CASE ~full
    <3>1. Append(inbox[c], r) \in Seq(Records) /\ Len(Append(inbox[c], r)) <= InboxMax
      BY <2>2, <2>3, <2>5
    <3>3. /\ inbox' \in [Clients -> Seq(Records)] /\ \A d \in Clients : Len(inbox'[d]) <= InboxMax
          /\ dropped' \in [Clients -> Nat]
      <4> HIDE DEF full
      <4> QED BY <2>1, <2>2, <2>3, <2>5, <3>1 DEF FeedTypeOK
    <3> QED BY <2>1, <2>2, <3>3 DEF FeedTypeOK, bufferVars, subVars, Callbacks
  <2> QED BY <2>4, <2>5
<1>13. ASSUME NEW c \in Clients, Connect(c) \/ Redirect(c) \/ NoStream(c) PROVE FeedTypeOK'
  BY <1>13 DEF Connect, Redirect, NoStream, FeedTypeOK, bufferVars, subVars, Records, Callbacks
<1>14. ASSUME NEW c \in Clients, Subscribe(c) PROVE FeedTypeOK'
  <2>1. /\ lastToken' = lastToken + 1 /\ lastToken \in Nat
        /\ subs \in Seq((1..lastToken) \X Callbacks)
    BY <1>14 DEF Subscribe, FeedTypeOK
  <2>2. subs \in Seq((1..lastToken') \X Callbacks)
    BY <2>1, Widen
  <2>3. subs' \in Seq((1..lastToken') \X Callbacks)
    BY <1>14, <2>1, <2>2 DEF Subscribe, Callbacks
  <2>4. /\ token' \in [Clients -> Nat]
        /\ sock' \in [Clients -> {"new", "registered", "open", "ended", "redirected"}]
    BY <1>14, <2>1 DEF Subscribe, FeedTypeOK
  <2>5. lastToken' \in Nat
    BY <2>1
  <2>6. UNCHANGED <<bufferVars, thr, listed, starts, stop, inbox, dropped, held, wire, loop,
                    bus, busClosed, crossed>>
    BY <1>14 DEF Subscribe
  <2> QED BY <2>3, <2>4, <2>5, <2>6 DEF FeedTypeOK, bufferVars, Records, Callbacks
<1>15. ASSUME NEW c \in Clients, TakeNext(c) PROVE FeedTypeOK'
  <2>1. /\ inbox[c] # <<>> /\ held' = [held EXCEPT ![c] = inbox[c][1]]
        /\ inbox' = [inbox EXCEPT ![c] = Tail(@)] /\ dropped' = [dropped EXCEPT ![c] = 0]
        /\ wire' = IF dropped[c] = 0 THEN wire ELSE [wire EXCEPT ![c] = Append(@, Gap(dropped[c]))]
        /\ UNCHANGED <<bufferVars, subVars, thr, listed, starts, stop, sock, token, loop, bus,
                       busClosed, crossed>>
    BY <1>15 DEF TakeNext
  <2>2. /\ inbox[c] \in Seq(Records) /\ Len(inbox[c]) <= InboxMax
        /\ wire[c] \in Seq([kind : {"event", "gap"}, n : Nat]) /\ dropped[c] \in Nat
    BY DEF FeedTypeOK
  <2>3. inbox[c][1] \in Records /\ Tail(inbox[c]) \in Seq(Records) /\ Len(Tail(inbox[c])) <= InboxMax
    BY <2>1, <2>2
  <2>4. Gap(dropped[c]) \in [kind : {"event", "gap"}, n : Nat]
    BY <2>2 DEF Gap
  <2>5. wire' \in [Clients -> Seq([kind : {"event", "gap"}, n : Nat])]
    BY <2>1, <2>2, <2>4 DEF FeedTypeOK
  <2>6. held' \in [Clients -> 0..MaxEvents] /\ dropped' \in [Clients -> Nat]
    <3>1. inbox[c][1] \in 0..MaxEvents
      BY <2>3 DEF Records
    <3> QED BY <2>1, <3>1 DEF FeedTypeOK
  <2>7. inbox' \in [Clients -> Seq(Records)] /\ \A d \in Clients : Len(inbox'[d]) <= InboxMax
    BY <2>1, <2>3 DEF FeedTypeOK
  <2> QED BY <2>1, <2>5, <2>6, <2>7 DEF FeedTypeOK, bufferVars, subVars, Callbacks
<1>16. ASSUME NEW c \in Clients, SendEvent(c) PROVE FeedTypeOK'
  <2>1. wire[c] \in Seq([kind : {"event", "gap"}, n : Nat]) /\ held[c] \in Nat
    BY DEF FeedTypeOK
  <2>2. Event(held[c]) \in [kind : {"event", "gap"}, n : Nat]
    BY <2>1 DEF Event
  <2>3. /\ wire' = [wire EXCEPT ![c] = Append(@, Event(held[c]))] /\ held' = [held EXCEPT ![c] = 0]
        /\ UNCHANGED <<bufferVars, subVars, thr, listed, starts, stop, sock, token, inbox, dropped,
                       loop, bus, busClosed, crossed>>
    BY <1>16 DEF SendEvent
  <2>4. wire' \in [Clients -> Seq([kind : {"event", "gap"}, n : Nat])]
    BY <2>1, <2>2, <2>3 DEF FeedTypeOK
  <2>5. held' \in [Clients -> 0..MaxEvents]
    BY <2>3 DEF FeedTypeOK
  <2> QED BY <2>3, <2>4, <2>5 DEF FeedTypeOK, bufferVars, subVars, Callbacks, Records
<1>17. ASSUME NEW c \in Clients, Leave(c) PROVE FeedTypeOK'
  <2>1. PICK i \in DOMAIN subs : subs[i] = <<token[c], c>>
    BY <1>17 DEF SubsInv, Leave
  <2> DEFINE k == CHOOSE j \in DOMAIN subs : subs[j][1] = token[c]
  <2>2. k \in DOMAIN subs
    BY <2>1
  <2>3. subs' = RemoveAt(subs, k)
    BY <1>17 DEF Leave, Without
  <2> HIDE DEF k
  <2>4. subs' \in Seq((1..lastToken) \X Callbacks)
    BY <2>2, <2>3, RemoveFacts DEF FeedTypeOK
  <2> QED BY <1>17, <2>4 DEF Leave, FeedTypeOK, bufferVars, Records, Callbacks
<1>18. CASE UNCHANGED feedVars
  BY <1>18 DEF feedVars, FeedTypeOK, bufferVars, subVars, sockVars, Records, Callbacks
<1> QED BY <1>1, <1>2, <1>4, <1>5, <1>6, <1>7, <1>8, <1>9, <1>10, <1>11, <1>12, <1>13, <1>14,
           <1>15, <1>16, <1>17, <1>18 DEF FeedNext, Answer

------------------------------------------------------------------------------
(* Subscriptions.                                                            *)

\* The steps that leave the subscriptions, and who is subscribed, alone.
LEMMA SubsQuiet ==
  ASSUME FeedTypeOK, SubsInv, UNCHANGED <<subs, token>>,
         \A c \in Clients : sock'[c] = "open" <=> sock[c] = "open"
  PROVE  SubsInv'
BY DEF SubsInv

\* start_stream() subscribes no client.
LEMMA SubsStart ==
  ASSUME FeedTypeOK, SubsInv, NEW ok \in BOOLEAN, StartStream(ok)
  PROVE  SubsInv'
<1>1. /\ subs \in Seq((1..lastToken) \X Callbacks) /\ lastToken \in Nat /\ Len(subs) \in Nat
      /\ subs' = subs \o <<<<lastToken + 1, Bus>>, <<lastToken + 2, Aggregator>>>>
      /\ UNCHANGED <<sock, token>>
  BY DEF StartStream, FeedTypeOK, sockVars
<1>2. /\ DOMAIN subs' = 1 .. Len(subs) + 2 /\ DOMAIN subs = 1 .. Len(subs)
      /\ \A i \in 1 .. Len(subs) : subs'[i] = subs[i]
      /\ subs'[Len(subs) + 1] = <<lastToken + 1, Bus>>
      /\ subs'[Len(subs) + 2] = <<lastToken + 2, Aggregator>>
  BY <1>1
<1>3. \A i \in 1 .. Len(subs) : subs[i][1] \in 1..lastToken
  BY <1>1
<1>4. \A i, j \in DOMAIN subs' : i # j => subs'[i][1] # subs'[j][1]
  <2> SUFFICES ASSUME NEW i \in DOMAIN subs', NEW j \in DOMAIN subs', i < j
               PROVE  subs'[i][1] # subs'[j][1]
    BY <1>2
  <2>1. CASE j \in 1 .. Len(subs)
    BY <1>2, <2>1 DEF SubsInv
  <2>2. CASE j = Len(subs) + 1
    BY <1>1, <1>2, <1>3, <2>2
  <2>3. CASE j = Len(subs) + 2
    BY <1>1, <1>2, <1>3, <2>3
  <2> QED BY <1>2, <2>1, <2>2, <2>3
<1>5. \A c \in Clients, i \in DOMAIN subs' :
        subs'[i][2] = c => sock[c] = "open" /\ subs'[i][1] = token[c]
  <2> TAKE c \in Clients, i \in DOMAIN subs'
  <2>1. CASE i \in 1 .. Len(subs)
    BY <1>2, <2>1 DEF SubsInv
  <2>2. CASE i = Len(subs) + 1 \/ i = Len(subs) + 2
    BY <1>2, <2>2, FeedAssumption
  <2> QED BY <1>2, <2>1, <2>2
<1>6. ASSUME NEW c \in Clients, sock[c] = "open"
      PROVE  \E i \in DOMAIN subs' : subs'[i] = <<token[c], c>>
  <2>1. PICK i \in DOMAIN subs : subs[i] = <<token[c], c>>
    BY <1>6 DEF SubsInv
  <2>2. i \in DOMAIN subs' /\ subs'[i] = subs[i]
    BY <1>1, <1>2
  <2> QED BY <2>1, <2>2
<1> QED BY <1>1, <1>4, <1>5, <1>6 DEF SubsInv

\* A handler subscribes with a new token.
LEMMA SubsAdd ==
  ASSUME FeedTypeOK, SubsInv, NEW c \in Clients, Subscribe(c)
  PROVE  SubsInv'
<1>1. /\ subs \in Seq((1..lastToken) \X Callbacks) /\ lastToken \in Nat /\ Len(subs) \in Nat
      /\ subs' = Append(subs, <<lastToken + 1, c>>)
      /\ token' = [token EXCEPT ![c] = lastToken + 1] /\ sock' = [sock EXCEPT ![c] = "open"]
      /\ sock[c] = "registered" /\ DOMAIN sock = Clients /\ DOMAIN token = Clients
  BY DEF Subscribe, FeedTypeOK
<1>2. /\ DOMAIN subs' = 1 .. Len(subs) + 1 /\ DOMAIN subs = 1 .. Len(subs)
      /\ \A i \in 1 .. Len(subs) : subs'[i] = subs[i]
      /\ subs'[Len(subs) + 1] = <<lastToken + 1, c>>
  BY <1>1
<1>3. \A i \in 1 .. Len(subs) : subs[i][1] \in 1..lastToken /\ subs[i][2] # c
  BY <1>1 DEF SubsInv
<1>4. \A i, j \in DOMAIN subs' : i # j => subs'[i][1] # subs'[j][1]
  BY <1>1, <1>2, <1>3 DEF SubsInv
<1>5. \A d \in Clients, i \in DOMAIN subs' :
        subs'[i][2] = d => sock'[d] = "open" /\ subs'[i][1] = token'[d]
  <2> TAKE d \in Clients, i \in DOMAIN subs'
  <2>1. CASE i \in 1 .. Len(subs)
    BY <1>1, <1>2, <1>3, <2>1 DEF SubsInv
  <2>2. CASE i = Len(subs) + 1
    BY <1>1, <1>2, <2>2
  <2> QED BY <1>2, <2>1, <2>2
<1>6. ASSUME NEW d \in Clients, sock'[d] = "open"
      PROVE  \E i \in DOMAIN subs' : subs'[i] = <<token'[d], d>>
  <2>1. CASE d = c
    <3>1. Len(subs) + 1 \in DOMAIN subs' /\ token'[d] = lastToken + 1
      BY <1>1, <1>2, <2>1
    <3> QED BY <1>2, <2>1, <3>1
  <2>2. CASE d # c
    <3>1. sock[d] = "open" /\ token'[d] = token[d]
      BY <1>1, <1>6, <2>2
    <3>2. PICK i \in DOMAIN subs : subs[i] = <<token[d], d>>
      BY <3>1 DEF SubsInv
    <3>3. i \in DOMAIN subs' /\ subs'[i] = subs[i]
      BY <1>1, <1>2
    <3> QED BY <3>1, <3>2, <3>3
  <2> QED BY <2>1, <2>2
<1> QED BY <1>4, <1>5, <1>6 DEF SubsInv

\* unsubscribe() takes away the one subscription of the client.
LEMMA SubsRemove ==
  ASSUME FeedTypeOK, SubsInv, NEW c \in Clients, Leave(c)
  PROVE  SubsInv'
<1> DEFINE k == CHOOSE j \in DOMAIN subs : subs[j][1] = token[c]
<1>1. /\ subs \in Seq((1..lastToken) \X Callbacks) /\ Len(subs) \in Nat
      /\ DOMAIN subs = 1 .. Len(subs)
      /\ subs' = RemoveAt(subs, k) /\ UNCHANGED token
      /\ sock' = [sock EXCEPT ![c] = "ended"] /\ DOMAIN sock = Clients /\ sock[c] = "open"
  BY DEF Leave, Without, FeedTypeOK
<1>2. PICK i \in DOMAIN subs : subs[i] = <<token[c], c>>
  BY <1>1 DEF SubsInv
<1>3. k \in DOMAIN subs /\ subs[k][1] = token[c]
  BY <1>2
<1> HIDE DEF k
<1>4. k = i
  BY <1>2, <1>3 DEF SubsInv
<1>5. /\ DOMAIN subs' = 1 .. Len(subs) - 1
      /\ \A j \in 1 .. Len(subs) - 1 : subs'[j] = IF j < k THEN subs[j] ELSE subs[j + 1]
  <2> DEFINE S == (1..lastToken) \X Callbacks
  <2>1. subs \in Seq(S)
    BY <1>1
  <2> HIDE DEF S
  <2>2. /\ RemoveAt(subs, k) \in Seq(S) /\ Len(RemoveAt(subs, k)) = Len(subs) - 1
        /\ \A j \in 1 .. Len(subs) - 1 : RemoveAt(subs, k)[j] = IF j < k THEN subs[j] ELSE subs[j + 1]
    BY <1>3, <2>1, RemoveFacts
  <2>3. DOMAIN RemoveAt(subs, k) = 1 .. Len(RemoveAt(subs, k))
    BY <2>2
  <2> QED BY <1>1, <2>2, <2>3
<1> DEFINE old(j) == IF j < k THEN j ELSE j + 1
<1>6. /\ \A j \in DOMAIN subs' : subs'[j] = subs[old(j)] /\ old(j) \in DOMAIN subs \ {k}
      /\ \A j, l \in DOMAIN subs' : j # l => old(j) # old(l)
      /\ \A m \in DOMAIN subs \ {k} : \E j \in DOMAIN subs' : old(j) = m
  <2>1. \A j \in DOMAIN subs' : subs'[j] = subs[old(j)] /\ old(j) \in DOMAIN subs \ {k}
    BY <1>1, <1>3, <1>5
  <2>2. \A j, l \in DOMAIN subs' : j # l => old(j) # old(l)
    <3>1. \A j, l \in Int : j # l => (IF j < k THEN j ELSE j + 1) # (IF l < k THEN l ELSE l + 1)
      <4>1. k \in Int
        BY <1>1, <1>3
      <4> QED BY <4>1
    <3>2. \A j \in DOMAIN subs' : j \in Int
      BY <1>1, <1>5
    <3> QED BY <3>1, <3>2
  <2>3. ASSUME NEW m \in DOMAIN subs \ {k} PROVE \E j \in DOMAIN subs' : old(j) = m
    <3>1. CASE m < k
      BY <1>1, <1>3, <1>5, <3>1
    <3>2. CASE m > k
      <4>1. m - 1 \in DOMAIN subs' /\ old(m - 1) = m
        BY <1>1, <1>3, <1>5, <3>2
      <4> QED BY <4>1
    <3> QED BY <1>1, <1>3, <3>1, <3>2
  <2> QED BY <2>1, <2>2, <2>3
<1> HIDE DEF old
<1>7. \A j, l \in DOMAIN subs' : j # l => subs'[j][1] # subs'[l][1]
  BY <1>6 DEF SubsInv
<1>8. \A d \in Clients, j \in DOMAIN subs' :
        subs'[j][2] = d => sock'[d] = "open" /\ subs'[j][1] = token[d]
  <2> TAKE d \in Clients, j \in DOMAIN subs'
  <2>1. CASE d = c
    <3>1. subs[old(j)][2] # c
      BY <1>2, <1>4, <1>6 DEF SubsInv
    <3> QED BY <1>6, <2>1, <3>1
  <2>2. CASE d # c
    BY <1>1, <1>6, <2>2 DEF SubsInv
  <2> QED BY <2>1, <2>2
<1>9. ASSUME NEW d \in Clients, sock'[d] = "open"
      PROVE  \E j \in DOMAIN subs' : subs'[j] = <<token[d], d>>
  <2>1. d # c /\ sock[d] = "open"
    BY <1>1, <1>9
  <2>2. PICK m \in DOMAIN subs : subs[m] = <<token[d], d>>
    BY <2>1 DEF SubsInv
  <2>3. m # k
    BY <1>2, <1>4, <2>1, <2>2
  <2>4. PICK j \in DOMAIN subs' : old(j) = m
    BY <1>6, <2>3
  <2>5. subs'[j] = subs[m]
    BY <1>6, <2>4
  <2> QED BY <2>2, <2>5
<1> QED BY <1>1, <1>7, <1>8, <1>9 DEF SubsInv

\* Subscriptions stay unique through every step.
LEMMA SubsStep == FeedTypeOK /\ SubsInv /\ [FeedNext]_feedVars => SubsInv'
<1> SUFFICES ASSUME FeedTypeOK, SubsInv, [FeedNext]_feedVars PROVE SubsInv'
  OBVIOUS
<1>1. ASSUME UNCHANGED <<subs, token, sock>> PROVE SubsInv'
  BY <1>1, SubsQuiet
<1>2. ASSUME NEW t \in Appenders,
             \/ \E n \in 1..2 : Extend(t, n)
             \/ StartNotify(t) \/ Publish(t) \/ Analyse(t)
             \/ \E c \in Clients : Hand(t, c)
      PROVE  SubsInv'
  BY <1>1, <1>2 DEF Extend, StartNotify, Publish, Analyse, Hand, subVars, sockVars
<1>3. CASE CloseSockets \/ Unlist \/ Ship \/ CloseBus \/ Enqueue
  BY <1>1, <1>3 DEF CloseSockets, Unlist, Ship, CloseBus, Enqueue, subVars, sockVars
<1>4. ASSUME NEW c \in Clients, Connect(c) \/ Redirect(c) \/ NoStream(c) PROVE SubsInv'
  <2>1. /\ UNCHANGED <<subs, token>> /\ sock[c] # "open"
        /\ \E w \in {"registered", "redirected", "ended"} : sock' = [sock EXCEPT ![c] = w]
    BY <1>4 DEF Connect, Redirect, NoStream, subVars
  <2>2. \A d \in Clients : sock'[d] = "open" <=> sock[d] = "open"
    BY <2>1 DEF FeedTypeOK
  <2> QED BY <2>1, <2>2, SubsQuiet
<1>5. ASSUME NEW c \in Clients, TakeNext(c) \/ SendEvent(c) PROVE SubsInv'
  BY <1>1, <1>5 DEF TakeNext, SendEvent, subVars
<1>6. CASE UNCHANGED feedVars
  BY <1>1, <1>6 DEF feedVars, subVars, sockVars
<1> QED BY <1>2, <1>3, <1>4, <1>5, <1>6, SubsStart, SubsAdd, SubsRemove DEF FeedNext, Answer

------------------------------------------------------------------------------
(* The delivering threads. *)

\* What ThreadInv says of one thread.
OneThread(t) ==
  /\ thr[t].recs = <<>> => thr[t] = Free
  /\ thr[t].next = 0 => thr[t].calls = <<>>
  /\ \A c \in Clients : \A p, q \in DOMAIN thr[t].calls :
       thr[t].calls[p] = c /\ thr[t].calls[q] = c => p = q
Numbered(t) == \A k \in DOMAIN thr[t].recs : thr[t].recs[k] = seq - Len(thr[t].recs) + k

\* ThreadInv, thread by thread.
LEMMA ThreadParts ==
  ThreadInv <=> /\ \A t \in Appenders : OneThread(t)
                /\ ~crossed => \A t, u \in Appenders : t = u \/ Idle(t) \/ Idle(u)
                /\ ~crossed => \A t \in Appenders : Numbered(t)
BY DEF ThreadInv, OneThread, Numbered

\* A free thread satisfies what ThreadInv says of it.
LEMMA FreeThread ==
  ASSUME NEW t \in Appenders, thr[t] = Free
  PROVE  OneThread(t) /\ Numbered(t) /\ Idle(t)
BY FreeIsThread DEF OneThread, Numbered, Idle

\* extend() numbers the records behind all others, and is alone with them
\* unless another thread is delivering.
LEMMA ThreadExtend ==
  ASSUME FeedTypeOK, ThreadInv, NEW t \in Appenders, NEW n \in 1..2, Extend(t, n)
  PROVE  /\ ThreadInv'
         /\ thr'[t].next = 0 /\ Len(thr'[t].recs) = n /\ thr'[t].calls = <<>>
         /\ \A k \in 1..n : thr'[t].recs[k] = seq + k
         /\ \A u \in Appenders \ {t} : thr'[u] = thr[u]
         /\ ~crossed' => ~crossed /\ \A u \in Appenders : Idle(u)
<1> DEFINE new == [i \in 1..n |-> seq + i]
<1>1. /\ seq + n <= MaxEvents /\ seq' = seq + n /\ Idle(t)
      /\ thr' = [thr EXCEPT ![t] = [recs |-> new, calls |-> <<>>, next |-> 0]]
      /\ crossed' = (crossed \/ \E u \in Appenders \ {t} : ~Idle(u))
  BY DEF Extend
<1>2. new \in Seq(Records) /\ Len(new) = n /\ DOMAIN new = 1..n /\ \A k \in 1..n : new[k] = seq + k
  BY <1>1, RetainFacts
<1> HIDE DEF new
<1>3. DOMAIN thr = Appenders /\ seq \in Nat
  BY DEF FeedTypeOK
<1>4. thr'[t] = [recs |-> new, calls |-> <<>>, next |-> 0] /\ \A u \in Appenders \ {t} : thr'[u] = thr[u]
  BY <1>1, <1>3
<1>5. thr'[t].recs = new /\ thr'[t].next = 0 /\ thr'[t].calls = <<>>
  BY <1>4
<1>6. ~crossed' => ~crossed /\ \A u \in Appenders : Idle(u)
  BY <1>1
<1>7. new # <<>>
  BY <1>2
<1>8. OneThread(t)' /\ Numbered(t)'
  <2>1. OneThread(t)'
    BY <1>5, <1>7 DEF OneThread
  <2>2. Numbered(t)'
    BY <1>1, <1>2, <1>3, <1>5 DEF Numbered
  <2> QED BY <2>1, <2>2
<1>9. \A u \in Appenders \ {t} : OneThread(u)' /\ (Idle(u) => Numbered(u)' /\ Idle(u)')
  <2> SUFFICES ASSUME NEW u \in Appenders \ {t}
               PROVE  OneThread(u)' /\ (Idle(u) => Numbered(u)' /\ Idle(u)')
    OBVIOUS
  <2>1. OneThread(u)
    BY ThreadParts
  <2>2. OneThread(u)'
    BY <1>4, <2>1 DEF OneThread
  <2>3. Idle(u) => thr'[u].recs = <<>> /\ Idle(u)'
    BY <1>4, FreeIsThread DEF Idle
  <2> QED BY <2>2, <2>3 DEF Numbered
<1>10. ThreadInv'
  <2>1. \A u \in Appenders : OneThread(u)'
    BY <1>8, <1>9
  <2>2. ~crossed' => \A u, v \in Appenders : u = v \/ Idle(u)' \/ Idle(v)'
    BY <1>6, <1>9
  <2>3. ~crossed' => \A u \in Appenders : Numbered(u)'
    BY <1>6, <1>8, <1>9
  <2> QED BY <2>1, <2>2, <2>3 DEF ThreadInv, OneThread, Numbered
<1> QED BY <1>2, <1>4, <1>5, <1>6, <1>10

\* A thread that was not idle goes on, and nobody else moves.
LEMMA ThreadMoves ==
  ASSUME ThreadInv, NEW t \in Appenders, ~Idle(t), UNCHANGED <<seq, crossed>>,
         \A u \in Appenders \ {t} : thr'[u] = thr[u],
         OneThread(t)', Numbered(t) => Numbered(t)'
  PROVE  ThreadInv'
<1>1. \A u \in Appenders \ {t} : OneThread(u)' /\ (Numbered(u) => Numbered(u)') /\ (Idle(u) => Idle(u)')
  <2> SUFFICES ASSUME NEW u \in Appenders \ {t}
               PROVE  OneThread(u)' /\ (Numbered(u) => Numbered(u)') /\ (Idle(u) => Idle(u)')
    OBVIOUS
  <2>1. OneThread(u)
    BY ThreadParts
  <2> QED BY <2>1 DEF OneThread, Numbered, Idle
<1>2. \A u \in Appenders : OneThread(u)'
  BY <1>1
<1>3. ~crossed' => \A u, v \in Appenders : u = v \/ Idle(u)' \/ Idle(v)'
  BY <1>1, ThreadParts
<1>4. ~crossed' => \A u \in Appenders : Numbered(u)'
  BY <1>1, ThreadParts
<1> QED BY <1>2, <1>3, <1>4 DEF ThreadInv, OneThread, Numbered

\* _notify() takes one callback for each client that is subscribed.
LEMMA NotifyFacts ==
  ASSUME FeedTypeOK, SubsInv, ThreadInv, NEW t \in Appenders, StartNotify(t)
  PROVE  /\ ThreadInv'
         /\ \A u \in Appenders \ {t} : thr'[u] = thr[u]
         /\ \/ thr'[t] = Free /\ \A c \in Clients : sock[c] # "open"
            \/ /\ thr'[t].recs = thr[t].recs /\ thr'[t].next = 1
               /\ \A c \in Clients : sock[c] = "open" <=> \E p \in DOMAIN thr'[t].calls : thr'[t].calls[p] = c
         /\ thr[t].next = 0
<1>1. /\ thr[t].recs # <<>> /\ thr[t].next = 0 /\ UNCHANGED <<seq, crossed>>
      /\ DOMAIN thr = Appenders /\ thr[t].recs \in Seq(Records)
      /\ subs \in Seq((1..lastToken) \X Callbacks) /\ DOMAIN subs = 1 .. Len(subs)
  BY DEF StartNotify, FeedTypeOK, bufferVars
<1> DEFINE cbs == [i \in DOMAIN subs |-> subs[i][2]]
<1>2. /\ thr' = [thr EXCEPT ![t] = IF subs = <<>> THEN Free
                                    ELSE [recs |-> thr[t].recs, calls |-> cbs, next |-> 1]]
  BY DEF StartNotify
<1>3. \A u \in Appenders \ {t} : thr'[u] = thr[u]
  BY <1>1, <1>2
<1>4. ~Idle(t)
  BY <1>1, FreeIsThread DEF Idle
<1>5. CASE subs = <<>>
  <2>1. thr'[t] = Free
    BY <1>1, <1>2, <1>5
  <2>2. \A c \in Clients : sock[c] # "open"
    BY <1>5 DEF SubsInv
  <2>3. OneThread(t)' /\ Numbered(t)'
    BY <2>1, FreeIsThread DEF OneThread, Numbered
  <2> QED BY <1>1, <1>3, <1>4, <2>1, <2>2, <2>3, ThreadMoves
<1>6. CASE subs # <<>>
  <2>1. DOMAIN cbs = DOMAIN subs /\ \A i \in DOMAIN subs : cbs[i] = subs[i][2]
    OBVIOUS
  <2>2. thr'[t] = [recs |-> thr[t].recs, calls |-> cbs, next |-> 1]
    BY <1>1, <1>2, <1>6
  <2> HIDE DEF cbs
  <2>3. thr'[t].recs = thr[t].recs /\ thr'[t].calls = cbs /\ thr'[t].next = 1
    BY <2>2
  <2>4. \A c \in Clients : \A p, q \in DOMAIN cbs : cbs[p] = c /\ cbs[q] = c => p = q
    BY <2>1 DEF SubsInv
  <2>5. \A c \in Clients : sock[c] = "open" <=> \E p \in DOMAIN cbs : cbs[p] = c
    <3> TAKE c \in Clients
    <3>1. CASE sock[c] = "open"
      <4>1. PICK i \in DOMAIN subs : subs[i] = <<token[c], c>>
        BY <3>1 DEF SubsInv
      <4> QED BY <2>1, <3>1, <4>1
    <3>2. CASE sock[c] # "open"
      BY <2>1, <3>2 DEF SubsInv
    <3> QED BY <3>1, <3>2
  <2>6. OneThread(t)' /\ (Numbered(t) => Numbered(t)')
    BY <1>1, <2>3, <2>4 DEF OneThread, Numbered
  <2> QED BY <1>1, <1>3, <1>4, <2>3, <2>5, <2>6, ThreadMoves
<1> QED BY <1>5, <1>6

\* Delivering one record to one callback keeps the numbering.
LEMMA ThreadAdvance ==
  ASSUME FeedTypeOK, ThreadInv, NEW t \in Appenders, NEW cb, Delivers(t, cb), Advance(t),
         UNCHANGED <<seq, crossed>>
  PROVE  ThreadInv'
<1>1. /\ thr[t].recs \in Seq(Records) /\ Len(thr[t].recs) \in Nat /\ seq \in Nat
      /\ DOMAIN thr[t].recs = 1 .. Len(thr[t].recs) /\ thr[t].next \in Nat
  BY DEF FeedTypeOK
<1>2. thr[t].next > 0 /\ thr[t].next <= Len(thr[t].calls) /\ Len(thr[t].recs) > 0
  BY AdvanceFacts
<1>3. ~Idle(t) /\ OneThread(t)
  BY <1>2, FreeIsThread, ThreadParts DEF Idle
<1> DEFINE r == thr[t].recs
           L == Len(r)
<1>6. L \in Nat /\ L > 0 /\ seq \in Nat
  BY <1>1, <1>2
<1>8. thr[t].next + 1 # 0
  BY <1>1
<1>4. OneThread(t)' /\ (Numbered(t) => Numbered(t)')
  <2>1. CASE /\ thr'[t].recs = r /\ thr'[t].calls = thr[t].calls
             /\ thr'[t].next = thr[t].next + 1
    <3>1. r # <<>>
      BY <1>2
    <3> HIDE DEF r
    <3>2. OneThread(t)'
      BY <1>3, <1>8, <2>1, <3>1 DEF OneThread
    <3>3. Numbered(t) => Numbered(t)'
      BY <2>1 DEF Numbered, r
    <3> QED BY <3>2, <3>3
  <2>2. CASE /\ L > 1 /\ thr'[t].recs = Tail(r)
             /\ thr'[t].calls = thr[t].calls /\ thr'[t].next = 1
    <3>1. /\ Len(Tail(r)) = L - 1 /\ DOMAIN Tail(r) = 1 .. L - 1
          /\ \A k \in 1 .. L - 1 : Tail(r)[k] = r[k + 1]
      BY <1>1, <2>2
    <3>2. DOMAIN r = 1 .. L
      BY <1>1
    <3> HIDE DEF r, L
    <3>3. 1 \in DOMAIN Tail(r)
      BY <1>6, <2>2, <3>1
    <3>4. Tail(r) # <<>>
      BY <3>3
    <3>5. OneThread(t)'
      BY <1>3, <2>2, <3>4 DEF OneThread
    <3>6. ASSUME Numbered(t) PROVE Numbered(t)'
      <4>1. \A k \in 1 .. L : r[k] = seq - L + k
        BY <3>2, <3>6 DEF Numbered, r, L
      <4>2. ASSUME NEW k \in 1 .. L - 1 PROVE Tail(r)[k] = seq - (L - 1) + k
        <5>1. k + 1 \in 1 .. L
          BY <1>6
        <5>2. seq - L + (k + 1) = seq - (L - 1) + k
          BY <1>6
        <5> QED BY <3>1, <4>1, <5>1, <5>2
      <4> QED BY <2>2, <3>1, <4>2 DEF Numbered
    <3> QED BY <3>5, <3>6
  <2>3. CASE thr'[t] = Free
    BY <2>3, FreeIsThread DEF OneThread, Numbered
  <2> QED BY <2>1, <2>2, <2>3, AdvanceFacts DEF L, r
<1>5. \A u \in Appenders \ {t} : thr'[u] = thr[u]
  BY AdvanceFacts
<1> QED BY <1>3, <1>4, <1>5, ThreadMoves

------------------------------------------------------------------------------
(* What a thread still owes to a client. *)

\* A thread owes no more than it holds.
LEMMA LeftNat ==
  ASSUME FeedTypeOK, ThreadInv, NEW t \in Appenders, NEW c
  PROVE  /\ Left(t, c) \in 0 .. Len(thr[t].recs) /\ Len(thr[t].recs) \in Nat
         /\ Idle(t) => Left(t, c) = 0
<1>1. thr[t].recs \in Seq(Records) /\ Len(thr[t].recs) \in Nat /\ thr[t].calls \in Seq(Callbacks)
  BY DEF FeedTypeOK
<1>2. thr[t].recs = <<>> => thr[t].next = 0
  BY FreeIsThread DEF ThreadInv
<1>3. Len(thr[t].recs) = 0 <=> thr[t].recs = <<>>
  BY <1>1
<1>4. Left(t, c) \in 0 .. Len(thr[t].recs)
  BY <1>1, <1>2, <1>3 DEF Left
<1>5. Idle(t) => Len(thr[t].recs) = 0
  BY <1>3, FreeIsThread DEF Idle
<1> QED BY <1>1, <1>4, <1>5

(* Delivering to one client leaves the others what they are owed. *)
LEMMA LeftAdvance ==
  ASSUME FeedTypeOK, ThreadInv, NEW t \in Appenders, NEW cb, Delivers(t, cb), Advance(t),
         NEW c \in Clients, UNCHANGED sock
  PROVE  /\ c # cb => Left(t, c)' = Left(t, c)
         /\ c = cb => Left(t, c) = Len(thr[t].recs) /\ Left(t, c)' = Left(t, c) - 1
<1> DEFINE r == thr[t].recs
           n == thr[t].next
           k == thr[t].calls
           L == Len(r)
           M == Len(k)
<1>1. /\ n \in 1 .. M /\ L \in Nat /\ M \in Nat /\ L > 0 /\ k[n] = cb /\ DOMAIN k = 1 .. M
      /\ r \in Seq(Records)
  <2>1. r \in Seq(Records) /\ k \in Seq(Callbacks)
    BY DEF FeedTypeOK
  <2>2. n \in 1 .. M /\ L > 0
    BY AdvanceFacts
  <2>3. k[n] = cb
    BY DEF Delivers
  <2> QED BY <2>1, <2>2, <2>3
<1>2. \A p, q \in 1 .. M : k[p] = c /\ k[q] = c => p = q
  BY <1>1 DEF ThreadInv
<1>3. /\ \/ /\ n < M /\ thr'[t].recs = r /\ thr'[t].calls = k /\ thr'[t].next = n + 1
         \/ /\ n = M /\ L > 1 /\ thr'[t].recs = Tail(r) /\ thr'[t].calls = k /\ thr'[t].next = 1
         \/ /\ n = M /\ L = 1 /\ thr'[t] = Free
  BY AdvanceFacts
<1>4. Left(t, c) = IF \E p \in 1 .. M : k[p] = c
                   THEN IF \E p \in 1 .. M : k[p] = c /\ p >= n THEN L ELSE L - 1
                   ELSE 0
  BY <1>1 DEF Left
<1>5. Len(Tail(r)) = L - 1
  BY <1>1
<1> HIDE DEF r, n, k, L, M
<1>6. CASE n < M /\ thr'[t].recs = r /\ thr'[t].calls = k /\ thr'[t].next = n + 1
  <2>1. Left(t, c)' = IF \E p \in 1 .. M : k[p] = c
                      THEN IF \E p \in 1 .. M : k[p] = c /\ p >= n + 1 THEN L ELSE L - 1
                      ELSE 0
    BY <1>1, <1>6 DEF Left, L, M
  <2>2. CASE c = cb
    <3>1. \A p \in 1 .. M : k[p] = c => p = n
      BY <1>1, <1>2, <2>2
    <3>2. /\ \E p \in 1 .. M : k[p] = c /\ p >= n
          /\ ~\E p \in 1 .. M : k[p] = c /\ p >= n + 1
      BY <1>1, <2>2, <3>1
    <3>3. Left(t, c) = L /\ Left(t, c)' = L - 1
      BY <1>4, <2>1, <3>2
    <3> QED BY <2>2, <3>3 DEF L, r
  <2>3. CASE c # cb
    <3>1. (\E p \in 1 .. M : k[p] = c /\ p >= n) <=> (\E p \in 1 .. M : k[p] = c /\ p >= n + 1)
      BY <1>1, <2>3
    <3> QED BY <1>4, <2>1, <2>3, <3>1
  <2> QED BY <2>2, <2>3
<1>7. CASE n = M /\ L > 1 /\ thr'[t].recs = Tail(r) /\ thr'[t].calls = k /\ thr'[t].next = 1
  <2>1. Left(t, c)' = IF \E p \in 1 .. M : k[p] = c
                      THEN IF \E p \in 1 .. M : k[p] = c /\ p >= 1 THEN L - 1 ELSE L - 1 - 1
                      ELSE 0
    BY <1>1, <1>5, <1>7 DEF Left, M
  <2>2. Left(t, c)' = IF \E p \in 1 .. M : k[p] = c THEN L - 1 ELSE 0
    BY <1>1, <2>1
  <2>3. CASE c = cb
    <3>1. \E p \in 1 .. M : k[p] = c /\ p >= n
      BY <1>1, <2>3
    <3>2. \E p \in 1 .. M : k[p] = c
      BY <3>1
    <3>3. Left(t, c) = L /\ Left(t, c)' = L - 1
      BY <1>4, <2>2, <3>1, <3>2
    <3> QED BY <2>3, <3>3 DEF L, r
  <2>4. CASE c # cb
    <3>1. ~\E p \in 1 .. M : k[p] = c /\ p >= n
      BY <1>1, <1>7, <2>4
    <3> QED BY <1>4, <2>2, <2>4, <3>1
  <2> QED BY <2>3, <2>4
<1>8. CASE n = M /\ L = 1 /\ thr'[t] = Free
  <2>1. thr'[t].next = 0 /\ thr'[t].recs = <<>>
    BY <1>8, FreeIsThread
  <2>2. Len(thr'[t].recs) = 0
    BY <2>1
  <2>3. Left(t, c)' = 0
    BY <2>1, <2>2 DEF Left
  <2>4. CASE c = cb
    <3>1. \E p \in 1 .. M : k[p] = c /\ p >= n
      BY <1>1, <2>4
    <3>2. Left(t, c) = L /\ Left(t, c)' = L - 1
      BY <1>4, <1>8, <2>3, <3>1
    <3> QED BY <2>4, <3>2 DEF L, r
  <2>5. CASE c # cb
    <3>1. ~\E p \in 1 .. M : k[p] = c /\ p >= n
      BY <1>1, <1>8, <2>5
    <3> QED BY <1>4, <1>8, <2>3, <2>5, <3>1
  <2> QED BY <2>4, <2>5
<1> QED BY <1>3, <1>6, <1>7, <1>8 DEF L, r

\* Copying the subscribers changes nothing: a client that listens is among them.
LEMMA LeftNotify ==
  ASSUME FeedTypeOK, SubsInv, ThreadInv, NEW t \in Appenders, StartNotify(t), NEW c \in Clients
  PROVE  Left(t, c)' = Left(t, c)
<1>1. UNCHANGED sock
  BY DEF StartNotify, sockVars
<1>2. CASE thr'[t] = Free /\ sock[c] # "open"
  <2>1. thr'[t].next = 0
    BY <1>2, FreeIsThread
  <2> QED BY <1>1, <1>2, <2>1, NotifyFacts DEF Left
<1>3. CASE /\ thr'[t].recs = thr[t].recs /\ thr'[t].next = 1
           /\ sock[c] = "open" <=> \E p \in DOMAIN thr'[t].calls : thr'[t].calls[p] = c
  <2>1. thr'[t].calls \in Seq(Callbacks)
    BY FeedTypeStep DEF FeedNext, FeedTypeOK, ThreadStates
  <2>2. \A p \in DOMAIN thr'[t].calls : p >= 1
    BY <2>1
  <2> QED BY <1>1, <1>3, <2>2, NotifyFacts DEF Left
<1> QED BY <1>2, <1>3, NotifyFacts

------------------------------------------------------------------------------
(* Sockets that have not subscribed. *)

Untouched(c) ==
  /\ wire[c] = <<>> /\ held[c] = 0 /\ inbox[c] = <<>> /\ dropped[c] = 0
  /\ \A i \in DOMAIN loop : loop[i][1] # c
  /\ \A t \in Appenders : \A p \in DOMAIN thr[t].calls : thr[t].calls[p] # c

\* FreshInv, client by client.
LEMMA FreshParts == FreshInv <=> \A c \in Clients : Fresh(c) => Untouched(c)
BY DEF FreshInv, Untouched

(* A thread that goes on calls nobody it did not call before. *)
LEMMA UntouchedAdvance ==
  ASSUME FeedTypeOK, ThreadInv, NEW t \in Appenders, NEW cb, Delivers(t, cb), Advance(t),
         NEW c \in Clients, Untouched(c)
  PROVE  /\ cb # c
         /\ \A u \in Appenders : \A p \in DOMAIN thr'[u].calls : thr'[u].calls[p] # c
<1>1. thr[t].calls \in Seq(Callbacks) /\ thr[t].next \in 1 .. Len(thr[t].calls)
  BY AdvanceFacts DEF FeedTypeOK
<1>2. thr[t].next \in DOMAIN thr[t].calls
  BY <1>1
<1>3. cb # c
  BY <1>2 DEF Untouched, Delivers
<1>4. \A u \in Appenders \ {t} : thr'[u] = thr[u]
  BY AdvanceFacts
<1>5. thr'[t].calls = thr[t].calls \/ thr'[t].calls = <<>>
  BY AdvanceFacts, FreeIsThread
<1>6. \A p \in DOMAIN thr'[t].calls : thr'[t].calls[p] # c
  BY <1>5 DEF Untouched
<1> QED BY <1>3, <1>4, <1>6 DEF Untouched

\* A socket gets nothing before it subscribes.
LEMMA FreshStep ==
  FeedTypeOK /\ SubsInv /\ FreshInv /\ ThreadInv /\ [FeedNext]_feedVars => FreshInv'
<1> SUFFICES ASSUME FeedTypeOK, SubsInv, FreshInv, ThreadInv, [FeedNext]_feedVars,
                    NEW c \in Clients, Fresh(c)'
             PROVE  Untouched(c)'
  BY DEF FreshInv, Untouched
<1>0. Fresh(c) => Untouched(c)
  BY FreshParts
<1>1. ASSUME UNCHANGED <<wire, held, inbox, dropped, loop, thr, sock>> PROVE Untouched(c)'
  BY <1>0, <1>1 DEF Untouched, Fresh
<1>2. ASSUME NEW t \in Appenders, NEW n \in 1..2, Extend(t, n) PROVE Untouched(c)'
  <2>1. UNCHANGED <<wire, held, inbox, dropped, loop, sock>>
    BY <1>2 DEF Extend, sockVars
  <2>2. thr'[t].calls = <<>> /\ \A u \in Appenders \ {t} : thr'[u] = thr[u]
    BY <1>2, ThreadExtend
  <2> QED BY <1>0, <2>1, <2>2 DEF Untouched, Fresh
<1>3. ASSUME NEW t \in Appenders, StartNotify(t) PROVE Untouched(c)'
  <2>1. UNCHANGED <<wire, held, inbox, dropped, loop, sock>>
    BY <1>3 DEF StartNotify, sockVars
  <2>2. Fresh(c) /\ sock[c] # "open"
    BY <2>1 DEF Fresh
  <2>3. /\ \A u \in Appenders \ {t} : thr'[u] = thr[u]
        /\ \A p \in DOMAIN thr'[t].calls : thr'[t].calls[p] # c
    BY <1>3, <2>2, NotifyFacts, FreeIsThread
  <2> QED BY <1>0, <2>1, <2>2, <2>3 DEF Untouched
<1>4. ASSUME NEW t \in Appenders, Publish(t) \/ Analyse(t) PROVE Untouched(c)'
  <2>1. UNCHANGED <<wire, held, inbox, dropped, loop, sock>> /\ Advance(t)
    BY <1>4 DEF Publish, Analyse, sockVars
  <2>2. Untouched(c)
    BY <1>0, <2>1 DEF Fresh
  <2>3. Delivers(t, Bus) \/ Delivers(t, Aggregator)
    BY <1>4 DEF Publish, Analyse
  <2>4. \A u \in Appenders : \A p \in DOMAIN thr'[u].calls : thr'[u].calls[p] # c
    BY <2>1, <2>2, <2>3, UntouchedAdvance
  <2> QED BY <2>1, <2>2, <2>4 DEF Untouched
<1>5. ASSUME NEW t \in Appenders, NEW d \in Clients, Hand(t, d) PROVE Untouched(c)'
  <2>1. /\ UNCHANGED <<wire, held, inbox, dropped, sock>> /\ Advance(t) /\ Delivers(t, d)
        /\ loop' = Append(loop, <<d, Head(thr[t].recs)>>) /\ loop \in Seq(Clients \X Records)
    BY <1>5 DEF Hand, sockVars, FeedTypeOK
  <2>2. Untouched(c)
    BY <1>0, <2>1 DEF Fresh
  <2>3. d # c /\ \A u \in Appenders : \A p \in DOMAIN thr'[u].calls : thr'[u].calls[p] # c
    BY <2>1, <2>2, UntouchedAdvance
  <2> DEFINE h == Head(thr[t].recs)
  <2>4. DOMAIN loop' = 1 .. Len(loop) + 1 /\ DOMAIN loop = 1 .. Len(loop) /\ Len(loop) \in Nat
    BY <2>1
  <2>5. \A i \in 1 .. Len(loop) : loop'[i] = loop[i]
    BY <2>1
  <2>6. loop'[Len(loop) + 1] = <<d, h>>
    BY <2>1
  <2> HIDE DEF h
  <2>7. \A i \in DOMAIN loop' : loop'[i][1] # c
    BY <2>2, <2>3, <2>4, <2>5, <2>6 DEF Untouched
  <2> QED BY <2>1, <2>2, <2>3, <2>7 DEF Untouched
<1>6. CASE CloseSockets \/ Unlist \/ Ship \/ CloseBus
  BY <1>1, <1>6 DEF CloseSockets, Unlist, Ship, CloseBus, sockVars
<1>7. CASE Enqueue
  <2> DEFINE d == loop[1][1]
  <2>1. /\ loop # <<>> /\ loop' = Tail(loop) /\ UNCHANGED <<thr, sock, held, wire>>
        /\ \E x : inbox' = [inbox EXCEPT ![d] = x]
        /\ \E x : dropped' = [dropped EXCEPT ![d] = x]
        /\ loop \in Seq(Clients \X Records)
    BY <1>7 DEF Enqueue, FeedTypeOK
  <2>2. Untouched(c)
    BY <1>0, <2>1 DEF Fresh
  <2>3. /\ 1 \in DOMAIN loop /\ DOMAIN loop' = 1 .. Len(loop) - 1 /\ DOMAIN loop = 1 .. Len(loop)
        /\ Len(loop) \in Nat /\ \A i \in 1 .. Len(loop) - 1 : loop'[i] = loop[i + 1]
    BY <2>1
  <2>4. d # c
    BY <2>2, <2>3 DEF Untouched
  <2> HIDE DEF d
  <2>5. inbox'[c] = inbox[c] /\ dropped'[c] = dropped[c]
    BY <2>1, <2>4 DEF FeedTypeOK
  <2>6. \A i \in DOMAIN loop' : i + 1 \in DOMAIN loop
    BY <2>3
  <2>7. \A i \in DOMAIN loop' : loop'[i][1] # c
    BY <2>2, <2>3, <2>6 DEF Untouched
  <2> QED BY <2>1, <2>2, <2>5, <2>7 DEF Untouched
<1>8. ASSUME NEW ok \in BOOLEAN, StartStream(ok) PROVE Untouched(c)'
  BY <1>1, <1>8 DEF StartStream, sockVars
<1>9. ASSUME NEW d \in Clients, Connect(d) \/ Answer(d) \/ Leave(d) PROVE Untouched(c)'
  <2>1. /\ UNCHANGED <<wire, held, inbox, dropped, loop, thr>>
        /\ \/ sock[d] = "new"
           \/ sock[d] = "registered"
           \/ sock' = [sock EXCEPT ![d] = "ended"]
        /\ \E w : sock' = [sock EXCEPT ![d] = w]
    BY <1>9 DEF Connect, Answer, Redirect, NoStream, Subscribe, Leave
  <2>2. Fresh(c)
    BY <2>1 DEF Fresh, FeedTypeOK
  <2> QED BY <1>0, <2>1, <2>2 DEF Untouched
<1>10. ASSUME NEW d \in Clients, TakeNext(d) \/ SendEvent(d) PROVE Untouched(c)'
  <2>1. /\ sock[d] = "open" /\ UNCHANGED <<sock, loop, thr>>
        /\ \E x : held' = [held EXCEPT ![d] = x]
        /\ wire' = wire \/ \E x : wire' = [wire EXCEPT ![d] = x]
        /\ inbox' = inbox \/ \E x : inbox' = [inbox EXCEPT ![d] = x]
        /\ dropped' = dropped \/ \E x : dropped' = [dropped EXCEPT ![d] = x]
    BY <1>10 DEF TakeNext, SendEvent
  <2>2. Fresh(c) /\ d # c
    BY <2>1 DEF Fresh
  <2>3. wire'[c] = wire[c] /\ held'[c] = held[c] /\ inbox'[c] = inbox[c] /\ dropped'[c] = dropped[c]
    BY <2>1, <2>2 DEF FeedTypeOK
  <2> QED BY <1>0, <2>1, <2>2, <2>3 DEF Untouched
<1>11. CASE UNCHANGED feedVars
  BY <1>1, <1>11 DEF feedVars, sockVars
<1> QED BY <1>2, <1>3, <1>4, <1>5, <1>6, <1>7, <1>8, <1>9, <1>10, <1>11 DEF FeedNext

\* The threads stay as ThreadInv says through every step.
LEMMA ThreadStep == FeedTypeOK /\ SubsInv /\ ThreadInv /\ [FeedNext]_feedVars => ThreadInv'
<1> SUFFICES ASSUME FeedTypeOK, SubsInv, ThreadInv, [FeedNext]_feedVars PROVE ThreadInv'
  OBVIOUS
<1>1. ASSUME UNCHANGED <<thr, seq, crossed>> PROVE ThreadInv'
  BY <1>1 DEF ThreadInv, Idle
<1>2. ASSUME NEW t \in Appenders, NEW n \in 1..2, Extend(t, n) PROVE ThreadInv'
  BY <1>2, ThreadExtend
<1>3. ASSUME NEW t \in Appenders, StartNotify(t) PROVE ThreadInv'
  BY <1>3, NotifyFacts
<1>4. ASSUME NEW t \in Appenders, Publish(t) \/ Analyse(t) \/ \E c \in Clients : Hand(t, c)
      PROVE  ThreadInv'
  <2>1. UNCHANGED <<seq, crossed>> /\ Advance(t) /\ \E cb : Delivers(t, cb)
    BY <1>4 DEF Publish, Analyse, Hand, bufferVars
  <2> QED BY <2>1, ThreadAdvance
<1>5. CASE CloseSockets \/ Unlist \/ Ship \/ CloseBus \/ Enqueue \/ \E ok \in BOOLEAN : StartStream(ok)
  BY <1>1, <1>5 DEF CloseSockets, Unlist, Ship, CloseBus, Enqueue, StartStream, bufferVars
<1>6. ASSUME NEW c \in Clients,
             Connect(c) \/ Answer(c) \/ TakeNext(c) \/ SendEvent(c) \/ Leave(c)
      PROVE  ThreadInv'
  BY <1>1, <1>6
     DEF Connect, Answer, Redirect, NoStream, Subscribe, TakeNext, SendEvent, Leave, bufferVars
<1>7. CASE UNCHANGED feedVars
  BY <1>1, <1>7 DEF feedVars, bufferVars
<1> QED BY <1>2, <1>3, <1>4, <1>5, <1>6, <1>7 DEF FeedNext

------------------------------------------------------------------------------
(* New records are owed to a client that listens, behind all the others. *)
LEMMA ShapeExtend ==
  ASSUME NEW l \in SUBSET Nat, NEW r \in Nat, NEW s \in Nat, NEW n \in Nat, NEW open \in BOOLEAN,
         n > 0, Shape(l, {}, r, s, open)
  PROVE  Shape(l, IF open THEN s + 1 .. s + n ELSE {}, r, s + n, open)
<1>1. CASE open
  <2> DEFINE w == Way(l, {}, r)
  <2>1. w \in SUBSET Nat /\ \A x \in w : x <= s
    BY DEF Way, Shape
  <2>2. Way(l, s + 1 .. s + n, r) = w \cup (s + 1 .. s + n)
    BY DEF Way
  <2>3. w # {} => s \in w
    BY <1>1 DEF Shape
  <2>4. \A x, z \in w : \A y \in x..z : y \in w
    BY DEF Shape
  <2>5. l \subseteq w /\ (r # 0 => r \in w)
    BY DEF Way
  <2> HIDE DEF w
  <2>6. \A x, z \in w \cup (s + 1 .. s + n) : \A y \in x..z : y \in w \cup (s + 1 .. s + n)
    <3> TAKE x \in w \cup (s + 1 .. s + n), z \in w \cup (s + 1 .. s + n)
    <3> TAKE y \in x..z
    <3>1. CASE y <= s
      <4>1. x \in w /\ s \in w
        BY <2>1, <2>3, <3>1
      <4>2. y \in x..s
        BY <2>1, <3>1
      <4> QED BY <2>4, <4>1, <4>2
    <3>2. CASE y > s
      BY <2>1, <3>2
    <3> QED BY <2>1, <3>1, <3>2
  <2>7. \A x \in l \cup (s + 1 .. s + n) : r < x
    <3>1. \A x \in l : r < x
      BY DEF Shape
    <3>2. r <= s
      BY <2>1, <2>5
    <3> QED BY <3>1, <3>2
  <2>8. \A x \in l, y \in s + 1 .. s + n : x < y
    BY <2>1, <2>5
  <2>9. s + n \in s + 1 .. s + n
    OBVIOUS
  <2>10. \A x \in w \cup (s + 1 .. s + n) : x <= s + n
    BY <2>1
  <2> QED BY <1>1, <2>2, <2>6, <2>7, <2>8, <2>9, <2>10 DEF Shape
<1>2. CASE ~open
  <2>1. Way(l, {}, r) \in SUBSET Nat
    BY DEF Way
  <2>2. \A x \in Way(l, {}, r) : x <= s + n
    BY <2>1 DEF Shape
  <2> QED BY <1>2, <2>2 DEF Shape
<1> QED BY <1>1, <1>2

(* A record is scheduled on the loop: the first one owed. *)
LEMMA ShapeHand ==
  ASSUME NEW l \in SUBSET Nat, NEW r \in Nat, NEW s \in Nat, NEW a \in Nat, NEW open \in BOOLEAN,
         a <= s, Shape(l, a..s, r, s, open)
  PROVE  Shape(l \cup {a}, a + 1 .. s, r, s, open)
<1>1. a..s = {a} \cup (a + 1 .. s)
  OBVIOUS
<1>2. Way(l \cup {a}, a + 1 .. s, r) = Way(l, a..s, r)
  BY <1>1 DEF Way
<1>3. a \in a..s /\ \A x \in l : x < a
  BY DEF Shape
<1>4. \A x \in l \cup {a}, y \in a + 1 .. s : x < y
  BY <1>3
<1>5. \A x \in (l \cup {a}) \cup (a + 1 .. s) : r < x
  BY <1>1 DEF Shape
<1> QED BY <1>2, <1>4, <1>5 DEF Shape

(* The first record of the loop is queued. *)
LEMMA ShapeEnqueue ==
  ASSUME NEW l \in SUBSET Nat, NEW o \in SUBSET Nat, NEW r \in Nat, NEW s \in Nat,
         NEW x \in l, NEW open \in BOOLEAN, Shape(l, o, r, s, open), \A y \in l : x <= y
  PROVE  /\ Shape(l \ {x}, o, x, s, open)
         /\ x # 0 /\ (r # 0 => x = r + 1)
<1> DEFINE w == Way(l, o, r)
<1>1. /\ w \in SUBSET Nat /\ \A y \in w : y <= s
      /\ \A y, z \in w : \A v \in y..z : v \in w
      /\ open /\ w # {} => s \in w
      /\ \A y \in l, z \in o : y < z
      /\ \A y \in l \cup o : r < y
      /\ w = l \cup o \cup ({r} \ {0})
  BY DEF Way, Shape
<1>2. x \in w /\ r < x /\ x # 0
  BY <1>1
<1>3. Way(l \ {x}, o, x) = w \ {r}
  <2>1. r \notin l /\ r \notin o
    BY <1>1
  <2> QED BY <1>1, <1>2, <2>1 DEF Way
<1>4. \A y \in w \ {r} : x <= y
  BY <1>1, <1>2
<1>5. r # 0 => x = r + 1
  <2> SUFFICES ASSUME r # 0 PROVE x = r + 1
    OBVIOUS
  <2>1. r \in w /\ r + 1 \in r..x
    BY <1>1, <1>2
  <2>2. r + 1 \in w \ {r}
    BY <1>1, <1>2, <2>1
  <2>3. x <= r + 1
    BY <1>4, <2>2
  <2> QED BY <1>2, <2>3
<1> HIDE DEF w
<1>6. \A y \in l \ {x}, z \in o : y < z
  BY <1>1
<1>7. \A y \in (l \ {x}) \cup o : x < y
  BY <1>1
<1>8. \A y, z \in w \ {r} : \A v \in y..z : v \in w \ {r}
  <2> TAKE y \in w \ {r}, z \in w \ {r}
  <2> TAKE v \in y..z
  <2>1. v \in w
    BY <1>1
  <2>2. r < v
    BY <1>1, <1>2, <1>4
  <2> QED BY <2>1, <2>2
<1>9. open => s \in w \ {r}
  <2>1. r < s
    BY <1>1, <1>2
  <2> QED BY <1>1, <1>2, <2>1
<1> QED BY <1>1, <1>2, <1>3, <1>5, <1>6, <1>7, <1>8, <1>9 DEF Shape

(* A new client is owed at most the newest records; one that leaves may be   *)
(* owed nothing any more.                                                    *)
LEMMA ShapeSubscribe ==
  ASSUME NEW s \in Nat, NEW n \in Nat, n <= s
  PROVE  Shape({}, s - n + 1 .. s, 0, s, TRUE)
BY DEF Shape, Way

LEMMA ShapeLeave ==
  ASSUME NEW l \in SUBSET Nat, NEW o \in SUBSET Nat, NEW r \in Nat, NEW s \in Nat,
         NEW open \in BOOLEAN, Shape(l, o, r, s, open)
  PROVE  Shape(l, o, r, s, FALSE) /\ Shape(l, {}, r, s, FALSE)
<1>1. Shape(l, o, r, s, FALSE)
  BY DEF Shape
<1> DEFINE w == Way(l, o, r)
           v == Way(l, {}, r)
<1>2. /\ w \in SUBSET Nat /\ v \subseteq w /\ w = v \cup o /\ v = l \cup ({r} \ {0})
      /\ \A x \in l, y \in o : x < y
      /\ \A x \in l \cup o : r < x
      /\ \A x, z \in w : \A y \in x..z : y \in w
      /\ \A x \in w : x <= s
  BY DEF Way, Shape
<1> HIDE DEF w
<1>3. \A x \in v, y \in o : x < y
  BY <1>2
<1>4. \A x, z \in v : \A y \in x..z : y \in v
  <2> TAKE x \in v, z \in v
  <2> TAKE y \in x..z
  <2>1. y \in w
    BY <1>2
  <2>2. y \notin o
    <3>1. \A q \in o : z < q
      BY <1>3
    <3>2. y <= z /\ z \in Nat /\ y \in Nat
      BY <1>2
    <3> QED BY <3>1, <3>2
  <2> HIDE DEF v
  <2> QED BY <1>2, <2>1, <2>2
<1>5. \A x \in v : x <= s
  BY <1>2
<1>6. Shape(l, {}, r, s, FALSE)
  BY <1>2, <1>4, <1>5 DEF Shape
<1> QED BY <1>1, <1>6

------------------------------------------------------------------------------
(* The sets of one client. *)

\* What a step leaves alone.
LEMMA LeftKept ==
  ASSUME NEW u \in Appenders, NEW c \in Clients, thr'[u] = thr[u],
         sock'[c] = "open" <=> sock[c] = "open"
  PROVE  Left(u, c)' = Left(u, c)
BY DEF Left

LEMMA OwedKept ==
  ASSUME NEW c \in Clients, UNCHANGED seq, \A u \in Appenders : Left(u, c)' = Left(u, c)
  PROVE  Owed(c)' = Owed(c)
BY DEF Owed

\* When one thread at most delivers, it owes the newest records.
OwesNewest ==
  \A c \in Clients :
    /\ (\A u \in Appenders : Idle(u)) => Owed(c) = {}
    /\ \A t \in Appenders : (\A u \in Appenders \ {t} : Idle(u)) =>
         /\ Owed(c) = seq - Left(t, c) + 1 .. seq
         /\ Left(t, c) \in Nat /\ Left(t, c) <= seq

LEMMA OwedIs == FeedTypeOK /\ ThreadInv /\ ~crossed => OwesNewest
<1> SUFFICES ASSUME FeedTypeOK, ThreadInv, ~crossed, NEW c \in Clients
             PROVE  /\ (\A u \in Appenders : Idle(u)) => Owed(c) = {}
                    /\ \A t \in Appenders : (\A u \in Appenders \ {t} : Idle(u)) =>
                         /\ Owed(c) = seq - Left(t, c) + 1 .. seq
                         /\ Left(t, c) \in Nat /\ Left(t, c) <= seq
  BY DEF OwesNewest
<1>1. seq \in Nat /\ seq <= MaxEvents /\ MaxEvents \in Nat
  BY FeedAssumption DEF FeedTypeOK
<1>2. \A u \in Appenders : Idle(u) => Left(u, c) = 0
  BY LeftNat
<1>3. (\A u \in Appenders : Idle(u)) => Owed(c) = {}
  BY <1>1, <1>2 DEF Owed, Records
<1>4. ASSUME NEW t \in Appenders, \A u \in Appenders \ {t} : Idle(u)
      PROVE  /\ Owed(c) = seq - Left(t, c) + 1 .. seq
             /\ Left(t, c) \in Nat /\ Left(t, c) <= seq
  <2> DEFINE k == Left(t, c)
             n == Len(thr[t].recs)
  <2>1. k \in 0..n /\ n \in Nat
    BY LeftNat
  <2>2. n <= seq
    <3>1. thr[t].recs \in Seq(Records) /\ DOMAIN thr[t].recs = 1..n
      BY DEF FeedTypeOK
    <3>2. CASE n > 0
      <4>1. 1 \in DOMAIN thr[t].recs
        BY <2>1, <3>1, <3>2
      <4>2. thr[t].recs[1] \in Records /\ thr[t].recs[1] = seq - n + 1
        BY <3>1, <4>1 DEF ThreadInv
      <4> HIDE DEF n
      <4>3. seq - n + 1 >= 1
        BY <4>2 DEF Records
      <4> QED BY <1>1, <2>1, <4>3
    <3>3. CASE n = 0
      BY <1>1, <3>3
    <3> QED BY <2>1, <3>2, <3>3
  <2>3. \A u \in Appenders \ {t} : Left(u, c) = 0
    BY <1>2, <1>4
  <2>4. Owed(c) = {x \in Records : seq - k < x /\ x <= seq}
    BY <1>1, <2>3 DEF Owed, Records
  <2> HIDE DEF k, n
  <2>5. k \in Nat /\ k <= seq
    BY <1>1, <2>1, <2>2
  <2>6. Owed(c) = seq - k + 1 .. seq
    BY <1>1, <2>4, <2>5 DEF Records
  <2> QED BY <2>5, <2>6 DEF k
<1> QED BY <1>3, <1>4

\* The last element of a sequence.
LEMMA LastOf ==
  ASSUME NEW S, NEW s \in Seq(S), s # <<>>
  PROVE  Last(s) \in S /\ Last(s) = s[Len(s)] /\ Len(s) \in Nat /\ Len(s) >= 1
BY DEF Last

(* The types of the sets. *)
LEMMA SetTypes ==
  ASSUME FeedTypeOK, NEW c \in Clients
  PROVE  /\ InLoop(c) \in SUBSET Nat /\ Owed(c) \in SUBSET Nat /\ Reached(c) \in Nat /\ seq \in Nat
<1>1. Records \subseteq Nat /\ seq \in Nat
  BY DEF Records, FeedTypeOK
<1>2. InLoop(c) \in SUBSET Nat /\ Owed(c) \in SUBSET Nat
  BY <1>1 DEF InLoop, Owed
<1>3. Reached(c) \in Nat
  <2>1. /\ inbox[c] \in Seq(Records) /\ held[c] \in Nat
        /\ wire[c] \in Seq([kind : {"event", "gap"}, n : Nat])
    BY DEF FeedTypeOK
  <2>2. inbox[c] # <<>> => Last(inbox[c]) \in Records
    BY <2>1 DEF Last
  <2>3. wire[c] # <<>> => Last(wire[c]) \in [kind : {"event", "gap"}, n : Nat]
    BY <2>1, LastOf
  <2>4. \A m \in [kind : {"event", "gap"}, n : Nat] : m.n \in Nat
    OBVIOUS
  <2> QED BY <1>1, <2>1, <2>2, <2>3, <2>4 DEF Reached
<1> QED BY <1>1, <1>2, <1>3

(* Scheduling a record on the event loop. *)
LEMMA LoopAppend ==
  ASSUME FeedTypeOK, NEW c \in Clients, NEW d \in Clients, NEW x \in Records,
         loop' = Append(loop, <<d, x>>), LoopOrdered(c)
  PROVE  /\ d # c => InLoop(c)' = InLoop(c) /\ LoopOrdered(c)'
         /\ d = c => /\ InLoop(c)' = InLoop(c) \cup {x}
                     /\ (\A y \in InLoop(c) : y < x) => LoopOrdered(c)'
<1> DEFINE n == Len(loop)
<1>1. /\ n \in Nat /\ DOMAIN loop = 1..n /\ DOMAIN loop' = 1 .. n + 1
      /\ \A i \in 1..n : loop'[i] = loop[i]
      /\ loop'[n + 1] = <<d, x>>
      /\ \A i \in 1..n : loop[i] = <<loop[i][1], loop[i][2]>> /\ loop[i][2] \in Records
  <2>1. loop \in Seq(Clients \X Records)
    BY DEF FeedTypeOK
  <2> QED BY <2>1
<1> HIDE DEF n
<1>2. InLoop(c)' = InLoop(c) \cup (IF d = c THEN {x} ELSE {})
  <2>1. ASSUME NEW y \in Records
        PROVE  (\E i \in 1 .. n + 1 : loop'[i] = <<c, y>>)
                 <=> (\E i \in 1..n : loop[i] = <<c, y>>) \/ (d = c /\ y = x)
    <3>1. (\E i \in 1 .. n + 1 : loop'[i] = <<c, y>>)
             <=> (\E i \in 1..n : loop'[i] = <<c, y>>) \/ loop'[n + 1] = <<c, y>>
      <4>1. 1 .. n + 1 = 1..n \cup {n + 1}
        BY <1>1
      <4> QED BY <4>1, Zenon
    <3>2. loop'[n + 1] = <<c, y>> <=> d = c /\ y = x
      BY <1>1
    <3> QED BY <1>1, <3>1, <3>2
  <2> QED BY <1>1, <2>1 DEF InLoop
<1>3. ASSUME d = c => \A y \in InLoop(c) : y < x PROVE LoopOrdered(c)'
  <2> SUFFICES ASSUME NEW i \in 1 .. n + 1, NEW j \in 1 .. n + 1, i < j,
                      loop'[i][1] = c, loop'[j][1] = c
               PROVE  loop'[i][2] < loop'[j][2]
    BY <1>1 DEF LoopOrdered
  <2>1. i \in 1..n /\ loop'[i] = loop[i]
    BY <1>1
  <2>2. CASE j \in 1..n
    <3>1. loop'[j] = loop[j] /\ loop[i][1] = c /\ loop[j][1] = c
      BY <1>1, <2>1, <2>2
    <3> QED BY <1>1, <2>1, <2>2, <3>1 DEF LoopOrdered
  <2>3. CASE j = n + 1
    <3>1. d = c /\ loop'[j][2] = x
      BY <1>1, <2>3
    <3>2. loop[i] = <<c, loop[i][2]>> /\ loop[i][2] \in Records
      BY <1>1, <2>1
    <3>3. loop[i][2] \in InLoop(c)
      BY <1>1, <2>1, <3>2 DEF InLoop
    <3> QED BY <1>3, <2>1, <3>1, <3>3
  <2> QED BY <1>1, <2>2, <2>3
<1> QED BY <1>2, <1>3

(* Running the first callback of the event loop. *)
LEMMA LoopTail ==
  ASSUME FeedTypeOK, NEW c \in Clients, loop # <<>>, loop' = Tail(loop), LoopOrdered(c)
  PROVE  /\ LoopOrdered(c)'
         /\ loop[1][1] # c => InLoop(c)' = InLoop(c)
         /\ loop[1][1] = c => /\ InLoop(c)' = InLoop(c) \ {loop[1][2]}
                              /\ loop[1][2] \in InLoop(c)
                              /\ \A y \in InLoop(c) : loop[1][2] <= y
         /\ loop[1][1] \in Clients /\ loop[1][2] \in Records
<1> DEFINE n == Len(loop)
           d == loop[1][1]
           x == loop[1][2]
<1>1. /\ n \in Nat /\ n >= 1 /\ DOMAIN loop = 1..n /\ DOMAIN loop' = 1 .. n - 1
      /\ \A i \in 1 .. n - 1 : loop'[i] = loop[i + 1]
      /\ \A i \in 1..n : loop[i] = <<loop[i][1], loop[i][2]>> /\ loop[i][2] \in Records
      /\ d \in Clients /\ x \in Records /\ loop[1] = <<d, x>>
  <2>1. loop \in Seq(Clients \X Records)
    BY DEF FeedTypeOK
  <2> QED BY <2>1
<1> HIDE DEF n, d, x
<1>2. \A y \in Records : (\E i \in 1 .. n - 1 : loop'[i] = <<c, y>>)
                          <=> (\E i \in 2..n : loop[i] = <<c, y>>)
  <2> TAKE y \in Records
  <2>1. ASSUME NEW i \in 2..n, loop[i] = <<c, y>> PROVE \E j \in 1 .. n - 1 : loop'[j] = <<c, y>>
    <3>1. i - 1 \in 1 .. n - 1 /\ loop'[i - 1] = loop[i]
      BY <1>1
    <3> QED BY <2>1, <3>1
  <2>2. ASSUME NEW j \in 1 .. n - 1, loop'[j] = <<c, y>> PROVE \E i \in 2..n : loop[i] = <<c, y>>
    <3>1. j + 1 \in 2..n /\ loop'[j] = loop[j + 1]
      BY <1>1
    <3> QED BY <2>2, <3>1
  <2> QED BY <2>1, <2>2
<1>3. \A y \in Records : (\E i \in 1..n : loop[i] = <<c, y>>)
                          <=> (\E i \in 2..n : loop[i] = <<c, y>>) \/ (d = c /\ x = y)
  <2> TAKE y \in Records
  <2>1. loop[1] = <<c, y>> <=> d = c /\ x = y
    BY <1>1
  <2>2. 1..n = {1} \cup 2..n
    BY <1>1
  <2> QED BY <2>1, <2>2
<1>4. d # c => InLoop(c)' = InLoop(c)
  BY <1>1, <1>2, <1>3 DEF InLoop
<1>5. d = c => x \in InLoop(c) /\ \A i \in 2..n : loop[i][1] = c => x < loop[i][2]
  <2> SUFFICES ASSUME d = c
               PROVE  x \in InLoop(c) /\ \A i \in 2..n : loop[i][1] = c => x < loop[i][2]
    OBVIOUS
  <2>1. x \in InLoop(c)
    BY <1>1 DEF InLoop
  <2>2. 1 \in 1..n /\ \A i \in 2..n : i \in 1..n /\ 1 < i
    BY <1>1
  <2>3. \A i \in 2..n : loop[i][1] = c => loop[1][2] < loop[i][2]
    BY <1>1, <2>2 DEF LoopOrdered, d
  <2> QED BY <2>1, <2>3 DEF x
<1>6. d = c => InLoop(c)' = InLoop(c) \ {x} /\ \A y \in InLoop(c) : x <= y
  <2> SUFFICES ASSUME d = c
               PROVE  InLoop(c)' = InLoop(c) \ {x} /\ \A y \in InLoop(c) : x <= y
    OBVIOUS
  <2>1. \A y \in Records : (\E i \in 2..n : loop[i] = <<c, y>>) => x < y
    BY <1>5
  <2>2. x \in Nat /\ \A y \in Records : y \in Nat
    BY <1>1 DEF Records
  <2>3. \A y \in Records : (\E i \in 1 .. n - 1 : loop'[i] = <<c, y>>)
                            <=> (\E i \in 1..n : loop[i] = <<c, y>>) /\ y # x
    <3> TAKE y \in Records
    <3> DEFINE first == \E i \in 1 .. n - 1 : loop'[i] = <<c, y>>
               later == \E i \in 2..n : loop[i] = <<c, y>>
               all == \E i \in 1..n : loop[i] = <<c, y>>
    <3>1. (first <=> later) /\ (all <=> later \/ x = y) /\ (later => x < y)
      BY <1>2, <1>3, <2>1
    <3>2. x < y => y # x
      BY <2>2
    <3> HIDE DEF first, later, all
    <3>3. first <=> all /\ y # x
      BY <3>1, <3>2
    <3> QED BY <3>3 DEF first, all
  <2>4. InLoop(c)' = InLoop(c) \ {x}
    BY <1>1, <2>3 DEF InLoop
  <2>5. \A y \in InLoop(c) : x <= y
    <3> TAKE y \in InLoop(c)
    <3>1. y \in Records /\ \E i \in 1..n : loop[i] = <<c, y>>
      BY <1>1 DEF InLoop
    <3>2. CASE \E i \in 2..n : loop[i] = <<c, y>>
      BY <2>1, <2>2, <3>1, <3>2
    <3>3. CASE x = y
      BY <2>2, <3>1, <3>3
    <3> QED BY <1>3, <3>1, <3>2, <3>3
  <2> QED BY <2>4, <2>5
<1>7. LoopOrdered(c)'
  <2> SUFFICES ASSUME NEW i \in 1 .. n - 1, NEW j \in 1 .. n - 1, i < j,
                      loop'[i][1] = c, loop'[j][1] = c
               PROVE  loop'[i][2] < loop'[j][2]
    BY <1>1 DEF LoopOrdered
  <2>1. /\ loop'[i] = loop[i + 1] /\ loop'[j] = loop[j + 1]
        /\ i + 1 \in 1..n /\ j + 1 \in 1..n /\ i + 1 < j + 1
    BY <1>1
  <2>2. loop[i + 1][1] = c /\ loop[j + 1][1] = c
    BY <2>1
  <2>3. loop[i + 1][2] < loop[j + 1][2]
    BY <1>1, <2>1, <2>2 DEF LoopOrdered
  <2> QED BY <2>1, <2>3
<1> QED BY <1>1, <1>4, <1>5, <1>6, <1>7 DEF d, x

------------------------------------------------------------------------------
(* Chains of messages. *)

Messages == [kind : {"event", "gap"}, n : Nat]

\* The two kinds of message, and a sequence with one element more.
LEMMA MessageFacts ==
  ASSUME NEW x \in Nat
  PROVE  /\ Event(x) \in Messages /\ Event(x).kind = "event" /\ Event(x).n = x
         /\ Gap(x) \in Messages /\ Gap(x).kind = "gap" /\ Gap(x).n = x
BY DEF Event, Gap, Messages

LEMMA AppendFacts ==
  ASSUME NEW S, NEW s \in Seq(S), NEW e \in S
  PROVE  /\ Append(s, e) \in Seq(S) /\ Len(Append(s, e)) = Len(s) + 1 /\ Len(s) \in Nat
         /\ \A i \in 1..Len(s) : Append(s, e)[i] = s[i]
         /\ Append(s, e)[Len(s) + 1] = e /\ Append(s, e) # <<>> /\ Last(Append(s, e)) = e
         /\ DOMAIN s = 1..Len(s) /\ DOMAIN Append(s, e) = 1 .. Len(s) + 1
BY DEF Last

\* A chain grows by the event that follows, or by a notice.
LEMMA ChainEvent ==
  ASSUME NEW s \in Seq(Messages), NEW x \in Nat, Chain(s), Follows(s, x)
  PROVE  Chain(Append(s, Event(x))) /\ Append(s, Event(x)) \in Seq(Messages)
<1> DEFINE b == Append(s, Event(x))
           L == Len(s)
<1>1. /\ b \in Seq(Messages) /\ L \in Nat /\ DOMAIN s = 1..L /\ DOMAIN b = 1 .. L + 1
      /\ \A i \in 1..L : b[i] = s[i]
      /\ b[L + 1].kind = "event" /\ b[L + 1].n = x
  BY MessageFacts, AppendFacts
<1>2. /\ L > 0 => IF s[L].kind = "event" THEN x = s[L].n + 1
                  ELSE L > 1 => s[L - 1].kind = "event" /\ x = s[L - 1].n + s[L].n + 1
  BY DEF Follows
<1> HIDE DEF b, L
<1>3. SUFFICES ASSUME NEW i \in 1 .. L + 1, i # 1, b[i].kind = "event"
               PROVE  IF b[i - 1].kind = "event" THEN b[i].n = b[i - 1].n + 1
                      ELSE i > 2 => b[i - 2].kind = "event" /\ b[i].n = b[i - 2].n + b[i - 1].n + 1
  BY <1>1 DEF Chain, b
<1>4. CASE i \in 1..L
  <2>1. b[i] = s[i] /\ i - 1 \in 1..L /\ b[i - 1] = s[i - 1] /\ (i > 2 => b[i - 2] = s[i - 2])
    BY <1>1, <1>3, <1>4
  <2> QED BY <1>1, <1>3, <1>4, <2>1 DEF Chain
<1>5. CASE i = L + 1
  <2>1. L > 0 /\ i - 1 = L /\ L \in 1..L /\ (i > 2 => L > 1 /\ i - 2 = L - 1 /\ L - 1 \in 1..L)
    BY <1>1, <1>3, <1>5
  <2>2. b[i - 1] = s[L] /\ (i > 2 => b[i - 2] = s[L - 1])
    BY <1>1, <2>1
  <2> QED BY <1>1, <1>2, <1>5, <2>1, <2>2
<1> QED BY <1>1, <1>4, <1>5

LEMMA ChainGap ==
  ASSUME NEW s \in Seq(Messages), NEW x \in Nat, Chain(s)
  PROVE  Chain(Append(s, Gap(x))) /\ Append(s, Gap(x)) \in Seq(Messages)
<1> DEFINE b == Append(s, Gap(x))
           L == Len(s)
<1>1. /\ b \in Seq(Messages) /\ L \in Nat /\ DOMAIN s = 1..L /\ DOMAIN b = 1 .. L + 1
      /\ \A i \in 1..L : b[i] = s[i]
      /\ b[L + 1].kind = "gap"
  BY MessageFacts, AppendFacts
<1> HIDE DEF b, L
<1>3. SUFFICES ASSUME NEW i \in 1 .. L + 1, i # 1, b[i].kind = "event"
               PROVE  IF b[i - 1].kind = "event" THEN b[i].n = b[i - 1].n + 1
                      ELSE i > 2 => b[i - 2].kind = "event" /\ b[i].n = b[i - 2].n + b[i - 1].n + 1
  BY <1>1 DEF Chain, b
<1>4. i \in 1..L
  BY <1>1, <1>3
<1>5. b[i] = s[i] /\ i - 1 \in 1..L /\ b[i - 1] = s[i - 1] /\ (i > 2 => b[i - 2] = s[i - 2])
  BY <1>1, <1>3, <1>4
<1> QED BY <1>1, <1>3, <1>4, <1>5 DEF Chain

(* A notice between an event and the next makes up for the difference. *)
LEMMA FollowsGap ==
  ASSUME NEW s \in Seq(Messages), NEW x \in Nat, NEW d \in Nat,
         s # <<>> => Last(s).kind = "event" /\ x = Last(s).n + d + 1
  PROVE  Follows(Append(s, Gap(d)), x)
<1> DEFINE b == Append(s, Gap(d))
           L == Len(s)
<1>1. /\ b \in Seq(Messages) /\ L \in Nat /\ Len(b) = L + 1
      /\ \A i \in 1..L : b[i] = s[i]
      /\ b[L + 1].kind = "gap" /\ b[L + 1].n = d
  BY MessageFacts, AppendFacts
<1>2. L > 0 => s[L].kind = "event" /\ x = s[L].n + d + 1
  BY LastOf
<1> HIDE DEF b, L
<1>3. L > 0 => b[L] = s[L]
  BY <1>1
<1>4. Len(b) - 1 = L /\ (Len(b) > 1 => L > 0)
  BY <1>1
<1> QED BY <1>1, <1>2, <1>3, <1>4 DEF Follows, b

\* An event after an event is numbered one more.
LEMMA FollowsEvent ==
  ASSUME NEW s \in Seq(Messages), NEW x \in Nat,
         s # <<>> => Last(s).kind = "event" /\ x = Last(s).n + 1
  PROVE  Follows(s, x)
<1>1. Len(s) \in Nat /\ (Len(s) > 0 => s # <<>>)
  OBVIOUS
<1>2. Len(s) > 0 => s[Len(s)].kind = "event" /\ x = s[Len(s)].n + 1
  BY <1>1, LastOf
<1> QED BY <1>2 DEF Follows

(* A chain followed by consecutive events. *)
LEMMA ChainQueue ==
  ASSUME NEW s \in Seq(Messages), NEW q \in Seq(Records), Chain(s),
         \A i \in DOMAIN q \ {1} : q[i] = q[i - 1] + 1,
         q # <<>> => Follows(s, q[1])
  PROVE  Chain(s \o [i \in DOMAIN q |-> Event(q[i])])
<1> DEFINE e == [i \in DOMAIN q |-> Event(q[i])]
           b == s \o e
           L == Len(s)
           M == Len(q)
<1>0. Records \subseteq Nat
  BY DEF Records
<1>1. /\ L \in Nat /\ M \in Nat /\ DOMAIN s = 1..L /\ DOMAIN q = 1..M
      /\ \A i \in 1..M : q[i] \in Nat
  <2>1. L \in Nat /\ M \in Nat /\ DOMAIN s = 1..L /\ DOMAIN q = 1..M
    OBVIOUS
  <2>2. \A i \in 1..M : q[i] \in Records
    OBVIOUS
  <2>3. \A i \in 1..M : q[i] \in Nat
    BY <1>0, <2>2
  <2> QED BY <2>1, <2>3
<1>2. e \in Seq(Messages) /\ Len(e) = M /\ \A i \in 1..M : e[i].kind = "event" /\ e[i].n = q[i]
  <2>1. \A i \in 1..M : Event(q[i]) \in Messages /\ Event(q[i]).kind = "event" /\ Event(q[i]).n = q[i]
    BY <1>1, MessageFacts
  <2> HIDE DEF M
  <2> QED BY <1>1, <2>1
<1> HIDE DEF e
<1>3. /\ DOMAIN b = 1 .. L + M
      /\ \A i \in 1..L : b[i] = s[i]
      /\ \A i \in L + 1 .. L + M : b[i] = e[i - L]
  <2>1. s \in Seq(Messages) /\ e \in Seq(Messages) /\ Len(s) = L /\ Len(e) = M
    BY <1>2
  <2>2. /\ b \in Seq(Messages) /\ Len(b) = Len(s) + Len(e)
        /\ \A i \in 1 .. Len(s) + Len(e) : b[i] = IF i <= Len(s) THEN s[i] ELSE e[i - Len(s)]
    <3> HIDE DEF L, M
    <3> QED BY <2>1, ConcatProperties, Zenon
  <2>3. DOMAIN b = 1..Len(b)
    BY <2>2
  <2> HIDE DEF b, L, M
  <2> QED BY <1>1, <2>1, <2>2, <2>3
<1>4. /\ M > 0 /\ L > 0 =>
           IF s[L].kind = "event" THEN q[1] = s[L].n + 1
           ELSE L > 1 => s[L - 1].kind = "event" /\ q[1] = s[L - 1].n + s[L].n + 1
  BY DEF Follows
<1>5. \A i \in 2..M : q[i] = q[i - 1] + 1
  <2>1. \A i \in 2..M : i \in DOMAIN q \ {1}
    BY <1>1
  <2> QED BY <2>1
<1> HIDE DEF b, L, M
<1>6. SUFFICES ASSUME NEW i \in 1 .. L + M, i # 1, b[i].kind = "event"
               PROVE  IF b[i - 1].kind = "event" THEN b[i].n = b[i - 1].n + 1
                      ELSE i > 2 => b[i - 2].kind = "event" /\ b[i].n = b[i - 2].n + b[i - 1].n + 1
  BY <1>3 DEF Chain, b, e
<1>7. CASE i \in 1..L
  <2>1. b[i] = s[i] /\ i - 1 \in 1..L /\ b[i - 1] = s[i - 1] /\ (i > 2 => b[i - 2] = s[i - 2])
    BY <1>1, <1>3, <1>6, <1>7
  <2> QED BY <1>1, <1>6, <1>7, <2>1 DEF Chain
<1>8. CASE i = L + 1
  <2>1. M > 0 /\ L > 0 /\ i - 1 = L /\ L \in 1..L /\ (i > 2 => L > 1 /\ i - 2 = L - 1 /\ L - 1 \in 1..L)
    BY <1>1, <1>6, <1>8
  <2>2. b[i - 1] = s[L] /\ (i > 2 => b[i - 2] = s[L - 1])
    BY <1>3, <2>1
  <2>3. i \in L + 1 .. L + M /\ i - L = 1 /\ 1 \in 1..M
    BY <1>1, <1>8, <2>1
  <2>4. b[i].n = q[1]
    BY <1>2, <1>3, <2>3
  <2> QED BY <1>4, <2>1, <2>2, <2>4
<1>9. CASE i > L + 1
  <2>1. /\ i \in L + 1 .. L + M /\ i - 1 \in L + 1 .. L + M /\ i - L \in 2..M
        /\ (i - 1) - L \in 1..M /\ i - L \in 1..M /\ (i - 1) - L = (i - L) - 1
    BY <1>1, <1>6, <1>9
  <2>2. b[i] = e[i - L] /\ b[i - 1] = e[(i - 1) - L]
    BY <1>3, <2>1
  <2>3. b[i].n = q[i - L] /\ b[i - 1].kind = "event" /\ b[i - 1].n = q[(i - L) - 1]
    BY <1>2, <2>1, <2>2
  <2> QED BY <1>5, <2>1, <2>3
<1> QED BY <1>1, <1>6, <1>7, <1>8, <1>9

------------------------------------------------------------------------------
(* The messages of one client. *)

\* The types of what one client has.
LEMMA MessageTypes ==
  ASSUME FeedTypeOK, NEW c \in Clients
  PROVE  /\ inbox[c] \in Seq(Records) /\ dropped[c] \in Nat /\ held[c] \in Nat
         /\ wire[c] \in Seq(Messages) /\ Sent(c) \in Nat
         /\ DOMAIN wire = Clients /\ DOMAIN held = Clients /\ DOMAIN inbox = Clients
         /\ DOMAIN dropped = Clients
<1>1. /\ inbox[c] \in Seq(Records) /\ dropped[c] \in Nat /\ held[c] \in Nat
      /\ wire[c] \in Seq(Messages)
      /\ DOMAIN wire = Clients /\ DOMAIN held = Clients /\ DOMAIN inbox = Clients
      /\ DOMAIN dropped = Clients
  BY DEF FeedTypeOK, Messages
<1>2. wire[c] # <<>> => Last(wire[c]) \in Messages
  BY <1>1, LastOf
<1>3. \A m \in Messages : m.n \in Nat
  BY DEF Messages
<1>4. Sent(c) \in Nat
  BY <1>1, <1>2, <1>3 DEF Sent
<1> QED BY <1>1, <1>4

LEMMA LastNumber ==
  ASSUME NEW s \in Seq(Messages), s # <<>>
  PROVE  Last(s).n \in Nat
<1>1. Last(s) \in Messages
  BY LastOf
<1> QED BY <1>1 DEF Messages

LEMMA RecordFacts == \A x \in Records : x \in Nat /\ x # 0
BY DEF Records

\* Of a queue that is not empty: its first element and the others.
LEMMA TailFacts ==
  ASSUME NEW S, NEW q \in Seq(S), q # <<>>
  PROVE  /\ q[1] \in S /\ Tail(q) \in Seq(S) /\ Len(Tail(q)) = Len(q) - 1
         /\ DOMAIN q = 1..Len(q) /\ DOMAIN Tail(q) = 1 .. Len(q) - 1 /\ Len(q) \in Nat /\ Len(q) >= 1
         /\ \A i \in 1 .. Len(q) - 1 : Tail(q)[i] = q[i + 1]
         /\ Tail(q) = <<>> <=> Len(q) = 1
         /\ Tail(q) # <<>> => Last(Tail(q)) = Last(q)
         /\ Len(q) = 1 => Last(q) = q[1]
<1>1. /\ q[1] \in S /\ Tail(q) \in Seq(S) /\ Len(Tail(q)) = Len(q) - 1
      /\ DOMAIN q = 1..Len(q) /\ DOMAIN Tail(q) = 1 .. Len(q) - 1 /\ Len(q) \in Nat /\ Len(q) >= 1
      /\ \A i \in 1 .. Len(q) - 1 : Tail(q)[i] = q[i + 1]
  OBVIOUS
<1>2. Tail(q) = <<>> <=> Len(q) = 1
  <2>1. \A t \in Seq(S) : t = <<>> <=> Len(t) = 0
    OBVIOUS
  <2>2. Len(q) - 1 = 0 <=> Len(q) = 1
    BY <1>1
  <2> QED BY <1>1, <2>1, <2>2
<1>3. Tail(q) # <<>> => Last(Tail(q)) = Last(q)
  <2> SUFFICES ASSUME Tail(q) # <<>> PROVE Last(Tail(q)) = Last(q)
    OBVIOUS
  <2>1. Len(q) - 1 \in 1 .. Len(q) - 1 /\ (Len(q) - 1) + 1 = Len(q)
    BY <1>1, <1>2
  <2> QED BY <1>1, <2>1 DEF Last
<1> QED BY <1>1, <1>2, <1>3 DEF Last

\* The send loop takes a record: the notice it sends stands for what was
\* evicted before the record.
LEMMA TakeMessages ==
  ASSUME FeedTypeOK, FeedTypeOK', NEW c \in Clients, TakeNext(c), WireOK(c), QueueOK(c)
  PROVE  WireOK(c)' /\ QueueOK(c)' /\ Reached(c)' = Reached(c)
<1> DEFINE q == inbox[c]
           w == wire[c]
           d == dropped[c]
           x == q[1]
<1>1. /\ q # <<>> /\ held[c] = 0 /\ held'[c] = x /\ inbox'[c] = Tail(q) /\ dropped'[c] = 0
      /\ wire'[c] = IF d = 0 THEN w ELSE Append(w, Gap(d))
  BY MessageTypes DEF TakeNext
<1>2. q \in Seq(Records) /\ w \in Seq(Messages) /\ d \in Nat
  BY MessageTypes
<1>3. x \in Records /\ x \in Nat /\ x # 0
  BY <1>1, <1>2, TailFacts, RecordFacts
<1>4. /\ Chain(w)
      /\ w # <<>> => Last(w).kind = "event" /\ Last(w).n # 0
      /\ w # <<>> => x = Last(w).n + d + 1
  BY <1>1 DEF WireOK, QueueOK, Sent
<1>5. \A i \in DOMAIN q \ {1} : q[i] = q[i - 1] + 1
  BY DEF QueueOK
<1> HIDE DEF q, w, d, x
<1>6. Chain(wire'[c]) /\ Follows(wire'[c], x)
  <2>1. CASE d = 0
    <3>1. w # <<>> => x = Last(w).n + 1
      <4>1. w # <<>> => Last(w).n \in Nat
        BY <1>2, LastNumber
      <4> QED BY <1>4, <2>1, <4>1
    <3> QED BY <1>1, <1>2, <1>3, <1>4, <2>1, <3>1, FollowsEvent
  <2>2. CASE d # 0
    BY <1>1, <1>2, <1>3, <1>4, <2>2, FollowsGap, ChainGap
  <2> QED BY <2>1, <2>2
<1>7. WireOK(c)'
  BY <1>1, <1>3, <1>6 DEF WireOK
<1>8. Sent(c)' = x
  BY <1>1, <1>3 DEF Sent
<1>9. /\ DOMAIN q = 1..Len(q) /\ DOMAIN Tail(q) = 1 .. Len(q) - 1 /\ Len(q) \in Nat /\ Len(q) >= 1
      /\ \A i \in 1 .. Len(q) - 1 : Tail(q)[i] = q[i + 1]
      /\ Tail(q) = <<>> <=> Len(q) = 1
  BY <1>1, <1>2, TailFacts
<1>10. \A i \in DOMAIN Tail(q) : Tail(q)[i] = q[i] + 1
  <2> TAKE i \in DOMAIN Tail(q)
  <2>1. i \in 1 .. Len(q) - 1 /\ i + 1 \in DOMAIN q \ {1} /\ (i + 1) - 1 = i
    BY <1>9
  <2>2. q[i + 1] = q[(i + 1) - 1] + 1
    BY <1>5, <2>1
  <2> QED BY <1>9, <2>1, <2>2
<1>11. QueueOK(c)'
  <2>1. \A i \in DOMAIN Tail(q) \ {1} : Tail(q)[i] = Tail(q)[i - 1] + 1
    <3> TAKE i \in DOMAIN Tail(q) \ {1}
    <3>1. i - 1 \in 1 .. Len(q) - 1 /\ (i - 1) + 1 = i
      BY <1>9
    <3>2. Tail(q)[i - 1] = q[i]
      BY <1>9, <3>1
    <3> QED BY <1>10, <3>2
  <2>2. Tail(q) # <<>> => Tail(q)[1] = x + 0 + 1
    <3>1. Tail(q) # <<>> => 1 \in DOMAIN Tail(q)
      BY <1>9
    <3>2. Tail(q) # <<>> => Tail(q)[1] = x + 1
      BY <1>10, <3>1 DEF x
    <3> QED BY <1>3, <3>2
  <2> QED BY <1>1, <1>8, <2>1, <2>2 DEF QueueOK
<1>12. Reached(c) = Last(q)
  BY <1>1 DEF Reached, q
<1>13. Reached(c)' = Last(q)
  <2>1. CASE Tail(q) # <<>>
    BY <1>1, <1>2, <2>1, TailFacts DEF Reached
  <2>2. CASE Tail(q) = <<>>
    <3>1. Last(q) = q[1]
      BY <1>1, <1>2, <2>2, TailFacts
    <3> QED BY <1>1, <1>3, <2>2, <3>1 DEF Reached, x
  <2> QED BY <2>1, <2>2
<1> QED BY <1>7, <1>11, <1>12, <1>13

\* The send loop sends the record it holds.
LEMMA SendMessages ==
  ASSUME FeedTypeOK, NEW c \in Clients, SendEvent(c), WireOK(c), QueueOK(c)
  PROVE  WireOK(c)' /\ QueueOK(c)' /\ Reached(c)' = Reached(c)
<1> DEFINE w == wire[c]
           h == held[c]
<1>1. /\ h # 0 /\ held'[c] = 0 /\ wire'[c] = Append(w, Event(h))
      /\ inbox'[c] = inbox[c] /\ dropped'[c] = dropped[c]
  BY MessageTypes DEF SendEvent
<1>2. w \in Seq(Messages) /\ h \in Nat
  BY MessageTypes
<1>3. Chain(w) /\ Follows(w, h)
  BY <1>1 DEF WireOK
<1> HIDE DEF w, h
<1>4. Chain(wire'[c])
  BY <1>1, <1>2, <1>3, ChainEvent
<1>5. wire'[c] # <<>> /\ Last(wire'[c]) = Event(h) /\ Event(h).kind = "event" /\ Event(h).n = h
  BY <1>1, <1>2, MessageFacts, AppendFacts
<1>6. WireOK(c)'
  BY <1>1, <1>4, <1>5 DEF WireOK
<1>7. Sent(c)' = h /\ Sent(c) = h
  BY <1>1, <1>5 DEF Sent, h
<1>8. QueueOK(c)'
  BY <1>1, <1>7 DEF QueueOK
<1>9. Reached(c)' = Reached(c)
  BY <1>1, <1>5 DEF Reached, h
<1> QED BY <1>6, <1>8, <1>9

(* The last number of a queue, sent record or message. *)
LEMMA ReachedIs ==
  ASSUME FeedTypeOK, NEW c \in Clients
  PROVE  Reached(c) = IF inbox[c] # <<>> THEN Last(inbox[c]) ELSE Sent(c)
BY DEF Reached, Sent

\* A record is queued behind the others, and the oldest is evicted when the
\* queue is full: the next one has one record more missing before it.
LEMMA EnqueueMessages ==
  ASSUME FeedTypeOK, NEW c \in Clients, Enqueue, loop[1][1] = c, loop[1][2] \in Records,
         WireOK(c), QueueOK(c), Reached(c) # 0 => loop[1][2] = Reached(c) + 1
  PROVE  WireOK(c)' /\ QueueOK(c)' /\ Reached(c)' = loop[1][2]
<1> DEFINE q == inbox[c]
           x == loop[1][2]
           d == dropped[c]
           p == Sent(c)
           L == Len(q)
<1>1. /\ held'[c] = held[c] /\ wire'[c] = wire[c] /\ Sent(c)' = p
      /\ \/ L >= InboxMax /\ inbox'[c] = Append(Tail(q), x) /\ dropped'[c] = d + 1
         \/ ~(L >= InboxMax) /\ inbox'[c] = Append(q, x) /\ dropped'[c] = d
  BY MessageTypes DEF Enqueue, Overflow, Sent
<1>2. q \in Seq(Records) /\ d \in Nat /\ p \in Nat /\ x \in Records /\ L \in Nat
  BY MessageTypes
<1>3. /\ \A i \in DOMAIN q \ {1} : q[i] = q[i - 1] + 1
      /\ q = <<>> => d = 0
      /\ q # <<>> /\ p # 0 => q[1] = p + d + 1
  BY DEF QueueOK
<1>4. /\ q # <<>> => x = Last(q) + 1
      /\ q = <<>> /\ p # 0 => x = p + 1
  <2>1. q # <<>> => Last(q) # 0
    BY <1>2, LastOf, RecordFacts
  <2> QED BY <2>1, ReachedIs
<1>5. WireOK(c)'
  BY <1>1 DEF WireOK
<1> HIDE DEF q, x, d, p
<1>6. ASSUME NEW r \in Seq(Records), inbox'[c] = Append(r, x)
      PROVE  Reached(c)' = x
  <2>1. inbox'[c] # <<>> /\ Last(inbox'[c]) = x
    BY <1>2, <1>6, AppendFacts
  <2> QED BY <2>1 DEF Reached
<1>7. CASE ~(L >= InboxMax) /\ inbox'[c] = Append(q, x) /\ dropped'[c] = d
  <2> DEFINE b == Append(q, x)
  <2>1. /\ DOMAIN b = 1 .. L + 1 /\ DOMAIN q = 1..L /\ \A i \in 1..L : b[i] = q[i]
        /\ b[L + 1] = x /\ b # <<>> /\ (q # <<>> => Last(q) = q[L] /\ L >= 1) /\ (q = <<>> => L = 0)
    BY <1>2, AppendFacts, LastOf
  <2> HIDE DEF b, L
  <2>2. \A i \in DOMAIN b \ {1} : b[i] = b[i - 1] + 1
    <3> TAKE i \in DOMAIN b \ {1}
    <3>1. CASE i \in 1..L
      <4>1. i \in DOMAIN q \ {1} /\ i - 1 \in 1..L
        BY <1>2, <2>1, <3>1
      <4> QED BY <1>3, <2>1, <3>1, <4>1
    <3>2. CASE i = L + 1
      <4>1. L >= 1 /\ i - 1 = L /\ L \in 1..L
        BY <1>2, <2>1, <3>2
      <4>2. q # <<>>
        BY <2>1, <4>1
      <4> QED BY <1>4, <2>1, <3>2, <4>1, <4>2
    <3> QED BY <1>2, <2>1, <3>1, <3>2
  <2>3. p # 0 => b[1] = p + d + 1
    <3>1. CASE q = <<>>
      <4>1. L + 1 = 1 /\ d = 0 /\ b[1] = x
        BY <1>3, <2>1, <3>1
      <4>2. p + d + 1 = p + 1
        BY <1>2, <4>1
      <4> QED BY <1>4, <3>1, <4>1, <4>2
    <3>2. CASE q # <<>>
      <4>1. 1 \in 1..L
        BY <1>2, <2>1, <3>2
      <4> QED BY <1>3, <2>1, <3>2, <4>1
    <3> QED BY <3>1, <3>2
  <2>4. QueueOK(c)'
    BY <1>1, <1>7, <2>1, <2>2, <2>3 DEF QueueOK, b
  <2> QED BY <1>2, <1>5, <1>6, <1>7, <2>4 DEF x
<1>8. CASE L >= InboxMax /\ inbox'[c] = Append(Tail(q), x) /\ dropped'[c] = d + 1
  <2> DEFINE b == Append(Tail(q), x)
             M == L - 1
  <2>1. L >= 1 /\ q # <<>>
    BY <1>2, <1>8, FeedAssumption
  <2>2. /\ Tail(q) \in Seq(Records) /\ DOMAIN q = 1..L /\ Len(Tail(q)) = M
        /\ \A i \in 1..M : Tail(q)[i] = q[i + 1]
    BY <1>2, <2>1, TailFacts
  <2>3. /\ DOMAIN b = 1 .. M + 1 /\ \A i \in 1..M : b[i] = Tail(q)[i]
        /\ b[M + 1] = x /\ b # <<>>
    <3> DEFINE t == Tail(q)
    <3>1. t \in Seq(Records) /\ x \in Records /\ Len(t) = M
      BY <1>2, <2>2
    <3> HIDE DEF t
    <3>2. /\ DOMAIN Append(t, x) = 1 .. Len(t) + 1 /\ \A i \in 1..Len(t) : Append(t, x)[i] = t[i]
          /\ Append(t, x)[Len(t) + 1] = x /\ Append(t, x) # <<>>
      BY <3>1, AppendFacts
    <3> HIDE DEF M
    <3>3. /\ DOMAIN Append(t, x) = 1 .. M + 1 /\ \A i \in 1..M : Append(t, x)[i] = t[i]
          /\ Append(t, x)[M + 1] = x /\ Append(t, x) # <<>>
      BY <3>1, <3>2
    <3> QED BY <3>3 DEF t
  <2>4. \A i \in 1..M : b[i] = q[i + 1]
    BY <2>2, <2>3
  <2>5. x = q[L] + 1
    BY <1>2, <1>4, <2>1, LastOf
  <2>6. M \in Nat /\ M + 1 = L
    BY <1>2, <2>1
  <2> HIDE DEF b, L, M
  <2>7. \A i \in 1..L : b[i] = q[i] + 1
    <3> TAKE i \in 1..L
    <3>1. CASE i \in 1..M
      <4>1. i + 1 \in DOMAIN q \ {1} /\ (i + 1) - 1 = i
        BY <2>2, <2>6, <3>1
      <4> QED BY <1>3, <2>4, <3>1, <4>1
    <3>2. CASE i = L
      BY <2>3, <2>5, <2>6, <3>2
    <3> QED BY <2>6, <3>1, <3>2
  <2>8. \A i \in DOMAIN b \ {1} : b[i] = b[i - 1] + 1
    <3> TAKE i \in DOMAIN b \ {1}
    <3>1. i \in 1..L /\ i - 1 \in 1..M /\ (i - 1) + 1 = i
      BY <2>3, <2>6
    <3>2. b[i - 1] = q[i]
      BY <2>4, <3>1
    <3> QED BY <2>7, <3>1, <3>2
  <2>9. p # 0 => b[1] = p + (d + 1) + 1
    <3>1. 1 \in 1..L /\ b[1] = q[1] + 1
      BY <2>1, <2>6, <2>7
    <3> QED BY <1>2, <1>3, <2>1, <3>1
  <2>10. QueueOK(c)'
    BY <1>1, <1>8, <2>3, <2>8, <2>9 DEF QueueOK, b
  <2> QED BY <1>2, <1>5, <1>6, <1>8, <2>2, <2>10 DEF x
<1> QED BY <1>1, <1>7, <1>8

(* What a client receives is one chain. *)
LEMMA ReceivedChain ==
  ASSUME FeedTypeOK, NEW c \in Clients, WireOK(c), QueueOK(c)
  PROVE  Chain(Received(c))
<1> DEFINE w == wire[c]
           h == held[c]
           d == dropped[c]
           q == inbox[c]
           s == IF h = 0 THEN w ELSE Append(w, Event(h))
           u == IF d = 0 THEN s ELSE Append(s, Gap(d))
<1>1. w \in Seq(Messages) /\ h \in Nat /\ d \in Nat /\ q \in Seq(Records)
  BY MessageTypes
<1>2. /\ Chain(w) /\ (h # 0 => Follows(w, h))
      /\ h = 0 /\ w # <<>> => Last(w).kind = "event" /\ Last(w).n # 0
      /\ \A i \in DOMAIN q \ {1} : q[i] = q[i - 1] + 1
      /\ q # <<>> /\ Sent(c) # 0 => q[1] = Sent(c) + d + 1
      /\ Sent(c) = IF h # 0 THEN h ELSE IF w # <<>> THEN Last(w).n ELSE 0
  BY DEF WireOK, QueueOK, Sent
<1>3. Received(c) = u \o [i \in DOMAIN q |-> Event(q[i])]
  <2> DEFINE e == [i \in DOMAIN q |-> Event(q[i])]
  <2>1. w \o (IF h = 0 THEN <<>> ELSE <<Event(h)>>) = s
    <3>1. w \o <<>> = w
      BY <1>1, ConcatEmptySeq
    <3>2. w \o <<Event(h)>> = Append(w, Event(h))
      BY <1>1, MessageFacts
    <3> QED BY <3>1, <3>2
  <2>2. s \in Seq(Messages)
    BY <1>1, MessageFacts
  <2>3. Received(c) = s \o (IF d = 0 THEN <<>> ELSE <<Gap(d)>>) \o e
    BY <2>1 DEF Received
  <2> HIDE DEF s, e
  <2>4. s \o (IF d = 0 THEN <<>> ELSE <<Gap(d)>>) = u
    BY <1>1, <2>2, MessageFacts
  <2> QED BY <2>3, <2>4 DEF e
<1> HIDE DEF w, h, d, q
<1>4. /\ s \in Seq(Messages) /\ Chain(s)
      /\ s # <<>> => Last(s).kind = "event" /\ Last(s).n # 0 /\ Last(s).n = Sent(c)
  <2>1. CASE h = 0
    BY <1>1, <1>2, <2>1
  <2>2. CASE h # 0
    BY <1>1, <1>2, <2>2, ChainEvent, AppendFacts, MessageFacts
  <2> QED BY <2>1, <2>2
<1> HIDE DEF s
<1>5. u \in Seq(Messages) /\ Chain(u)
  BY <1>1, <1>4, ChainGap
<1>6. ASSUME q # <<>> PROVE Follows(u, q[1])
  <2>1. q[1] \in Nat
    BY <1>1, <1>6, TailFacts, RecordFacts
  <2>2. s # <<>> => q[1] = Last(s).n + d + 1
    BY <1>2, <1>4, <1>6
  <2>3. CASE d = 0
    <3>1. s # <<>> => Last(s).n \in Nat
      BY <1>4, LastNumber
    <3>2. s # <<>> => q[1] = Last(s).n + 1
      BY <2>2, <2>3, <3>1
    <3> QED BY <1>4, <2>1, <2>3, <3>2, FollowsEvent
  <2>4. CASE d # 0
    BY <1>1, <1>4, <2>1, <2>2, <2>4, FollowsGap
  <2> QED BY <2>3, <2>4
<1> HIDE DEF u
<1> QED BY <1>1, <1>2, <1>3, <1>5, <1>6, ChainQueue

------------------------------------------------------------------------------
(* Every step serves every client. *)

\* A step that does not touch the client.
LEMMA ServedKept ==
  ASSUME NEW c \in Clients, Served(c), UNCHANGED <<seq, loop>>,
         wire'[c] = wire[c], held'[c] = held[c], inbox'[c] = inbox[c], dropped'[c] = dropped[c],
         sock'[c] = "open" <=> sock[c] = "open",
         \A u \in Appenders : Left(u, c)' = Left(u, c)
  PROVE  Served(c)'
<1>1. Owed(c)' = Owed(c)
  BY OwedKept
<1>2. InLoop(c)' = InLoop(c) /\ LoopOrdered(c)' /\ Reached(c)' = Reached(c)
  BY DEF InLoop, LoopOrdered, Reached, Served
<1>3. WireOK(c)' /\ QueueOK(c)'
  BY DEF WireOK, QueueOK, Sent, Served
<1> QED BY <1>1, <1>2, <1>3 DEF Served

\* The threads, when one at most delivers.
LEMMA Alone ==
  ASSUME ThreadInv, ~crossed, NEW t \in Appenders, ~Idle(t)
  PROVE  \A u \in Appenders \ {t} : Idle(u)
BY DEF ThreadInv

\* New records are owed to a client that listens.
LEMMA ServedExtend ==
  ASSUME FeedTypeOK, FeedTypeOK', ThreadInv, ThreadInv', NEW c \in Clients, Served(c),
         ~crossed', NEW t \in Appenders, NEW n \in 1..2, Extend(t, n)
  PROVE  Served(c)'
<1>1. /\ seq' = seq + n /\ UNCHANGED <<loop, wire, held, inbox, dropped, sock>>
      /\ ~crossed /\ \A u \in Appenders : Idle(u)
      /\ \A u \in Appenders \ {t} : thr'[u] = thr[u]
      /\ thr'[t].next = 0 /\ Len(thr'[t].recs) = n
  BY ThreadExtend DEF Extend, sockVars
<1>2. Owed(c) = {} /\ seq \in Nat /\ n \in Nat /\ n > 0
  <2>1. Owed(c) = {}
    BY <1>1, OwedIs DEF OwesNewest
  <2> QED BY <2>1, SetTypes
<1>3. \A u \in Appenders \ {t} : Idle(u)'
  BY <1>1 DEF Idle
<1>4. Left(t, c)' = IF sock[c] = "open" THEN n ELSE 0
  BY <1>1 DEF Left
<1>5. Owed(c)' = seq' - Left(t, c)' + 1 .. seq'
  <2>1. OwesNewest'
    BY OwedIs, PTL
  <2> QED BY <1>3, <2>1 DEF OwesNewest
<1>6. Owed(c)' = IF sock[c] = "open" THEN seq + 1 .. seq + n ELSE {}
  <2>1. (seq + n) - n + 1 = seq + 1 /\ (seq + n) - 0 + 1 = seq + n + 1
    BY <1>2
  <2>2. seq + n + 1 .. seq + n = {}
    BY <1>2
  <2>3. CASE sock[c] = "open"
    BY <1>1, <1>4, <1>5, <2>1, <2>3
  <2>4. CASE sock[c] # "open"
    BY <1>1, <1>4, <1>5, <2>1, <2>2, <2>4
  <2> QED BY <2>3, <2>4
<1>7. InLoop(c)' = InLoop(c) /\ LoopOrdered(c)' /\ Reached(c)' = Reached(c)
  BY <1>1 DEF InLoop, LoopOrdered, Reached, Served
<1>8. WireOK(c)' /\ QueueOK(c)'
  BY <1>1 DEF WireOK, QueueOK, Sent, Served
<1>9. Shape(InLoop(c), {}, Reached(c), seq, sock[c] = "open")
  BY <1>2 DEF Served
<1>10. Shape(InLoop(c), IF sock[c] = "open" THEN seq + 1 .. seq + n ELSE {}, Reached(c), seq + n,
             sock[c] = "open")
  <2> DEFINE open == sock[c] = "open"
  <2>1. open \in BOOLEAN /\ InLoop(c) \in SUBSET Nat /\ Reached(c) \in Nat
    BY SetTypes
  <2> HIDE DEF open
  <2>2. Shape(InLoop(c), {}, Reached(c), seq, open)
    BY <1>9 DEF open
  <2>3. Shape(InLoop(c), IF open THEN seq + 1 .. seq + n ELSE {}, Reached(c), seq + n, open)
    BY <1>2, <2>1, <2>2, ShapeExtend
  <2> QED BY <2>3 DEF open
<1> QED BY <1>1, <1>6, <1>7, <1>8, <1>10 DEF Served

\* A thread schedules the first record it owes.
LEMMA ServedHand ==
  ASSUME FeedTypeOK, FeedTypeOK', ThreadInv, ThreadInv', NEW c \in Clients, Served(c),
         ~crossed, NEW t \in Appenders, NEW d \in Clients, Hand(t, d)
  PROVE  Served(c)'
<1> DEFINE x == Head(thr[t].recs)
           L == Len(thr[t].recs)
<1>1. /\ UNCHANGED <<seq, crossed, wire, held, inbox, dropped, sock>>
      /\ Delivers(t, d) /\ Advance(t) /\ loop' = Append(loop, <<d, x>>)
      /\ \A u \in Appenders \ {t} : thr'[u] = thr[u]
  BY AdvanceFacts DEF Hand, sockVars, bufferVars
<1>2. /\ L > 0 /\ L \in Nat /\ x \in Records /\ x = seq - L + 1
  <2>1. thr[t].recs \in Seq(Records) /\ L > 0
    BY <1>1, AdvanceFacts DEF FeedTypeOK
  <2>2. 1 \in DOMAIN thr[t].recs /\ x = thr[t].recs[1] /\ x \in Records
    BY <2>1
  <2> QED BY <2>1, <2>2 DEF ThreadInv
<1> HIDE DEF x
<1>3. ~Idle(t)
  <2>1. Len(Free.recs) = 0
    BY FreeIsThread
  <2> QED BY <1>2, <2>1 DEF Idle
<1>4. \A u \in Appenders \ {t} : Idle(u)
  BY <1>3, Alone
<1>5. Reached(c)' = Reached(c) /\ WireOK(c)' /\ QueueOK(c)' /\ LoopOrdered(c)
  BY <1>1 DEF Reached, WireOK, QueueOK, Sent, Served
<1>6. CASE d # c
  <2>1. \A u \in Appenders \ {t} : Left(u, c)' = Left(u, c)
    BY <1>1, LeftKept
  <2>2. Left(t, c)' = Left(t, c)
    BY <1>1, <1>6, LeftAdvance
  <2>3. Owed(c)' = Owed(c)
    BY <1>1, <2>1, <2>2, OwedKept
  <2>4. InLoop(c)' = InLoop(c) /\ LoopOrdered(c)'
    BY <1>1, <1>2, <1>5, <1>6, LoopAppend
  <2> QED BY <1>1, <1>5, <2>3, <2>4 DEF Served
<1>7. CASE d = c
  <2>1. Left(t, c) = L /\ Left(t, c)' = L - 1
    BY <1>1, <1>7, LeftAdvance
  <2>2. Owed(c) = seq - L + 1 .. seq /\ L <= seq
    BY <1>4, <2>1, OwedIs DEF OwesNewest
  <2>3. \A u \in Appenders \ {t} : Idle(u)'
    BY <1>1, <1>4 DEF Idle
  <2>4. Owed(c)' = seq' - Left(t, c)' + 1 .. seq'
    <3>1. OwesNewest'
      <4>1. ~crossed'
        BY <1>1
      <4> QED BY <4>1, OwedIs, PTL
    <3> QED BY <2>3, <3>1 DEF OwesNewest
  <2>5. seq \in Nat /\ x \in Nat /\ x <= seq
    BY <1>2, <2>2, RecordFacts, SetTypes
  <2> HIDE DEF L
  <2>6. Owed(c) = x .. seq /\ Owed(c)' = x + 1 .. seq
    <3>1. seq - (L - 1) + 1 = x + 1
      BY <1>2, <2>5
    <3> QED BY <1>1, <1>2, <2>1, <2>2, <2>4, <3>1
  <2>7. InLoop(c)' = InLoop(c) \cup {x} /\ ((\A y \in InLoop(c) : y < x) => LoopOrdered(c)')
    BY <1>1, <1>2, <1>5, <1>7, LoopAppend
  <2> DEFINE open == sock[c] = "open"
  <2>8. open \in BOOLEAN /\ InLoop(c) \in SUBSET Nat /\ Reached(c) \in Nat
    BY SetTypes
  <2>9. Shape(InLoop(c), x .. seq, Reached(c), seq, open)
    BY <2>6 DEF Served
  <2> HIDE DEF open
  <2>10. Shape(InLoop(c) \cup {x}, x + 1 .. seq, Reached(c), seq, open)
    BY <2>5, <2>8, <2>9, ShapeHand
  <2>11. \A y \in InLoop(c) : y < x
    <3>1. x \in x .. seq
      BY <2>5
    <3> QED BY <2>9, <3>1 DEF Shape
  <2> QED BY <1>1, <1>5, <2>6, <2>7, <2>10, <2>11 DEF Served, open
<1> QED BY <1>6, <1>7

\* The event loop queues the first record scheduled.
LEMMA ServedEnqueue ==
  ASSUME FeedTypeOK, NEW c \in Clients, Served(c), Enqueue
  PROVE  Served(c)'
<1> DEFINE d == loop[1][1]
           x == loop[1][2]
<1>1. /\ UNCHANGED <<seq, wire, held, sock, thr>> /\ loop # <<>> /\ loop' = Tail(loop)
      /\ \E y : inbox' = [inbox EXCEPT ![d] = y]
      /\ \E y : dropped' = [dropped EXCEPT ![d] = y]
  BY DEF Enqueue, bufferVars
<1>2. LoopOrdered(c) /\ WireOK(c) /\ QueueOK(c)
  BY DEF Served
<1>3. Owed(c)' = Owed(c)
  <2>1. \A u \in Appenders : Left(u, c)' = Left(u, c)
    BY <1>1, LeftKept
  <2> QED BY <1>1, <2>1, OwedKept
<1>4. /\ LoopOrdered(c)' /\ x \in Records
      /\ d # c => InLoop(c)' = InLoop(c)
      /\ d = c => InLoop(c)' = InLoop(c) \ {x} /\ x \in InLoop(c) /\ \A y \in InLoop(c) : x <= y
  BY <1>1, <1>2, LoopTail
<1>5. CASE d # c
  <2>1. inbox'[c] = inbox[c] /\ dropped'[c] = dropped[c]
    <3> HIDE DEF d
    <3> QED BY <1>1, <1>5, MessageTypes
  <2>2. Reached(c)' = Reached(c) /\ WireOK(c)' /\ QueueOK(c)'
    BY <1>1, <1>2, <2>1 DEF Reached, WireOK, QueueOK, Sent
  <2> QED BY <1>1, <1>3, <1>4, <1>5, <2>2 DEF Served
<1>6. CASE d = c
  <2> DEFINE open == sock[c] = "open"
  <2>1. /\ open \in BOOLEAN /\ InLoop(c) \in SUBSET Nat /\ Owed(c) \in SUBSET Nat
        /\ Reached(c) \in Nat /\ seq \in Nat
    BY SetTypes
  <2>2. Shape(InLoop(c), Owed(c), Reached(c), seq, open)
    BY DEF Served
  <2> HIDE DEF open, x
  <2>3. /\ Shape(InLoop(c) \ {x}, Owed(c), x, seq, open)
        /\ Reached(c) # 0 => x = Reached(c) + 1
    <3>1. x \in InLoop(c) /\ \A y \in InLoop(c) : x <= y
      BY <1>4, <1>6
    <3> DEFINE l == InLoop(c)
               o == Owed(c)
               r == Reached(c)
    <3>2. /\ l \in SUBSET Nat /\ o \in SUBSET Nat /\ r \in Nat /\ x \in l
          /\ Shape(l, o, r, seq, open) /\ \A y \in l : x <= y
      BY <2>1, <2>2, <3>1
    <3> HIDE DEF l, o, r
    <3>3. Shape(l \ {x}, o, x, seq, open) /\ (r # 0 => x = r + 1)
      BY <2>1, <3>2, ShapeEnqueue
    <3> QED BY <3>3 DEF l, o, r
  <2>4. WireOK(c)' /\ QueueOK(c)' /\ Reached(c)' = x
    BY <1>2, <1>4, <1>6, <2>3, EnqueueMessages DEF x
  <2> QED BY <1>1, <1>3, <1>4, <1>6, <2>3, <2>4 DEF Served, open
<1> QED BY <1>5, <1>6

\* A new client is owed the records of a thread that has not copied the
\* subscribers yet.
LEMMA ServedSubscribe ==
  ASSUME FeedTypeOK, FeedTypeOK', ThreadInv, ThreadInv', FreshInv, NEW c \in Clients, Served(c),
         ~crossed, Subscribe(c)
  PROVE  Served(c)'
<1>1. /\ UNCHANGED <<seq, loop, thr, wire, held, inbox, dropped, crossed>>
      /\ sock[c] = "registered" /\ sock'[c] = "open"
  BY DEF Subscribe, bufferVars, FeedTypeOK
<1>2. Untouched(c)
  BY <1>1, FreshParts DEF Fresh
<1>3. InLoop(c)' = {}
  <2>1. \A i \in DOMAIN loop : loop[i][1] # c
    BY <1>2 DEF Untouched
  <2> QED BY <1>1, <2>1 DEF InLoop
<1>4. Reached(c)' = 0 /\ LoopOrdered(c)' /\ WireOK(c)' /\ QueueOK(c)'
  BY <1>1, <1>2 DEF Untouched, Reached, LoopOrdered, WireOK, QueueOK, Sent, Served
<1>5. \E n \in Nat : n <= seq /\ Owed(c)' = seq - n + 1 .. seq
  <2>1. OwesNewest'
    <3>1. ~crossed'
      BY <1>1
    <3> QED BY <3>1, OwedIs, PTL
  <2>2. CASE \A u \in Appenders : Idle(u)
    <3>1. Owed(c)' = {}
      BY <1>1, <2>1, <2>2 DEF Idle, OwesNewest
    <3>2. 0 \in Nat /\ 0 <= seq /\ seq - 0 + 1 .. seq = {}
      BY SetTypes
    <3> QED BY <3>1, <3>2
  <2>3. CASE \E t \in Appenders : ~Idle(t)
    <3>1. PICK t \in Appenders : ~Idle(t)
      BY <2>3
    <3>2. \A u \in Appenders \ {t} : Idle(u)'
      BY <1>1, <3>1, Alone DEF Idle
    <3>3. /\ Owed(c)' = seq' - Left(t, c)' + 1 .. seq'
          /\ Left(t, c)' \in Nat /\ Left(t, c)' <= seq'
      BY <2>1, <3>2 DEF OwesNewest
    <3> QED BY <1>1, <3>3
  <2> QED BY <2>2, <2>3
<1>6. PICK n \in Nat : n <= seq /\ Owed(c)' = seq - n + 1 .. seq
  BY <1>5
<1>7. Shape({}, seq - n + 1 .. seq, 0, seq, TRUE)
  BY <1>6, SetTypes, ShapeSubscribe
<1>8. Shape(InLoop(c)', Owed(c)', Reached(c)', seq', sock'[c] = "open")
  <2>1. (sock'[c] = "open") = TRUE
    BY <1>1
  <2> QED BY <1>1, <1>3, <1>4, <1>6, <1>7, <2>1
<1> QED BY <1>4, <1>8 DEF Served

\* A client that leaves is owed nothing by such a thread any more.
LEMMA ServedLeave ==
  ASSUME FeedTypeOK, FeedTypeOK', ThreadInv, ThreadInv', NEW c \in Clients, Served(c),
         ~crossed, Leave(c)
  PROVE  Served(c)'
<1>1. /\ UNCHANGED <<seq, loop, thr, wire, held, inbox, dropped, crossed>>
      /\ sock[c] = "open" /\ sock'[c] = "ended"
  BY DEF Leave, bufferVars, FeedTypeOK
<1>2. InLoop(c)' = InLoop(c) /\ LoopOrdered(c)' /\ Reached(c)' = Reached(c) /\ WireOK(c)' /\ QueueOK(c)'
  BY <1>1 DEF InLoop, Reached, LoopOrdered, WireOK, QueueOK, Sent, Served
<1>3. Owed(c)' = Owed(c) \/ Owed(c)' = {}
  <2>1. CASE \A u \in Appenders : Idle(u)
    <3>1. \A u \in Appenders : Left(u, c)' = 0 /\ Left(u, c) = 0
      <4> TAKE u \in Appenders
      <4>1. thr[u].next = 0 /\ Left(u, c) = 0
        BY <2>1, FreeIsThread, LeftNat DEF Idle
      <4> QED BY <1>1, <4>1 DEF Left
    <3>2. \A u \in Appenders : Left(u, c)' = Left(u, c)
      BY <3>1
    <3> QED BY <1>1, <3>2, OwedKept
  <2>2. CASE \E t \in Appenders : ~Idle(t)
    <3>1. PICK t \in Appenders : ~Idle(t)
      BY <2>2
    <3>2. \A u \in Appenders \ {t} : Idle(u) /\ thr[u].next = 0 /\ Left(u, c) = 0
      BY <3>1, Alone, FreeIsThread, LeftNat DEF Idle
    <3>3. \A u \in Appenders \ {t} : Left(u, c)' = 0
      BY <1>1, <3>2 DEF Left
    <3>4. CASE thr[t].next = 0
      <4>1. Left(t, c)' = 0
        BY <1>1, <3>4 DEF Left
      <4>2. \A u \in Appenders : Left(u, c)' = 0
        BY <3>3, <4>1
      <4>3. \A y \in Records : y \in Nat
        BY RecordFacts
      <4>4. Owed(c)' = {}
        BY <1>1, <4>2, <4>3, SetTypes DEF Owed
      <4> QED BY <4>4
    <3>5. CASE thr[t].next # 0
      <4>1. Left(t, c)' = Left(t, c)
        BY <1>1, <3>5 DEF Left
      <4>2. \A u \in Appenders : Left(u, c)' = Left(u, c)
        BY <3>2, <3>3, <4>1
      <4> QED BY <1>1, <4>2, OwedKept
    <3> QED BY <3>4, <3>5
  <2> QED BY <2>1, <2>2
<1>4. Shape(InLoop(c), Owed(c), Reached(c), seq, FALSE) /\ Shape(InLoop(c), {}, Reached(c), seq, FALSE)
  <2>1. Shape(InLoop(c), Owed(c), Reached(c), seq, TRUE)
    <3>1. (sock[c] = "open") = TRUE
      BY <1>1
    <3> QED BY <3>1 DEF Served
  <2> QED BY <2>1, SetTypes, ShapeLeave
<1>5. Shape(InLoop(c)', Owed(c)', Reached(c)', seq', sock'[c] = "open")
  <2>1. (sock'[c] = "open") = FALSE
    BY <1>1
  <2>2. CASE Owed(c)' = Owed(c)
    BY <1>1, <1>2, <1>4, <2>1, <2>2
  <2>3. CASE Owed(c)' = {}
    BY <1>1, <1>2, <1>4, <2>1, <2>3
  <2> QED BY <1>3, <2>2, <2>3
<1> QED BY <1>2, <1>5 DEF Served

\* The send loop changes nothing before the queue.
LEMMA ServedMessages ==
  ASSUME FeedTypeOK, FeedTypeOK', NEW c \in Clients, Served(c), TakeNext(c) \/ SendEvent(c)
  PROVE  Served(c)'
<1>1. UNCHANGED <<seq, loop, thr, sock>>
  BY DEF TakeNext, SendEvent, bufferVars
<1>2. WireOK(c)' /\ QueueOK(c)' /\ Reached(c)' = Reached(c)
  BY TakeMessages, SendMessages DEF Served
<1>3. InLoop(c)' = InLoop(c) /\ LoopOrdered(c)'
  BY <1>1 DEF InLoop, LoopOrdered, Served
<1>4. Owed(c)' = Owed(c)
  <2>1. \A u \in Appenders : Left(u, c)' = Left(u, c)
    BY <1>1, LeftKept
  <2> QED BY <1>1, <2>1, OwedKept
<1> QED BY <1>1, <1>2, <1>3, <1>4 DEF Served

\* Every step.
LEMMA ServedStep ==
  FeedInv /\ FeedTypeOK' /\ ThreadInv' /\ [FeedNext]_feedVars =>
    (~crossed => \A c \in Clients : Served(c))'
<1> SUFFICES ASSUME FeedInv, FeedTypeOK', ThreadInv', [FeedNext]_feedVars, ~crossed',
                    NEW c \in Clients
             PROVE  Served(c)'
  OBVIOUS
<1>0. ~crossed /\ FeedTypeOK /\ SubsInv /\ FreshInv /\ ThreadInv /\ Served(c)
  <2>1. crossed => crossed'
    BY DEF FeedNext, Extend, StartNotify, Publish, Analyse, Hand, CloseSockets, Unlist, Ship,
           CloseBus, Enqueue, StartStream, Connect, Answer, Redirect, NoStream, Subscribe,
           TakeNext, SendEvent, Leave, feedVars
  <2> QED BY <2>1 DEF FeedInv
<1>1. ASSUME UNCHANGED <<seq, loop, thr>>,
             wire'[c] = wire[c], held'[c] = held[c], inbox'[c] = inbox[c], dropped'[c] = dropped[c],
             sock'[c] = "open" <=> sock[c] = "open"
      PROVE  Served(c)'
  BY <1>0, <1>1, LeftKept, ServedKept
<1>2. ASSUME NEW t \in Appenders, NEW n \in 1..2, Extend(t, n) PROVE Served(c)'
  BY <1>0, <1>2, ServedExtend
<1>3. ASSUME NEW t \in Appenders, StartNotify(t) PROVE Served(c)'
  <2>1. UNCHANGED <<seq, loop, wire, held, inbox, dropped, sock>>
    BY <1>3 DEF StartNotify, bufferVars, sockVars
  <2>2. \A u \in Appenders \ {t} : Left(u, c)' = Left(u, c)
    BY <1>0, <1>3, <2>1, NotifyFacts, LeftKept
  <2>3. Left(t, c)' = Left(t, c)
    BY <1>0, <1>3, LeftNotify
  <2> QED BY <1>0, <2>1, <2>2, <2>3, ServedKept
<1>4. ASSUME NEW t \in Appenders, Publish(t) \/ Analyse(t) PROVE Served(c)'
  <2>1. UNCHANGED <<seq, loop, wire, held, inbox, dropped, sock>> /\ Advance(t)
    BY <1>4 DEF Publish, Analyse, bufferVars, sockVars
  <2>2. PICK cb : Delivers(t, cb) /\ cb # c
    BY <1>4, FeedAssumption DEF Publish, Analyse
  <2>3. \A u \in Appenders \ {t} : Left(u, c)' = Left(u, c)
    BY <1>0, <2>1, <2>2, AdvanceFacts, LeftKept
  <2>4. Left(t, c)' = Left(t, c)
    BY <1>0, <2>1, <2>2, LeftAdvance
  <2> QED BY <1>0, <2>1, <2>3, <2>4, ServedKept
<1>5. ASSUME NEW t \in Appenders, NEW d \in Clients, Hand(t, d) PROVE Served(c)'
  BY <1>0, <1>5, ServedHand
<1>6. CASE CloseSockets \/ Unlist \/ Ship \/ CloseBus \/ \E ok \in BOOLEAN : StartStream(ok)
  BY <1>1, <1>6 DEF CloseSockets, Unlist, Ship, CloseBus, StartStream, bufferVars, sockVars
<1>7. CASE Enqueue
  BY <1>0, <1>7, ServedEnqueue
<1>8. ASSUME NEW d \in Clients, Connect(d) \/ Redirect(d) \/ NoStream(d) PROVE Served(c)'
  <2>1. /\ UNCHANGED <<seq, loop, thr, wire, held, inbox, dropped>>
        /\ sock[d] # "open"
        /\ \E w \in {"registered", "redirected", "ended"} : sock' = [sock EXCEPT ![d] = w]
    BY <1>8 DEF Connect, Redirect, NoStream, bufferVars
  <2>2. sock'[c] = "open" <=> sock[c] = "open"
    BY <1>0, <2>1 DEF FeedTypeOK
  <2> QED BY <1>1, <2>1, <2>2
<1>9. ASSUME NEW d \in Clients, Subscribe(d) \/ Leave(d) PROVE Served(c)'
  <2>1. CASE d = c
    BY <1>0, <1>9, <2>1, ServedSubscribe, ServedLeave
  <2>2. CASE d # c
    <3>1. /\ UNCHANGED <<seq, loop, thr, wire, held, inbox, dropped>>
          /\ \E w : sock' = [sock EXCEPT ![d] = w]
      BY <1>9 DEF Subscribe, Leave, bufferVars
    <3>2. sock'[c] = sock[c]
      BY <1>0, <2>2, <3>1 DEF FeedTypeOK
    <3> QED BY <1>1, <3>1, <3>2
  <2> QED BY <2>1, <2>2
<1>10. ASSUME NEW d \in Clients, TakeNext(d) \/ SendEvent(d) PROVE Served(c)'
  <2>1. CASE d = c
    BY <1>0, <1>10, <2>1, ServedMessages
  <2>2. CASE d # c
    <3>1. /\ UNCHANGED <<seq, loop, thr, sock>>
          /\ \E x : held' = [held EXCEPT ![d] = x]
          /\ wire' = wire \/ \E x : wire' = [wire EXCEPT ![d] = x]
          /\ inbox' = inbox \/ \E x : inbox' = [inbox EXCEPT ![d] = x]
          /\ dropped' = dropped \/ \E x : dropped' = [dropped EXCEPT ![d] = x]
      BY <1>10 DEF TakeNext, SendEvent, bufferVars
    <3>2. wire'[c] = wire[c] /\ held'[c] = held[c] /\ inbox'[c] = inbox[c] /\ dropped'[c] = dropped[c]
      BY <1>0, <2>2, <3>1, MessageTypes
    <3> QED BY <1>1, <3>1, <3>2
  <2> QED BY <2>1, <2>2
<1>11. CASE UNCHANGED feedVars
  BY <1>1, <1>11 DEF feedVars, bufferVars, sockVars
<1> QED BY <1>2, <1>3, <1>4, <1>5, <1>6, <1>7, <1>8, <1>9, <1>10, <1>11 DEF FeedNext, Answer

\* The invariant is inductive.
LEMMA FeedInvInit == FeedInit => FeedInv
<1> SUFFICES ASSUME FeedInit PROVE FeedInv
  OBVIOUS
<1>1. FeedTypeOK
  BY FeedTypeInit
<1>2. \A t \in Appenders : thr[t] = Free /\ thr[t].recs = <<>> /\ thr[t].calls = <<>> /\ Idle(t)
  BY FreeIsThread DEF FeedInit, Idle
<1>3. SubsInv
  BY DEF FeedInit, SubsInv
<1>4. FreshInv
  BY <1>2 DEF FeedInit, FreshInv
<1>5. ThreadInv
  BY <1>2 DEF ThreadInv
<1>6. ~crossed
  BY DEF FeedInit
<1>7. ASSUME NEW c \in Clients PROVE Served(c)
  <2>1. wire[c] = <<>> /\ held[c] = 0 /\ inbox[c] = <<>> /\ dropped[c] = 0 /\ loop = <<>> /\ sock[c] = "new"
    BY DEF FeedInit
  <2>2. Owed(c) = {}
    BY <1>1, <1>2, <1>5, <1>6, OwedIs DEF OwesNewest
  <2>3. InLoop(c) = {} /\ Reached(c) = 0
    BY <2>1 DEF InLoop, Reached
  <2>4. Way({}, {}, 0) = {}
    BY DEF Way
  <2>5. Shape({}, {}, 0, seq, sock[c] = "open")
    BY <2>4 DEF Shape
  <2>6. LoopOrdered(c) /\ WireOK(c) /\ QueueOK(c)
    BY <2>1 DEF LoopOrdered, WireOK, QueueOK, Sent, Chain
  <2> QED BY <2>2, <2>3, <2>5, <2>6 DEF Served
<1> QED BY <1>1, <1>3, <1>4, <1>5, <1>6, <1>7 DEF FeedInv

LEMMA FeedInvStep == FeedInv /\ [FeedNext]_feedVars => FeedInv'
BY FeedTypeStep, SubsStep, FreshStep, ThreadStep, ServedStep DEF FeedInv

\* The types of the event feed, for any number of threads, clients and
\* records and any limits of the buffer and the queues.
THEOREM FeedTypeCorrect == FeedSpec => []FeedTypeOK
<1>1. FeedInv => FeedTypeOK
  BY DEF FeedInv
<1> QED BY <1>1, FeedInvInit, FeedInvStep, PTL DEF FeedSpec

\* Gap notices are exact (_enqueue, _send_loop): as long as one thread at a
\* time delivers, every client learns how many records it missed before each
\* event, for any queue limit.
THEOREM GapsAreReported == FeedSpec => []GapsAreExact
<1>1. FeedInv => GapsAreExact
  BY ReceivedChain DEF FeedInv, Served, GapsAreExact, Chain
<1> QED BY <1>1, FeedInvInit, FeedInvStep, PTL DEF FeedSpec
=============================================================================
