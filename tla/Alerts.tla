-------------------------------- MODULE Alerts --------------------------------
(***************************************************************************)
(* The alert engine and the alert manager (backend/alerts), for one rule    *)
(* and one deduplication key.                                              *)
(*                                                                         *)
(* Stream threads put events on a bounded queue.  The engine's worker, and  *)
(* the thread that drains the queue in stop(), evaluate them: rules from a  *)
(* cache with a time to live, then cooldown and deduplication marks, then   *)
(* the manager's trigger(), which looks for an active alert in one          *)
(* statement and inserts one in a later one.  Requests and the expiry pass  *)
(* read an alert's state and write it back with no lock.  Notifications go  *)
(* through a second bounded queue, whose worker retries each provider.      *)
(***************************************************************************)
EXTENDS Integers, Sequences, FiniteSets, SequencesExt

CONSTANTS
  QueueMax,   (* events queued for the engine                                *)
  NotifyMax,  (* jobs queued for the notification worker                     *)
  MaxRetries, (* retries of a notification                                   *)
  Conditions, (* the rule's conditions                                       *)
  Logic,      (* "AND" or "OR"                                               *)
  Quantities, (* bound: values of a stream's counts, occupancies and times   *)
  MaxAlerts,  (* bound: alerts inserted                                      *)
  MaxInputs   (* bound: events, requests, changes of the rule and stops      *)

ASSUME AlertsAssumption ==
  /\ QueueMax \in Nat \ {0} /\ NotifyMax \in Nat \ {0} /\ MaxRetries \in Nat
  /\ Logic \in {"AND", "OR"} /\ Quantities \subseteq Int
  /\ MaxAlerts \in Nat /\ MaxInputs \in Nat

Worker == "worker"
Drainer == "drainer"
Threads == {Worker, Drainer}

Active == {"triggered", "acknowledged", "suppressed"}
Final == {"resolved", "expired"}
States == Active \cup Final

VARIABLES
  inputs,   \* events, requests, changes of the rule and stops so far
  queue,    \* how many events wait
  enabled,  \* the rule's row: it is enabled
  reload,   \* the rule was changed and the cache is still to be cleared
  cache,    \* the engine's cached rules: "none", "on", "off"; and their age
  eval,     \* what each thread of the engine is doing
  marked,   \* the cooldown or the deduplication mark of the key is set
  alerts,   \* the alerts, in the order of their ids
  request,  \* the state-changing request in progress
  pass,     \* the expiry pass: the alerts it read, with their states
  jobs,     \* how many notifications are queued
  job,      \* the attempt at the job each thread of the manager has, or 0
  engine,   \* the engine: "up", "stopping", "draining", "down"
  manager,  \* the manager: the same
  late,     \* history: a stop gave up waiting for its worker
  stale     \* history: a write was based on a state that had changed

engineVars == <<queue, cache, eval, marked>>
ruleVars == <<enabled, reload>>
notifyVars == <<jobs, job>>
vars == <<inputs, engineVars, ruleVars, alerts, request, pass, notifyVars, engine,
          manager, late, stale>>

Ids == 1..Len(alerts)
NoRequest == [op |-> "none", id |-> 0, from |-> "none"]

Init ==
  /\ inputs = 0 /\ queue = 0
  /\ enabled = TRUE /\ reload = FALSE
  /\ cache = [rules |-> "none", fresh |-> FALSE]
  /\ eval = [t \in Threads |-> [pc |-> "idle", rules |-> "none"]]
  /\ marked = FALSE
  /\ alerts = <<>>
  /\ request = NoRequest
  /\ pass = <<>>
  /\ jobs = 0 /\ job = [t \in Threads |-> 0]
  /\ engine = "up" /\ manager = "up"
  /\ late = FALSE /\ stale = FALSE

\* An input of the environment.
Input == inputs < MaxInputs /\ inputs' = inputs + 1

------------------------------------------------------------------------------
(* The engine.                                                             *)

At(t, pc) == eval[t].pc = pc
Go(t, pc) == eval' = [eval EXCEPT ![t].pc = pc]

\* handle_event(): a full queue drops the event.
HandleEvent ==
  /\ Input
  /\ queue' = IF queue < QueueMax THEN queue + 1 ELSE queue
  /\ UNCHANGED <<cache, eval, marked, ruleVars, alerts, request,
                 pass, notifyVars, engine, manager, late, stale>>

\* The worker takes events while the engine runs, stop() after its join.
MayTake(t) == IF t = Worker THEN engine = "up" ELSE engine = "draining"

Take(t) ==
  /\ MayTake(t) /\ At(t, "idle") /\ queue > 0
  /\ queue' = queue - 1
  /\ Go(t, "rules")
  /\ UNCHANGED <<inputs, cache, marked, ruleVars, alerts, request,
                 pass, notifyVars, engine, manager, late, stale>>

\* _get_rules(): an entry younger than its time to live is used.
Hit == cache.rules # "none" /\ cache.fresh

CachedRules(t) ==
  /\ At(t, "rules") /\ Hit
  /\ eval' = [eval EXCEPT ![t] = [pc |-> "judge", rules |-> cache.rules]]
  /\ UNCHANGED <<inputs, queue, cache, marked, ruleVars, alerts,
                 request, pass, notifyVars, engine, manager, late, stale>>

\* Otherwise the rows are read first ...
LoadRules(t) ==
  /\ At(t, "rules") /\ ~Hit
  /\ eval' = [eval EXCEPT ![t] = [pc |-> "store",
                                  rules |-> IF enabled THEN "on" ELSE "off"]]
  /\ UNCHANGED <<inputs, queue, cache, marked, ruleVars, alerts,
                 request, pass, notifyVars, engine, manager, late, stale>>

\* ... and stored afterwards, whatever was invalidated in between.
StoreRules(t) ==
  /\ At(t, "store")
  /\ cache' = [rules |-> eval[t].rules, fresh |-> TRUE]
  /\ Go(t, "judge")
  /\ UNCHANGED <<inputs, queue, marked, ruleVars, alerts, request,
                 pass, notifyVars, engine, manager, late, stale>>

\* Mutant of Ages: an entry is never older than its time to live.
Ages_Never == UNCHANGED cache

Ages == cache' = [cache EXCEPT !.fresh = FALSE]

CacheAges ==
  /\ cache.fresh /\ Ages
  /\ UNCHANGED <<inputs, queue, eval, marked, ruleVars, alerts,
                 request, pass, notifyVars, engine, manager, late, stale>>

\* compare().
Compare(value, operator, threshold) ==
  \/ operator = "gte" /\ value >= threshold
  \/ operator = "gt" /\ value > threshold
  \/ operator = "lte" /\ value <= threshold
  \/ operator = "lt" /\ value < threshold
  \/ operator = "eq" /\ value = threshold
  \/ operator = "ne" /\ value # threshold

Thresholds == {"object_count_threshold", "zone_occupancy_threshold",
               "dwell_time_threshold", "line_crossing_threshold"}

\* evaluate_condition(): a quantity against a threshold, or the event's type or
\* class.  An unknown type of condition never holds.
Holds(condition, snapshot, event) ==
  \/ /\ condition.type \in Thresholds
     /\ Compare(snapshot[condition.type], condition.operator, condition.threshold)
  \/ condition.type = "event_type_match" /\ event.type = condition.value
  \/ condition.type = "class_specific" /\ event.class = condition.value

\* evaluate_rule(): a rule without conditions matches nothing.
Matched(snapshot, event) ==
  /\ Conditions # {}
  /\ IF Logic = "OR" THEN \E c \in Conditions : Holds(c, snapshot, event)
     ELSE \A c \in Conditions : Holds(c, snapshot, event)

\* What the conditions name, and one value that none of them names.
Values(type) == {"other"} \cup {c.value : c \in {d \in Conditions : d.type = type}}
Snapshots == [Thresholds -> Quantities]
Events == [type : Values("event_type_match"), class : Values("class_specific")]

\* The event does not match, or a mark says that it was reported.
Discard(t) ==
  /\ At(t, "judge") /\ Go(t, "idle")
  /\ \/ eval[t].rules = "off" \/ marked
     \/ \E snapshot \in Snapshots, event \in Events : ~Matched(snapshot, event)
  /\ UNCHANGED <<inputs, queue, cache, marked, ruleVars, alerts,
                 request, pass, notifyVars, engine, manager, late, stale>>

Match(t) ==
  /\ At(t, "judge") /\ eval[t].rules = "on" /\ ~marked
  /\ \E snapshot \in Snapshots, event \in Events : Matched(snapshot, event)
  /\ Go(t, "look")
  /\ UNCHANGED <<inputs, queue, cache, marked, ruleVars, alerts,
                 request, pass, notifyVars, engine, manager, late, stale>>

\* Mutant of Existing: an acknowledged alert no longer counts.
Existing_Triggered == {i \in Ids : alerts[i].state = "triggered"}

\* trigger(): an active alert of the key is returned ...
Existing == {i \in Ids : alerts[i].state \in Active}

FindActive(t) ==
  /\ At(t, "look")
  /\ Go(t, IF Existing = {} THEN "insert" ELSE "mark")
  /\ UNCHANGED <<inputs, queue, cache, marked, ruleVars, alerts,
                 request, pass, notifyVars, engine, manager, late, stale>>

NewAlert == [state |-> "triggered", history |-> <<<<"none", "triggered">>>>]

\* ... or one is inserted with its history and its notification queued.
Insert(t) ==
  /\ At(t, "insert") /\ Len(alerts) < MaxAlerts
  /\ alerts' = Append(alerts, NewAlert)
  /\ jobs' = IF jobs < NotifyMax THEN jobs + 1 ELSE jobs
  /\ Go(t, "mark")
  /\ UNCHANGED <<inputs, queue, cache, marked, ruleVars, request,
                 pass, job, engine, manager, late, stale>>

\* A database error is logged, and the event leaves no mark.
InsertFails(t) ==
  /\ At(t, "insert") /\ Go(t, "idle")
  /\ UNCHANGED <<inputs, queue, cache, marked, ruleVars, alerts,
                 request, pass, notifyVars, engine, manager, late, stale>>

\* set_cooldown() and mark_seen().
Mark(t) ==
  /\ At(t, "mark") /\ Go(t, "idle")
  /\ marked' = TRUE
  /\ UNCHANGED <<inputs, queue, cache, ruleVars, alerts, request, pass,
                 notifyVars, engine, manager, late, stale>>

\* The later of the two marks expires.
MarkExpires ==
  /\ marked /\ marked' = FALSE
  /\ UNCHANGED <<inputs, queue, cache, eval, ruleVars, alerts, request,
                 pass, notifyVars, engine, manager, late, stale>>

\* A request disables the rule: its row is written, then the cache cleared.
Disable ==
  /\ Input /\ enabled /\ enabled' = FALSE /\ reload' = TRUE
  /\ UNCHANGED <<engineVars, alerts, request, pass, notifyVars, engine,
                 manager, late, stale>>

Reload ==
  /\ reload /\ reload' = FALSE
  /\ cache' = [rules |-> "none", fresh |-> FALSE]
  /\ UNCHANGED <<inputs, queue, eval, marked, enabled, alerts,
                 request, pass, notifyVars, engine, manager, late, stale>>

------------------------------------------------------------------------------
(* Changes of state.                                                       *)

AllowedFrom(op) ==
  CASE op = "acknowledged" -> {"triggered"}
    [] op = "resolved" -> Active
    [] op = "suppressed" -> {"triggered", "acknowledged"}

Operations == {"acknowledged", "resolved", "suppressed"}

\* _transition() reads the alert and checks its state ...
Ask(op, i) ==
  /\ Input /\ request = NoRequest
  /\ alerts[i].state \in AllowedFrom(op)
  /\ request' = [op |-> op, id |-> i, from |-> alerts[i].state]
  /\ UNCHANGED <<engineVars, ruleVars, alerts, pass, notifyVars, engine,
                 manager, late, stale>>

\* One commit writes the state and the entry about it.
Written(a, from, to) ==
  [a EXCEPT !.state = to, !.history = Append(@, <<from, to>>)]

\* ... and commits the new state.
Grant ==
  /\ request # NoRequest
  /\ alerts' = [alerts EXCEPT ![request.id] = Written(@, request.from, request.op)]
  /\ stale' = (stale \/ alerts[request.id].state # request.from)
  /\ request' = NoRequest
  /\ UNCHANGED <<inputs, engineVars, ruleVars, pass, notifyVars, engine,
                 manager, late>>

Refuse ==
  /\ request # NoRequest /\ request' = NoRequest
  /\ UNCHANGED <<inputs, engineVars, ruleVars, alerts, pass, notifyVars,
                 engine, manager, late, stale>>

\* Mutant of Expirable: the state is not part of the query.
Expirable_AnyState == Ids

\* The states whose alerts run_expiry() looks for.
Expirable == {i \in Ids : alerts[i].state \in {"triggered", "acknowledged"}}

\* run_expiry(), on the manager's worker of the leading replica, reads those
\* of them that are past their time ...
ReadExpired ==
  /\ manager = "up" /\ job[Worker] = 0 /\ pass = <<>>
  /\ \E due \in SUBSET Expirable \ {{}} :
       pass' = [i \in Ids |-> IF i \in due THEN alerts[i].state ELSE "none"]
  /\ UNCHANGED <<inputs, engineVars, ruleVars, alerts, request, notifyVars, engine,
                 manager, late, stale>>

Due == {i \in DOMAIN pass : pass[i] # "none"}

\* ... and commits them as expired.
WriteExpired ==
  /\ pass # <<>> /\ pass' = <<>>
  /\ alerts' = [i \in Ids |-> IF i \in Due THEN Written(alerts[i], pass[i], "expired")
                              ELSE alerts[i]]
  /\ stale' = (stale \/ \E i \in Due : alerts[i].state # pass[i])
  /\ UNCHANGED <<inputs, engineVars, ruleVars, request, notifyVars, engine, manager, late>>

\* A failed commit is logged; the next pass looks again.
ExpiryFails ==
  /\ pass # <<>> /\ pass' = <<>>
  /\ UNCHANGED <<inputs, engineVars, ruleVars, alerts, request, notifyVars, engine,
                 manager, late, stale>>

------------------------------------------------------------------------------
(* Notifications.                                                          *)

\* Mutant of MaySend: stop() does not drain the queue.
MaySend_NoDrain(t) == t = Worker /\ manager = "up" /\ pass = <<>>

MaySend(t) == IF t = Worker THEN manager = "up" /\ pass = <<>> ELSE manager = "draining"

TakeJob(t) ==
  /\ MaySend(t) /\ job[t] = 0 /\ jobs > 0
  /\ job' = [job EXCEPT ![t] = 1]
  /\ jobs' = jobs - 1
  /\ UNCHANGED <<inputs, engineVars, ruleVars, alerts, request, pass, engine,
                 manager, late, stale>>

\* A provider fails and is tried again after a delay.
Retry(t) ==
  /\ job[t] # 0 /\ job[t] <= MaxRetries
  /\ job' = [job EXCEPT ![t] = @ + 1]
  /\ UNCHANGED <<inputs, engineVars, ruleVars, alerts, request, pass, jobs, engine,
                 manager, late, stale>>

\* Sent, or given up: the alert counts as notified either way.
EndJob(t) ==
  /\ job[t] # 0
  /\ job' = [job EXCEPT ![t] = 0]
  /\ UNCHANGED <<inputs, engineVars, ruleVars, alerts, request, pass, jobs, engine,
                 manager, late, stale>>

------------------------------------------------------------------------------
(* Shutdown: the engine is stopped, then the manager.                      *)

StopEngine ==
  /\ Input /\ engine = "up" /\ engine' = "stopping"
  /\ UNCHANGED <<engineVars, ruleVars, alerts, request, pass, notifyVars,
                 manager, late, stale>>

\* join(timeout): the worker is back, or stop() goes on without it.
DrainEngine ==
  /\ engine = "stopping" /\ engine' = "draining"
  /\ late' = (late \/ ~At(Worker, "idle"))
  /\ UNCHANGED <<inputs, engineVars, ruleVars, alerts, request, pass, notifyVars,
                 manager, stale>>

EngineDown ==
  /\ engine = "draining" /\ queue = 0 /\ At(Drainer, "idle")
  /\ engine' = "down"
  /\ UNCHANGED <<inputs, engineVars, ruleVars, alerts, request, pass, notifyVars,
                 manager, late, stale>>

StopManager ==
  /\ engine = "down" /\ manager = "up" /\ manager' = "stopping"
  /\ UNCHANGED <<inputs, engineVars, ruleVars, alerts, request, pass, notifyVars,
                 engine, late, stale>>

DrainManager ==
  /\ manager = "stopping" /\ manager' = "draining"
  /\ late' = (late \/ job[Worker] # 0 \/ pass # <<>>)
  /\ UNCHANGED <<inputs, engineVars, ruleVars, alerts, request, pass, notifyVars,
                 engine, stale>>

ManagerDown ==
  /\ manager = "draining" /\ jobs = 0 /\ job[Drainer] = 0
  /\ manager' = "down"
  /\ UNCHANGED <<inputs, engineVars, ruleVars, alerts, request, pass, notifyVars,
                 engine, late, stale>>

------------------------------------------------------------------------------
Evaluate(t) ==
  \/ Take(t) \/ CachedRules(t) \/ LoadRules(t) \/ StoreRules(t) \/ Discard(t)
  \/ Match(t) \/ FindActive(t) \/ Insert(t) \/ InsertFails(t) \/ Mark(t)

Notify(t) == TakeJob(t) \/ EndJob(t)

Shutdown ==
  \/ DrainEngine \/ EngineDown \/ StopManager \/ DrainManager \/ ManagerDown

Next ==
  \/ HandleEvent \/ CacheAges \/ MarkExpires \/ Disable \/ Reload
  \/ \E t \in Threads : Evaluate(t) \/ Notify(t) \/ Retry(t)
  \/ \E i \in Ids : \E op \in Operations : Ask(op, i)
  \/ Grant \/ Refuse \/ ReadExpired \/ WriteExpired \/ ExpiryFails
  \/ StopEngine \/ Shutdown

\* The thread that stops the engine and then the manager also drains them.
Stopping == Evaluate(Drainer) \/ Notify(Drainer) \/ Shutdown

\* Threads run on and time passes; nobody has to send events or requests, to
\* change a rule or to shut down.  Every turn of the manager's loop takes a job
\* before it may look for expired alerts.
Spec ==
  /\ Init /\ [][Next]_vars
  /\ WF_vars(Evaluate(Worker)) /\ WF_vars(Stopping)
  /\ SF_vars(TakeJob(Worker)) /\ WF_vars(EndJob(Worker) \/ WriteExpired \/ ExpiryFails)
  /\ WF_vars(CacheAges) /\ WF_vars(Reload)

------------------------------------------------------------------------------
TypeOK ==
  /\ inputs \in 0..MaxInputs /\ queue \in 0..QueueMax
  /\ enabled \in BOOLEAN /\ reload \in BOOLEAN
  /\ cache \in [rules : {"none", "on", "off"}, fresh : BOOLEAN]
  /\ eval \in [Threads -> [pc : {"idle", "rules", "store", "judge", "look",
                                 "insert", "mark"},
                           rules : {"none", "on", "off"}]]
  /\ marked \in BOOLEAN
  /\ \A i \in Ids : alerts[i].state \in States
  /\ request.op \in Operations \cup {"none"}
  /\ \A i \in DOMAIN pass : pass[i] \in States \cup {"none"}
  /\ jobs \in 0..NotifyMax
  /\ \A t \in Threads : job[t] \in 0..(MaxRetries + 1)
  /\ {engine, manager} \subseteq {"up", "stopping", "draining", "down"}
  /\ late \in BOOLEAN /\ stale \in BOOLEAN

\* One active alert per rule and key: a second one needs a stop that did not
\* wait for the worker, so that two threads evaluate at once, or a write that
\* brought a finished alert back (trigger() against itself and _transition()).
OneActiveAlert == ~late /\ ~stale => Cardinality({i \in Ids : alerts[i].state \in Active}) <= 1

\* The history explains the state: its last entry names the state the row has,
\* and, unless a write was based on an outdated read, each entry starts from
\* the state the previous one led to and none starts from a final state
\* (_transition() against run_expiry()).
HistoryExplainsState ==
  \A i \in Ids :
    LET h == alerts[i].history
    IN /\ Last(h)[2] = alerts[i].state
       /\ ~stale => \A k \in 2..Len(h) : h[k][1] = h[k - 1][2] /\ h[k][1] \notin Final

\* A disabled rule goes quiet for good: an evaluation that loaded it before may
\* put it back into the cache after the reload, but only until that entry ages
\* (_get_rules() against reload_rules()).
DisabledRuleGoesQuiet ==
  <>[](enabled \/ ~(Hit /\ cache.rules = "on"))

\* Every queued notification is sent or given up, by the worker or by the
\* drain, unless the engine's worker was left behind at shutdown and queued it
\* when the manager was down (_worker_loop() and _drain()).
JobsAreEnded == jobs > 0 ~> (jobs = 0 \/ late)
=============================================================================
