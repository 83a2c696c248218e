------------------------------ MODULE Readiness ------------------------------
(***************************************************************************)
(* The readiness probe (backend/observability/readiness.py, and the checks  *)
(* that backend/main.py registers with it): what GET /ready answers for a   *)
(* backend whose parts are in a given condition.                           *)
(*                                                                         *)
(* A condition is a record: "url", a database URL is configured; "model",   *)
(* the model file is there; "loads", the selected provider loads; "pool",   *)
(* the scheduler: "none", "up" or "stopped"; "shut", the service was shut   *)
(* down; "database", "redis" and "kafka" answer; "analytics" and "alerts":  *)
(* "none", "running" or "stopped", which is what the flags _running say and *)
(* not the threads.                                                        *)
(***************************************************************************)

CONSTANTS
  Enabled, (* the optional features that are switched on                     *)
  Provider (* the inference provider selected: "torch", "auto" or another    *)

Features == {"scheduler", "redis", "kafka", "analytics", "alert_engine"}

ASSUME ReadinessAssumption == Enabled \subseteq Features

(* A check passes, passes with the mark "degraded", or fails. *)
Passes == [ok |-> TRUE, degraded |-> FALSE]
Degraded == [ok |-> TRUE, degraded |-> TRUE]
Fails == [ok |-> FALSE, degraded |-> FALSE]

Gate(holds) == IF holds THEN Passes ELSE Fails
Optional(feature, result) == IF feature \in Enabled THEN result ELSE Passes

CheckConfiguration(c) == Gate(c.url)
CheckModel(c) == Gate(c.model)

(* With a provider other than torch the probe builds it and loads it, each  *)
(* time; in automatic mode a failure does not count.                       *)
CheckProvider(c) == Gate(Provider \in {"torch", "auto"} \/ c.loads)

(* These four only report. *)
CheckBenchmark == Passes
CheckBatching == Passes
CheckModelManager == Passes
CheckRecording == Passes

CheckScheduler(c) == Optional("scheduler", Gate(c.pool # "stopped"))
CheckStreams(c) == Gate(~c.shut)
CheckDatabase(c) == Gate(c.database)
CheckRedis(c) == Optional("redis", Gate(c.redis))
CheckKafka(c) == Optional("kafka", Gate(c.kafka))

Consumer(state) ==
  CASE state = "none" -> Fails
    [] state = "stopped" -> Degraded
    [] state = "running" -> Passes
CheckAnalytics(c) == Optional("analytics", Consumer(c.analytics))
CheckAlerts(c) == Optional("alert_engine", Consumer(c.alerts))

(* The results in the order of registration. *)
Evaluate(c) ==
  <<CheckConfiguration(c), CheckModel(c), CheckProvider(c), CheckBenchmark,
    CheckScheduler(c), CheckBatching, CheckModelManager, CheckStreams(c), CheckDatabase(c),
    CheckRedis(c), CheckKafka(c), CheckRecording, CheckAnalytics(c), CheckAlerts(c)>>

(* The answer is 200 when no check fails, and 503 otherwise.  A check that  *)
(* is degraded does not withhold traffic.                                  *)
Ready(c) == \A i \in DOMAIN Evaluate(c) : Evaluate(c)[i].ok
=============================================================================
