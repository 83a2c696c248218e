------------------------------ MODULE MCConsumers ------------------------------
(* Two consumers of the event stream that share no state, explored one       *)
(* beside the other: a behaviour is either one of the analytics or one of    *)
(* the alerts, for a rule on a count and a class, and the variables of the   *)
(* other rest.                                                               *)
EXTENDS Analytics, Alerts

MCConditions ==
  {[type |-> "object_count_threshold", operator |-> "gte", threshold |-> 1],
   [type |-> "class_specific", value |-> "person"]}

VARIABLE side
allVars == <<side, anaVars, vars>>

OfAnalytics(A) == side = "analytics" /\ A /\ UNCHANGED <<side, vars>>
OfAlerts(A) == side = "alerts" /\ A /\ UNCHANGED <<side, anaVars>>

MCInit == side \in {"analytics", "alerts"} /\ AnaInit /\ Init
MCNext == OfAnalytics(AnaNext) \/ OfAlerts(Next)

\* The fairness of Alerts.
MCSpec ==
  /\ MCInit /\ [][MCNext]_allVars
  /\ WF_allVars(OfAlerts(Evaluate(Worker))) /\ WF_allVars(OfAlerts(Stopping))
  /\ SF_allVars(OfAlerts(TakeJob(Worker)))
  /\ WF_allVars(OfAlerts(EndJob(Worker) \/ WriteExpired \/ ExpiryFails))
  /\ WF_allVars(OfAlerts(CacheAges)) /\ WF_allVars(OfAlerts(Reload))
=============================================================================
