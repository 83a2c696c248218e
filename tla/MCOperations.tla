----------------------------- MODULE MCOperations -----------------------------
(* Two small components of the operation of the backend, explored one beside *)
(* the other: a behaviour is either one of the background threads of a       *)
(* process or one of the deployment, and the variables of the other rest.    *)
EXTENDS Workers, Deploy

MCRegistered == <<"lease_heartbeat", "alert_engine", "alert_manager">>
MCFour == Append(MCRegistered, "analytics_aggregator")

M(r, d, a, x) == [rev |-> r, down |-> d, adds |-> a, drops |-> x]
Base == {M(1, {}, {"users"}, {}), M(2, {1}, {"events"}, {})}
MCImages == {"v1", "v2", "v3", "v4"}
MCImage == [a |-> "v2", b |-> "v3", c |-> "v4"]
MCFiles == [v1 |-> Base,
            v2 |-> Base \cup {M(3, {2}, {"alerts"}, {})},
            v3 |-> Base \cup {M(3, {2}, {"alerts"}, {}), M(4, {3}, {"zones"}, {})},
            v4 |-> Base \cup {M(3, {2}, {}, {"events"})}]

VARIABLE side
allVars == <<side, workersVars, deployVars>>

OfWorkers(A) == side = "workers" /\ A /\ UNCHANGED <<side, deployVars>>
OfDeployment(A) == side = "deployment" /\ A /\ UNCHANGED <<side, workersVars>>

MCInit == side \in {"workers", "deployment"} /\ WorkersInit /\ DeployInit
MCNext == OfWorkers(WorkersNext) \/ OfDeployment(DeployNext)

\* The fairness of Workers.
MCSpec ==
  /\ MCInit /\ [][MCNext]_allVars
  /\ WF_allVars(OfWorkers(Supervise)) /\ WF_allVars(OfWorkers(Lifespan))
  /\ \A w \in Supervised : WF_allVars(OfWorkers(Leave(w)))
=============================================================================
