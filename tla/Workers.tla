------------------------------- MODULE Workers -------------------------------
(***************************************************************************)
(* The background threads of one backend process, the supervisor that      *)
(* restarts them (backend/observability/supervisor.py) and the lifespan of  *)
(* the application that stops them (backend/main.py).                      *)
(*                                                                         *)
(* Four threads are supervised: the heartbeat of the leases, the workers of *)
(* the alert engine and of the alert manager, and the flush loop of the     *)
(* analytics.  A thread may die of an error nobody catches.  Every interval *)
(* the supervisor looks at each registered object: its flag _running and    *)
(* whether its thread is alive.  A dead one is counted as failed, and after *)
(* a delay started again, as often as its budget allows.  Shutdown stops    *)
(* the supervisor, waiting a bounded time for its thread, and then the      *)
(* workers one by one.                                                     *)
(*                                                                         *)
(* Time passes only while the supervisor sleeps before a restart, in        *)
(* seconds; everything else is taken to be quick beside it.                *)
(***************************************************************************)
EXTENDS Integers, Sequences, SequencesExt

CONSTANTS
  Registered,   (* the supervised workers, in the order of their registration *)
  Interval,     (* seconds between two rounds of checks                       *)
  RestartDelay, (* seconds before a restart                                   *)
  MaxRestarts,  (* restarts of one worker in the life of the process          *)
  MaxDeaths     (* bound: threads that die                                    *)

Heartbeat == "lease_heartbeat"
Workers == {Heartbeat, "alert_engine", "alert_manager", "analytics_aggregator"}

ASSUME WorkersAssumption ==
  /\ Registered \in Seq(Workers)
  /\ \A i, j \in DOMAIN Registered : Registered[i] = Registered[j] => i = j
  /\ Interval \in Nat /\ RestartDelay \in Nat
  /\ MaxRestarts \in Nat /\ MaxDeaths \in Nat

Supervised == ToSet(Registered)

VARIABLES
  thread,   \* each worker's thread: "none", "alive" or "dead"
  running,  \* each worker's loop is to go on
  restarts, \* restarts of each worker by the supervisor
  failed,   \* a death of the worker was noticed and not made good since
  health,   \* the gauge of the worker's health: 1 or 0
  refused,  \* history: the system refused a thread to a restart of the worker
  sup,      \* the supervisor's thread: "off", "wait", "check", "sleep", "ended"
  todo,     \* the registrations its round has still to check
  nap,      \* seconds its sleep before a restart has still to go
  stop,     \* the supervisor is told to stop
  patience, \* seconds shutdown still waits for the supervisor's thread
  life,     \* where the application's lifespan is
  deaths    \* threads that have died

threadVars == <<thread, running>>
recordVars == <<restarts, failed, health, refused>>
supVars == <<sup, todo, nap, stop>>
workersVars == <<threadVars, recordVars, supVars, patience, life, deaths>>

Lives ==
  <<"starting", "up", "supervisor", "streams", "alert_engine", "alert_manager",
    "analytics_aggregator", "lease_manager", "gone">>
Past(step) == \E i, j \in DOMAIN Lives : Lives[i] = step /\ Lives[j] = life /\ i < j
After(step) == Lives[(CHOOSE i \in DOMAIN Lives : Lives[i] = step) + 1]

WorkersTypeOK ==
  /\ thread \in [Supervised -> {"none", "alive", "dead"}]
  /\ running \in [Supervised -> BOOLEAN]
  /\ restarts \in [Supervised -> 0..MaxRestarts]
  /\ failed \in [Supervised -> BOOLEAN] /\ refused \in [Supervised -> BOOLEAN]
  /\ health \in [Supervised -> {0, 1}]
  /\ sup \in {"off", "wait", "check", "sleep", "ended"}
  /\ todo \in Seq(Supervised) /\ nap \in 0..RestartDelay
  /\ stop \in BOOLEAN /\ patience \in 0..(Interval + 2)
  /\ life \in ToSet(Lives) /\ deaths \in 0..MaxDeaths

(* The engine, the manager and the aggregator are started as the module is *)
(* imported, before the lifespan begins.  The heartbeat starts with the    *)
(* first lease.                                                            *)
WorkersInit ==
  /\ thread = [w \in Supervised |-> IF w = Heartbeat THEN "none" ELSE "alive"]
  /\ running = [w \in Supervised |-> TRUE]
  /\ restarts = [w \in Supervised |-> 0]
  /\ failed = [w \in Supervised |-> FALSE]
  /\ refused = [w \in Supervised |-> FALSE]
  /\ health = [w \in Supervised |-> 0]
  /\ sup = "off" /\ todo = <<>> /\ nap = 0 /\ stop = FALSE
  /\ patience = 0 /\ life = "starting" /\ deaths = 0

-----------------------------------------------------------------------------
(* The threads. *)

(* A stream's lease starts the heartbeat's thread, unless one is alive. *)
AcquireLease ==
  /\ life = "up" /\ Heartbeat \in Supervised /\ thread[Heartbeat] # "alive"
  /\ thread' = [thread EXCEPT ![Heartbeat] = "alive"]
  /\ running' = [running EXCEPT ![Heartbeat] = TRUE]
  /\ UNCHANGED <<recordVars, supVars, patience, life, deaths>>

(* An error that the loop does not catch ends the thread.  The flag of its *)
(* loop stays up.                                                          *)
Die(w) ==
  /\ thread[w] = "alive" /\ deaths < MaxDeaths
  /\ thread' = [thread EXCEPT ![w] = "dead"]
  /\ deaths' = deaths + 1
  /\ UNCHANGED <<running, recordVars, supVars, patience, life>>

(* The loop sees that it is to stop. *)
Leave(w) ==
  /\ thread[w] = "alive" /\ ~running[w]
  /\ thread' = [thread EXCEPT ![w] = "dead"]
  /\ UNCHANGED <<running, recordVars, supVars, patience, life, deaths>>

-----------------------------------------------------------------------------
(* The supervisor. *)

(* The supervisor reads an attribute _running, and takes an object without *)
(* one, the lease manager, to be running.                                  *)
SeenRunning(w) == w = Heartbeat \/ running[w]

Wake ==
  /\ sup = "wait"
  /\ \/ stop /\ sup' = "ended" /\ UNCHANGED todo
     \/ ~stop /\ sup' = "check" /\ todo' = Registered
  /\ UNCHANGED <<threadVars, recordVars, nap, stop, patience, life, deaths>>

GoOn == todo' = Tail(todo) /\ UNCHANGED nap /\ sup' = "check"

HasBudget(w) == restarts[w] < MaxRestarts

\* Mutant of Notice: only a death that will be made good is shown.
Notice_IfRestarted(w) == [health EXCEPT ![w] = IF HasBudget(w) THEN 0 ELSE @]

(* The gauge falls as the death is noticed. *)
Notice(w) == [health EXCEPT ![w] = 0]

(* One registration of the round.  A worker found dead is reported once;   *)
(* while it has restarts left the supervisor sleeps and then restarts it.   *)
CheckWorker ==
  /\ sup = "check" /\ todo # <<>>
  /\ LET w == Head(todo)
         dead == SeenRunning(w) /\ thread[w] # "alive"
     IN IF dead /\ ~failed[w]
        THEN /\ health' = Notice(w)
             /\ failed' = [failed EXCEPT ![w] = TRUE]
             /\ IF HasBudget(w)
                THEN sup' = "sleep" /\ nap' = RestartDelay /\ UNCHANGED todo
                ELSE GoOn
        ELSE /\ health' = [health EXCEPT ![w] = IF dead THEN @
                                              ELSE IF SeenRunning(w) THEN 1 ELSE 0]
             /\ GoOn
             /\ UNCHANGED failed
  /\ UNCHANGED <<threadVars, restarts, refused, stop, patience, life, deaths>>

EndRound ==
  /\ sup = "check" /\ todo = <<>>
  /\ sup' = IF stop THEN "ended" ELSE "wait"
  /\ UNCHANGED <<threadVars, recordVars, todo, nap, stop, patience, life, deaths>>

(* A second of the sleep before a restart, and of what waits for it. *)
Tick ==
  /\ sup = "sleep" /\ nap > 0
  /\ nap' = nap - 1
  /\ patience' = IF life = "supervisor" /\ patience > 0 THEN patience - 1 ELSE patience
  /\ UNCHANGED <<threadVars, recordVars, sup, todo, stop, life, deaths>>

\* Mutant of MadeGood: a restart leaves the mark.
MadeGood_Not(w) == failed

(* The mark of the failure, after a start that succeeded. *)
MadeGood(w) == [failed EXCEPT ![w] = FALSE]

(* start() of the worker after the sleep, whatever its flag is by then: the *)
(* flag is lowered first, so that start() does not return at once, and is   *)
(* up again before the thread is asked for.  Only a start that succeeds     *)
(* makes the failure good.                                                 *)
Restart(started) ==
  /\ sup = "sleep" /\ nap = 0
  /\ LET w == Head(todo) IN
       /\ running' = [running EXCEPT ![w] = TRUE]
       /\ GoOn
       /\ IF started
          THEN /\ thread' = [thread EXCEPT ![w] = "alive"]
               /\ restarts' = [restarts EXCEPT ![w] = @ + 1]
               /\ failed' = MadeGood(w)
               /\ health' = [health EXCEPT ![w] = 1]
               /\ UNCHANGED refused
          ELSE /\ refused' = [refused EXCEPT ![w] = TRUE]
               /\ UNCHANGED <<thread, restarts, failed, health>>
  /\ UNCHANGED <<stop, patience, life, deaths>>

-----------------------------------------------------------------------------
(* The application's lifespan. *)

(* Each registration sets the gauge, before anybody has looked. *)
Startup ==
  /\ life = "starting" /\ life' = "up"
  /\ health' = [w \in Supervised |-> 1]
  /\ sup' = "wait"
  /\ UNCHANGED <<threadVars, restarts, failed, refused, todo, nap, stop, patience, deaths>>

(* The sockets are told to close and the supervisor to stop. *)
BeginShutdown ==
  /\ life = "up" /\ life' = "supervisor"
  /\ stop' = TRUE
  /\ patience' = Interval + 2
  /\ UNCHANGED <<threadVars, recordVars, sup, todo, nap, deaths>>

\* Mutant of Joined: the supervisor is told and not waited for.
Joined_Told == stop

Joined == sup = "ended" \/ patience = 0

JoinSupervisor ==
  /\ life = "supervisor" /\ Joined
  /\ life' = After(life)
  /\ UNCHANGED <<threadVars, recordVars, supVars, patience, deaths>>

(* The flag, lowered by a worker's stop(). *)
Lower(w) == running' = [v \in Supervised |-> running[v] /\ v # w]

(* shutdown() of the service: the heartbeat is stopped first, then the      *)
(* streams; the leases are released last.                                  *)
StopStreams ==
  /\ life = "streams" /\ life' = After(life)
  /\ Lower(Heartbeat)
  /\ UNCHANGED <<thread, recordVars, supVars, patience, deaths>>

(* stop() of a worker that is up: the flag, a bounded join, and the work    *)
(* that is left, which Alerts and Analytics model.                          *)
StopWorker ==
  /\ life \in Workers /\ life' = After(life)
  /\ Lower(life)
  /\ UNCHANGED <<thread, recordVars, supVars, patience, deaths>>

(* The lease manager once more, and the clients of the other services. *)
StopRest ==
  /\ life = "lease_manager" /\ life' = After(life)
  /\ Lower(Heartbeat)
  /\ UNCHANGED <<thread, recordVars, supVars, patience, deaths>>

Supervise == Wake \/ CheckWorker \/ EndRound \/ Tick \/ \E s \in BOOLEAN : Restart(s)
Lifespan == Startup \/ JoinSupervisor \/ StopStreams \/ StopWorker \/ StopRest

WorkersNext ==
  \/ AcquireLease
  \/ \E w \in Supervised : Die(w) \/ Leave(w)
  \/ Supervise \/ Lifespan
  \/ BeginShutdown

(* The supervisor's thread and the lifespan run when they can, and a loop   *)
(* that is to stop does.  Shutdown and deaths need not happen.             *)
WorkersFairness ==
  /\ WF_workersVars(Supervise) /\ WF_workersVars(Lifespan)
  /\ \A w \in Supervised : WF_workersVars(Leave(w))

WorkersSpec == WorkersInit /\ [][WorkersNext]_workersVars /\ WorkersFairness
-----------------------------------------------------------------------------
(* A worker that shutdown has stopped is not set going again: no restart    *)
(* that the supervisor had begun is still to come when stop() lowers the    *)
(* flag.  The wait for the supervisor's thread (supervisor.py:98) has to    *)
(* outlast the restarts of a round, which does not look at the stop event   *)
(* between two workers, and whose restart does not look at the flag again.  *)
Stopped(w) == IF w = Heartbeat THEN Past("streams") ELSE Past(w)
StoppedStaysStopped == \A w \in Supervised : Stopped(w) => ~running[w]

(* A worker whose thread is gone comes back, while the application is up:   *)
(* unless its restarts are used up, or the system refused it a thread once, *)
(* after which the mark of its failure is never taken back.                *)
Down(w) == life = "up" /\ thread[w] # "alive"
DeadWorkersComeBack ==
  \A w \in Supervised :
    Down(w) ~> (~Down(w) \/ restarts[w] = MaxRestarts \/ refused[w])

(* A worker that is down and will not be restarted is shown as down: the    *)
(* gauge, set to 1 by registration and by a restart, does not stay there.   *)
(* The heartbeat is left out: a lease may start it after a restart that was *)
(* refused, and its next death is then neither counted nor shown, because   *)
(* the mark of the first is still up (supervisor.py:124).                  *)
Abandoned(w) ==
  Down(w) /\ failed[w] /\ ~(sup = "sleep" /\ Head(todo) = w)
AbandonedIsShown ==
  \A w \in Supervised \ {Heartbeat} : Abandoned(w) => health[w] = 0
=============================================================================
