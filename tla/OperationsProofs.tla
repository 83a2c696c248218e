--------------------------- MODULE OperationsProofs ---------------------------
(* Proofs about the background threads of a process, for any supervised      *)
(* workers and times, and about the releases, for any images, migrations and *)
(* jobs.                                                                     *)
EXTENDS Workers, Deploy, TLAPS

-----------------------------------------------------------------------------
(* The order of the lifespan *)

LEMMA LivesDiffer ==
  /\ DOMAIN Lives = 1..9
  /\ \A i, j \in 1..9 : Lives[i] = Lives[j] => i = j
BY DEF Lives

(* Each step of the lifespan leads to the next place. *)
LEMMA AfterIsNext ==
  ASSUME NEW n \in 1..8
  PROVE  After(Lives[n]) = Lives[n + 1]
<1>1. (CHOOSE i \in DOMAIN Lives : Lives[i] = Lives[n]) = n
  BY LivesDiffer
<1>2. QED
  BY <1>1 DEF After

(* The lifespan is at one of its places, and a step of its end leads to the  *)
(* next one.                                                                 *)
PlaceOk == \E n \in 1..9 : life = Lives[n]

Ends == JoinSupervisor \/ StopStreams \/ StopWorker \/ StopRest

LEMMA EndsStep ==
  ASSUME PlaceOk, Ends
  PROVE  \E n \in 3..8 : life = Lives[n] /\ life' = Lives[n + 1]
<1>1. PICK n \in 1..9 : life = Lives[n]
  BY DEF PlaceOk
<1>2. life' = After(life)
  BY DEF Ends, JoinSupervisor, StopStreams, StopWorker, StopRest
<1>3. life \in {"supervisor", "streams", "lease_manager"} \cup Workers
  BY DEF Ends, JoinSupervisor, StopStreams, StopWorker, StopRest
<1>4. n \in 3..8
  BY <1>1, <1>3 DEF Lives, Workers, Heartbeat
<1>5. QED
  BY <1>1, <1>2, <1>4, AfterIsNext

(* What is past one place further is past already, or is this place. *)
LEMMA PastGrows ==
  ASSUME NEW n \in 1..8, life = Lives[n], life' = Lives[n + 1], NEW step, Past(step)'
  PROVE  Past(step) \/ step = life
<1>1. PICK i, j \in 1..9 : Lives[i] = step /\ Lives[j] = life' /\ i < j
  BY LivesDiffer DEF Past
<1>2. j = n + 1
  BY <1>1, LivesDiffer
<1>3. CASE i = n
  BY <1>1, <1>3
<1>4. CASE i < n
  BY <1>1, <1>4, LivesDiffer DEF Past
<1>5. QED
  BY <1>1, <1>2, <1>3, <1>4

-----------------------------------------------------------------------------
(* Workers: deaths that are not made good are shown *)

(* A noticed death leaves the gauge at 0 and the thread dead, until a restart *)
(* succeeds; nothing is noticed before startup has registered the workers.   *)
ShownOk ==
  /\ life = "starting" => sup = "off" /\ \A w \in Supervised : ~failed[w]
  /\ \A w \in Supervised \ {Heartbeat} :
       failed[w] => health[w] = 0 /\ thread[w] # "alive"

(* The maps from workers, as far as the proofs need their types. *)
MapsOk ==
  /\ PlaceOk /\ DOMAIN thread = Supervised /\ DOMAIN running = Supervised
  /\ health \in [Supervised -> {0, 1}] /\ failed \in [Supervised -> BOOLEAN]

LEMMA ShownKept ==
  ASSUME MapsOk, ShownOk, [WorkersNext]_workersVars
  PROVE  MapsOk' /\ ShownOk'
<1> USE DEF MapsOk, PlaceOk, ShownOk
<1>1. CASE AcquireLease
  BY <1>1 DEF AcquireLease, recordVars, supVars
<1>2. ASSUME NEW w \in Supervised, Die(w) \/ Leave(w) PROVE MapsOk' /\ ShownOk'
  BY <1>2 DEF Die, Leave, recordVars, supVars
<1>3. CASE Wake \/ EndRound \/ Tick
  BY <1>3 DEF Wake, EndRound, Tick, threadVars, recordVars
<1>4. CASE CheckWorker
  <2> DEFINE w == Head(todo)
             dead == SeenRunning(w) /\ thread[w] # "alive"
  <2>1. CASE dead /\ ~failed[w]
    BY <1>4, <2>1 DEF CheckWorker, Notice, GoOn, threadVars
  <2>2. CASE ~(dead /\ ~failed[w])
    BY <1>4, <2>2 DEF CheckWorker, GoOn, threadVars
  <2>3. QED
    BY <2>1, <2>2
<1>5. ASSUME NEW s \in BOOLEAN, Restart(s) PROVE MapsOk' /\ ShownOk'
  BY <1>5 DEF Restart, MadeGood, GoOn
<1>6. CASE Startup \/ BeginShutdown
  <2>1. PlaceOk' /\ life' # "starting"
    BY <1>6 DEF Startup, BeginShutdown, Lives
  <2>2. QED
    BY <1>6, <2>1 DEF Startup, BeginShutdown, threadVars, recordVars
<1>7. CASE JoinSupervisor \/ StopStreams \/ StopWorker \/ StopRest
  <2>1. PlaceOk' /\ life' # "starting"
    BY <1>7, EndsStep DEF Ends, Lives
  <2>2. DOMAIN running' = Supervised
    BY <1>7 DEF JoinSupervisor, StopStreams, StopWorker, StopRest, Lower, threadVars
  <2>3. UNCHANGED <<thread, recordVars>>
    BY <1>7 DEF JoinSupervisor, StopStreams, StopWorker, StopRest, threadVars
  <2>4. QED
    BY <2>1, <2>2, <2>3 DEF recordVars
<1>8. CASE UNCHANGED workersVars
  BY <1>8 DEF workersVars, threadVars, recordVars, supVars
<1>9. QED
  BY <1>1, <1>2, <1>3, <1>4, <1>5, <1>6, <1>7, <1>8 DEF WorkersNext, Supervise, Lifespan

LEMMA ShownHolds == WorkersSpec => [](MapsOk /\ ShownOk)
<1>1. WorkersInit => MapsOk /\ ShownOk
  <2> SUFFICES ASSUME WorkersInit PROVE MapsOk /\ ShownOk
    OBVIOUS
  <2>1. PlaceOk
    BY DEF WorkersInit, PlaceOk, Lives
  <2>2. QED
    BY <2>1 DEF WorkersInit, MapsOk, ShownOk
<1>2. QED
  BY <1>1, ShownKept, PTL DEF WorkersSpec

(* A worker that is down and stays so is shown as down, whichever workers    *)
(* are supervised and however many threads die (the gauge of                 *)
(* supervisor.py).                                                           *)
THEOREM AbandonedAreShown == WorkersSpec => []AbandonedIsShown
<1>1. MapsOk /\ ShownOk => AbandonedIsShown
  BY DEF ShownOk, AbandonedIsShown, Abandoned
<1>2. QED
  BY <1>1, ShownHolds, PTL

-----------------------------------------------------------------------------
(* Workers: shutdown outlasts the supervisor's restarts *)

(* A round that restarts every worker ends within the wait of stop(). *)
Fits == Len(Registered) * RestartDelay < Interval + 2

(* The seconds that the supervisor may still sleep in its round. *)
Left ==
  IF sup = "check" THEN Len(todo) * RestartDelay
  ELSE IF sup = "sleep" THEN nap + (Len(todo) - 1) * RestartDelay
  ELSE 0

RoundOk ==
  /\ todo \in Seq(Supervised) /\ Len(todo) <= Len(Registered)
  /\ nap \in 0..RestartDelay /\ patience \in Nat
  /\ sup \in {"off", "wait", "check", "sleep", "ended"}
  /\ sup = "off" => life = "starting"
  /\ sup = "sleep" => todo # << >>

(* Shutdown waits longer than that, and goes on when the supervisor ended.   *)
WaitOk ==
  /\ life \notin {"starting", "up"} => stop
  /\ life = "supervisor" /\ sup # "ended" => patience > Left
  /\ life \notin {"starting", "up", "supervisor"} => sup = "ended"

StopInv == MapsOk /\ RoundOk /\ WaitOk /\ StoppedStaysStopped

LEMMA Times ==
  ASSUME NEW n \in Nat, NEW m \in Nat, NEW d \in Nat
  PROVE  /\ n * d \in Nat
         /\ (n - 1) * d = n * d - d
         /\ n <= m => n * d <= m * d
<1>1. n * d \in Nat /\ (n - 1) * d = n * d - d
  OBVIOUS
<1>2. ASSUME n <= m PROVE n * d <= m * d
  <2>1. (m - n) * d \in Nat
    BY <1>2
  <2>2. m * d = n * d + (m - n) * d
    OBVIOUS
  <2>3. QED
    BY <1>1, <2>1, <2>2
<1>3. QED
  BY <1>1, <1>2

(* The registrations are what a round goes through. *)
LEMMA RegisteredTyped ==
  Registered \in Seq(Supervised) /\ Len(Registered) \in Nat
BY WorkersAssumption DEF Supervised, ToSet

(* What is left of a round is never more than a round. *)
LEMMA LeftBounded ==
  RoundOk => Left \in Nat /\ Left <= Len(Registered) * RestartDelay
<1> SUFFICES ASSUME RoundOk
             PROVE  Left \in Nat /\ Left <= Len(Registered) * RestartDelay
  OBVIOUS
<1> DEFINE n == Len(todo)
           m == Len(Registered)
           d == RestartDelay
<1>1. n \in Nat /\ m \in Nat /\ d \in Nat /\ n <= m /\ nap \in 0..d
  BY RegisteredTyped, WorkersAssumption DEF RoundOk
<1>2. sup = "sleep" => n > 0
  BY DEF RoundOk
<1>3. /\ n * d \in Nat /\ (n - 1) * d = n * d - d /\ n * d <= m * d /\ m * d \in Nat
      /\ n > 0 => (n - 1) * d \in Nat
  BY <1>1, Times
<1>4. QED
  BY <1>1, <1>2, <1>3 DEF Left

(* Every step keeps the round's bounds. *)
LEMMA RoundKept ==
  ASSUME MapsOk, RoundOk, [WorkersNext]_workersVars
  PROVE  RoundOk'
<1> USE WorkersAssumption, RegisteredTyped DEF RoundOk
<1>1. CASE AcquireLease
  BY <1>1 DEF AcquireLease, supVars
<1>2. ASSUME NEW w \in Supervised, Die(w) \/ Leave(w) PROVE RoundOk'
  BY <1>2 DEF Die, Leave, supVars
<1>3. CASE Wake
  BY <1>3 DEF Wake
<1>4. CASE CheckWorker
  <2>1. todo # << >> /\ Tail(todo) \in Seq(Supervised) /\ Len(Tail(todo)) <= Len(Registered)
    BY <1>4 DEF CheckWorker
  <2>2. /\ \/ sup' = "sleep" /\ nap' = RestartDelay /\ todo' = todo
           \/ sup' = "check" /\ nap' = nap /\ todo' = Tail(todo)
        /\ UNCHANGED <<patience, life>>
    BY <1>4 DEF CheckWorker, GoOn
  <2>3. CASE sup' = "sleep" /\ nap' = RestartDelay /\ todo' = todo
    BY <2>1, <2>2, <2>3
  <2>4. CASE sup' = "check" /\ nap' = nap /\ todo' = Tail(todo)
    BY <2>1, <2>2, <2>4
  <2>5. QED
    BY <2>2, <2>3, <2>4
<1>5. CASE EndRound \/ Tick
  BY <1>5 DEF EndRound, Tick
<1>6. ASSUME NEW s \in BOOLEAN, Restart(s) PROVE RoundOk'
  <2>1. todo # << >> /\ Tail(todo) \in Seq(Supervised) /\ Len(Tail(todo)) <= Len(Registered)
    BY <1>6 DEF Restart
  <2>2. /\ sup' = "check" /\ nap' = nap /\ todo' = Tail(todo)
        /\ UNCHANGED <<patience, life>>
    BY <1>6 DEF Restart, GoOn
  <2>3. QED
    BY <2>1, <2>2
<1>7. CASE Startup \/ BeginShutdown
  BY <1>7 DEF Startup, BeginShutdown
<1>8. CASE Ends
  <2>1. life # "starting"
    BY <1>8, EndsStep DEF MapsOk, Lives
  <2>2. UNCHANGED <<supVars, patience>>
    BY <1>8 DEF Ends, JoinSupervisor, StopStreams, StopWorker, StopRest
  <2>3. QED
    BY <2>1, <2>2 DEF supVars
<1>9. CASE UNCHANGED workersVars
  BY <1>9 DEF workersVars, supVars
<1>10. QED
  BY <1>1, <1>2, <1>3, <1>4, <1>5, <1>6, <1>7, <1>8, <1>9
  DEF WorkersNext, Supervise, Lifespan, Ends

(* Shutdown outwaits the round that is under way when it begins. *)
LEMMA WaitKept ==
  ASSUME Fits, MapsOk, RoundOk, WaitOk, [WorkersNext]_workersVars
  PROVE  WaitOk'
<1>0. /\ RoundOk' /\ Left \in Nat /\ Left' \in Nat
      /\ Left <= Len(Registered) * RestartDelay
      /\ Left' <= Len(Registered) * RestartDelay
  <2>1. RoundOk'
    BY RoundKept
  <2>2. (Left \in Nat /\ Left <= Len(Registered) * RestartDelay)'
    BY <2>1, LeftBounded, PTL
  <2>3. QED
    BY <2>1, <2>2, LeftBounded
<1>1. CASE AcquireLease
  BY <1>1 DEF AcquireLease, supVars, WaitOk, Left
<1>2. ASSUME NEW w \in Supervised, Die(w) \/ Leave(w) PROVE WaitOk'
  BY <1>2 DEF Die, Leave, supVars, WaitOk, Left
<1>3. CASE Wake
  BY <1>3 DEF Wake, WaitOk
<1>4. CASE CheckWorker
  <2>1. /\ \/ sup' = "sleep" /\ nap' = RestartDelay /\ todo' = todo
           \/ sup' = "check" /\ todo' = Tail(todo)
        /\ UNCHANGED <<stop, patience, life>> /\ sup = "check" /\ todo # << >>
    BY <1>4 DEF CheckWorker, GoOn
  <2>2. /\ Len(todo) \in Nat /\ Len(todo) > 0 /\ Len(Tail(todo)) = Len(todo) - 1
        /\ RestartDelay \in Nat
    BY <2>1, WorkersAssumption DEF RoundOk
  <2>3. (Len(todo) - 1) * RestartDelay = Len(todo) * RestartDelay - RestartDelay
        /\ Len(todo) * RestartDelay \in Nat
    BY <2>2, Times
  <2>4. Left' <= Left
    BY <2>1, <2>2, <2>3 DEF Left
  <2>5. patience \in Nat
    BY DEF RoundOk
  <2>6. QED
    BY <1>0, <2>1, <2>4, <2>5 DEF WaitOk
<1>5. CASE EndRound
  BY <1>0, <1>5 DEF EndRound, WaitOk, RoundOk, Left
<1>6. CASE Tick
  <2>1. sup = "sleep" /\ sup' = sup /\ nap' = nap - 1 /\ nap > 0
        /\ UNCHANGED <<todo, stop, life>>
    BY <1>6 DEF Tick
  <2>2. Left' = Left - 1
    <3>1. nap \in Nat /\ (Len(todo) - 1) * RestartDelay \in Int
      BY RegisteredTyped, WorkersAssumption DEF RoundOk
    <3>2. QED
      BY <2>1, <3>1 DEF Left
  <2>3. CASE life = "supervisor"
    <3>1. patience \in Nat /\ patience > Left
      BY <2>1, <2>3 DEF WaitOk, RoundOk
    <3>2. patience' = patience - 1
      BY <1>0, <1>6, <2>3, <3>1 DEF Tick
    <3>3. QED
      BY <1>0, <2>1, <2>2, <2>3, <3>1, <3>2 DEF WaitOk
  <2>4. CASE life # "supervisor"
    BY <2>1, <2>4 DEF WaitOk
  <2>5. QED
    BY <2>3, <2>4
<1>7. ASSUME NEW s \in BOOLEAN, Restart(s) PROVE WaitOk'
  <2>1. /\ sup = "sleep" /\ nap = 0 /\ sup' = "check" /\ todo' = Tail(todo)
        /\ UNCHANGED <<stop, patience, life>>
    BY <1>7 DEF Restart, GoOn
  <2>2. Len(Tail(todo)) = Len(todo) - 1
    BY <2>1 DEF RoundOk
  <2>3. Left' = Left
    <3>1. Left' = Len(Tail(todo)) * RestartDelay
      BY <2>1 DEF Left
    <3>2. Left = 0 + (Len(todo) - 1) * RestartDelay
      BY <2>1 DEF Left
    <3>3. Len(Tail(todo)) * RestartDelay = (Len(todo) - 1) * RestartDelay
      BY <2>2, Zenon
    <3>4. (Len(todo) - 1) * RestartDelay \in Int
      BY WorkersAssumption DEF RoundOk
    <3>5. QED
      BY <3>1, <3>2, <3>3, <3>4
  <2>4. QED
    BY <2>1, <2>3 DEF WaitOk
<1>8. CASE Startup
  BY <1>8 DEF Startup, WaitOk
<1>9. CASE BeginShutdown
  <2>1. /\ life' = "supervisor" /\ stop' /\ patience' = Interval + 2
        /\ UNCHANGED <<sup, todo, nap>>
    BY <1>9 DEF BeginShutdown
  <2>2. Left' = Left /\ patience' > Left'
    BY <1>0, <2>1, WorkersAssumption, RegisteredTyped, Times DEF Left, Fits
  <2>3. QED
    BY <2>1, <2>2 DEF WaitOk
<1>10. CASE Ends
  <2>1. PICK n \in 3..8 : life = Lives[n] /\ life' = Lives[n + 1]
    BY <1>10, EndsStep DEF MapsOk
  <2>2. life \notin {"starting", "up"} /\ life' \notin {"starting", "up", "supervisor"}
    BY <2>1 DEF Lives
  <2>3. sup = "ended"
    <3>1. CASE life = "supervisor"
      <4>1. Joined
        BY <1>10, <3>1 DEF Ends, JoinSupervisor, StopStreams, StopWorker, StopRest, Workers,
                           Heartbeat
      <4>2. QED
        BY <1>0, <3>1, <4>1 DEF Joined, WaitOk
    <3>2. CASE life # "supervisor"
      BY <2>2, <3>2 DEF WaitOk
    <3>3. QED
      BY <3>1, <3>2
  <2>4. UNCHANGED supVars
    BY <1>10 DEF Ends, JoinSupervisor, StopStreams, StopWorker, StopRest
  <2>5. QED
    BY <2>2, <2>3, <2>4 DEF WaitOk, supVars
<1>11. CASE UNCHANGED workersVars
  BY <1>11 DEF workersVars, supVars, WaitOk, Left
<1>12. QED
  BY <1>1, <1>2, <1>3, <1>4, <1>5, <1>6, <1>7, <1>8, <1>9, <1>10, <1>11
  DEF WorkersNext, Supervise, Lifespan, Ends

(* Where the lifespan has passed a worker, it is past the supervisor too. *)
Late == life \notin {"starting", "up", "supervisor"}

LEMMA StoppedIsLate ==
  PlaceOk => \A w \in Supervised : Stopped(w) => Late
<1> SUFFICES ASSUME PlaceOk, NEW w \in Supervised, Stopped(w) PROVE Late
  OBVIOUS
<1>1. w \in Workers
  BY RegisteredTyped, WorkersAssumption DEF Supervised, ToSet
<1>2. PICK i, j \in 1..9 : Lives[j] = life /\ i < j
                           /\ Lives[i] \in {"streams", "alert_engine", "alert_manager",
                                           "analytics_aggregator"}
  BY <1>1, LivesDiffer DEF Stopped, Past, Workers, Heartbeat
<1>3. i > 3
  BY <1>2 DEF Lives
<1>4. QED
  BY <1>2, <1>3 DEF Lives, Late

(* What has been stopped stays stopped in every step. *)
LEMMA StoppedKept ==
  ASSUME MapsOk, RoundOk, WaitOk, MapsOk', StoppedStaysStopped, [WorkersNext]_workersVars
  PROVE  StoppedStaysStopped'
<1>1. ASSUME UNCHANGED <<life, running>> PROVE StoppedStaysStopped'
  BY <1>1 DEF StoppedStaysStopped, Stopped, Past
<1>2. ASSUME life \in {"starting", "up", "supervisor"}, life' \in {"starting", "up", "supervisor"}
      PROVE  StoppedStaysStopped'
  <2>1. PlaceOk'
    BY DEF MapsOk
  <2>2. (\A w \in Supervised : Stopped(w) => Late)'
    BY <2>1, StoppedIsLate, PTL
  <2>3. QED
    BY <1>2, <2>2 DEF StoppedStaysStopped, Late
<1>3. CASE AcquireLease
  BY <1>2, <1>3 DEF AcquireLease
<1>4. ASSUME NEW w \in Supervised, Die(w) \/ Leave(w) PROVE StoppedStaysStopped'
  BY <1>1, <1>4 DEF Die, Leave
<1>5. CASE Wake \/ CheckWorker \/ EndRound \/ Tick
  BY <1>1, <1>5 DEF Wake, CheckWorker, EndRound, Tick, threadVars
<1>6. ASSUME NEW s \in BOOLEAN, Restart(s) PROVE StoppedStaysStopped'
  <2>1. sup = "sleep" /\ life' = life
    BY <1>6 DEF Restart
  <2>2. life \in {"starting", "up", "supervisor"}
    BY <2>1 DEF WaitOk
  <2>3. QED
    BY <1>2, <2>1, <2>2
<1>7. CASE Startup \/ BeginShutdown
  BY <1>2, <1>7 DEF Startup, BeginShutdown
<1>8. CASE Ends
  <2>1. PICK n \in 3..8 : life = Lives[n] /\ life' = Lives[n + 1]
    BY <1>8, EndsStep DEF MapsOk
  <2>2. \A w \in Supervised : ~running[w] => ~running'[w]
    BY <1>8 DEF Ends, JoinSupervisor, StopStreams, StopWorker, StopRest, Lower, threadVars
  <2>3. ASSUME NEW w \in Supervised, Stopped(w)' PROVE ~running'[w]
    <3>1. w \in Workers
      BY RegisteredTyped, WorkersAssumption DEF Supervised, ToSet
    <3>2. CASE Stopped(w)
      BY <2>2, <3>2 DEF StoppedStaysStopped
    <3>3. CASE ~Stopped(w) /\ w = Heartbeat
      <4>1. life = "streams"
        BY <2>1, <2>3, <3>3, PastGrows DEF Stopped
      <4>2. QED
        BY <1>8, <3>3, <4>1 DEF Ends, JoinSupervisor, StopStreams, StopWorker, StopRest, Lower,
                               Workers, Heartbeat
    <3>4. CASE ~Stopped(w) /\ w # Heartbeat
      <4>1. life = w
        BY <2>1, <2>3, <3>4, PastGrows DEF Stopped
      <4>2. StopWorker
        BY <1>8, <3>1, <3>4, <4>1 DEF Ends, JoinSupervisor, StopStreams, StopRest, Workers,
                                      Heartbeat
      <4>3. QED
        BY <4>1, <4>2 DEF StopWorker, Lower
    <3>5. QED
      BY <3>2, <3>3, <3>4
  <2>4. QED
    BY <2>3 DEF StoppedStaysStopped
<1>9. CASE UNCHANGED workersVars
  BY <1>1, <1>9 DEF workersVars, threadVars
<1>10. QED
  BY <1>3, <1>4, <1>5, <1>6, <1>7, <1>8, <1>9 DEF WorkersNext, Supervise, Lifespan, Ends

(* A worker that shutdown has stopped is not set going again, when shutdown  *)
(* waits longer for the supervisor's thread (supervisor.py:98) than a round  *)
(* of restarts takes.                                                       *)
THEOREM StoppedStay ==
  ASSUME Fits
  PROVE  WorkersSpec => []StoppedStaysStopped
<1>1. WorkersInit => StopInv
  <2> SUFFICES ASSUME WorkersInit PROVE StopInv
    OBVIOUS
  <2>1. PlaceOk
    BY DEF WorkersInit, PlaceOk, Lives
  <2>2. MapsOk /\ WaitOk
    BY <2>1 DEF WorkersInit, MapsOk, WaitOk
  <2>3. RoundOk
    BY RegisteredTyped, WorkersAssumption DEF WorkersInit, RoundOk
  <2>4. StoppedStaysStopped
    BY <2>1, StoppedIsLate DEF WorkersInit, StoppedStaysStopped, Late
  <2>5. QED
    BY <2>2, <2>3, <2>4 DEF StopInv
<1>2. StopInv /\ ShownOk /\ [WorkersNext]_workersVars => StopInv'
  BY ShownKept, RoundKept, WaitKept, StoppedKept DEF StopInv
<1>3. StopInv => StoppedStaysStopped
  BY DEF StopInv
<1>4. QED
  BY <1>1, <1>2, <1>3, ShownHolds, PTL DEF WorkersSpec

-----------------------------------------------------------------------------
(* Releases: the revisions of the cluster *)

RevsOk == revs \in Seq(Images) /\ revs # << >>

(* Moving a revision to the end keeps the others in their order. *)
LEMMA MakeCurrentMoves ==
  ASSUME RevsOk, NEW i \in Images, MakeCurrent(i)
  PROVE  /\ RevsOk' /\ Last(revs') = i
         /\ ToSet(revs') \subseteq ToSet(revs) \cup {i}
         /\ i # Last(revs) => Len(revs') > 1 /\ revs'[Len(revs') - 1] = Last(revs)
<1> DEFINE k == CHOOSE n \in DOMAIN revs : revs[n] = i
           rest == Others(i)
<1>1. /\ rest \in Seq(Images) /\ ToSet(rest) \subseteq ToSet(revs)
      /\ i # Last(revs) => Len(rest) > 0 /\ rest[Len(rest)] = Last(revs)
  <2>1. CASE i \notin ToSet(revs)
    BY <2>1 DEF Others, RevsOk, Last
  <2>2. CASE i \in ToSet(revs)
    <3>1. k \in 1..Len(revs) /\ revs[k] = i
      BY <2>2 DEF ToSet, RevsOk
    <3>2. rest = SubSeq(revs, 1, k - 1) \o SubSeq(revs, k + 1, Len(revs))
      BY <2>2 DEF Others, RemoveAt
    <3>3. /\ rest \in Seq(Images) /\ Len(rest) = Len(revs) - 1
          /\ \A n \in 1..Len(rest) : rest[n] = IF n < k THEN revs[n] ELSE revs[n + 1]
      <4> DEFINE front == SubSeq(revs, 1, k - 1)
                 back == SubSeq(revs, k + 1, Len(revs))
      <4>1. /\ revs \in Seq(Images) /\ Len(revs) \in Nat /\ k \in Int
            /\ \A n \in 1..Len(revs) : revs[n] \in Images
        BY <3>1 DEF RevsOk
      <4> HIDE DEF k
      <4>2. /\ front \in Seq(Images) /\ Len(front) = k - 1
            /\ \A n \in 1..(k - 1) : front[n] = revs[n]
        BY <3>1, <4>1
      <4>3. /\ back \in Seq(Images) /\ Len(back) = Len(revs) - k
            /\ \A n \in 1..(Len(revs) - k) : back[n] = revs[n + k]
        BY <3>1, <4>1
      <4>4. rest = front \o back
        BY <3>2 DEF k
      <4> HIDE DEF front, back, rest
      <4>5. /\ rest \in Seq(Images) /\ Len(rest) = Len(front) + Len(back)
            /\ \A n \in 1..Len(rest) :
                 rest[n] = IF n <= Len(front) THEN front[n] ELSE back[n - Len(front)]
        <5>1. front \in Seq(Images) /\ back \in Seq(Images)
          BY <4>2, <4>3
        <5>2. QED
          BY <4>4, <5>1
      <4>6. Len(rest) = Len(revs) - 1
        BY <4>1, <4>2, <4>3, <4>5
      <4>7. ASSUME NEW n \in 1..Len(rest)
            PROVE  rest[n] = IF n < k THEN revs[n] ELSE revs[n + 1]
        <5>1. CASE n < k
          BY <4>1, <4>2, <4>5, <4>7, <5>1
        <5>2. CASE ~(n < k)
          <6>1. n - (k - 1) \in 1..(Len(revs) - k)
            BY <3>1, <4>1, <4>6, <4>7, <5>2
          <6>2. rest[n] = back[n - (k - 1)]
            BY <4>1, <4>2, <4>5, <4>7, <5>2
          <6>3. n - (k - 1) + k = n + 1
            BY <4>1, <4>7
          <6>4. QED
            BY <4>3, <5>2, <6>1, <6>2, <6>3
        <5>3. QED
          BY <5>1, <5>2
      <4>8. QED
        BY <4>5, <4>6, <4>7
    <3> HIDE DEF k, rest
    <3>4. ToSet(rest) \subseteq ToSet(revs)
      BY <3>1, <3>3 DEF ToSet, RevsOk
    <3>5. ASSUME i # Last(revs) PROVE Len(rest) > 0 /\ rest[Len(rest)] = Last(revs)
      <4>1. k # Len(revs)
        BY <3>1, <3>5 DEF Last
      <4>2. k < Len(revs) /\ Len(revs) \in Nat /\ Len(rest) \in 1..Len(rest) /\ ~(Len(rest) < k)
        BY <3>1, <3>3, <4>1 DEF RevsOk
      <4>3. rest[Len(rest)] = revs[Len(rest) + 1]
        BY <3>3, <4>2
      <4>4. QED
        BY <3>3, <4>2, <4>3 DEF Last
    <3>6. QED
      BY <3>3, <3>4, <3>5
  <2>3. QED
    BY <2>1, <2>2
<1>2. revs' = Append(rest, i)
  BY DEF MakeCurrent
<1> HIDE DEF rest
<1>3. /\ revs' \in Seq(Images) /\ Len(revs') = Len(rest) + 1 /\ revs'[Len(revs')] = i
      /\ \A n \in 1..Len(rest) : revs'[n] = rest[n]
  BY <1>1, <1>2
<1>4. ToSet(revs') \subseteq ToSet(rest) \cup {i}
  BY <1>1, <1>3 DEF ToSet
<1>5. QED
  BY <1>1, <1>3, <1>4 DEF RevsOk, Last

(* What the steps of a job change, beside their place. *)
Quiet == UNCHANGED <<revs, pods, applied, tables>>
PcOk == DOMAIN pc = Jobs

(* Every image that runs, or that the cluster may go back to, finds its      *)
(* tables.                                                                   *)
Kept == pods \cup ToSet(revs)
Passed(i) == Valid(Files[i])

(* Two releases that pass the validation agree on what a migration adds. *)
Agreed ==
  \A i, k \in Images : Passed(i) /\ Passed(k) =>
    \A f \in Files[i], g \in Files[k] : f.rev = g.rev => f.adds = g.adds

TablesOk ==
  /\ RevsOk /\ pods \subseteq Images /\ PcOk
  /\ \A i \in Kept : Tables(i) \subseteq tables
  /\ \A i \in Images : Passed(i) =>
       \A f \in Files[i] : f.rev \in applied => f.adds \subseteq tables
  /\ \A j \in Jobs : pc[j] \in {"migrate", "set"} => Passed(Image[j])
  /\ \A j \in Jobs : pc[j] = "set" => Tables(Image[j]) \subseteq tables

(* An upgrade of a valid release adds what its image needs and takes nothing *)
(* away.                                                                     *)
LEMMA UpgradeAdds ==
  ASSUME Agreed, TablesOk, NEW k \in Images, Passed(k),
         NEW new, new = {f \in Files[k] : f.rev \notin applied},
         applied' = applied \cup Revisions(new),
         tables' = (tables \cup Added(new)) \ Dropped(new)
  PROVE  /\ tables \subseteq tables' /\ Tables(k) \subseteq tables'
         /\ \A i \in Images : Passed(i) =>
              \A f \in Files[i] : f.rev \in applied' => f.adds \subseteq tables'
<1>1. Dropped(new) = {} /\ Dropped(Files[k]) = {}
  <2>1. Dropped(Files[k]) = {}
    BY DEF Passed, Valid
  <2>2. Dropped(new) \subseteq Dropped(Files[k])
    BY DEF Dropped
  <2>3. QED
    BY <2>1, <2>2
<1>2. tables' = tables \cup Added(new)
  BY <1>1
<1>3. \A f \in Files[k] : f.adds \subseteq tables'
  <2>1. \A f \in new : f.adds \subseteq Added(new)
    BY DEF Added
  <2>2. \A f \in Files[k] : f.rev \in applied => f.adds \subseteq tables
    BY DEF TablesOk
  <2>3. QED
    BY <1>2, <2>1, <2>2
<1>4. Tables(k) \subseteq tables'
  BY <1>3 DEF Tables, Added
<1>5. ASSUME NEW i \in Images, Passed(i), NEW f \in Files[i], f.rev \in applied'
      PROVE  f.adds \subseteq tables'
  <2>1. CASE f.rev \in applied
    BY <1>2, <1>5, <2>1 DEF TablesOk
  <2>2. CASE f.rev \in Revisions(new)
    <3>1. PICK g \in Files[k] : g.rev = f.rev
      BY <2>2 DEF Revisions
    <3>2. g.adds = f.adds
      BY <1>5, <3>1 DEF Agreed
    <3>3. QED
      BY <1>3, <3>1, <3>2
  <2>3. QED
    BY <1>5, <2>1, <2>2
<1>6. QED
  BY <1>2, <1>4, <1>5

(* Every step keeps the tables that are needed. *)
LEMMA TablesKept ==
  ASSUME Validated, Agreed, TablesOk, [DeployNext]_deployVars
  PROVE  TablesOk'
<1> USE DeployAssumption
<1> DEFINE Good(p, j) == /\ p[j] \in {"migrate", "set"} => Passed(Image[j])
                         /\ p[j] = "set" => Tables(Image[j]) \subseteq tables
<1>1. ASSUME Quiet, PcOk', \A j \in Jobs : Good(pc', j) PROVE TablesOk'
  BY <1>1 DEF Quiet, TablesOk, RevsOk, Kept
<1>2. ASSUME NEW j \in Jobs, NEW from, NEW to, JobStep(j, from, to), Good(pc', j)
      PROVE  PcOk' /\ \A k \in Jobs : Good(pc', k)
  BY <1>2 DEF JobStep, TablesOk, PcOk
<1>3. ASSUME UNCHANGED <<revs, pods, applied, tables, pc>> PROVE TablesOk'
  BY <1>3 DEF TablesOk, RevsOk, Kept, PcOk
<1>4. ASSUME NEW j \in Jobs, Begin(j) PROVE TablesOk'
  BY <1>1, <1>2, <1>4 DEF Begin, Quiet, clusterVars, schemaVars, JobStep, TablesOk, PcOk
<1>5. ASSUME NEW j \in Jobs, Validate(j) PROVE TablesOk'
  BY <1>1, <1>2, <1>5 DEF Validate, Passed, Quiet, clusterVars, schemaVars, JobStep, TablesOk, PcOk
<1>6. ASSUME NEW j \in Jobs, Migrate(j) PROVE TablesOk'
  <2> DEFINE files == Files[Image[j]]
             new == {f \in files : f.rev \notin applied}
  <2>1. CASE CanMigrate(files)
    <3>1. /\ pc[j] = "migrate" /\ pc' = [pc EXCEPT ![j] = "set"]
          /\ applied' = applied \cup Revisions(new)
          /\ tables' = (tables \cup Added(new)) \ Dropped(new)
          /\ UNCHANGED clusterVars
      BY <1>6, <2>1 DEF Migrate, JobStep
    <3>2. Image[j] \in Images /\ Passed(Image[j])
      BY <3>1 DEF TablesOk
    <3> HIDE DEF new
    <3>3. /\ tables \subseteq tables' /\ Tables(Image[j]) \subseteq tables'
          /\ \A i \in Images : Passed(i) =>
               \A f \in Files[i] : f.rev \in applied' => f.adds \subseteq tables'
      BY <3>1, <3>2, UpgradeAdds DEF new
    <3>4. QED
      BY <3>1, <3>2, <3>3 DEF TablesOk, RevsOk, Kept, PcOk, clusterVars
  <2>2. CASE ~CanMigrate(files)
    BY <1>1, <1>2, <1>6, <2>2 DEF Migrate, Quiet, clusterVars, schemaVars, JobStep, TablesOk, PcOk
  <2>3. QED
    BY <2>1, <2>2
<1>7. ASSUME NEW j \in Jobs, NEW i \in Images, NEW from, NEW to, JobStep(j, from, to), to # "migrate",
             to # "set", MakeCurrent(i), Tables(i) \subseteq tables,
             UNCHANGED <<pods, applied, tables>>
      PROVE  TablesOk'
  <2>1. RevsOk' /\ ToSet(revs') \subseteq ToSet(revs) \cup {i}
    BY <1>7, MakeCurrentMoves DEF TablesOk
  <2>2. \A k \in Kept' : Tables(k) \subseteq tables'
    BY <1>7, <2>1 DEF Kept, TablesOk
  <2>3. QED
    BY <1>7, <2>1, <2>2 DEF TablesOk, PcOk, JobStep
<1>8. ASSUME NEW j \in Jobs, SetImage(j) PROVE TablesOk'
  <2>1. Tables(Image[j]) \subseteq tables
    BY <1>8 DEF SetImage, JobStep, TablesOk
  <2>2. JobStep(j, "set", "status") /\ MakeCurrent(Image[j]) /\ UNCHANGED <<pods, applied, tables>>
    BY <1>8 DEF SetImage, schemaVars
  <2>3. QED
    BY <1>7, <2>1, <2>2
<1>9. ASSUME NEW j \in Jobs, Undo(j) PROVE TablesOk'
  <2>1. revs[Len(revs) - 1] \in ToSet(revs) /\ revs[Len(revs) - 1] \in Images
    BY <1>9 DEF Undo, TablesOk, RevsOk, ToSet
  <2>2. Tables(revs[Len(revs) - 1]) \subseteq tables
    BY <2>1 DEF TablesOk, Kept
  <2>3. QED
    BY <1>7, <1>9, <2>1, <2>2 DEF Undo, JobStep, schemaVars
<1>10. ASSUME NEW j \in Jobs,
              SetRefused(j) \/ RolloutStatus(j) \/ StatusHangs(j) \/ SmokeTest(j)
                \/ UndoRefused(j) \/ UndoStatus(j)
       PROVE  TablesOk'
  <2>1. Quiet
    BY <1>10 DEF SetRefused, RolloutStatus, StatusHangs, SmokeTest, UndoRefused, UndoStatus,
                 Quiet, clusterVars, schemaVars
  <2>2. \E from, to : JobStep(j, from, to) /\ to \notin {"migrate", "set"}
    BY <1>10 DEF SetRefused, RolloutStatus, StatusHangs, SmokeTest, UndoRefused, UndoStatus
  <2>3. QED
    BY <1>1, <1>2, <2>1, <2>2 DEF JobStep, TablesOk, PcOk
<1>11. CASE Surge \/ Retire
  <2>1. Current \in Images /\ Current \in ToSet(revs)
    BY DEF TablesOk, RevsOk, Current, Last, ToSet
  <2>2. pods' \subseteq pods \cup {Current} /\ UNCHANGED <<revs, applied, tables, pc>>
    BY <1>11 DEF Surge, Retire, schemaVars, jobVars
  <2>3. QED
    BY <2>1, <2>2 DEF TablesOk, RevsOk, Kept, PcOk
<1>12. ASSUME NEW s \in Services, Outage(s) \/ Recover(s) PROVE TablesOk'
  BY <1>3, <1>12 DEF Outage, Recover, clusterVars, schemaVars, jobVars
<1>13. CASE UNCHANGED deployVars
  BY <1>3, <1>13 DEF deployVars, clusterVars, schemaVars, jobVars
<1>14. QED
  BY <1>4, <1>5, <1>6, <1>8, <1>9, <1>10, <1>11, <1>12, <1>13 DEF DeployNext, Drive

(* Every pod finds the tables its image uses, when the pipeline validates    *)
(* the migrations (check_migrations.py), the first image's are valid and     *)
(* images that pass agree on what each migration adds.                       *)
THEOREM TablesAreThere ==
  ASSUME Validated, Agreed, Passed(First)
  PROVE  DeploySpec => []PodsFindTheirTables
<1>1. DeployInit => TablesOk
  <2> SUFFICES ASSUME DeployInit PROVE TablesOk
    OBVIOUS
  <2>1. First \in Images /\ revs = <<First>> /\ pods = {First} /\ RevsOk
    BY DeployAssumption DEF DeployInit, RevsOk
  <2>2. Kept = {First}
    BY <2>1 DEF Kept, ToSet
  <2>3. Dropped(Files[First]) = {}
    BY DEF Passed, Valid
  <2>4. ASSUME NEW i \in Images, Passed(i), NEW f \in Files[i], f.rev \in applied
        PROVE  f.adds \subseteq tables
    <3>1. PICK g \in Files[First] : g.rev = f.rev
      BY <2>4 DEF DeployInit, Revisions
    <3>2. g.adds = f.adds
      BY <2>1, <2>4, <3>1 DEF Agreed
    <3>3. g.adds \subseteq Tables(First)
      BY <2>3 DEF Tables, Added
    <3>4. QED
      BY <3>2, <3>3 DEF DeployInit
  <2>5. QED
    BY <2>1, <2>2, <2>4 DEF DeployInit, TablesOk, PcOk
<1>2. TablesOk => PodsFindTheirTables
  BY DEF TablesOk, PodsFindTheirTables, Kept
<1>3. QED
  BY <1>1, <1>2, TablesKept, PTL DEF DeploySpec

-----------------------------------------------------------------------------
(* Releases: rollbacks *)

Busy(j) == pc[j] \notin {"waiting"} \cup Ended

(* Between its own revision and the rollback, a job is alone: the revision   *)
(* before the last is the one that it found.                                 *)
OwnRevision(j) ==
  /\ pc[j] \in {"status", "smoke", "undo"} => Last(revs) = Image[j]
  /\ pc[j] \in {"status", "smoke", "undo"} /\ before[j] # Image[j] =>
       Len(revs) > 1 /\ revs[Len(revs) - 1] = before[j]
  /\ pc[j] = "undoing" /\ before[j] # Image[j] => Current = before[j]

UndoOk ==
  /\ RevsOk /\ PcOk /\ DOMAIN before = Jobs /\ DOMAIN undone = Jobs
  /\ \A j, k \in Jobs : Busy(j) /\ Busy(k) => j = k
  /\ \A j \in Jobs : OwnRevision(j)

(* A job's step leaves the other jobs where they are. *)
LEMMA OneAtATime ==
  ASSUME UndoOk, NEW j \in Jobs, NEW from, NEW to, JobStep(j, from, to),
         from \notin {"waiting"} \cup Ended
  PROVE  /\ PcOk' /\ pc'[j] = to /\ Busy(j)
         /\ \A k \in Jobs \ {j} : pc'[k] = pc[k] /\ ~Busy(k)
         /\ \A i, k \in Jobs : Busy(i)' /\ Busy(k)' => i = k
BY DEF UndoOk, PcOk, Busy, JobStep

(* Every step keeps the revisions of the job that is under way. *)
LEMMA UndoKept ==
  ASSUME Serialized, UndoOk, [DeployNext]_deployVars
  PROVE  UndoOk'
<1> USE DeployAssumption
<1>1. ASSUME UNCHANGED <<revs, pc, before, undone>> PROVE UndoOk'
  BY <1>1 DEF UndoOk, RevsOk, PcOk, OwnRevision, Current, Busy
<1>2. ASSUME NEW j \in Jobs, NEW from, NEW to, JobStep(j, from, to),
             from \notin {"waiting"} \cup Ended, UNCHANGED <<revs, before>>,
             DOMAIN undone' = Jobs,
             OwnRevision(j)'
      PROVE  UndoOk'
  <2>1. /\ PcOk' /\ \A k \in Jobs \ {j} : pc'[k] = pc[k]
        /\ \A i, k \in Jobs : Busy(i)' /\ Busy(k)' => i = k
    BY <1>2, OneAtATime
  <2>2. \A k \in Jobs \ {j} : OwnRevision(k)'
    BY <1>2, <2>1 DEF UndoOk, OwnRevision, Current
  <2>3. QED
    BY <1>2, <2>1, <2>2 DEF UndoOk, RevsOk
<1>3. ASSUME NEW j \in Jobs, Begin(j) PROVE UndoOk'
  <2>1. /\ \A k \in Jobs : ~Busy(k)
        /\ pc' = [pc EXCEPT ![j] = "validate"] /\ UNCHANGED <<revs, before, undone>>
    BY <1>3 DEF Begin, JobStep, Busy, clusterVars
  <2>2. \A k \in Jobs : k # j => ~Busy(k)' /\ pc'[k] = pc[k]
    BY <2>1 DEF Busy, UndoOk, PcOk
  <2>3. \A k \in Jobs : OwnRevision(k)'
    BY <2>1, <2>2 DEF UndoOk, PcOk, OwnRevision, Current
  <2>4. QED
    BY <2>1, <2>2, <2>3 DEF UndoOk, RevsOk, PcOk
<1>4. ASSUME NEW j \in Jobs, Validate(j) \/ Migrate(j) \/ SetRefused(j) PROVE UndoOk'
  <2>1. \E from \in {"validate", "migrate", "set"} :
          \E to \in {"failed", "migrate", "set"} : JobStep(j, from, to)
    BY <1>4 DEF Validate, Migrate, SetRefused
  <2>2. UNCHANGED <<revs, before, undone>>
    BY <1>4 DEF Validate, Migrate, SetRefused, clusterVars
  <2>3. pc'[j] \in {"failed", "migrate", "set"}
    BY <2>1 DEF JobStep, UndoOk, PcOk
  <2>4. OwnRevision(j)'
    BY <2>3 DEF OwnRevision
  <2>5. QED
    BY <1>2, <2>1, <2>2, <2>4 DEF UndoOk, Ended
<1>5. ASSUME NEW j \in Jobs, SetImage(j) PROVE UndoOk'
  <2>1. /\ JobStep(j, "set", "status") /\ MakeCurrent(Image[j])
        /\ before' = [before EXCEPT ![j] = Current] /\ undone' = undone
    BY <1>5 DEF SetImage
  <2>2. /\ PcOk' /\ pc'[j] = "status" /\ \A k \in Jobs \ {j} : pc'[k] = pc[k] /\ ~Busy(k)
        /\ \A i, k \in Jobs : Busy(i)' /\ Busy(k)' => i = k
    BY <2>1, OneAtATime DEF Ended
  <2>3. /\ RevsOk' /\ Last(revs') = Image[j]
        /\ Image[j] # Last(revs) => Len(revs') > 1 /\ revs'[Len(revs') - 1] = Last(revs)
    BY <2>1, MakeCurrentMoves DEF UndoOk
  <2>4. DOMAIN before' = Jobs /\ before'[j] = Last(revs)
    BY <2>1 DEF UndoOk, Current
  <2>5. OwnRevision(j)'
    BY <2>2, <2>3, <2>4 DEF OwnRevision
  <2>6. \A k \in Jobs \ {j} : OwnRevision(k)'
    BY <2>2 DEF OwnRevision, Busy, Ended
  <2>7. QED
    BY <2>1, <2>2, <2>3, <2>4, <2>5, <2>6 DEF UndoOk
<1>6. ASSUME NEW j \in Jobs, RolloutStatus(j) \/ StatusHangs(j) \/ SmokeTest(j) PROVE UndoOk'
  <2>1. \E from \in {"status", "smoke"} :
          \E to \in {"smoke", "undo", "crashed", "ok"} : JobStep(j, from, to)
    BY <1>6 DEF RolloutStatus, StatusHangs, SmokeTest
  <2>2. UNCHANGED <<revs, before, undone>>
    BY <1>6 DEF RolloutStatus, StatusHangs, SmokeTest, clusterVars
  <2>3. pc[j] \in {"status", "smoke"} /\ pc'[j] \in {"smoke", "undo", "crashed", "ok"}
    BY <2>1 DEF JobStep, UndoOk, PcOk
  <2>4. OwnRevision(j)'
    BY <2>2, <2>3 DEF OwnRevision, UndoOk
  <2>5. QED
    BY <1>2, <2>1, <2>2, <2>4 DEF UndoOk, Ended
<1>7. ASSUME NEW j \in Jobs, Undo(j) PROVE UndoOk'
  <2> DEFINE old == revs[Len(revs) - 1]
  <2>1. /\ JobStep(j, "undo", "undoing") /\ MakeCurrent(old) /\ Len(revs) > 1
        /\ UNCHANGED <<before, undone>>
    BY <1>7 DEF Undo
  <2>2. /\ PcOk' /\ pc'[j] = "undoing" /\ \A k \in Jobs \ {j} : pc'[k] = pc[k] /\ ~Busy(k)
        /\ \A i, k \in Jobs : Busy(i)' /\ Busy(k)' => i = k
    BY <2>1, OneAtATime DEF Ended
  <2>3. old \in Images
    BY <2>1 DEF UndoOk, RevsOk
  <2> HIDE DEF old
  <2>4. RevsOk' /\ Last(revs') = old
    BY <2>1, <2>3, MakeCurrentMoves DEF UndoOk
  <2>5. before[j] # Image[j] => old = before[j]
    BY <2>1 DEF JobStep, UndoOk, OwnRevision, old
  <2>6. OwnRevision(j)'
    BY <2>1, <2>2, <2>4, <2>5 DEF OwnRevision, Current
  <2>7. \A k \in Jobs \ {j} : OwnRevision(k)'
    BY <2>2 DEF OwnRevision, Busy, Ended
  <2>8. QED
    BY <2>1, <2>2, <2>4, <2>6, <2>7 DEF UndoOk
<1>8. ASSUME NEW j \in Jobs, UndoRefused(j) \/ UndoStatus(j) PROVE UndoOk'
  <2>1. \E from \in {"undo", "undoing"} : JobStep(j, from, "failed")
    BY <1>8 DEF UndoRefused, UndoStatus
  <2>2. UNCHANGED <<revs, before>> /\ DOMAIN undone' = Jobs
    BY <1>8 DEF UndoRefused, UndoStatus, clusterVars, UndoOk
  <2>3. OwnRevision(j)'
    BY <2>1 DEF JobStep, UndoOk, PcOk, OwnRevision
  <2>4. QED
    BY <1>2, <2>1, <2>2, <2>3 DEF Ended
<1>9. CASE Surge \/ Retire \/ \E s \in Services : Outage(s) \/ Recover(s)
  BY <1>1, <1>9 DEF Surge, Retire, Outage, Recover, clusterVars, jobVars
<1>10. CASE UNCHANGED deployVars
  BY <1>1, <1>10 DEF deployVars, clusterVars, jobVars
<1>11. QED
  BY <1>3, <1>4, <1>5, <1>6, <1>7, <1>8, <1>9, <1>10 DEF DeployNext, Drive

(* When a rollback has returned true, what was current before the job is     *)
(* current again and the job's image serves nobody (deploy.py:8), when a job *)
(* waits for the one before and its image was a new one.                     *)
THEOREM RollbackIsDone ==
  ASSUME Serialized
  PROVE  DeploySpec => FailedDeployIsUndone
<1> DEFINE UndoneStep ==
      \A j \in Jobs : undone'[j] = "yes" /\ undone[j] # "yes" /\ before[j] # Image[j]
                        => Current' = before[j] /\ Image[j] \notin InService'
<1>1. DeployInit => UndoOk
  BY DeployAssumption DEF DeployInit, UndoOk, RevsOk, PcOk, Busy, OwnRevision
<1>2. ASSUME UndoOk, DeployNext PROVE UndoneStep
  <2>1. SUFFICES ASSUME NEW j \in Jobs, undone'[j] = "yes", undone[j] # "yes",
                        before[j] # Image[j]
                 PROVE  Current' = before[j] /\ Image[j] \notin InService'
    OBVIOUS
  <2>2. UndoStatus(j)
    <3>1. undone' # undone
      BY <2>1
    <3>2. PICK k \in Jobs : UndoRefused(k) \/ UndoStatus(k)
      BY <1>2, <3>1 DEF DeployNext, Drive, Begin, Validate, Migrate, SetImage, SetRefused,
           RolloutStatus, StatusHangs, SmokeTest, Undo, Surge, Retire, Outage, Recover, jobVars
    <3>3. k = j /\ ~UndoRefused(j)
      BY <1>2, <2>1, <3>2 DEF UndoRefused, UndoStatus, UndoOk
    <3>4. QED
      BY <3>2, <3>3
  <2>3. RolledOut
    BY <1>2, <2>1, <2>2 DEF UndoStatus, RollbackReturns, UndoOk
  <2>4. Current = before[j]
    BY <1>2, <2>1, <2>2 DEF UndoStatus, JobStep, UndoOk, OwnRevision
  <2>5. UNCHANGED <<revs, pods, up>>
    BY <2>2 DEF UndoStatus, clusterVars, serviceVars
  <2>6. Current' = Current /\ InService' = InService
    BY <2>5 DEF Current, InService, Ready, Condition
  <2>7. QED
    BY <2>1, <2>3, <2>4, <2>6 DEF RolledOut
<1>3. UndoOk /\ [DeployNext]_deployVars => [UndoneStep]_deployVars
  BY <1>2
<1>4. QED
  BY <1>1, <1>3, UndoKept, PTL DEF DeploySpec, FailedDeployIsUndone
===============================================================================
