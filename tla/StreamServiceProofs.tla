------------------------- MODULE StreamServiceProofs -------------------------
(* Proofs about StreamService for any number of ids, lives and stopping     *)
(* threads, with bounded joins that may or may not expire.                  *)
EXTENDS StreamService, TLAPS

-----------------------------------------------------------------------------
(* The inductive invariant *)

(* A thread that has not run cannot be registered. *)
RegistryOk ==
  \A s \in Ids :
    streams[s] # None => IdOf(streams[s]) = s /\ tpc[streams[s]] \notin {"new", "failed"}

(* Between its check and its insert start_stream() alone can add to the     *)
(* registry, so the id stays free; it does not run while shutdown() does.   *)
StartOk ==
  /\ spc = "idle" => starting = None
  /\ spc \in {"leased", "launched", "recorded"} =>
       starting # None /\ streams[IdOf(starting)] = None
  /\ spc \in {"reaping", "leased"} /\ starting # None => tpc[starting] = "new"
  /\ spc \in {"launched", "recorded"} => tpc[starting] \notin {"new", "failed"}
  /\ phase # "up" => starting = None

(* start_stream() has the lease it acquired until it starts the thread. *)
LeaseOk ==
  spc = "leased" /\ IdOf(starting) \notin overlapped => lease[IdOf(starting)] # "none"

(* The flag is set in the loop alone. *)
FlagOk == \A i \in Instances : running[i] => tpc[i] = "loop"

(* A stop_stream() call has a stream that ran, and has cleared its flag     *)
(* once it goes on to join it.                                              *)
StopOk ==
  \A k \in Stoppers :
    /\ kpc[k] # "idle" => tpc[kOf[k]] \notin {"new", "failed"}
    /\ kpc[k] \in {"join", "release", "drop"} => ~running[kOf[k]]

(* Unless calls overlap, the stream stays registered and marked meanwhile.  *)
OverlapOk ==
  /\ \A k, m \in Stoppers :
       k # m /\ kpc[k] # "idle" /\ kpc[m] # "idle" /\ IdOf(kOf[k]) = IdOf(kOf[m])
         => IdOf(kOf[k]) \in overlapped
  /\ \A k \in Stoppers :
       kpc[k] # "idle" /\ IdOf(kOf[k]) \notin overlapped =>
         streams[IdOf(kOf[k])] = kOf[k] /\ IdOf(kOf[k]) \in stopping

(* A running stream is registered, or start_stream() is about to do it. *)
KnownOk ==
  RowsPruned =>
    \A i \in Instances :
      running[i] =>
        streams[IdOf(i)] = i \/ (starting = i /\ spc \in {"launched", "recorded"})

(* shutdown() has yet to stop every stream that runs. *)
ShutOk ==
  RowsPruned /\ phase = "stopping" =>
    \A i \in Instances :
      running[i] => IdOf(i) \in todo \/ (kpc[Boss] = "flag" /\ kOf[Boss] = i)

(* A thread that is in its loop although its flag is clear is being joined. *)
LoopOk ==
  ~JoinExpires =>
    \A i \in Instances :
      tpc[i] = "loop" /\ ~running[i] /\ IdOf(i) \notin overlapped =>
        \E k \in Stoppers : kOf[k] = i /\ kpc[k] = "join"

(* Together they are inductive. *)
ServiceInv ==
  /\ RegistryOk /\ StartOk /\ LeaseOk /\ FlagOk /\ StopOk
  /\ NoStaleStopping /\ OverlapOk /\ LoopOk
  /\ KnownOk /\ ShutOk /\ ShutdownStopsAll /\ LeasedUnlessStopsOverlap

-----------------------------------------------------------------------------
(* Steps *)

(* An instance is of one of the ids. *)
LEMMA IdTyped == \A i \in Instances : IdOf(i) \in Ids
<1> QED BY DEF Instances, IdOf

(* A stop_stream() call looks its stream up. *)
Looks ==
  \/ \E k \in Stoppers, s \in Ids : UserStops(k, s) \/ StopLost(k, s)
  \/ \E s \in Ids : StopNext(s)

(* Which steps write a variable. *)
LEMMA Writers ==
  ASSUME [Next]_vars
  PROVE
    /\ \/ UNCHANGED streams \/ Register
       \/ \E i \in Instances \union {None} : Reap(i)
       \/ \E i \in Instances : Finished(i)
       \/ \E k \in Stoppers : Drop(k)
    /\ \/ UNCHANGED stopping
       \/ \E k \in Stoppers : Drop(k)
       \/ Looks
    /\ \/ UNCHANGED lease \/ Acquire \/ ReleaseAll
       \/ \E i \in Instances : Finished(i)
       \/ \E k \in Stoppers : Release(k)
       \/ \E s \in Ids : LoseLease(s) \/ StopNext(s)
    /\ \/ UNCHANGED running \/ Launch
       \/ \E i \in Instances : EndLoop(i)
       \/ \E k \in Stoppers : ClearFlag(k)
    /\ \/ UNCHANGED tpc \/ Launch \/ CannotOpen
       \/ \E i \in Instances : EndLoop(i) \/ Finished(i)
    /\ \/ UNCHANGED spc \/ Listed \/ Refuse \/ Acquire \/ Launch \/ CannotOpen
       \/ InsertRow \/ Register
       \/ \E i \in Instances \union {None} : Reap(i)
    /\ \/ UNCHANGED starting \/ Listed \/ Refuse \/ Acquire \/ CannotOpen
       \/ InsertRow \/ Register
       \/ \E i \in Instances \union {None} : Reap(i)
    /\ \/ UNCHANGED kpc
       \/ \E k \in Stoppers : ClearFlag(k) \/ Join(k) \/ Release(k) \/ Drop(k)
       \/ Looks
    /\ \/ UNCHANGED kOf
       \/ \E k \in Stoppers : Drop(k)
       \/ Looks
    /\ \/ UNCHANGED overlapped
       \/ Looks
    /\ \/ UNCHANGED phase \/ Shutdown \/ ReleaseAll
    /\ \/ UNCHANGED todo \/ Shutdown
       \/ \E s \in Ids : StopNext(s)
<1> QED BY DEF vars, Looks, Next, Serve, Thread, StopStep, Reap, Listed,
            Refuse, Acquire, Launch, CannotOpen, InsertRow, Register, EndLoop,
            Finished, ClearFlag, Join, Release, Drop, UserStops, LoseLease,
            StopLost, Shutdown, StopNext, ReleaseAll, Lookup, NotFound, Idle,
            registry, threads, eventLoop, stops, closing

(* Every step keeps the types. *)
LEMMA TypeKept ==
  ASSUME TypeOK, StartOk, [Next]_vars PROVE TypeOK'
<1> USE IdTyped, ServiceAssumption
       DEF TypeOK, StartOk, registry, threads, eventLoop, stops, closing
<1>1. ASSUME NEW i \in Instances \union {None}, Reap(i) PROVE TypeOK'
  BY <1>1 DEF Reap, MayCall, Finishers
<1>2. CASE Listed
  BY <1>2 DEF Listed, Idle
<1>3. CASE Refuse
  BY <1>3 DEF Refuse, Idle
<1>4. CASE Acquire
  BY <1>4 DEF Acquire, Idle
<1>5. CASE Launch
  BY <1>5 DEF Launch
<1>6. CASE CannotOpen
  BY <1>6 DEF CannotOpen, Idle
<1>7. CASE InsertRow
  BY <1>7 DEF InsertRow, Idle
<1>8. CASE Register
  BY <1>8 DEF Register, Idle
<1>9. ASSUME NEW i \in Instances, EndLoop(i) PROVE TypeOK'
  BY <1>9 DEF EndLoop
<1>10. ASSUME NEW i \in Instances, Finished(i) PROVE TypeOK'
  BY <1>10 DEF Finished, CallsBack, DropsItself, ReleaseLease
<1>11. ASSUME NEW k \in Stoppers, ClearFlag(k) PROVE TypeOK'
  BY <1>11 DEF ClearFlag
<1>12. ASSUME NEW k \in Stoppers, Join(k) PROVE TypeOK'
  BY <1>12 DEF Join
<1>13. ASSUME NEW k \in Stoppers, Release(k) PROVE TypeOK'
  BY <1>13 DEF Release, ReleaseLease
<1>14. ASSUME NEW k \in Stoppers, Drop(k) PROVE TypeOK'
  BY <1>14 DEF Drop, Deregister
<1>15. ASSUME NEW k \in Stoppers, NEW s \in Ids, UserStops(k, s) PROVE TypeOK'
  BY <1>15 DEF UserStops, Lookup
<1>16. ASSUME NEW s \in Ids, LoseLease(s) PROVE TypeOK'
  BY <1>16 DEF LoseLease
<1>17. ASSUME NEW k \in Stoppers, NEW s \in Ids, StopLost(k, s) PROVE TypeOK'
  BY <1>17 DEF StopLost, Lookup, NotFound
<1>18. CASE Shutdown
  BY <1>18 DEF Shutdown
<1>19. ASSUME NEW s \in Ids, StopNext(s) PROVE TypeOK'
  BY <1>19 DEF StopNext, Lookup, NotFound
<1>20. CASE ReleaseAll
  BY <1>20 DEF ReleaseAll
<1>21. CASE UNCHANGED vars
  BY <1>21 DEF vars
<1> QED BY <1>1, <1>2, <1>3, <1>4, <1>5, <1>6, <1>7, <1>8, <1>9, <1>10, <1>11,
            <1>12, <1>13, <1>14, <1>15, <1>16, <1>17, <1>18, <1>19, <1>20,
            <1>21 DEF Next, Serve, Thread, StopStep

(* A registered stream has run: only start_stream() adds one. *)
LEMMA RegistryKept ==
  ASSUME TypeOK, RegistryOk, StartOk, [Next]_vars
  PROVE  RegistryOk'
<1> USE IdTyped, ServiceAssumption
       DEF TypeOK, RegistryOk, StartOk, registry, threads, eventLoop, stops,
           closing
<1>1. ASSUME NEW i \in Instances \union {None}, Reap(i) PROVE RegistryOk'
  BY <1>1 DEF Reap, MayCall, Finishers
<1>2. CASE Launch
  BY <1>2 DEF Launch
<1>3. CASE CannotOpen
  BY <1>3 DEF CannotOpen, Idle
<1>4. CASE Register
  BY <1>4 DEF Register, Idle
<1>5. ASSUME NEW i \in Instances, EndLoop(i) PROVE RegistryOk'
  BY <1>5 DEF EndLoop
<1>6. ASSUME NEW i \in Instances, Finished(i) PROVE RegistryOk'
  BY <1>6 DEF Finished, CallsBack, DropsItself, ReleaseLease
<1>7. ASSUME NEW k \in Stoppers, Drop(k) PROVE RegistryOk'
  BY <1>7 DEF Drop, Deregister
<1>8. CASE UNCHANGED <<streams, tpc>>
  BY <1>8
<1> QED BY <1>1, <1>2, <1>3, <1>4, <1>5, <1>6, <1>7, <1>8, Writers

(* Nobody else adds to the registry while start_stream() runs. *)
LEMMA StartKept ==
  ASSUME TypeOK, StartOk, [Next]_vars
  PROVE  StartOk'
<1> USE IdTyped, ServiceAssumption
       DEF TypeOK, StartOk, registry, threads, eventLoop, stops, closing
<1>1. ASSUME NEW i \in Instances \union {None}, Reap(i) PROVE StartOk'
  BY <1>1 DEF Reap, MayCall, Finishers
<1>2. CASE Listed
  BY <1>2 DEF Listed, Idle
<1>3. CASE Refuse
  BY <1>3 DEF Refuse, Idle
<1>4. CASE Acquire
  BY <1>4 DEF Acquire, Idle
<1>5. CASE Launch
  BY <1>5 DEF Launch
<1>6. CASE CannotOpen
  BY <1>6 DEF CannotOpen, Idle
<1>7. CASE InsertRow
  BY <1>7 DEF InsertRow, Idle
<1>8. CASE Register
  BY <1>8 DEF Register, Idle
<1>9. ASSUME NEW i \in Instances, EndLoop(i) PROVE StartOk'
  BY <1>9 DEF EndLoop
<1>10. ASSUME NEW i \in Instances, Finished(i) PROVE StartOk'
  BY <1>10 DEF Finished, CallsBack, DropsItself, ReleaseLease
<1>11. ASSUME NEW k \in Stoppers, Drop(k) PROVE StartOk'
  BY <1>11 DEF Drop, Deregister
<1>12. CASE Shutdown
  BY <1>12 DEF Shutdown
<1>13. CASE ReleaseAll
  BY <1>13 DEF ReleaseAll
<1>14. CASE UNCHANGED <<spc, starting, streams, tpc, phase>>
  BY <1>14
<1> QED BY <1>1, <1>2, <1>3, <1>4, <1>5, <1>6, <1>7, <1>8, <1>9, <1>10, <1>11,
            <1>12, <1>13, <1>14, Writers

(* Only an overlapping stop_stream() could take the lease meanwhile. *)
LEMMA LeaseKept ==
  ASSUME TypeOK, LeaseOk, StartOk, OverlapOk, [Next]_vars
  PROVE  LeaseOk'
<1> USE IdTyped, ServiceAssumption
       DEF TypeOK, LeaseOk, StartOk, OverlapOk, registry, threads, eventLoop,
           stops, closing
<1>1. ASSUME NEW i \in Instances \union {None}, Reap(i) PROVE LeaseOk'
  BY <1>1 DEF Reap, MayCall, Finishers
<1>2. CASE Listed
  BY <1>2 DEF Listed, Idle
<1>3. CASE Refuse
  BY <1>3 DEF Refuse, Idle
<1>4. CASE Acquire
  BY <1>4 DEF Acquire, Idle
<1>5. CASE Launch
  BY <1>5 DEF Launch
<1>6. CASE CannotOpen
  BY <1>6 DEF CannotOpen, Idle
<1>7. CASE InsertRow
  BY <1>7 DEF InsertRow, Idle
<1>8. CASE Register
  BY <1>8 DEF Register, Idle
<1>9. ASSUME NEW i \in Instances, Finished(i) PROVE LeaseOk'
  BY <1>9 DEF Finished, CallsBack, DropsItself, ReleaseLease
<1>10. ASSUME NEW k \in Stoppers, Release(k) PROVE LeaseOk'
  BY <1>10 DEF Release, ReleaseLease
<1>11. ASSUME NEW k \in Stoppers, NEW s \in Ids, UserStops(k, s) PROVE LeaseOk'
  BY <1>11 DEF UserStops, Lookup
<1>12. ASSUME NEW s \in Ids, LoseLease(s) PROVE LeaseOk'
  BY <1>12 DEF LoseLease
<1>13. ASSUME NEW k \in Stoppers, NEW s \in Ids, StopLost(k, s) PROVE LeaseOk'
  BY <1>13 DEF StopLost, Lookup, NotFound
<1>14. ASSUME NEW s \in Ids, StopNext(s) PROVE LeaseOk'
  BY <1>14 DEF StopNext, Lookup, NotFound
<1>15. CASE ReleaseAll
  BY <1>15 DEF ReleaseAll
<1>16. CASE UNCHANGED <<spc, starting, lease, overlapped>>
  BY <1>16
<1> QED BY <1>1, <1>2, <1>3, <1>4, <1>5, <1>6, <1>7, <1>8, <1>9, <1>10, <1>11,
            <1>12, <1>13, <1>14, <1>15, <1>16, Writers DEF Looks

(* The flag falls no later than the loop ends. *)
LEMMA FlagKept ==
  ASSUME TypeOK, FlagOk, StartOk, [Next]_vars
  PROVE  FlagOk'
<1> USE IdTyped, ServiceAssumption
       DEF TypeOK, FlagOk, StartOk, registry, threads, eventLoop, stops,
           closing
<1>1. CASE Launch
  BY <1>1 DEF Launch
<1>2. CASE CannotOpen
  BY <1>2 DEF CannotOpen, Idle
<1>3. ASSUME NEW i \in Instances, EndLoop(i) PROVE FlagOk'
  BY <1>3 DEF EndLoop
<1>4. ASSUME NEW i \in Instances, Finished(i) PROVE FlagOk'
  BY <1>4 DEF Finished, CallsBack, DropsItself, ReleaseLease
<1>5. ASSUME NEW k \in Stoppers, ClearFlag(k) PROVE FlagOk'
  BY <1>5 DEF ClearFlag
<1>6. CASE UNCHANGED <<running, tpc>>
  BY <1>6
<1> QED BY <1>1, <1>2, <1>3, <1>4, <1>5, <1>6, Writers

(* Nothing sets a flag that stop_stream() has cleared. *)
LEMMA StopKept ==
  ASSUME TypeOK, StopOk, RegistryOk, StartOk, FlagOk, [Next]_vars
  PROVE  StopOk'
<1> USE IdTyped, ServiceAssumption
       DEF TypeOK, StopOk, RegistryOk, StartOk, FlagOk, registry, threads,
           eventLoop, stops, closing
<1>1. CASE Launch
  BY <1>1 DEF Launch
<1>2. CASE CannotOpen
  BY <1>2 DEF CannotOpen, Idle
<1>3. ASSUME NEW i \in Instances, EndLoop(i) PROVE StopOk'
  BY <1>3 DEF EndLoop
<1>4. ASSUME NEW i \in Instances, Finished(i) PROVE StopOk'
  BY <1>4 DEF Finished, CallsBack, DropsItself, ReleaseLease
<1>5. ASSUME NEW k \in Stoppers, ClearFlag(k) PROVE StopOk'
  BY <1>5 DEF ClearFlag
<1>6. ASSUME NEW k \in Stoppers, Join(k) PROVE StopOk'
  BY <1>6 DEF Join
<1>7. ASSUME NEW k \in Stoppers, Release(k) PROVE StopOk'
  BY <1>7 DEF Release, ReleaseLease
<1>8. ASSUME NEW k \in Stoppers, Drop(k) PROVE StopOk'
  BY <1>8 DEF Drop, Deregister
<1>9. ASSUME NEW k \in Stoppers, NEW s \in Ids, UserStops(k, s) PROVE StopOk'
  BY <1>9 DEF UserStops, Lookup
<1>10. ASSUME NEW k \in Stoppers, NEW s \in Ids, StopLost(k, s) PROVE StopOk'
  BY <1>10 DEF StopLost, Lookup, NotFound
<1>11. ASSUME NEW s \in Ids, StopNext(s) PROVE StopOk'
  BY <1>11 DEF StopNext, Lookup, NotFound
<1>12. CASE UNCHANGED <<kpc, kOf, running, tpc>>
  BY <1>12
<1> QED BY <1>1, <1>2, <1>3, <1>4, <1>5, <1>6, <1>7, <1>8, <1>9, <1>10, <1>11,
            <1>12, Writers DEF Looks

(* An id is unmarked by the one call that stops it, or by the first of two. *)
LEMMA NoStaleStoppingKept ==
  ASSUME TypeOK, NoStaleStopping, RegistryOk, [Next]_vars
  PROVE  NoStaleStopping'
<1> USE IdTyped, ServiceAssumption
       DEF TypeOK, NoStaleStopping, RegistryOk, Busy, registry, threads,
           eventLoop, stops, closing
<1>1. ASSUME NEW k \in Stoppers, ClearFlag(k) PROVE NoStaleStopping'
  BY <1>1 DEF ClearFlag
<1>2. ASSUME NEW k \in Stoppers, Join(k) PROVE NoStaleStopping'
  BY <1>2 DEF Join
<1>3. ASSUME NEW k \in Stoppers, Release(k) PROVE NoStaleStopping'
  BY <1>3 DEF Release, ReleaseLease
<1>4. ASSUME NEW k \in Stoppers, Drop(k) PROVE NoStaleStopping'
  BY <1>4 DEF Drop, Deregister
<1>5. ASSUME NEW k \in Stoppers, NEW s \in Ids, UserStops(k, s) PROVE NoStaleStopping'
  BY <1>5 DEF UserStops, Lookup
<1>6. ASSUME NEW k \in Stoppers, NEW s \in Ids, StopLost(k, s) PROVE NoStaleStopping'
  BY <1>6 DEF StopLost, Lookup, NotFound
<1>7. ASSUME NEW s \in Ids, StopNext(s) PROVE NoStaleStopping'
  BY <1>7 DEF StopNext, Lookup, NotFound
<1>8. CASE UNCHANGED <<stopping, kpc, kOf>>
  BY <1>8
<1> QED BY <1>1, <1>2, <1>3, <1>4, <1>5, <1>6, <1>7, <1>8, Writers DEF Looks

(* The id of a stream that is being stopped stays marked and registered. *)
LEMMA OverlapKept ==
  ASSUME TypeOK, OverlapOk, RegistryOk, StartOk, [Next]_vars
  PROVE  OverlapOk'
<1> USE IdTyped, ServiceAssumption
       DEF TypeOK, OverlapOk, RegistryOk, StartOk, Busy, registry, threads,
           eventLoop, stops, closing
<1>1. ASSUME NEW i \in Instances \union {None}, Reap(i) PROVE OverlapOk'
  BY <1>1 DEF Reap, MayCall, Finishers
<1>2. CASE Register
  BY <1>2 DEF Register, Idle
<1>3. ASSUME NEW i \in Instances, Finished(i) PROVE OverlapOk'
  BY <1>3 DEF Finished, CallsBack, DropsItself, ReleaseLease
<1>4. ASSUME NEW k \in Stoppers, ClearFlag(k) PROVE OverlapOk'
  BY <1>4 DEF ClearFlag
<1>5. ASSUME NEW k \in Stoppers, Join(k) PROVE OverlapOk'
  BY <1>5 DEF Join
<1>6. ASSUME NEW k \in Stoppers, Release(k) PROVE OverlapOk'
  BY <1>6 DEF Release, ReleaseLease
<1>7. ASSUME NEW k \in Stoppers, Drop(k) PROVE OverlapOk'
  BY <1>7 DEF Drop, Deregister
<1>8. ASSUME NEW k \in Stoppers, NEW s \in Ids, UserStops(k, s) PROVE OverlapOk'
  BY <1>8 DEF UserStops, Lookup
<1>9. ASSUME NEW k \in Stoppers, NEW s \in Ids, StopLost(k, s) PROVE OverlapOk'
  BY <1>9 DEF StopLost, Lookup, NotFound
<1>10. ASSUME NEW s \in Ids, StopNext(s) PROVE OverlapOk'
  BY <1>10 DEF StopNext, Lookup, NotFound
<1>11. CASE UNCHANGED <<kpc, kOf, overlapped, streams, stopping>>
  BY <1>11
<1> QED BY <1>1, <1>2, <1>3, <1>4, <1>5, <1>6, <1>7, <1>8, <1>9, <1>10, <1>11,
            Writers DEF Looks

(* A running stream does not leave the registry. *)
LEMMA KnownKept ==
  ASSUME TypeOK, KnownOk, StartOk, FlagOk, StopOk, [Next]_vars
  PROVE  KnownOk'
<1> USE IdTyped, ServiceAssumption
       DEF TypeOK, KnownOk, StartOk, FlagOk, StopOk, registry, threads,
           eventLoop, stops, closing
<1>1. ASSUME NEW i \in Instances \union {None}, Reap(i) PROVE KnownOk'
  BY <1>1 DEF Reap, MayCall, Finishers
<1>2. CASE Listed
  BY <1>2 DEF Listed, Idle
<1>3. CASE Refuse
  BY <1>3 DEF Refuse, Idle
<1>4. CASE Acquire
  BY <1>4 DEF Acquire, Idle
<1>5. CASE Launch
  BY <1>5 DEF Launch
<1>6. CASE CannotOpen
  BY <1>6 DEF CannotOpen, Idle
<1>7. CASE InsertRow
  BY <1>7 DEF InsertRow, Idle
<1>8. CASE Register
  BY <1>8 DEF Register, Idle
<1>9. ASSUME NEW i \in Instances, EndLoop(i) PROVE KnownOk'
  BY <1>9 DEF EndLoop
<1>10. ASSUME NEW i \in Instances, Finished(i) PROVE KnownOk'
  BY <1>10 DEF Finished, CallsBack, DropsItself, ReleaseLease
<1>11. ASSUME NEW k \in Stoppers, ClearFlag(k) PROVE KnownOk'
  BY <1>11 DEF ClearFlag
<1>12. ASSUME NEW k \in Stoppers, Drop(k) PROVE KnownOk'
  BY <1>12 DEF Drop, Deregister
<1>13. CASE UNCHANGED <<running, streams, spc, starting>>
  BY <1>13
<1> QED BY <1>1, <1>2, <1>3, <1>4, <1>5, <1>6, <1>7, <1>8, <1>9, <1>10, <1>11,
            <1>12, <1>13, Writers

(* The streams shutdown() finds are all it has to stop. *)
LEMMA ShutKept ==
  ASSUME TypeOK, ShutOk, KnownOk, StartOk, [Next]_vars
  PROVE  ShutOk'
<1> USE IdTyped, ServiceAssumption
       DEF TypeOK, ShutOk, KnownOk, StartOk, registry, threads, eventLoop,
           stops, closing
<1>1. CASE Launch
  BY <1>1 DEF Launch
<1>2. ASSUME NEW i \in Instances, EndLoop(i) PROVE ShutOk'
  BY <1>2 DEF EndLoop
<1>3. ASSUME NEW k \in Stoppers, ClearFlag(k) PROVE ShutOk'
  BY <1>3 DEF ClearFlag
<1>4. ASSUME NEW k \in Stoppers, Join(k) PROVE ShutOk'
  BY <1>4 DEF Join
<1>5. ASSUME NEW k \in Stoppers, Release(k) PROVE ShutOk'
  BY <1>5 DEF Release, ReleaseLease
<1>6. ASSUME NEW k \in Stoppers, Drop(k) PROVE ShutOk'
  BY <1>6 DEF Drop, Deregister
<1>7. ASSUME NEW k \in Stoppers, NEW s \in Ids, UserStops(k, s) PROVE ShutOk'
  BY <1>7 DEF UserStops, Lookup
<1>8. ASSUME NEW k \in Stoppers, NEW s \in Ids, StopLost(k, s) PROVE ShutOk'
  BY <1>8 DEF StopLost, Lookup, NotFound
<1>9. CASE Shutdown
  BY <1>9 DEF Shutdown
<1>10. ASSUME NEW s \in Ids, StopNext(s) PROVE ShutOk'
  BY <1>10 DEF StopNext, Lookup, NotFound
<1>11. CASE ReleaseAll
  BY <1>11 DEF ReleaseAll
<1>12. CASE UNCHANGED <<phase, running, todo, kpc, kOf>>
  BY <1>12
<1> QED BY <1>1, <1>2, <1>3, <1>4, <1>5, <1>6, <1>7, <1>8, <1>9, <1>10, <1>11,
            <1>12, Writers DEF Looks

(* It returns once all are stopped, and none is started. *)
LEMMA ShutdownStopsAllKept ==
  ASSUME TypeOK, ShutdownStopsAll, ShutOk, StartOk, [Next]_vars
  PROVE  ShutdownStopsAll'
<1> USE IdTyped, ServiceAssumption
       DEF TypeOK, ShutdownStopsAll, ShutOk, StartOk, registry, threads,
           eventLoop, stops, closing
<1>1. CASE Launch
  BY <1>1 DEF Launch
<1>2. ASSUME NEW i \in Instances, EndLoop(i) PROVE ShutdownStopsAll'
  BY <1>2 DEF EndLoop
<1>3. ASSUME NEW k \in Stoppers, ClearFlag(k) PROVE ShutdownStopsAll'
  BY <1>3 DEF ClearFlag
<1>4. CASE Shutdown
  BY <1>4 DEF Shutdown
<1>5. CASE ReleaseAll
  BY <1>5 DEF ReleaseAll
<1>6. CASE UNCHANGED <<phase, running>>
  BY <1>6
<1> QED BY <1>1, <1>2, <1>3, <1>4, <1>5, <1>6, Writers

(* A lease is released when the stream of its id runs no more. *)
LEMMA LeasedUnlessStopsOverlapKept ==
  ASSUME TypeOK, LeasedUnlessStopsOverlap, KnownOk, StartOk, FlagOk, StopOk,
      OverlapOk, LeaseOk, ShutOk, [Next]_vars
  PROVE  LeasedUnlessStopsOverlap'
<1> USE IdTyped, ServiceAssumption
       DEF TypeOK, LeasedUnlessStopsOverlap, KnownOk, StartOk, FlagOk, StopOk,
           OverlapOk, LeaseOk, ShutOk, registry, threads, eventLoop, stops,
           closing
<1>1. CASE Acquire
  BY <1>1 DEF Acquire, Idle
<1>2. CASE Launch
  BY <1>2 DEF Launch
<1>3. ASSUME NEW i \in Instances, EndLoop(i) PROVE LeasedUnlessStopsOverlap'
  BY <1>3 DEF EndLoop
<1>4. ASSUME NEW i \in Instances, Finished(i) PROVE LeasedUnlessStopsOverlap'
  BY <1>4 DEF Finished, CallsBack, DropsItself, ReleaseLease
<1>5. ASSUME NEW k \in Stoppers, ClearFlag(k) PROVE LeasedUnlessStopsOverlap'
  BY <1>5 DEF ClearFlag
<1>6. ASSUME NEW k \in Stoppers, Release(k) PROVE LeasedUnlessStopsOverlap'
  BY <1>6 DEF Release, ReleaseLease
<1>7. ASSUME NEW k \in Stoppers, NEW s \in Ids, UserStops(k, s) PROVE LeasedUnlessStopsOverlap'
  BY <1>7 DEF UserStops, Lookup
<1>8. ASSUME NEW s \in Ids, LoseLease(s) PROVE LeasedUnlessStopsOverlap'
  BY <1>8 DEF LoseLease
<1>9. ASSUME NEW k \in Stoppers, NEW s \in Ids, StopLost(k, s) PROVE LeasedUnlessStopsOverlap'
  BY <1>9 DEF StopLost, Lookup, NotFound
<1>10. ASSUME NEW s \in Ids, StopNext(s) PROVE LeasedUnlessStopsOverlap'
  BY <1>10 DEF StopNext, Lookup, NotFound
<1>11. CASE ReleaseAll
  BY <1>11 DEF ReleaseAll
<1>12. CASE UNCHANGED <<running, lease, overlapped>>
  BY <1>12
<1> QED BY <1>1, <1>2, <1>3, <1>4, <1>5, <1>6, <1>7, <1>8, <1>9, <1>10, <1>11,
            <1>12, Writers DEF Looks

(* Only a stop_stream() call clears the flag of a thread in its loop, and it *)
(* waits for the thread before it goes on.                                  *)
LEMMA LoopKept ==
  ASSUME TypeOK, LoopOk, StartOk, FlagOk, OverlapOk, [Next]_vars
  PROVE  LoopOk'
<1> USE IdTyped, ServiceAssumption
       DEF TypeOK, LoopOk, StartOk, FlagOk, registry, threads, eventLoop,
           stops, closing
<1>1. CASE Launch
  BY <1>1 DEF Launch
<1>2. CASE CannotOpen
  BY <1>2 DEF CannotOpen, Idle
<1>3. ASSUME NEW i \in Instances, EndLoop(i) PROVE LoopOk'
  BY <1>3 DEF EndLoop
<1>4. ASSUME NEW i \in Instances, Finished(i) PROVE LoopOk'
  BY <1>4 DEF Finished, CallsBack, DropsItself, ReleaseLease
<1>5. ASSUME NEW k \in Stoppers, ClearFlag(k) PROVE LoopOk'
  BY <1>5 DEF ClearFlag, OverlapOk
<1>6. ASSUME NEW k \in Stoppers, Join(k) PROVE LoopOk'
  BY <1>6 DEF Join, Joined
<1>7. ASSUME NEW k \in Stoppers, Release(k) PROVE LoopOk'
  BY <1>7 DEF Release
<1>8. ASSUME NEW k \in Stoppers, Drop(k) PROVE LoopOk'
  BY <1>8 DEF Drop
<1>9. ASSUME NEW k \in Stoppers, NEW s \in Ids, UserStops(k, s) PROVE LoopOk'
  BY <1>9 DEF UserStops, Lookup
<1>10. ASSUME NEW k \in Stoppers, NEW s \in Ids, StopLost(k, s) PROVE LoopOk'
  BY <1>10 DEF StopLost, Lookup, NotFound
<1>11. ASSUME NEW s \in Ids, StopNext(s) PROVE LoopOk'
  BY <1>11 DEF StopNext, Lookup, NotFound
<1>12. CASE UNCHANGED <<tpc, running, kpc, kOf, overlapped>>
  BY <1>12
<1> QED BY <1>1, <1>2, <1>3, <1>4, <1>5, <1>6, <1>7, <1>8, <1>9, <1>10, <1>11,
            <1>12, Writers DEF Looks

-----------------------------------------------------------------------------
(* Theorems *)

(* The initial state satisfies the invariant. *)
LEMMA InitHolds == Init => TypeOK /\ ServiceInv
<1> SUFFICES ASSUME Init PROVE TypeOK /\ ServiceInv
  OBVIOUS
<1> USE ServiceAssumption, IdTyped DEF Init
<1>1. TypeOK
  BY DEF TypeOK
<1>2. RegistryOk /\ StartOk /\ LeaseOk /\ FlagOk
  BY DEF RegistryOk, StartOk, LeaseOk, FlagOk
<1>3. StopOk /\ NoStaleStopping /\ OverlapOk /\ LoopOk
  BY DEF StopOk, NoStaleStopping, OverlapOk, LoopOk
<1>4. KnownOk /\ ShutOk /\ ShutdownStopsAll /\ LeasedUnlessStopsOverlap
  BY DEF KnownOk, ShutOk, ShutdownStopsAll, LeasedUnlessStopsOverlap
<1> QED BY <1>1, <1>2, <1>3, <1>4 DEF ServiceInv

(* So does every state a step leads to. *)
LEMMA InvKept ==
  TypeOK /\ ServiceInv /\ [Next]_vars => TypeOK' /\ ServiceInv'
<1> QED BY TypeKept, RegistryKept, StartKept, LeaseKept, FlagKept, StopKept,
            NoStaleStoppingKept, OverlapKept, LoopKept, KnownKept, ShutKept,
            ShutdownStopsAllKept, LeasedUnlessStopsOverlapKept DEF ServiceInv

(* The invariant behind the properties below. *)
THEOREM ServiceInvariant == Spec => [](TypeOK /\ ServiceInv)
<1> QED BY InitHolds, InvKept, PTL DEF Spec

(* The registry and the threads' positions keep their types. *)
THEOREM TypeCorrect == Spec => []TypeOK
<1>1. TypeOK /\ ServiceInv => TypeOK
  BY DEF ServiceInv
<1> QED BY <1>1, ServiceInvariant, PTL

(* No id stays marked as being stopped once nobody stops it. *)
THEOREM StopsUnmark == Spec => []NoStaleStopping
<1>1. TypeOK /\ ServiceInv => NoStaleStopping
  BY DEF ServiceInv
<1> QED BY <1>1, ServiceInvariant, PTL

(* A stream runs under a lease, unless two stop_stream() calls for its id
   overlapped. *)
THEOREM RunsUnderLease == Spec => []LeasedUnlessStopsOverlap
<1>1. TypeOK /\ ServiceInv => LeasedUnlessStopsOverlap
  BY DEF ServiceInv
<1> QED BY <1>1, ServiceInvariant, PTL

(* When shutdown() has returned no stream runs. *)
THEOREM ShutdownIsComplete == Spec => []ShutdownStopsAll
<1>1. TypeOK /\ ServiceInv => ShutdownStopsAll
  BY DEF ServiceInv
<1> QED BY <1>1, ServiceInvariant, PTL

(* The registry never forgets a stream whose flag is set. *)
THEOREM RunningStaysRegistered == Spec => RegisteredUntilStopped
<1> DEFINE Forgets == \A s \in Ids :
      streams[s] # None /\ streams'[s] # streams[s] => ~running[streams[s]]
<1>1. ASSUME TypeOK, ServiceInv, [Next]_vars PROVE [Forgets]_streams
  <2> USE <1>1, IdTyped, ServiceAssumption DEF TypeOK, ServiceInv
  <2>1. ASSUME NEW i \in Instances \union {None}, Reap(i) PROVE Forgets
    BY <2>1 DEF Reap, Finishers
  <2>2. CASE Register
    BY <2>2 DEF Register, StartOk
  <2>3. ASSUME NEW i \in Instances, Finished(i) PROVE Forgets
    BY <2>3 DEF Finished, CallsBack, DropsItself, FlagOk
  <2>4. ASSUME NEW k \in Stoppers, Drop(k) PROVE Forgets
    BY <2>4 DEF Drop, Deregister, StopOk
  <2> QED BY <2>1, <2>2, <2>3, <2>4, Writers
<1> QED BY <1>1, ServiceInvariant, PTL DEF Spec, RegisteredUntilStopped

(* One thread at a time reads the source of an id: with joins that last as   *)
(* long as the thread does and the registry complete, a second one needs two *)
(* stop_stream() calls for the id that overlapped.                           *)
THEOREM OneThreadAtATime == Spec => []OneThreadPerId
<1>1. TypeOK /\ ServiceInv => OneThreadPerId
  <2> SUFFICES ASSUME TypeOK, ServiceInv, ~JoinExpires, RowsPruned,
                      NEW i \in Instances, NEW j \in Instances,
                      tpc[i] = "loop", tpc[j] = "loop", IdOf(i) = IdOf(j),
                      IdOf(i) \notin overlapped
               PROVE  i = j
    BY DEF OneThreadPerId
  <2>1. ASSUME NEW n \in {i, j}
        PROVE  streams[IdOf(n)] = n \/ (starting = n /\ spc \in {"launched", "recorded"})
    <3>1. CASE running[n]
      BY <3>1 DEF ServiceInv, KnownOk
    <3>2. CASE ~running[n]
      <4>1. PICK k \in Stoppers : kOf[k] = n /\ kpc[k] = "join"
        BY <3>2 DEF ServiceInv, LoopOk
      <4>2. QED
        BY <4>1 DEF ServiceInv, OverlapOk
    <3>3. QED
      BY <3>1, <3>2
  <2>2. QED
    BY <2>1, IdTyped, ServiceAssumption DEF ServiceInv, StartOk, TypeOK
<1>2. QED
  BY <1>1, ServiceInvariant, PTL
=============================================================================
