--------------------------- MODULE OwnershipProofs ---------------------------
(* Type correctness of the lease model and the safety of a lease, for every *)
(* number of replicas and leases, every TTL, interval and delay, and        *)
(* whatever fails: a lease that is fresh on its replica's own clock is the  *)
(* key in Redis, a lease whose key is gone is given up in bounded time, and *)
(* a replica that reaches Redis loses none.                                 *)
EXTENDS Ownership, TLAPS

(* The clock of a call in progress never passes the socket timeout; a       *)
(* thread that is not in a call has no lease in hand.                       *)
CallsOnTime(r) ==
  /\ ask[r] = "none" => askT[r] = 0
  /\ ask[r] # "none" => askT[r] <= Delay /\ born[r] < MaxLeases[r]
  /\ beat[r] # "wait" => beatT[r] <= Delay /\ beatOf[r] # 0 /\ alive[r] /\ ~quit[r]

(* The leases are numbered; a process that is down has none; the replica's  *)
(* key is never deleted under a registered lease or an acquire.             *)
Numbered(r) ==
  /\ born[r] \in 0 .. MaxLeases[r]
  /\ entry[r] \in 0 .. born[r]
  /\ beatOf[r] \in 0 .. born[r]
  /\ entry[r] # 0 \/ ask[r] # "none" => freeing[r] = "no" /\ alive[r]

(* An answer on its way tells how long the key still has to live.           *)
GrantCounts(r) ==
  ask[r] = "set" /\ askT[r] < TTL => owner = r /\ left + askT[r] >= TTL

RenewalCounts(r) ==
  beat[r] = "yes" /\ beatOf[r] = entry[r] /\ beatT[r] < TTL =>
    owner = r /\ left + beatT[r] >= TTL

(* So does the age of a fresh lease. *)
FreshCounts(r) ==
  Fresh(r) => owner = r /\ left + age[r][entry[r]] + Delay >= TTL

Sound(r) ==
  /\ CallsOnTime(r) /\ Numbered(r)
  /\ GrantCounts(r) /\ RenewalCounts(r) /\ FreshCounts(r)

LeaseInv == \A r \in Replicas : Sound(r)

-----------------------------------------------------------------------------
(* Type correctness *)

LEMMA TypeInit == Init => TypeOK
<1> SUFFICES ASSUME Init PROVE TypeOK
  OBVIOUS
<1>1. 0 \in 0 .. TTL /\ 0 \in 0 .. Hold
  BY OwnershipAssumption
<1>2. age \in [Replicas -> Ages]
  BY <1>1 DEF Init, Ages
<1>3. /\ owner \in Replicas \union {Nobody} /\ left \in 0 .. TTL
      /\ other \in [Replicas -> 0 .. Hold] /\ lost \in [Replicas -> SUBSET Nat]
  BY <1>1 DEF Init
<1>4. /\ alive \in [Replicas -> BOOLEAN] /\ quit \in [Replicas -> BOOLEAN]
      /\ lapsed \in [Replicas -> BOOLEAN]
  BY DEF Init
<1>5. /\ entry \in [Replicas -> Nat] /\ born \in [Replicas -> Nat]
      /\ askT \in [Replicas -> Nat] /\ beatT \in [Replicas -> Nat]
      /\ beatOf \in [Replicas -> Nat] /\ freeOf \in [Replicas -> Nat]
      /\ quitT \in [Replicas -> Nat] /\ overlap \in [Replicas -> Nat]
  BY DEF Init
<1>6. /\ ask \in [Replicas -> {"none", "sent", "set", "refused"}]
      /\ beat \in [Replicas -> {"wait", "sent", "yes", "no"}]
      /\ freeing \in [Replicas -> {"no", "popped", "deleted"}]
  BY DEF Init
<1> QED BY <1>2, <1>3, <1>4, <1>5, <1>6 DEF TypeOK

(* The ages stay within the TTL. *)
LEMMA AgeSteps ==
  /\ [n \in Nums |-> 0] \in Ages
  /\ \A a \in Ages : \A n : [a EXCEPT ![n] = 0] \in Ages
  /\ \A a \in Ages : \A S :
       [n \in Nums |-> IF n \in S /\ a[n] < TTL THEN a[n] + 1 ELSE a[n]] \in Ages
<1>1. 0 \in 0 .. TTL
  BY OwnershipAssumption
<1>2. \A k \in 0 .. TTL : k < TTL => k + 1 \in 0 .. TTL
  BY OwnershipAssumption
<1>3. [n \in Nums |-> 0] \in Ages
  BY <1>1 DEF Ages
<1>4. \A a \in Ages : \A n : [a EXCEPT ![n] = 0] \in Ages
  BY <1>1 DEF Ages
<1>5. ASSUME NEW a \in Ages, NEW S
      PROVE  [n \in Nums |-> IF n \in S /\ a[n] < TTL THEN a[n] + 1 ELSE a[n]] \in Ages
  BY <1>2 DEF Ages
<1> QED BY <1>3, <1>4, <1>5

LEMMA TypeStep == TypeOK /\ [Next]_vars => TypeOK'
<1> SUFFICES ASSUME TypeOK, [Next]_vars PROVE TypeOK'
  OBVIOUS
<1> USE OwnershipAssumption DEF TypeOK
<1>1. CASE Tick
  <2>1. owner' \in Replicas \union {Nobody}
    BY <1>1 DEF Tick
  <2>8. left' \in 0 .. TTL
    <3>1. left \in Nat /\ left <= TTL /\ TTL \in Nat
      OBVIOUS
    <3>2. left' = IF left = 0 THEN 0 ELSE left - 1
      BY <1>1 DEF Tick
    <3> QED BY ONLY <3>1, <3>2
  <2>2. age' \in [Replicas -> Ages]
    <3>1. ASSUME NEW r \in Replicas
          PROVE  [n \in Nums |-> IF n \in {entry[r], beatOf[r]} /\ age[r][n] < TTL
                                 THEN age[r][n] + 1 ELSE age[r][n]] \in Ages
      <4>1. age[r] \in Ages
        OBVIOUS
      <4> QED BY <4>1, AgeSteps
    <3>2. age' = [r \in Replicas |-> [n \in Nums |->
                    IF n \in {entry[r], beatOf[r]} /\ age[r][n] < TTL
                    THEN age[r][n] + 1 ELSE age[r][n]]]
      BY <1>1 DEF Tick
    <3> QED BY ONLY <3>1, <3>2
  <2>3. askT' \in [Replicas -> Nat] /\ beatT' \in [Replicas -> Nat]
    BY <1>1 DEF Tick
  <2>4. other' \in [Replicas -> 0 .. Hold]
    <3>1. other' = [r \in Replicas |-> IF other[r] = 0 THEN 0 ELSE other[r] - 1]
      BY <1>1 DEF Tick
    <3>2. other \in [Replicas -> 0 .. Hold] /\ Hold \in Nat
      OBVIOUS
    <3> QED BY ONLY <3>1, <3>2
  <2>5. /\ quitT' \in [Replicas -> Nat] /\ lapsed' \in [Replicas -> BOOLEAN]
        /\ overlap' \in [Replicas -> Nat]
    BY <1>1 DEF Tick
  <2>6. UNCHANGED <<alive, entry, born, lost, ask, beat, beatOf, freeing, freeOf, quit>>
    BY <1>1 DEF Tick, freeVars
  <2>7. /\ alive' \in [Replicas -> BOOLEAN] /\ quit' \in [Replicas -> BOOLEAN]
        /\ entry' \in [Replicas -> Nat] /\ born' \in [Replicas -> Nat]
        /\ lost' \in [Replicas -> SUBSET Nat]
        /\ beatOf' \in [Replicas -> Nat] /\ freeOf' \in [Replicas -> Nat]
        /\ ask' \in [Replicas -> {"none", "sent", "set", "refused"}]
        /\ beat' \in [Replicas -> {"wait", "sent", "yes", "no"}]
        /\ freeing' \in [Replicas -> {"no", "popped", "deleted"}]
    BY <2>6
  <2> QED BY <2>1, <2>2, <2>3, <2>4, <2>5, <2>7, <2>8
<1>2. ASSUME NEW r \in Replicas, Step(r) PROVE TypeOK'
  <2> USE DEF key, book, asking, beating, freeVars, quitting, history
  <2>1. CASE AskLease(r)
    BY <2>1 DEF AskLease
  <2>2. CASE SetKey(r)
    BY <2>2 DEF SetKey
  <2>3. CASE Granted(r)
    <3>1. age' \in [Replicas -> Ages]
      BY <2>3, AgeSteps DEF Granted
    <3> QED BY <2>3, <3>1 DEF Granted, EndAsk
  <2>4. CASE NotGranted(r)
    BY <2>4 DEF NotGranted, EndAsk
  <2>5. CASE LockForOther(r)
    BY <2>5 DEF LockForOther
  <2>6. CASE Pop(r)
    BY <2>6 DEF Pop
  <2>7. CASE Delete(r)
    BY <2>7 DEF Delete, DelKey, EndRelease
  <2>8. CASE DeleteFailed(r)
    BY <2>8 DEF DeleteFailed, DelKey, EndRelease
  <2>9. CASE Released(r)
    BY <2>9 DEF Released, EndRelease
  <2>10. CASE StartRound(r)
    BY <2>10 DEF StartRound
  <2>11. CASE Renew(r)
    BY <2>11 DEF Renew
  <2>12. CASE Renewed(r)
    BY <2>12, AgeSteps DEF Renewed, EndRound
  <2>13. CASE NotRenewed(r)
    BY <2>13 DEF NotRenewed, EndRound, MarkLost
  <2>14. CASE RenewalFailed(r)
    BY <2>14 DEF RenewalFailed, EndRound, MarkLost
  <2>15. CASE StopHeartbeats(r)
    BY <2>15 DEF StopHeartbeats
  <2>16. CASE Crash(r)
    BY <2>16, AgeSteps DEF Crash, EndAsk, EndRelease
  <2>17. CASE Restart(r)
    BY <2>17 DEF Restart
  <2> QED BY <1>2, <2>1, <2>2, <2>3, <2>4, <2>5, <2>6, <2>7, <2>8, <2>9, <2>10,
             <2>11, <2>12, <2>13, <2>14, <2>15, <2>16, <2>17 DEF Step
<1>3. CASE UNCHANGED vars
  BY <1>3 DEF vars, key, book, asking, beating, freeVars, quitting, history
<1> QED BY <1>1, <1>2, <1>3 DEF Next

(* Every field keeps its type whatever fails. *)
THEOREM TypeCorrect == Spec => []TypeOK
<1> QED BY TypeInit, TypeStep, PTL DEF Spec

-----------------------------------------------------------------------------
(* A fresh lease is the key *)

LEMMA LeaseInit == Init => LeaseInv
  BY OwnershipAssumption
     DEF Init, LeaseInv, Sound, CallsOnTime, Numbered, GrantCounts, RenewalCounts,
         FreshCounts, Fresh, Holds

(* What r knows stays true while r does nothing and nobody takes its key. *)
LEMMA BystanderKeeps ==
  ASSUME NEW r \in Replicas, TypeOK, Sound(r),
         ask'[r] = ask[r], askT'[r] = askT[r], born'[r] = born[r],
         entry'[r] = entry[r], lost'[r] = lost[r], age'[r] = age[r],
         beat'[r] = beat[r], beatT'[r] = beatT[r], beatOf'[r] = beatOf[r],
         freeing'[r] = freeing[r], alive'[r] = alive[r], quit'[r] = quit[r],
         owner = r => owner' = r /\ left' = left
  PROVE  Sound(r)'
  BY OwnershipAssumption
     DEF TypeOK, Sound, CallsOnTime, Numbered, GrantCounts, RenewalCounts, FreshCounts,
         Fresh, Holds

(* A step of another replica leaves r alone: it sets the key only when      *)
(* there is none, and deletes or renews only its own.                       *)
LEMMA OthersLeave ==
  ASSUME NEW r \in Replicas, NEW q \in Replicas, q # r, TypeOK, Step(q)
  PROVE  /\ owner = r => owner' = r /\ left' = left
         /\ owner # r => owner' # r
         /\ ask'[r] = ask[r] /\ askT'[r] = askT[r] /\ born'[r] = born[r]
         /\ entry'[r] = entry[r] /\ lost'[r] = lost[r] /\ age'[r] = age[r]
         /\ beat'[r] = beat[r] /\ beatT'[r] = beatT[r] /\ beatOf'[r] = beatOf[r]
         /\ freeing'[r] = freeing[r] /\ alive'[r] = alive[r] /\ quit'[r] = quit[r]
         /\ other'[r] = other[r] /\ overlap'[r] = overlap[r]
<1> USE OwnershipAssumption DEF TypeOK
<1>1. /\ owner = r => owner' = r /\ left' = left
      /\ owner # r => owner' # r
  BY DEF Step, AskLease, SetKey, Granted, NotGranted, LockForOther, Pop, Delete,
         DeleteFailed, DelKey, Released, StartRound, Renew, Renewed, NotRenewed,
         RenewalFailed, EndRound, StopHeartbeats, Crash, Restart, key
<1>2. /\ ask'[r] = ask[r] /\ askT'[r] = askT[r] /\ born'[r] = born[r]
      /\ entry'[r] = entry[r]
  BY DEF Step, AskLease, SetKey, Granted, NotGranted, LockForOther, Pop, Delete,
         DeleteFailed, EndRelease, Released, StartRound, Renew, Renewed, NotRenewed,
         RenewalFailed, EndRound, StopHeartbeats, Crash, Restart, EndAsk, asking, book
<1>3. lost'[r] = lost[r] /\ age'[r] = age[r]
  BY DEF Step, AskLease, SetKey, Granted, NotGranted, LockForOther, Pop, Delete,
         DeleteFailed, Released, StartRound, Renew, Renewed, NotRenewed,
         RenewalFailed, EndRound, MarkLost, StopHeartbeats, Crash, Restart, book
<1>4. beat'[r] = beat[r] /\ beatT'[r] = beatT[r] /\ beatOf'[r] = beatOf[r]
  BY DEF Step, AskLease, SetKey, Granted, NotGranted, LockForOther, Pop, Delete,
         DeleteFailed, Released, StartRound, Renew, Renewed, NotRenewed,
         RenewalFailed, EndRound, StopHeartbeats, Crash, Restart, beating
<1>5. freeing'[r] = freeing[r] /\ alive'[r] = alive[r] /\ quit'[r] = quit[r]
  BY DEF Step, AskLease, SetKey, Granted, NotGranted, LockForOther, Pop, Delete,
         DeleteFailed, EndRelease, Released, StartRound, Renew, Renewed, NotRenewed,
         RenewalFailed, EndRound, StopHeartbeats, Crash, Restart, freeVars, quitting
<1>6. other'[r] = other[r] /\ overlap'[r] = overlap[r]
  BY DEF Step, AskLease, SetKey, Granted, NotGranted, LockForOther, Pop, Delete,
         DeleteFailed, Released, StartRound, Renew, Renewed, NotRenewed,
         RenewalFailed, EndRound, StopHeartbeats, Crash, Restart, history
<1> QED BY <1>1, <1>2, <1>3, <1>4, <1>5, <1>6

LEMMA OthersKeep ==
  ASSUME NEW r \in Replicas, NEW q \in Replicas, q # r, TypeOK, Sound(r), Step(q)
  PROVE  Sound(r)'
  BY OthersLeave, BystanderKeeps

(* A step of r itself. *)
LEMMA OwnStepKeeps ==
  ASSUME NEW r \in Replicas, TypeOK, Sound(r), Step(r)
  PROVE  Sound(r)'
<1> USE OwnershipAssumption
    DEF TypeOK, Sound, CallsOnTime, Numbered, GrantCounts, RenewalCounts, FreshCounts,
        Fresh, Holds, key, book, asking, beating, freeVars, quitting, history
<1>1. CASE AskLease(r)
  BY <1>1 DEF AskLease, Unlocked
<1>2. CASE SetKey(r)
  BY <1>2 DEF SetKey
<1>3. CASE Granted(r)
  <2>1. /\ entry'[r] = born[r] + 1 /\ born'[r] = born[r] + 1 /\ beatOf'[r] = beatOf[r]
        /\ beat'[r] = beat[r] /\ beatT'[r] = beatT[r] /\ alive'[r] = alive[r]
        /\ quit'[r] = quit[r] /\ freeing'[r] = freeing[r]
        /\ ask'[r] = "none" /\ askT'[r] = 0
    BY <1>3 DEF Granted, EndAsk
  <2>2. owner' = owner /\ left' = left
    BY <1>3 DEF Granted
  <2>3. CallsOnTime(r)' /\ Numbered(r)' /\ GrantCounts(r)' /\ RenewalCounts(r)'
    BY <1>3, <2>1, <2>2 DEF Granted
  <2>4. age'[r][born[r] + 1] = 0
    <3>1. born[r] + 1 \in Nums
      BY <1>3 DEF Granted, Nums
    <3>2. age[r] \in Ages /\ age' = [age EXCEPT ![r][born[r] + 1] = 0]
      BY <1>3 DEF Granted
    <3> QED BY ONLY <3>1, <3>2, age \in [Replicas -> Ages], r \in Replicas DEF Ages
  <2>5. FreshCounts(r)'
    <3>1. Fresh(r)' => Delay < TTL
      BY <2>1, <2>4
    <3>2. Delay < TTL => owner = r /\ left + Delay >= TTL
      BY <1>3 DEF Granted
    <3> QED BY <2>1, <2>2, <2>4, <3>1, <3>2
  <2> QED BY <2>3, <2>5
<1>4. CASE NotGranted(r)
  BY <1>4 DEF NotGranted, EndAsk
<1>5. CASE LockForOther(r)
  BY <1>5 DEF LockForOther
<1>6. CASE Pop(r)
  BY <1>6 DEF Pop, Unlocked
<1>7. CASE Delete(r)
  BY <1>7 DEF Delete, DelKey, EndRelease
<1>8. CASE DeleteFailed(r)
  BY <1>8 DEF DeleteFailed, DelKey, EndRelease
<1>9. CASE Released(r)
  BY <1>9 DEF Released, EndRelease
<1>10. CASE StartRound(r)
  BY <1>10 DEF StartRound
<1>11. CASE Renew(r)
  <2>1. /\ UNCHANGED <<owner, alive, born, entry, lost, age, ask, askT, beatT, beatOf,
                       freeing, quit>>
        /\ beat[r] = "sent" /\ beat'[r] \in {"yes", "no"}
    BY <1>11 DEF Renew
  <2>2. owner = r => left' = TTL
    BY <1>11 DEF Renew
  <2>3. owner # r => left' = left /\ beat'[r] = "no"
    BY <1>11 DEF Renew
  <2>4. CallsOnTime(r)' /\ Numbered(r)' /\ GrantCounts(r)' /\ RenewalCounts(r)'
    BY <2>1, <2>2, <2>3
  <2>5. FreshCounts(r)'
    <3>1. Fresh(r)' => Fresh(r) /\ owner = r
      BY <2>1
    <3>2. Fresh(r) => age[r][entry[r]] \in Nat
      <4>1. Fresh(r) => entry[r] \in Nums
        BY DEF Nums
      <4>2. age[r] \in Ages
        OBVIOUS
      <4> QED BY <4>1, <4>2 DEF Ages
    <3> QED BY <2>1, <2>2, <3>1, <3>2
  <2> QED BY <2>4, <2>5
<1>12. CASE Renewed(r)
  BY <1>12 DEF Renewed, EndRound, Nums, Ages
<1>13. CASE NotRenewed(r)
  BY <1>13 DEF NotRenewed, EndRound, MarkLost
<1>14. CASE RenewalFailed(r)
  BY <1>14 DEF RenewalFailed, EndRound, MarkLost
<1>15. CASE StopHeartbeats(r)
  BY <1>15 DEF StopHeartbeats
<1>16. CASE Crash(r)
  BY <1>16 DEF Crash, EndAsk, EndRelease
<1>17. CASE Restart(r)
  BY <1>17 DEF Restart
<1> QED BY <1>1, <1>2, <1>3, <1>4, <1>5, <1>6, <1>7, <1>8, <1>9, <1>10,
           <1>11, <1>12, <1>13, <1>14, <1>15, <1>16, <1>17 DEF Step

(* Time passes on the key and on the replica's clocks alike. *)
LEMMA TickKeeps ==
  ASSUME NEW r \in Replicas, TypeOK, Sound(r), Tick
  PROVE  Sound(r)'
<1> USE OwnershipAssumption DEF TypeOK, Sound
<1>1. /\ UNCHANGED <<alive, entry, born, lost, ask, beat, beatOf, freeing, quit>>
      /\ owner' = (IF owner # Nobody /\ left = 1 THEN Nobody ELSE owner)
      /\ left' = (IF left = 0 THEN 0 ELSE left - 1)
  BY DEF Tick, Expires, freeVars
<1>2. /\ ask[r] # "none" => askT[r] < Delay /\ askT'[r] = askT[r] + 1
      /\ ask[r] = "none" => askT'[r] = askT[r]
  BY DEF Tick, Due, CallsOnTime
<1>3. beat[r] # "wait" => beatT[r] < Delay /\ beatT'[r] = beatT[r] + 1
  BY DEF Tick, Due, CallsOnTime
<1>4. owner = r /\ left >= 2 => owner' = r /\ left' = left - 1
  BY <1>1
<1>5. CallsOnTime(r)' /\ Numbered(r)'
  BY <1>1, <1>2, <1>3 DEF CallsOnTime, Numbered
<1>6. GrantCounts(r)' /\ RenewalCounts(r)'
  BY <1>1, <1>2, <1>3, <1>4 DEF GrantCounts, RenewalCounts
<1>7. FreshCounts(r)'
  <2> SUFFICES ASSUME Fresh(r)'
               PROVE  owner' = r /\ left' + age'[r][entry'[r]] + Delay >= TTL
    BY DEF FreshCounts
  <2>1. entry[r] \in Nums /\ Holds(r) /\ age'[r][entry[r]] + Delay < TTL
    BY <1>1 DEF Fresh, Holds, Numbered, Nums
  <2>2. age[r][entry[r]] \in Nat
    BY <2>1 DEF Ages
  <2>3. age'[r][entry[r]] = IF age[r][entry[r]] < TTL THEN age[r][entry[r]] + 1
                            ELSE age[r][entry[r]]
    BY <2>1 DEF Tick
  <2>4. Fresh(r) /\ age'[r][entry[r]] = age[r][entry[r]] + 1
    BY <2>1, <2>2, <2>3 DEF Fresh
  <2>5. owner = r /\ left + age[r][entry[r]] + Delay >= TTL
    BY <2>4 DEF FreshCounts
  <2> QED BY <1>1, <1>4, <2>1, <2>2, <2>4, <2>5
<1> QED BY <1>5, <1>6, <1>7

LEMMA LeaseStep == TypeOK /\ LeaseInv /\ [Next]_vars => LeaseInv'
<1> SUFFICES ASSUME TypeOK, LeaseInv, [Next]_vars, NEW r \in Replicas PROVE Sound(r)'
  BY DEF LeaseInv
<1>1. Sound(r)
  BY DEF LeaseInv
<1>2. CASE Tick
  BY <1>1, <1>2, TickKeeps
<1>3. ASSUME NEW q \in Replicas, Step(q) PROVE Sound(r)'
  BY <1>1, <1>3, OthersKeep, OwnStepKeeps
<1>4. CASE UNCHANGED vars
  BY <1>1, <1>4, BystanderKeeps
     DEF vars, key, book, asking, beating, freeVars, quitting
<1> QED BY <1>2, <1>3, <1>4 DEF Next

(* The invariant behind the property below. *)
THEOREM LeaseInvariant == Spec => [](TypeOK /\ LeaseInv)
<1> QED BY TypeInit, TypeStep, LeaseInit, LeaseStep, PTL DEF Spec

(* A lease that is fresh on its replica's own clock is the key in Redis. *)
THEOREM FreshLeaseIsSafe == Spec => []FreshLeaseOwnsKey
<1>1. TypeOK /\ LeaseInv => FreshLeaseOwnsKey
  BY DEF LeaseInv, Sound, FreshCounts, FreshLeaseOwnsKey
<1> QED BY <1>1, LeaseInvariant, PTL

-----------------------------------------------------------------------------
(* How long a replica runs the stream without its key, and the renewals of  *)
(* one that reaches Redis                                                   *)

(* A replica does not ask for a lease it has, and it asks after the round   *)
(* of the heartbeat has begun: the round's clock is ahead of the call's.    *)
CallsInOrder(r) ==
  /\ Holds(r) => ask[r] = "none"
  /\ ask[r] # "none" /\ beat[r] # "wait" => askT[r] <= beatT[r]
  /\ ask[r] # "none" /\ askT[r] > 0 => overlap[r] = 0
  /\ beat[r] = "wait" => beatT[r] <= Beat

(* The round in progress is about an earlier lease: the present one was     *)
(* granted during the round.                                                *)
OldRound(r) == beat[r] # "wait" /\ beatOf[r] # entry[r]

GrantedInRound(r) ==
  Holds(r) /\ OldRound(r) /\ owner = r => left + beatT[r] >= TTL

(* The bounds on the time without the key.  While the lease is not stale    *)
(* its age tells; once it is stale the round in progress or the next one    *)
(* ends it.                                                                 *)
StrayYoung(r) ==
  Stray(r) /\ age[r][entry[r]] < TTL => overlap[r] + TTL <= age[r][entry[r]] + Delay

StrayLate(r) ==
  Stray(r) /\ (OldRound(r) \/ beat[r] = "yes") => overlap[r] + TTL <= beatT[r]

StrayWaiting(r) ==
  Stray(r) /\ age[r][entry[r]] >= TTL /\ beat[r] = "wait" =>
    /\ beatT[r] < Beat => overlap[r] + 1 <= Delay + beatT[r]
    /\ beatT[r] = Beat => overlap[r] + other[r] + 2 <= Delay + Beat + Hold

StrayInRound(r) ==
  Stray(r) /\ age[r][entry[r]] >= TTL /\ beat[r] # "wait" /\ beatOf[r] = entry[r] =>
    overlap[r] + 2 <= Delay + Beat + Hold + beatT[r]

Window(r) ==
  /\ CallsInOrder(r) /\ GrantedInRound(r) /\ overlap[r] + 1 < Beat + Hold + 2 * Delay
  /\ StrayYoung(r) /\ StrayLate(r) /\ StrayWaiting(r) /\ StrayInRound(r)

StrayInv == \A r \in Replicas : Window(r)

(* How long the key of a replica that reaches Redis still has to live, by   *)
(* the position of its heartbeat thread.                                    *)
Kept(r) ==
  /\ owner = r
  /\ beat[r] = "wait" /\ beatT[r] < Beat => left + Delay + beatT[r] >= TTL
  /\ beat[r] = "wait" /\ beatT[r] = Beat => left + Delay + Beat + Hold > TTL + other[r]
  /\ beat[r] # "wait" /\ beatOf[r] = entry[r] => left + Delay + Beat + Hold + beatT[r] > TTL

Healthy(r) ==
  Beat + Hold + 2 * Delay <= TTL /\ r \notin Faulty /\ Holds(r) /\ ~quit[r] => Kept(r)

HealthyInv == \A r \in Replicas : Healthy(r)

LEMMA StrayInit == Init => StrayInv /\ HealthyInv
  BY OwnershipAssumption
     DEF Init, StrayInv, Window, CallsInOrder, GrantedInRound, StrayYoung, StrayLate,
         StrayWaiting, StrayInRound, OldRound, Stray, HealthyInv, Healthy, Holds

LEMMA AgeIsBounded ==
  ASSUME NEW r \in Replicas, TypeOK, Sound(r), entry[r] # 0
  PROVE  entry[r] \in Nums /\ age[r][entry[r]] \in 0 .. TTL
<1>1. entry[r] \in Nums
  BY OwnershipAssumption DEF TypeOK, Sound, Numbered, Nums
<1> QED BY <1>1 DEF TypeOK, Ages

(* A step that leaves everything of r alone. *)
LEMMA WindowBystander ==
  ASSUME NEW r \in Replicas, TypeOK, Window(r), Healthy(r),
         ask'[r] = ask[r], askT'[r] = askT[r],
         entry'[r] = entry[r], lost'[r] = lost[r], age'[r] = age[r],
         beat'[r] = beat[r], beatT'[r] = beatT[r], beatOf'[r] = beatOf[r],
         alive'[r] = alive[r], quit'[r] = quit[r],
         other'[r] = other[r], overlap'[r] = overlap[r],
         owner = r => owner' = r /\ left' = left,
         owner # r => owner' # r
  PROVE  Window(r)' /\ Healthy(r)'
<1> USE OwnershipAssumption DEF TypeOK
<1>1. Window(r)'
  BY DEF Window, CallsInOrder, GrantedInRound, StrayYoung, StrayLate,
         StrayWaiting, StrayInRound, OldRound, Stray, Holds
<1>2. Healthy(r)'
  BY DEF Healthy, Kept, Holds
<1> QED BY <1>1, <1>2

LEMMA OwnStepWindow ==
  ASSUME NEW r \in Replicas, TypeOK, Sound(r), Window(r), Healthy(r), Step(r)
  PROVE  Window(r)'
<1> USE OwnershipAssumption
    DEF TypeOK, CallsOnTime, Numbered, GrantCounts, RenewalCounts, FreshCounts,
        Fresh, Holds, key, book, asking, beating, freeVars, quitting, history,
        Window, CallsInOrder, GrantedInRound, StrayYoung, StrayLate,
         StrayWaiting, StrayInRound, OldRound, Stray
<1>0. /\ CallsOnTime(r) /\ Numbered(r) /\ GrantCounts(r) /\ RenewalCounts(r) /\ FreshCounts(r)
  BY DEF Sound
<1>1. CASE AskLease(r)
  BY <1>0, <1>1 DEF AskLease, Unlocked
<1>2. CASE SetKey(r)
  BY <1>0, <1>2 DEF SetKey
<1>4. CASE NotGranted(r)
  BY <1>0, <1>4 DEF NotGranted, EndAsk
<1>5. CASE LockForOther(r)
  BY <1>0, <1>5 DEF LockForOther, Unlocked
<1>6. CASE Pop(r)
  BY <1>0, <1>6 DEF Pop, Unlocked
<1>7. CASE Delete(r)
  BY <1>0, <1>7 DEF Delete, DelKey, EndRelease
<1>8. CASE DeleteFailed(r)
  BY <1>0, <1>8 DEF DeleteFailed, DelKey, EndRelease
<1>9. CASE Released(r)
  BY <1>0, <1>9 DEF Released, EndRelease
<1>10. CASE StartRound(r)
  BY <1>0, <1>10 DEF StartRound, Unlocked
<1>11. CASE Renew(r)
  BY <1>0, <1>11 DEF Renew
<1>13. CASE NotRenewed(r)
  BY <1>0, <1>13 DEF NotRenewed, EndRound, MarkLost
<1>14. CASE RenewalFailed(r)
  BY <1>0, <1>14 DEF RenewalFailed, EndRound, MarkLost, Stale
<1>15. CASE StopHeartbeats(r)
  BY <1>0, <1>15 DEF StopHeartbeats
<1>16. CASE Crash(r)
  BY <1>0, <1>16 DEF Crash, EndAsk, EndRelease
<1>17. CASE Restart(r)
  BY <1>0, <1>17 DEF Restart
<1>3. CASE Granted(r)
  <2>1. /\ entry'[r] = born[r] + 1 /\ beatOf'[r] = beatOf[r] /\ beat'[r] = beat[r]
        /\ beatT'[r] = beatT[r] /\ alive'[r] = alive[r] /\ quit'[r] = quit[r]
        /\ other'[r] = other[r] /\ overlap'[r] = overlap[r] /\ lost'[r] = lost[r]
        /\ ask'[r] = "none" /\ askT'[r] = 0 /\ owner' = owner /\ left' = left
    BY <1>3 DEF Granted, EndAsk
  <2>2. age'[r][born[r] + 1] = 0
    <3>1. born[r] + 1 \in Nums
      BY <1>0, <1>3 DEF Granted, Nums
    <3>2. age[r] \in Ages /\ age' = [age EXCEPT ![r][born[r] + 1] = 0]
      BY <1>3 DEF Granted
    <3> QED BY ONLY <3>1, <3>2, age \in [Replicas -> Ages], r \in Replicas DEF Ages
  <2>3. CallsInOrder(r)' /\ overlap'[r] + 1 < Beat + Hold + 2 * Delay
    BY <2>1
  <2>4. beatOf[r] # born[r] + 1 /\ ask[r] = "set" /\ askT[r] <= Delay
    BY <1>0, <1>3 DEF Granted
  <2>5. beat[r] # "wait" => askT[r] <= beatT[r]
    BY <2>4
  <2>6. owner # r => askT[r] >= TTL /\ overlap[r] = 0
    BY <1>0, <2>4
  <2>7. GrantedInRound(r)'
    BY <1>0, <2>1, <2>4, <2>5
  <2>8. StrayYoung(r)' /\ StrayLate(r)' /\ StrayWaiting(r)' /\ StrayInRound(r)'
    <3>1. age'[r][entry'[r]] = 0
      BY <2>1, <2>2
    <3>2. ~(0 >= TTL)
      OBVIOUS
    <3>3. CASE owner = r
      BY <3>3, <2>1
    <3>4. CASE owner # r
      <4>1. askT[r] >= TTL /\ overlap'[r] = 0 /\ TTL <= Delay
        BY <2>1, <2>4, <2>6, <3>4
      <4>2. StrayYoung(r)'
        BY <4>1, <3>1
      <4>3. StrayWaiting(r)' /\ StrayInRound(r)'
        BY <3>1, <3>2
      <4>4. StrayLate(r)'
        <5>1. OldRound(r)' \/ beat'[r] = "yes" => beat[r] # "wait"
          BY <2>1
        <5> QED BY <5>1, <4>1, <2>1, <2>5
      <4> QED BY <4>2, <4>3, <4>4
    <3> QED BY <3>3, <3>4
  <2> QED BY <2>3, <2>7, <2>8
<1>12. CASE Renewed(r)
  BY <1>0, <1>12 DEF Renewed, EndRound, Nums, Ages
<1> QED BY <1>1, <1>2, <1>3, <1>4, <1>5, <1>6, <1>7, <1>8, <1>9, <1>10,
           <1>11, <1>12, <1>13, <1>14, <1>15, <1>16, <1>17 DEF Step

LEMMA OwnStepHealthy ==
  ASSUME NEW r \in Replicas, TypeOK, Sound(r), Window(r), Healthy(r), Step(r)
  PROVE  Healthy(r)'
<1> USE OwnershipAssumption
    DEF TypeOK, CallsOnTime, Numbered, GrantCounts, RenewalCounts,
        Holds, key, book, asking, beating, freeVars, quitting, history,
        CallsInOrder, GrantedInRound, OldRound, Healthy, Kept
<1>0. /\ CallsOnTime(r) /\ Numbered(r) /\ GrantCounts(r) /\ RenewalCounts(r)
      /\ CallsInOrder(r) /\ GrantedInRound(r)
  BY DEF Sound, Window
<1>1. CASE AskLease(r)
  BY <1>0, <1>1 DEF AskLease, Unlocked
<1>2. CASE SetKey(r)
  BY <1>0, <1>2 DEF SetKey
<1>3. CASE Granted(r)
  BY <1>0, <1>3 DEF Granted, EndAsk
<1>4. CASE NotGranted(r)
  BY <1>0, <1>4 DEF NotGranted, EndAsk
<1>5. CASE LockForOther(r)
  BY <1>0, <1>5 DEF LockForOther, Unlocked
<1>6. CASE Pop(r)
  BY <1>0, <1>6 DEF Pop, Unlocked
<1>7. CASE Delete(r)
  BY <1>0, <1>7 DEF Delete, DelKey, EndRelease
<1>8. CASE DeleteFailed(r)
  BY <1>0, <1>8 DEF DeleteFailed, DelKey, EndRelease
<1>9. CASE Released(r)
  BY <1>0, <1>9 DEF Released, EndRelease
<1>10. CASE StartRound(r)
  BY <1>0, <1>10 DEF StartRound, Unlocked
<1>11. CASE Renew(r)
  BY <1>0, <1>11 DEF Renew
<1>12. CASE Renewed(r)
  BY <1>0, <1>12 DEF Renewed, EndRound
<1>13. CASE NotRenewed(r)
  BY <1>0, <1>13 DEF NotRenewed, EndRound, MarkLost
<1>14. CASE RenewalFailed(r)
  BY <1>0, <1>14 DEF RenewalFailed, EndRound, MarkLost
<1>15. CASE StopHeartbeats(r)
  BY <1>0, <1>15 DEF StopHeartbeats
<1>16. CASE Crash(r)
  BY <1>0, <1>16 DEF Crash, EndAsk, EndRelease
<1>17. CASE Restart(r)
  BY <1>0, <1>17 DEF Restart
<1> QED BY <1>1, <1>2, <1>3, <1>4, <1>5, <1>6, <1>7, <1>8, <1>9, <1>10,
           <1>11, <1>12, <1>13, <1>14, <1>15, <1>16, <1>17 DEF Step

(* What a tick does to the clocks of one replica. *)
LEMMA TickOf ==
  ASSUME NEW r \in Replicas, TypeOK, Tick
  PROVE  /\ UNCHANGED <<alive, entry, born, lost, ask, beat, beatOf, freeing, quit>>
         /\ owner' = (IF owner # Nobody /\ left = 1 THEN Nobody ELSE owner)
         /\ left' = (IF left = 0 THEN 0 ELSE left - 1)
         /\ ask[r] # "none" => askT[r] < Delay /\ askT'[r] = askT[r] + 1
         /\ ask[r] = "none" => askT'[r] = askT[r]
         /\ beat[r] # "wait" => beatT[r] < Delay
         /\ alive[r] /\ ~quit[r] /\ ~(beat[r] = "wait" /\ beatT[r] = Beat) =>
              beatT'[r] = beatT[r] + 1
         /\ ~alive[r] \/ quit[r] \/ (beat[r] = "wait" /\ beatT[r] = Beat) =>
              beatT'[r] = beatT[r]
         /\ alive[r] /\ ~quit[r] /\ beat[r] = "wait" /\ beatT[r] >= Beat => ~Unlocked(r)
         /\ other'[r] = (IF other[r] = 0 THEN 0 ELSE other[r] - 1)
         /\ overlap'[r] = (IF Stray(r) THEN overlap[r] + 1 ELSE 0)
<1> USE OwnershipAssumption DEF TypeOK
<1>1. /\ UNCHANGED <<alive, entry, born, lost, ask, beat, beatOf, freeing, quit>>
      /\ owner' = (IF owner # Nobody /\ left = 1 THEN Nobody ELSE owner)
      /\ left' = (IF left = 0 THEN 0 ELSE left - 1)
  BY DEF Tick, Expires, freeVars
<1>2. /\ ask[r] # "none" => askT[r] < Delay /\ askT'[r] = askT[r] + 1
      /\ ask[r] = "none" => askT'[r] = askT[r]
  BY DEF Tick, Due
<1>3. beat[r] # "wait" => beatT[r] < Delay
  BY DEF Tick, Due
<1>4. /\ alive[r] /\ ~quit[r] /\ ~(beat[r] = "wait" /\ beatT[r] = Beat) =>
           beatT'[r] = beatT[r] + 1
      /\ ~alive[r] \/ quit[r] \/ (beat[r] = "wait" /\ beatT[r] = Beat) =>
           beatT'[r] = beatT[r]
  BY DEF Tick
<1>5. alive[r] /\ ~quit[r] /\ beat[r] = "wait" /\ beatT[r] >= Beat => ~Unlocked(r)
  BY DEF Tick, Due
<1>6. /\ other'[r] = (IF other[r] = 0 THEN 0 ELSE other[r] - 1)
      /\ overlap'[r] = (IF Stray(r) THEN overlap[r] + 1 ELSE 0)
  BY DEF Tick
<1> QED BY <1>1, <1>2, <1>3, <1>4, <1>5, <1>6

LEMMA TickHealthy ==
  ASSUME NEW r \in Replicas, TypeOK, Sound(r), Window(r), Healthy(r), Tick
  PROVE  Healthy(r)'
<1> USE OwnershipAssumption
<1>1. SUFFICES ASSUME Beat + Hold + 2 * Delay <= TTL, r \notin Faulty, Holds(r)', ~quit'[r]
               PROVE  Kept(r)'
  BY DEF Healthy
<1>2. Holds(r) /\ ~quit[r] /\ Kept(r) /\ ask[r] = "none" /\ alive[r]
  BY <1>1, TickOf DEF Holds, Healthy, Window, CallsInOrder
<1>3. left \in Nat /\ beatT[r] \in Nat /\ other[r] \in 0 .. Hold
  BY DEF TypeOK
<1>4. CASE beat[r] = "wait" /\ beatT[r] < Beat
  BY <1>1, <1>2, <1>3, <1>4, TickOf DEF Kept
<1>5. CASE beat[r] = "wait" /\ beatT[r] = Beat
  <2>1. other[r] >= 1
    BY <1>2, <1>3, <1>5, TickOf DEF Unlocked
  <2> QED BY <1>1, <1>2, <1>3, <1>5, <2>1, TickOf DEF Kept
<1>6. CASE beat[r] # "wait" /\ beatOf[r] = entry[r]
  BY <1>1, <1>2, <1>3, <1>6, TickOf DEF Kept
<1>7. CASE OldRound(r)
  <2>1. left + beatT[r] >= TTL /\ beatT[r] < Delay
    BY <1>2, <1>7, TickOf DEF Window, GrantedInRound, OldRound, Kept
  <2> QED BY <1>1, <1>2, <1>3, <1>7, <2>1, TickOf DEF Kept, OldRound
<1>8. beat[r] = "wait" => beatT[r] <= Beat
  BY DEF Window, CallsInOrder
<1> QED BY <1>3, <1>4, <1>5, <1>6, <1>7, <1>8 DEF OldRound

LEMMA TickWindow ==
  ASSUME NEW r \in Replicas, TypeOK, Sound(r), Sound(r)', Window(r), Tick
  PROVE  Window(r)'
<1> USE OwnershipAssumption
<1> DEFINE a == age[r][entry[r]]
<1>1. /\ left \in 0 .. TTL /\ askT[r] \in Nat /\ beatT[r] \in Nat /\ overlap[r] \in Nat
      /\ other[r] \in 0 .. Hold
  BY DEF TypeOK
<1>2. beat[r] # "wait" => alive[r] /\ ~quit[r] /\ beatT'[r] = beatT[r] + 1 /\ beatT[r] < Delay
  BY TickOf DEF Sound, CallsOnTime
<1>3. ask[r] # "none" => ~Holds(r)
  BY DEF Window, CallsInOrder
<1>4. CallsInOrder(r)'
  BY <1>1, <1>2, <1>3, TickOf DEF Window, CallsInOrder, Holds, Stray
<1>5. GrantedInRound(r)'
  <2> SUFFICES ASSUME Holds(r)', OldRound(r)', owner' = r
               PROVE  left' + beatT'[r] >= TTL
    BY DEF GrantedInRound
  <2>1. Holds(r) /\ OldRound(r) /\ owner = r
    BY TickOf DEF Holds, OldRound
  <2>2. left + beatT[r] >= TTL
    BY <2>1 DEF Window, GrantedInRound
  <2> QED BY <1>1, <1>2, <2>1, <2>2, TickOf DEF OldRound
<1>6. Stray(r) => Stray(r)' /\ overlap'[r] = overlap[r] + 1
  BY TickOf DEF Stray, Holds
<1>7. Stray(r)' => Stray(r) \/ (Holds(r) /\ ~quit[r] /\ owner = r /\ left = 1 /\ overlap'[r] = 0)
  BY TickOf DEF Stray, Holds
<1>8. Holds(r) => a \in 0 .. TTL /\ age'[r][entry'[r]] = (IF a < TTL THEN a + 1 ELSE a)
  <2>1. ASSUME Holds(r) PROVE entry[r] \in Nums /\ a \in 0 .. TTL
    BY <2>1, AgeIsBounded DEF Holds
  <2> QED BY <2>1, TickOf DEF Tick, TypeOK
<1>9. /\ Holds(r) /\ OldRound(r) /\ owner = r => left + beatT[r] >= TTL
      /\ beat[r] = "yes" /\ beatOf[r] = entry[r] /\ beatT[r] < TTL => owner = r /\ left + beatT[r] >= TTL
  BY DEF Window, GrantedInRound, Sound, RenewalCounts
<1>10. StrayYoung(r)'
  <2> SUFFICES ASSUME Stray(r)', age'[r][entry'[r]] < TTL
               PROVE  overlap'[r] + TTL <= age'[r][entry'[r]] + Delay
    BY DEF StrayYoung
  <2>1. CASE Stray(r)
    <3>1. Holds(r) /\ a < TTL /\ overlap[r] + TTL <= a + Delay
      BY <1>8, <2>1 DEF Window, StrayYoung, Stray
    <3> QED BY <1>1, <1>6, <1>8, <2>1, <3>1
  <2>2. CASE ~Stray(r)
    <3>1. overlap'[r] = 0 /\ owner' # r /\ Holds(r)'
      BY <1>7, <2>2 DEF Stray
    <3>2. ~Fresh(r)'
      BY <3>1 DEF Sound, FreshCounts
    <3>3. age'[r][entry'[r]] + Delay >= TTL
      <4>1. age'[r][entry'[r]] \in Nat
        BY <1>7, <1>8, <2>2
      <4> QED BY <3>1, <3>2, <4>1 DEF Fresh
    <3> QED BY <3>1, <3>3
  <2> QED BY <2>1, <2>2
<1>11. StrayLate(r)'
  <2> SUFFICES ASSUME Stray(r)', OldRound(r)' \/ beat'[r] = "yes"
               PROVE  overlap'[r] + TTL <= beatT'[r]
    BY DEF StrayLate
  <2>1. /\ OldRound(r) \/ beat[r] = "yes"
        /\ beatT'[r] = beatT[r] + 1
    BY <1>2, TickOf DEF OldRound
  <2>2. CASE Stray(r)
    <3>1. overlap[r] + TTL <= beatT[r]
      BY <2>1, <2>2 DEF Window, StrayLate
    <3> QED BY <1>1, <1>6, <2>1, <2>2, <3>1
  <2>3. CASE ~Stray(r)
    <3>1. overlap'[r] = 0 /\ owner = r /\ left = 1 /\ Holds(r)
      BY <1>7, <2>3
    <3>2. 1 + beatT[r] >= TTL
      BY <1>1, <1>9, <2>1, <3>1 DEF OldRound
    <3> QED BY <1>1, <2>1, <3>1, <3>2
  <2> QED BY <2>2, <2>3
<1>12. Stray(r)' /\ ~(Stray(r) /\ a >= TTL) => overlap'[r] <= Delay
  <2>1. CASE Stray(r)
    <3>1. a < TTL => overlap[r] + TTL <= a + Delay
      BY <2>1 DEF Window, StrayYoung
    <3>2. a \in Nat
      BY <1>8, <2>1 DEF Stray
    <3> QED BY <1>1, <1>6, <2>1, <3>1, <3>2
  <2>2. CASE ~Stray(r)
    BY <1>7, <2>2
  <2> QED BY <2>1, <2>2
<1>13. overlap'[r] \in Nat /\ beatT'[r] \in Nat /\ other'[r] \in Nat /\ other'[r] < Hold
  BY <1>1, TickOf
<1>14. StrayWaiting(r)'
  <2> SUFFICES ASSUME Stray(r)', beat'[r] = "wait"
               PROVE  /\ beatT'[r] < Beat => overlap'[r] + 1 <= Delay + beatT'[r]
                      /\ beatT'[r] = Beat => overlap'[r] + other'[r] + 2 <= Delay + Beat + Hold
    BY DEF StrayWaiting
  <2>1. beat[r] = "wait" /\ alive[r] /\ ~quit[r] /\ ask[r] = "none"
    BY <1>3, TickOf DEF Stray, Holds
  <2>2. beatT'[r] = (IF beatT[r] = Beat THEN beatT[r] ELSE beatT[r] + 1) /\ beatT[r] <= Beat
    BY <2>1, TickOf DEF Window, CallsInOrder
  <2>3. CASE Stray(r) /\ a >= TTL
    <3>1. /\ beatT[r] < Beat => overlap[r] + 1 <= Delay + beatT[r]
          /\ beatT[r] = Beat => overlap[r] + other[r] + 2 <= Delay + Beat + Hold
      BY <2>1, <2>3 DEF Window, StrayWaiting
    <3>2. overlap'[r] = overlap[r] + 1
      BY <1>6, <2>3
    <3>3. beatT[r] = Beat => other[r] >= 1 /\ other'[r] = other[r] - 1
      BY <1>1, <2>1, TickOf DEF Unlocked
    <3> QED BY <1>1, <1>13, <2>2, <3>1, <3>2, <3>3
  <2>4. CASE ~(Stray(r) /\ a >= TTL)
    <3>1. overlap'[r] <= Delay
      BY <1>12, <2>4
    <3> QED BY <1>1, <1>13, <2>2, <3>1
  <2> QED BY <2>3, <2>4
<1>15. StrayInRound(r)'
  <2> SUFFICES ASSUME Stray(r)', beat'[r] # "wait", beatOf'[r] = entry'[r]
               PROVE  overlap'[r] + 2 <= Delay + Beat + Hold + beatT'[r]
    BY DEF StrayInRound
  <2>1. beat[r] # "wait" /\ beatOf[r] = entry[r]
    BY TickOf
  <2>2. CASE Stray(r) /\ a >= TTL
    <3>1. overlap[r] + 2 <= Delay + Beat + Hold + beatT[r]
      BY <2>1, <2>2 DEF Window, StrayInRound
    <3> QED BY <1>1, <1>2, <1>6, <2>1, <2>2, <3>1
  <2>3. CASE ~(Stray(r) /\ a >= TTL)
    BY <1>12, <1>13, <2>3
  <2> QED BY <2>2, <2>3
<1>16. overlap'[r] + 1 < Beat + Hold + 2 * Delay
  <2>1. CASE ~Stray(r)'
    <3>1. overlap'[r] = 0
      BY <1>6, <2>1, TickOf
    <3> QED BY <3>1
  <2>2. CASE Stray(r)' /\ age'[r][entry'[r]] < TTL
    <3>1. overlap'[r] + TTL <= age'[r][entry'[r]] + Delay /\ age'[r][entry'[r]] \in Nat
      BY <1>7, <1>8, <1>10, <2>2 DEF StrayYoung, Stray
    <3> QED BY <1>13, <2>2, <3>1
  <2>3. CASE Stray(r)' /\ age'[r][entry'[r]] >= TTL /\ beat'[r] = "wait"
    <3>1. /\ beatT'[r] < Beat => overlap'[r] + 1 <= Delay + beatT'[r]
          /\ beatT'[r] = Beat => overlap'[r] + other'[r] + 2 <= Delay + Beat + Hold
      BY <1>14, <2>3 DEF StrayWaiting
    <3>2. beatT'[r] <= Beat
      BY <1>4, <2>3 DEF CallsInOrder
    <3> QED BY <1>13, <3>1, <3>2
  <2>4. CASE Stray(r)' /\ age'[r][entry'[r]] >= TTL /\ beat'[r] # "wait"
    <3>1. beatT'[r] <= Delay
      BY <1>1, <1>2, <2>4, TickOf
    <3>2. beatOf'[r] = entry'[r] => overlap'[r] + 2 <= Delay + Beat + Hold + beatT'[r]
      BY <1>15, <2>4 DEF StrayInRound
    <3>3. beatOf'[r] # entry'[r] => overlap'[r] + TTL <= beatT'[r]
      BY <1>11, <2>4 DEF StrayLate, OldRound
    <3> QED BY <1>13, <3>1, <3>2, <3>3
  <2>5. Stray(r)' => age'[r][entry'[r]] \in Nat
    BY <1>7, <1>8 DEF Stray
  <2> QED BY <2>1, <2>2, <2>3, <2>4, <2>5
<1> QED BY <1>4, <1>5, <1>10, <1>11, <1>14, <1>15, <1>16 DEF Window

LEMMA WindowStep ==
  TypeOK /\ LeaseInv /\ LeaseInv' /\ StrayInv /\ HealthyInv /\ [Next]_vars
    => StrayInv' /\ HealthyInv'
<1> SUFFICES ASSUME TypeOK, LeaseInv, LeaseInv', StrayInv, HealthyInv, [Next]_vars,
                    NEW r \in Replicas
             PROVE  Window(r)' /\ Healthy(r)'
  BY DEF StrayInv, HealthyInv
<1>1. Sound(r) /\ Sound(r)' /\ Window(r) /\ Healthy(r)
  BY DEF LeaseInv, StrayInv, HealthyInv
<1>2. CASE Tick
  BY <1>1, <1>2, TickWindow, TickHealthy
<1>3. ASSUME NEW q \in Replicas, Step(q) PROVE Window(r)' /\ Healthy(r)'
  <2>1. CASE q = r
    BY <1>1, <1>3, <2>1, OwnStepWindow, OwnStepHealthy
  <2>2. CASE q # r
    BY <1>1, <1>3, <2>2, OthersLeave, WindowBystander
  <2> QED BY <2>1, <2>2
<1>4. CASE UNCHANGED vars
  BY <1>1, <1>4, WindowBystander
     DEF vars, key, book, asking, beating, freeVars, quitting, history
<1> QED BY <1>2, <1>3, <1>4 DEF Next

(* The invariant behind the two properties below. *)
THEOREM WindowInvariant == Spec => [](StrayInv /\ HealthyInv)
<1>1. TypeOK /\ LeaseInv /\ StrayInv /\ HealthyInv /\ [Next]_vars
        => TypeOK' /\ LeaseInv' /\ StrayInv' /\ HealthyInv'
  BY TypeStep, LeaseStep, WindowStep
<1> QED BY <1>1, TypeInit, LeaseInit, StrayInit, PTL DEF Spec

(* A replica that lost its key runs the stream for less than one heartbeat  *)
(* interval, the wait for the manager's lock and two socket timeouts,       *)
(* whatever calls fail or lose their answers and however long the TTL is.   *)
THEOREM DuplicateRunsAreBounded == Spec => []OverlapBounded
<1>1. StrayInv => OverlapBounded
  BY DEF StrayInv, Window, OverlapBounded
<1> QED BY <1>1, WindowInvariant, PTL

(* A replica that reaches Redis keeps the key of every stream it runs, if   *)
(* the TTL covers that time, whatever the other replicas do.                *)
THEOREM HealthyReplicaKeepsItsLease == Spec => []HealthyLeaseIsKept
<1>1. HealthyInv => HealthyLeaseIsKept
  BY DEF HealthyInv, Healthy, Kept, HealthyLeaseIsKept
<1> QED BY <1>1, WindowInvariant, PTL

-----------------------------------------------------------------------------
(* A loss is real *)

(* A registered lease whose key is not there has lapsed, and so has one     *)
(* whose renewal was refused; a lease that is being released has a number.  *)
LapseInv ==
  \A r \in Replicas :
    /\ entry[r] # 0 /\ owner # r => lapsed[r]
    /\ beat[r] = "no" /\ beatOf[r] = entry[r] => lapsed[r]
    /\ freeing[r] # "no" => freeOf[r] # 0

LEMMA LapseStep == TypeOK /\ LeaseInv /\ LapseInv /\ [Next]_vars => LapseInv'
<1> SUFFICES ASSUME TypeOK, LeaseInv, LapseInv, [Next]_vars, NEW r \in Replicas
             PROVE  /\ entry'[r] # 0 /\ owner' # r => lapsed'[r]
                    /\ beat'[r] = "no" /\ beatOf'[r] = entry'[r] => lapsed'[r]
                    /\ freeing'[r] # "no" => freeOf'[r] # 0
  BY DEF LapseInv
<1> USE OwnershipAssumption DEF TypeOK
<1>1. /\ entry[r] # 0 /\ owner # r => lapsed[r]
      /\ beat[r] = "no" /\ beatOf[r] = entry[r] => lapsed[r]
      /\ freeing[r] # "no" => freeOf[r] # 0
  BY DEF LapseInv
<1>2. CallsOnTime(r) /\ Numbered(r)
  BY DEF LeaseInv, Sound
<1>3. CASE Tick
  BY <1>1, <1>3 DEF Tick, Expires, freeVars
<1>4. ASSUME NEW q \in Replicas, q # r, Step(q)
      PROVE  /\ entry'[r] # 0 /\ owner' # r => lapsed'[r]
             /\ beat'[r] = "no" /\ beatOf'[r] = entry'[r] => lapsed'[r]
             /\ freeing'[r] # "no" => freeOf'[r] # 0
  <2>1. lapsed'[r] = lapsed[r] /\ freeOf'[r] = freeOf[r]
    BY <1>4 DEF Step, AskLease, SetKey, Granted, NotGranted, LockForOther, Pop, Delete,
         DeleteFailed, EndRelease, Released, StartRound, Renew, Renewed, NotRenewed,
         RenewalFailed, EndRound, StopHeartbeats, Crash, Restart, freeVars, history
  <2> QED BY <1>1, <1>4, <2>1, OthersLeave
<1>5. CASE Step(r)
  <2> USE <1>1, <1>2 DEF CallsOnTime, Numbered, key, book, asking, beating, freeVars,
                         quitting, history
  <2>1. CASE AskLease(r)
    BY <2>1 DEF AskLease
  <2>2. CASE SetKey(r)
    BY <2>2 DEF SetKey
  <2>3. CASE Granted(r)
    BY <2>3 DEF Granted, EndAsk
  <2>4. CASE NotGranted(r)
    BY <2>4 DEF NotGranted, EndAsk
  <2>5. CASE LockForOther(r)
    BY <2>5 DEF LockForOther
  <2>6. CASE Pop(r)
    BY <2>6 DEF Pop, Unlocked
  <2>7. CASE Delete(r) \/ DeleteFailed(r)
    BY <2>7 DEF Delete, DeleteFailed, DelKey, EndRelease
  <2>8. CASE Released(r)
    BY <2>8 DEF Released, EndRelease
  <2>9. CASE StartRound(r)
    BY <2>9 DEF StartRound
  <2>10. CASE Renew(r)
    BY <2>10 DEF Renew
  <2>11. CASE Renewed(r) \/ NotRenewed(r) \/ RenewalFailed(r)
    BY <2>11 DEF Renewed, NotRenewed, RenewalFailed, EndRound
  <2>12. CASE StopHeartbeats(r)
    BY <2>12 DEF StopHeartbeats
  <2>13. CASE Crash(r)
    BY <2>13 DEF Crash, EndAsk, EndRelease
  <2>14. CASE Restart(r)
    BY <2>14 DEF Restart
  <2> QED BY <1>5, <2>1, <2>2, <2>3, <2>4, <2>5, <2>6, <2>7, <2>8, <2>9, <2>10,
             <2>11, <2>12, <2>13, <2>14 DEF Step
<1>6. CASE UNCHANGED vars
  BY <1>1, <1>6 DEF vars, key, book, asking, beating, freeVars, quitting, history
<1> QED BY <1>3, <1>4, <1>5, <1>6 DEF Next

(* A step that gives up the registered lease does so for a reason. *)
LEMMA LossStep ==
  TypeOK /\ LeaseInv /\ LapseInv /\ [Next]_vars =>
    [\A r \in Replicas : \A n \in lost'[r] \ lost[r] :
       n = entry[r] => lapsed[r] \/ age[r][n] >= TTL]_lost
<1> SUFFICES ASSUME TypeOK, LeaseInv, LapseInv, [Next]_vars, NEW r \in Replicas,
                    NEW n \in lost'[r] \ lost[r], n = entry[r]
             PROVE  lapsed[r] \/ age[r][n] >= TTL
  OBVIOUS
<1> USE OwnershipAssumption DEF TypeOK
<1>1. Next
  BY DEF vars, book
<1>2. ~Tick
  BY DEF Tick
<1>3. PICK q \in Replicas : Step(q)
  BY <1>1, <1>2 DEF Next
<1>4. q = r
  BY <1>3, OthersLeave
<1>5. Released(r) \/ NotRenewed(r) \/ RenewalFailed(r)
  BY <1>3, <1>4 DEF Step, AskLease, SetKey, Granted, NotGranted, LockForOther, Pop, Delete,
         DeleteFailed, StartRound, Renew, Renewed, StopHeartbeats, Crash, Restart, book
<1>6. CASE Released(r)
  <2>1. n = freeOf[r] /\ freeing[r] # "no"
    BY <1>6 DEF Released
  <2>2. freeOf[r] # 0 /\ entry[r] = 0
    BY <2>1 DEF LapseInv, LeaseInv, Sound, Numbered
  <2> QED BY <2>1, <2>2
<1>7. CASE NotRenewed(r)
  BY <1>7 DEF NotRenewed, MarkLost, LapseInv
<1>8. CASE RenewalFailed(r)
  BY <1>8 DEF RenewalFailed, MarkLost, Stale
<1> QED BY <1>5, <1>6, <1>7, <1>8

(* on_lost stops the stream of the registered lease only if its key lapsed  *)
(* or it could not be renewed for a TTL, for any replicas and any failures. *)
THEOREM LossesAreReal == Spec => LossIsReal
<1>1. Init => LapseInv
  BY DEF Init, LapseInv
<1>2. TypeOK /\ LeaseInv /\ LapseInv /\ [Next]_vars => TypeOK' /\ LeaseInv' /\ LapseInv'
  BY TypeStep, LeaseStep, LapseStep
<1>3. TypeOK /\ LeaseInv /\ LapseInv /\ [Next]_vars =>
        [\A r \in Replicas : \A n \in lost'[r] \ lost[r] :
           n = entry[r] => lapsed[r] \/ age[r][n] >= TTL]_lost
  BY LossStep
<1> QED BY <1>1, <1>2, <1>3, TypeInit, LeaseInit, PTL DEF Spec, LossIsReal
=============================================================================
