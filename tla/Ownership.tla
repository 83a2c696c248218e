------------------------------ MODULE Ownership ------------------------------
(***************************************************************************)
(* The Redis lease on one stream id, backend/ownership/__init__.py: the    *)
(* key with its TTL, and on every replica the LeaseManager entry, the      *)
(* StreamLease objects it creates and the heartbeat thread.                *)
(*                                                                         *)
(* Time is discrete.  A Redis call is sent, takes effect (or not) and is   *)
(* answered (or the answer is lost) within Delay ticks of being sent, the  *)
(* client's socket timeout.  Tick is disabled while something is due: that *)
(* is the assumption that threads run on time.  A process may crash at any *)
(* moment and come back.                                                   *)
(*                                                                         *)
(* The callers keep one rule (service.py): a replica does not acquire the  *)
(* id while it is releasing it, because start_stream() refuses an id that  *)
(* is in the registry and stop_stream() drops it there after the release.  *)
(***************************************************************************)
EXTENDS Naturals, FiniteSets

CONSTANTS
  Replicas,   (* the replicas' instance identities                         *)
  Nobody,     (* the key does not exist                                    *)
  TTL,        (* lease_ttl_seconds                                         *)
  Beat,       (* lease_heartbeat_interval_seconds                          *)
  Delay,      (* redis_socket_timeout_seconds                              *)
  Hold,       (* how long an acquire of another id keeps the manager locked*)
  Drain,      (* how long shutdown() takes to stop the local streams       *)
  Faulty,     (* replicas whose Redis calls may fail or lose their answers *)
  MaxLeases   (* bound: leases each replica acquires                       *)

(* The numbers of the leases, and how old each of them is. *)
Nums == UNION {1 .. MaxLeases[r] : r \in Replicas}
Ages == [Nums -> 0 .. TTL]

ASSUME OwnershipAssumption ==
  /\ Nobody \notin Replicas
  /\ TTL \in Nat \ {0} /\ Beat \in Nat \ {0} /\ Beat < TTL
  /\ Delay \in Nat /\ Hold \in Nat \ {0} /\ Drain \in Nat
  /\ MaxLeases \in [Replicas -> Nat]
  /\ Faulty \subseteq Replicas

VARIABLES
  owner,    (* the key's value: who owns the stream, or Nobody             *)
  left,     (* ticks until the key expires                                 *)
  alive,    (* is the process running?                                     *)
  entry,    (* LeaseManager._leases: the number of the lease, 0 for none   *)
  born,     (* number of leases acquired so far                            *)
  lost,     (* the leases whose _lost is set                               *)
  age,      (* ticks since _last_renewed_at, up to TTL                     *)
  ask,      (* the call inside acquire(): none, sent, set or refused       *)
  askT,     (* ticks since it was sent                                     *)
  beat,     (* the heartbeat thread: wait, sent, yes or no                 *)
  beatT,    (* ticks spent there                                           *)
  beatOf,   (* the lease its call is about                                 *)
  freeing,  (* a release: no, popped or deleted                            *)
  freeOf,   (* the lease it is about                                       *)
  other,    (* ticks another id's acquire has left with the manager's lock *)
  quit,     (* has stop_heartbeats() been called?                          *)
  quitT,    (* ticks since                                                 *)
  lapsed,   (* history: has the key of the registered lease expired?       *)
  overlap   (* history: ticks it has run the stream without owning the key *)

key      == <<owner, left>>
book     == <<entry, born, lost, age>>
asking   == <<ask, askT>>
beating  == <<beat, beatT, beatOf>>
freeVars == <<freeing, freeOf>>
quitting == <<quit, quitT>>
history  == <<lapsed, overlap>>
vars == <<key, alive, book, asking, beating, freeVars, other, quitting, history>>

Init ==
  /\ owner = Nobody /\ left = 0
  /\ alive   = [r \in Replicas |-> TRUE]
  /\ entry   = [r \in Replicas |-> 0]
  /\ born    = [r \in Replicas |-> 0]
  /\ lost    = [r \in Replicas |-> {}]
  /\ age     = [r \in Replicas |-> [n \in Nums |-> 0]]
  /\ ask     = [r \in Replicas |-> "none"]
  /\ askT    = [r \in Replicas |-> 0]
  /\ beat    = [r \in Replicas |-> "wait"]
  /\ beatT   = [r \in Replicas |-> 0]
  /\ beatOf  = [r \in Replicas |-> 0]
  /\ freeing = [r \in Replicas |-> "no"]
  /\ freeOf  = [r \in Replicas |-> 0]
  /\ other   = [r \in Replicas |-> 0]
  /\ quit    = [r \in Replicas |-> FALSE]
  /\ quitT   = [r \in Replicas |-> 0]
  /\ lapsed  = [r \in Replicas |-> FALSE]
  /\ overlap = [r \in Replicas |-> 0]

(* The replica has a lease it does not know to be lost: it runs the stream. *)
Holds(r) == alive[r] /\ entry[r] # 0 /\ entry[r] \notin lost[r]

(* It runs the stream though its key is gone, and may run it beside another *)
(* replica.                                                                 *)
Stray(r) == Holds(r) /\ ~quit[r] /\ owner # r

(* The manager's RLock, kept during the whole of an acquire. *)
Unlocked(r) == ask[r] = "none" /\ other[r] = 0

-----------------------------------------------------------------------------
(* LeaseManager.acquire and StreamLease.acquire.  A retry is another call. *)

(* An entry that is not lost is returned without a word to Redis, which     *)
(* changes nothing.                                                         *)
AskLease(r) ==
  /\ alive[r] /\ ~quit[r] /\ Unlocked(r) /\ ~Holds(r)
  /\ freeing[r] = "no" /\ born[r] < MaxLeases[r]
  /\ ask' = [ask EXCEPT ![r] = "sent"]
  /\ UNCHANGED <<key, alive, book, askT, beating, freeVars, other, quitting, history>>

(* SET key token NX PX ttl, at the server. *)
SetKey(r) ==
  /\ ask[r] = "sent"
  /\ IF owner = Nobody
     THEN owner' = r /\ left' = TTL /\ ask' = [ask EXCEPT ![r] = "set"]
     ELSE ask' = [ask EXCEPT ![r] = "refused"] /\ UNCHANGED key
  /\ UNCHANGED <<alive, book, askT, beating, freeVars, other, quitting, history>>

EndAsk(r) == ask' = [ask EXCEPT ![r] = "none"] /\ askT' = [askT EXCEPT ![r] = 0]

Granted(r) ==
  LET n == born[r] + 1 IN
  /\ ask[r] = "set" /\ EndAsk(r)
  /\ born' = [born EXCEPT ![r] = n]
  /\ entry' = [entry EXCEPT ![r] = n]
  /\ age' = [age EXCEPT ![r][n] = 0]
  /\ lapsed' = [lapsed EXCEPT ![r] = owner # r]
  /\ UNCHANGED <<key, alive, lost, beating, freeVars, other, quitting, overlap>>

(* The key is held, or the call failed with or without effect: no lease. *)
NotGranted(r) ==
  /\ ask[r] = "refused" \/ (r \in Faulty /\ ask[r] # "none")
  /\ EndAsk(r)
  /\ UNCHANGED <<key, alive, book, beating, freeVars, other, quitting, history>>

(* Another stream id is being acquired on this replica.  Assumption: a      *)
(* heartbeat thread that waits for the lock is not overtaken twice.         *)
LockForOther(r) ==
  /\ alive[r] /\ ~quit[r] /\ Unlocked(r)
  /\ beat[r] = "wait" => beatT[r] < Beat
  /\ \E n \in 1 .. Hold : other' = [other EXCEPT ![r] = n]
  /\ UNCHANGED <<key, alive, book, asking, beating, freeVars, quitting, history>>

-----------------------------------------------------------------------------
(* LeaseManager.release and StreamLease.release *)

Pop(r) ==
  /\ alive[r] /\ Unlocked(r) /\ entry[r] # 0 /\ freeing[r] = "no"
  /\ entry' = [entry EXCEPT ![r] = 0]
  /\ freeing' = [freeing EXCEPT ![r] = "popped"]
  /\ freeOf' = [freeOf EXCEPT ![r] = entry[r]]
  /\ lapsed' = [lapsed EXCEPT ![r] = FALSE]
  /\ UNCHANGED <<key, alive, born, lost, age, asking, beating, other, quitting, overlap>>

(* Mutant: DEL without the comparison with the token. *)
DelAnyKey(r) == owner' = Nobody /\ left' = 0

DelKey(r) == IF owner = r THEN owner' = Nobody /\ left' = 0 ELSE UNCHANGED key

EndRelease(r) ==
  freeing' = [freeing EXCEPT ![r] = "no"] /\ freeOf' = [freeOf EXCEPT ![r] = 0]

(* The script deletes the key if it is still ours. *)
Delete(r) ==
  /\ freeing[r] = "popped"
  /\ DelKey(r)
  /\ IF owner = r THEN freeing' = [freeing EXCEPT ![r] = "deleted"] /\ UNCHANGED freeOf
                  ELSE EndRelease(r)
  /\ UNCHANGED <<alive, book, asking, beating, other, quitting, history>>

(* The release call failed, with or without effect: _lost is not set. *)
DeleteFailed(r) ==
  /\ r \in Faulty /\ freeing[r] = "popped"
  /\ DelKey(r) \/ UNCHANGED key
  /\ EndRelease(r)
  /\ UNCHANGED <<alive, book, asking, beating, other, quitting, history>>

Released(r) ==
  /\ freeing[r] = "deleted" /\ EndRelease(r)
  /\ lost' = [lost EXCEPT ![r] = @ \union {freeOf[r]}]
  /\ UNCHANGED <<key, alive, entry, born, age, asking, beating, other, quitting, history>>

-----------------------------------------------------------------------------
(* The heartbeat thread *)

(* Event.wait(interval) times out; heartbeat_all() takes the lock, and      *)
(* heartbeat() calls Redis unless the lease is known to be lost.            *)
StartRound(r) ==
  /\ alive[r] /\ ~quit[r] /\ beat[r] = "wait" /\ beatT[r] = Beat /\ Unlocked(r)
  /\ beatT' = [beatT EXCEPT ![r] = 0]
  /\ IF Holds(r)
     THEN /\ beat' = [beat EXCEPT ![r] = "sent"]
          /\ beatOf' = [beatOf EXCEPT ![r] = entry[r]]
     ELSE UNCHANGED <<beat, beatOf>>
  /\ UNCHANGED <<key, alive, book, asking, freeVars, other, quitting, history>>

(* Mutant: the renewal adds a TTL instead of setting it. *)
RenewAdding(r) ==
  /\ beat[r] = "sent"
  /\ IF owner = r
     THEN left' = left + TTL /\ beat' = [beat EXCEPT ![r] = "yes"]
     ELSE left' = left /\ beat' = [beat EXCEPT ![r] = "no"]
  /\ UNCHANGED <<owner, alive, book, asking, beatT, beatOf, freeVars, other,
                 quitting, history>>

(* Mutant: PEXPIRE without the comparison with the token. *)
RenewAny(r) ==
  /\ beat[r] = "sent"
  /\ left' = (IF owner = Nobody THEN 0 ELSE TTL)
  /\ beat' = [beat EXCEPT ![r] = IF owner = Nobody THEN "no" ELSE "yes"]
  /\ UNCHANGED <<owner, alive, book, asking, beatT, beatOf, freeVars, other,
                 quitting, history>>

(* The script renews the key if it is still ours. *)
Renew(r) ==
  /\ beat[r] = "sent"
  /\ IF owner = r
     THEN left' = TTL /\ beat' = [beat EXCEPT ![r] = "yes"]
     ELSE left' = left /\ beat' = [beat EXCEPT ![r] = "no"]
  /\ UNCHANGED <<owner, alive, book, asking, beatT, beatOf, freeVars, other,
                 quitting, history>>

EndRound(r) ==
  /\ beat' = [beat EXCEPT ![r] = "wait"]
  /\ beatT' = [beatT EXCEPT ![r] = 0]
  /\ beatOf' = [beatOf EXCEPT ![r] = 0]
  /\ UNCHANGED <<key, alive, entry, born, asking, freeVars, other, quitting, history>>

(* _mark_lost: if the lease was not lost before, on_lost stops the stream. *)
MarkLost(r, n) == lost' = [lost EXCEPT ![r] = @ \union {n}]

Renewed(r) ==
  /\ beat[r] = "yes"
  /\ age' = [age EXCEPT ![r][beatOf[r]] = 0]
  /\ EndRound(r) /\ UNCHANGED lost

NotRenewed(r) ==
  /\ beat[r] = "no"
  /\ MarkLost(r, beatOf[r])
  /\ EndRound(r) /\ UNCHANGED age

(* Mutants: an error never gives the lease up, or always does. *)
NeverStale(r) == FALSE
AlwaysStale(r) == TRUE

(* A Redis error gives the lease up only when it is stale by a whole TTL. *)
Stale(r) == age[r][beatOf[r]] >= TTL

RenewalFailed(r) ==
  /\ r \in Faulty /\ beat[r] # "wait"
  /\ IF Stale(r) THEN MarkLost(r, beatOf[r]) ELSE UNCHANGED lost
  /\ EndRound(r) /\ UNCHANGED age

-----------------------------------------------------------------------------
(* The process *)

(* shutdown(): heartbeats stop first, the streams are stopped, and each     *)
(* lease is released when its stream is (Pop).                              *)
StopHeartbeats(r) ==
  /\ alive[r] /\ ~quit[r] /\ beat[r] = "wait" /\ Unlocked(r)
  /\ quit' = [quit EXCEPT ![r] = TRUE]
  /\ beatT' = [beatT EXCEPT ![r] = 0]
  /\ UNCHANGED <<key, alive, book, asking, beat, beatOf, freeVars, other, quitT, history>>

(* A crash forgets everything local; what Redis holds stays until it        *)
(* expires.                                                                 *)
Crash(r) ==
  /\ alive[r]
  /\ alive' = [alive EXCEPT ![r] = FALSE]
  /\ entry' = [entry EXCEPT ![r] = 0]
  /\ lost' = [lost EXCEPT ![r] = {}]
  /\ age' = [age EXCEPT ![r] = [n \in Nums |-> 0]]
  /\ beat' = [beat EXCEPT ![r] = "wait"]
  /\ beatT' = [beatT EXCEPT ![r] = 0]
  /\ beatOf' = [beatOf EXCEPT ![r] = 0]
  /\ other' = [other EXCEPT ![r] = 0]
  /\ quit' = [quit EXCEPT ![r] = FALSE]
  /\ quitT' = [quitT EXCEPT ![r] = 0]
  /\ lapsed' = [lapsed EXCEPT ![r] = FALSE]
  /\ EndAsk(r) /\ EndRelease(r)
  /\ UNCHANGED <<key, born, overlap>>

Restart(r) ==
  /\ ~alive[r]
  /\ alive' = [alive EXCEPT ![r] = TRUE]
  /\ UNCHANGED <<key, book, asking, beating, freeVars, other, quitting, history>>

(* Something on r is due, so time may not pass. *)
Due(r) ==
  \/ ask[r] # "none" /\ askT[r] >= Delay
  \/ beat[r] # "wait" /\ beatT[r] >= Delay
  \/ alive[r] /\ ~quit[r] /\ beat[r] = "wait" /\ beatT[r] >= Beat /\ Unlocked(r)
  \/ quit[r] /\ entry[r] # 0 /\ quitT[r] >= Drain

Expires == owner # Nobody /\ left = 1

Tick ==
  /\ \A r \in Replicas : ~Due(r)
  /\ owner' = IF Expires THEN Nobody ELSE owner
  /\ left' = IF left = 0 THEN 0 ELSE left - 1
  /\ age' = [r \in Replicas |-> [n \in Nums |->
               IF n \in {entry[r], beatOf[r]} /\ age[r][n] < TTL THEN age[r][n] + 1 ELSE age[r][n]]]
  /\ askT' = [r \in Replicas |-> IF ask[r] = "none" THEN askT[r] ELSE askT[r] + 1]
  /\ beatT' = [r \in Replicas |->
                 IF alive[r] /\ ~quit[r] /\ ~(beat[r] = "wait" /\ beatT[r] = Beat)
                 THEN beatT[r] + 1 ELSE beatT[r]]
  /\ other' = [r \in Replicas |-> IF other[r] = 0 THEN 0 ELSE other[r] - 1]
  /\ quitT' = [r \in Replicas |->
                 IF quit[r] /\ entry[r] # 0 THEN quitT[r] + 1 ELSE quitT[r]]
  /\ lapsed' = [r \in Replicas |-> lapsed[r] \/ (Expires /\ owner = r /\ entry[r] # 0)]
  /\ overlap' = [r \in Replicas |-> IF Stray(r) THEN overlap[r] + 1 ELSE 0]
  /\ UNCHANGED <<alive, entry, born, lost, ask, beat, beatOf, freeVars, quit>>

Step(r) ==
  \/ AskLease(r) \/ SetKey(r) \/ Granted(r) \/ NotGranted(r) \/ LockForOther(r)
  \/ Pop(r) \/ Delete(r) \/ DeleteFailed(r) \/ Released(r)
  \/ StartRound(r) \/ Renew(r) \/ Renewed(r) \/ NotRenewed(r) \/ RenewalFailed(r)
  \/ StopHeartbeats(r) \/ Crash(r) \/ Restart(r)

Next == Tick \/ \E r \in Replicas : Step(r)

Spec == Init /\ [][Next]_vars

-----------------------------------------------------------------------------
(* Properties *)

(* The types of the key, of the registry entry, of the lease objects and of *)
(* the positions of the calls in progress.                                  *)
TypeOK ==
  /\ owner \in Replicas \union {Nobody} /\ left \in 0 .. TTL
  /\ alive   \in [Replicas -> BOOLEAN]
  /\ entry   \in [Replicas -> Nat]
  /\ born    \in [Replicas -> Nat]
  /\ lost    \in [Replicas -> SUBSET Nat]
  /\ age     \in [Replicas -> Ages]
  /\ ask     \in [Replicas -> {"none", "sent", "set", "refused"}]
  /\ askT    \in [Replicas -> Nat]
  /\ beat    \in [Replicas -> {"wait", "sent", "yes", "no"}]
  /\ beatT   \in [Replicas -> Nat]
  /\ beatOf  \in [Replicas -> Nat]
  /\ freeing \in [Replicas -> {"no", "popped", "deleted"}]
  /\ freeOf  \in [Replicas -> Nat]
  /\ other   \in [Replicas -> 0 .. Hold]
  /\ quit    \in [Replicas -> BOOLEAN]
  /\ quitT   \in [Replicas -> Nat]
  /\ lapsed  \in [Replicas -> BOOLEAN]
  /\ overlap \in [Replicas -> Nat]

(* A replica may rely on its lease for a TTL after the last answer to a     *)
(* renewal, less the time that answer may have taken.                       *)
Fresh(r) == Holds(r) /\ age[r][entry[r]] + Delay < TTL

(* A lease that is fresh on its replica's own clock is the key in Redis,    *)
(* whatever was lost, delayed or restarted.                                 *)
FreshLeaseOwnsKey == \A r \in Replicas : Fresh(r) => owner = r

(* The window in which a replica that lost its key still runs the stream,   *)
(* beside a new owner if there is one: less than one heartbeat interval,    *)
(* the wait for the manager's lock and two socket timeouts.                 *)
OverlapBounded == \A r \in Replicas : overlap[r] + 1 < Beat + Hold + 2 * Delay

(* A replica that reaches Redis keeps its lease, if the TTL covers the      *)
(* heartbeat interval, the wait for the manager's lock and two socket       *)
(* timeouts.                                                                *)
HealthyLeaseIsKept ==
  Beat + Hold + 2 * Delay <= TTL =>
    \A r \in Replicas \ Faulty : Holds(r) /\ ~quit[r] => owner = r

(* on_lost stops the local stream, so it is called for the registered lease *)
(* only if its key lapsed or it could not be renewed for a TTL.             *)
LossIsReal ==
  [][\A r \in Replicas : \A n \in lost'[r] \ lost[r] :
       n = entry[r] => lapsed[r] \/ age[r][n] >= TTL]_lost

(* stop_heartbeats(), lines 348-353: leases stay held until every stream's  *)
(* thread has joined.                                                       *)
ShutdownKeepsLease == \A r \in Replicas : quit[r] /\ Holds(r) => owner = r
=============================================================================
