------------------------------ MODULE EventFeed ------------------------------
(***************************************************************************)
(* The events of one stream id, from the thread that derives them to the   *)
(* consumers that receive them (backend/event_store.py, the subscriptions  *)
(* of InferenceService.start_stream, backend/messaging, and the socket      *)
(* handlers of backend/main.py).                                           *)
(*                                                                         *)
(* A record is its sequence number.  Threads append records to the bounded *)
(* buffer under its lock and deliver them, with no lock held, to the       *)
(* subscribers they found in a copy made in between.  The bus (Kafka) and  *)
(* the analytics aggregator are subscribed at every start of the id; a     *)
(* client of the event socket is subscribed while its socket is open, and  *)
(* reads its records from a bounded queue filled on the event loop.        *)
(***************************************************************************)
EXTENDS Naturals, Sequences, FiniteSets, SequencesExt

CONSTANTS
  Appenders,  (* threads that run process_fn of the stream                   *)
  Clients,    (* event sockets                                               *)
  Bus,        (* the callback that publishes to Kafka                        *)
  Aggregator, (* the callback of the analytics aggregator                    *)
  Capacity,   (* records the buffer retains                                  *)
  InboxMax,   (* records queued for one socket                               *)
  BusMax,     (* records queued inside the Kafka client                      *)
  MaxEvents,  (* bound: records appended                                     *)
  MaxStarts   (* bound: starts of the id                                     *)

ASSUME FeedAssumption ==
  /\ Capacity \in Nat \ {0} /\ InboxMax \in Nat \ {0} /\ BusMax \in Nat
  /\ MaxEvents \in Nat /\ MaxStarts \in Nat
  /\ Bus \notin Clients /\ Aggregator \notin Clients /\ Bus # Aggregator

VARIABLES
  seq,       \* records ever appended
  ring,      \* the retained ones, oldest first
  subs,      \* <<token, callback>>, in the order of subscription
  lastToken, \* tokens given out
  thr,       \* what each thread has stored but not delivered: recs; the callbacks
             \* it copied: calls; and the one it is at: next, 0 before the copy
  listed,    \* the registry holds the id
  starts,    \* starts so far
  stop,      \* the stop event of a socket: "none", "armed" or "set"
  sock,      \* where a socket's handler is
  token,     \* the token of an open socket
  loop,      \* callbacks scheduled on the event loop: <<client, record>>
  inbox,     \* the queue of a socket
  dropped,   \* records evicted from it since the last gap notice
  held,      \* the record its send loop is sending, 0 for none
  wire,      \* what the client has received: events and gap notices
  bus,       \* records queued in the Kafka client
  busClosed, \* close() was called
  crossed    \* history: two threads were delivering at the same time

bufferVars == <<seq, ring>>
subVars == <<subs, lastToken>>
sockVars == <<stop, sock, token, inbox, dropped, held, wire>>
feedVars == <<bufferVars, subVars, thr, listed, starts, sockVars, loop,
              bus, busClosed, crossed>>

Callbacks == Clients \cup {Bus, Aggregator}
Records == 1..MaxEvents
Event(r) == [kind |-> "event", n |-> r]
Gap(n) == [kind |-> "gap", n |-> n]

\* A thread outside extend().
Free == [recs |-> <<>>, calls |-> <<>>, next |-> 0]

FeedInit ==
  /\ seq = 0 /\ ring = <<>>
  /\ subs = <<>> /\ lastToken = 0
  /\ thr = [t \in Appenders |-> Free]
  /\ listed = FALSE /\ starts = 0
  /\ stop = [c \in Clients |-> "none"]
  /\ sock = [c \in Clients |-> "new"]
  /\ token = [c \in Clients |-> 0]
  /\ loop = <<>>
  /\ inbox = [c \in Clients |-> <<>>]
  /\ dropped = [c \in Clients |-> 0]
  /\ held = [c \in Clients |-> 0]
  /\ wire = [c \in Clients |-> <<>>]
  /\ bus = <<>> /\ busClosed = FALSE
  /\ crossed = FALSE

------------------------------------------------------------------------------
(* The buffer and its subscribers.                                         *)

\* The last Capacity elements of what the deque holds after the appends.
Retain(s) == SubSeq(s, IF Len(s) > Capacity THEN Len(s) - Capacity + 1 ELSE 1,
                    Len(s))

Idle(t) == thr[t] = Free

\* extend(): the records of one frame are numbered and stored under the lock.
Extend(t, n) ==
  /\ starts > 0 /\ Idle(t) /\ seq + n <= MaxEvents
  /\ LET new == [i \in 1..n |-> seq + i]
     IN /\ ring' = Retain(ring \o new)
        /\ thr' = [thr EXCEPT ![t] = [recs |-> new, calls |-> <<>>, next |-> 0]]
  /\ seq' = seq + n
  /\ crossed' = (crossed \/ \E u \in Appenders \ {t} : ~Idle(u))
  /\ UNCHANGED <<subVars, listed, starts, sockVars, loop, bus, busClosed>>

\* _notify(): the subscribers are copied after the storage lock is released.
StartNotify(t) ==
  /\ thr[t].recs # <<>> /\ thr[t].next = 0
  /\ thr' = [thr EXCEPT ![t] =
               IF subs = <<>> THEN Free
               ELSE [recs |-> thr[t].recs, calls |-> [i \in DOMAIN subs |-> subs[i][2]],
                     next |-> 1]]
  /\ UNCHANGED <<bufferVars, subVars, listed, starts, sockVars, loop, bus,
                 busClosed, crossed>>

Delivers(t, cb) == thr[t].next > 0 /\ thr[t].calls[thr[t].next] = cb

\* Every callback for the first record, then for the second.
Advance(t) ==
  LET now == thr[t]
  IN thr' = [thr EXCEPT ![t] =
              IF now.next < Len(now.calls)
              THEN [recs |-> now.recs, calls |-> now.calls, next |-> now.next + 1]
              ELSE IF Len(now.recs) > 1
              THEN [recs |-> Tail(now.recs), calls |-> now.calls, next |-> 1]
              ELSE Free]

\* The publisher hands the record to the Kafka client, which takes it unless
\* the producer is closed or its queue is full.
Publish(t) ==
  /\ Delivers(t, Bus)
  /\ bus' = IF busClosed \/ Len(bus) >= BusMax THEN bus
            ELSE Append(bus, Head(thr[t].recs))
  /\ Advance(t)
  /\ UNCHANGED <<bufferVars, subVars, listed, starts, sockVars, loop,
                 busClosed, crossed>>

\* _on_event(): the record is handed to the socket's event loop.
Hand(t, c) ==
  /\ Delivers(t, c)
  /\ loop' = Append(loop, <<c, Head(thr[t].recs)>>)
  /\ Advance(t)
  /\ UNCHANGED <<bufferVars, subVars, listed, starts, sockVars, bus,
                 busClosed, crossed>>

------------------------------------------------------------------------------
(* Starts and stops of the stream.                                         *)

\* start_stream() subscribes the bus, then the aggregator, before the stream
\* is started; nothing takes the subscriptions back, even when the start fails.
\* The alert engine is the third subscriber; it is called like the aggregator
\* and left out here.
StartStream(ok) ==
  /\ ~listed /\ starts < MaxStarts
  /\ starts' = starts + 1
  /\ listed' = ok
  /\ subs' = subs \o <<<<lastToken + 1, Bus>>, <<lastToken + 2, Aggregator>>>>
  /\ lastToken' = lastToken + 2
  /\ UNCHANGED <<bufferVars, thr, sockVars, loop, bus, busClosed, crossed>>

\* The stop route wakes the registered sockets before it stops the stream.
CloseSockets ==
  /\ \E c \in Clients : stop[c] = "armed"
  /\ stop' = [c \in Clients |-> IF stop[c] = "armed" THEN "set" ELSE stop[c]]
  /\ UNCHANGED <<bufferVars, subVars, thr, listed, starts, sock, token, inbox,
                 dropped, held, wire, loop, bus, busClosed, crossed>>

\* The stream leaves the registry: it was stopped, or it ended by itself.
Unlist ==
  /\ listed /\ listed' = FALSE
  /\ UNCHANGED <<bufferVars, subVars, thr, starts, sockVars, loop, bus,
                 busClosed, crossed>>

\* librdkafka delivers or fails a queued record.
Ship ==
  /\ bus # <<>> /\ bus' = Tail(bus)
  /\ UNCHANGED <<bufferVars, subVars, thr, listed, starts, sockVars, loop,
                 busClosed, crossed>>

\* close() of the producer flushes what is queued and is idempotent.
CloseBus ==
  /\ ~busClosed /\ busClosed' = TRUE /\ bus' = <<>>
  /\ UNCHANGED <<bufferVars, subVars, thr, listed, starts, sockVars, loop,
                 crossed>>

------------------------------------------------------------------------------
(* The event socket.  Its handler registers a stop event, then asks whether *)
(* the stream exists, then subscribes.                                     *)

Connect(c) ==
  /\ sock[c] = "new"
  /\ sock' = [sock EXCEPT ![c] = "registered"]
  /\ stop' = [stop EXCEPT ![c] = "armed"]
  /\ UNCHANGED <<bufferVars, subVars, thr, listed, starts, token, inbox,
                 dropped, held, wire, loop, bus, busClosed, crossed>>

\* Another replica owns the stream: the handler returns at once, and its stop
\* event stays in the hub.
Redirect(c) ==
  /\ sock[c] = "registered"
  /\ sock' = [sock EXCEPT ![c] = "redirected"]
  /\ UNCHANGED <<bufferVars, subVars, thr, listed, starts, stop, token, inbox,
                 dropped, held, wire, loop, bus, busClosed, crossed>>

NoStream(c) ==
  /\ sock[c] = "registered" /\ ~listed
  /\ sock' = [sock EXCEPT ![c] = "ended"]
  /\ stop' = [stop EXCEPT ![c] = "none"]
  /\ UNCHANGED <<bufferVars, subVars, thr, listed, starts, token, inbox,
                 dropped, held, wire, loop, bus, busClosed, crossed>>

\* Mutant of Subscribe: the handler waits on a stop event made after the check.
Subscribe_NewEvent(c) ==
  /\ sock[c] = "registered" /\ listed
  /\ sock' = [sock EXCEPT ![c] = "open"]
  /\ stop' = [stop EXCEPT ![c] = "armed"]
  /\ lastToken' = lastToken + 1
  /\ subs' = Append(subs, <<lastToken', c>>)
  /\ token' = [token EXCEPT ![c] = lastToken']
  /\ UNCHANGED <<bufferVars, thr, listed, starts, inbox, dropped, held,
                 wire, loop, bus, busClosed, crossed>>

Subscribe(c) ==
  /\ sock[c] = "registered" /\ listed
  /\ sock' = [sock EXCEPT ![c] = "open"]
  /\ lastToken' = lastToken + 1
  /\ subs' = Append(subs, <<lastToken', c>>)
  /\ token' = [token EXCEPT ![c] = lastToken']
  /\ UNCHANGED <<bufferVars, thr, listed, starts, stop, inbox, dropped, held,
                 wire, loop, bus, busClosed, crossed>>

\* Mutant of Overflow: the new record is dropped instead of the oldest.
Overflow_KeepsOld(q, r) == q

\* The oldest queued record makes room for the new one.
Overflow(q, r) == Append(Tail(q), r)

\* _enqueue(), run on the event loop in the order it was scheduled.
Enqueue ==
  /\ loop # <<>>
  /\ LET c == loop[1][1]
         r == loop[1][2]
         full == Len(inbox[c]) >= InboxMax
     IN /\ inbox' = [inbox EXCEPT ![c] = IF full THEN Overflow(@, r)
                                         ELSE Append(@, r)]
        /\ dropped' = [dropped EXCEPT ![c] = IF full THEN @ + 1 ELSE @]
  /\ loop' = Tail(loop)
  /\ UNCHANGED <<bufferVars, subVars, thr, listed, starts, stop, sock, token,
                 held, wire, bus, busClosed, crossed>>

\* The send loop takes a record; evicted ones are reported before it is sent.
TakeNext(c) ==
  /\ sock[c] = "open" /\ held[c] = 0 /\ inbox[c] # <<>>
  /\ held' = [held EXCEPT ![c] = inbox[c][1]]
  /\ inbox' = [inbox EXCEPT ![c] = Tail(@)]
  /\ dropped' = [dropped EXCEPT ![c] = 0]
  /\ wire' = IF dropped[c] = 0 THEN wire
             ELSE [wire EXCEPT ![c] = Append(@, Gap(dropped[c]))]
  /\ UNCHANGED <<bufferVars, subVars, thr, listed, starts, stop, sock, token,
                 loop, bus, busClosed, crossed>>

SendEvent(c) ==
  /\ sock[c] = "open" /\ held[c] # 0
  /\ wire' = [wire EXCEPT ![c] = Append(@, Event(held[c]))]
  /\ held' = [held EXCEPT ![c] = 0]
  /\ UNCHANGED <<bufferVars, subVars, thr, listed, starts, stop, sock, token,
                 inbox, dropped, loop, bus, busClosed, crossed>>

\* unsubscribe() by token.
Without(tok) == RemoveAt(subs, CHOOSE i \in DOMAIN subs : subs[i][1] = tok)

\* The handler's finally block, whatever ended the session: a stop, the client,
\* or a failing send.
Leave(c) ==
  /\ sock[c] = "open"
  /\ sock' = [sock EXCEPT ![c] = "ended"]
  /\ subs' = Without(token[c])
  /\ stop' = [stop EXCEPT ![c] = "none"]
  /\ UNCHANGED <<bufferVars, lastToken, thr, listed, starts, token, inbox,
                 dropped, held, wire, loop, bus, busClosed, crossed>>

Stopped(c) == stop[c] = "set" /\ Leave(c)

\* The aggregator is called like any subscriber; what it does is module
\* Analytics.
Analyse(t) ==
  /\ Delivers(t, Aggregator)
  /\ Advance(t)
  /\ UNCHANGED <<bufferVars, subVars, listed, starts, sockVars, loop, bus,
                 busClosed, crossed>>

Answer(c) == Redirect(c) \/ NoStream(c) \/ Subscribe(c)

FeedNext ==
  \/ \E t \in Appenders :
       \/ \E n \in 1..2 : Extend(t, n)
       \/ StartNotify(t) \/ Publish(t) \/ Analyse(t)
       \/ \E c \in Clients : Hand(t, c)
  \/ CloseSockets \/ Unlist \/ Ship \/ CloseBus \/ Enqueue
  \/ \E ok \in BOOLEAN : StartStream(ok)
  \/ \E c \in Clients :
       Connect(c) \/ Answer(c) \/ TakeNext(c) \/ SendEvent(c) \/ Leave(c)

\* A handler runs on, and one that was woken leaves: both are tasks of an event
\* loop that nothing blocks.
FeedSpec ==
  /\ FeedInit /\ [][FeedNext]_feedVars
  /\ \A c \in Clients : WF_feedVars(Answer(c)) /\ WF_feedVars(Stopped(c))

------------------------------------------------------------------------------
FeedTypeOK ==
  /\ seq \in 0..MaxEvents
  /\ ring \in Seq(Records) /\ Len(ring) <= Capacity
  /\ \A i \in DOMAIN ring : ring[i] = seq - Len(ring) + i
  /\ lastToken \in Nat
  /\ subs \in Seq((1..lastToken) \X Callbacks)
  /\ thr \in [Appenders -> [recs : Seq(Records), calls : Seq(Callbacks), next : Nat]]
  /\ \A t \in Appenders : thr[t].next <= Len(thr[t].calls)
  /\ listed \in BOOLEAN /\ starts \in 0..MaxStarts
  /\ stop \in [Clients -> {"none", "armed", "set"}]
  /\ sock \in [Clients -> {"new", "registered", "open", "ended", "redirected"}]
  /\ token \in [Clients -> Nat]
  /\ loop \in Seq(Clients \X Records)
  /\ inbox \in [Clients -> Seq(Records)]
  /\ \A c \in Clients : Len(inbox[c]) <= InboxMax
  /\ dropped \in [Clients -> Nat] /\ held \in [Clients -> 0..MaxEvents]
  /\ wire \in [Clients -> Seq([kind : {"event", "gap"}, n : Nat])]
  /\ bus \in Seq(Records) /\ busClosed \in BOOLEAN /\ crossed \in BOOLEAN

\* What the client has received, the records still on their way included: a
\* notice stands where the evicted records would have been.
Received(c) ==
  wire[c] \o (IF held[c] = 0 THEN <<>> ELSE <<Event(held[c])>>)
          \o (IF dropped[c] = 0 THEN <<>> ELSE <<Gap(dropped[c])>>)
          \o [i \in DOMAIN inbox[c] |-> Event(inbox[c][i])]

\* Gap notices are exact: as long as one thread at a time delivers, each event
\* a client receives, or will receive from its queue, is numbered one more
\* than the previous one and the records reported missing in between
\* (_enqueue and _send_loop, run on the event loop, against the appending
\* thread).
GapsAreExact ==
  ~crossed =>
    \A c \in Clients :
      LET got == Received(c)
          IsEvent(i) == got[i].kind = "event"
      IN \A i \in DOMAIN got \ {1} :
           IsEvent(i) =>
             IF IsEvent(i - 1) THEN got[i].n = got[i - 1].n + 1
             ELSE i > 2 => IsEvent(i - 2) /\ got[i].n = got[i - 2].n + got[i - 1].n + 1

\* A stop that finds a socket registered ends it: the stop event that
\* close_stream() sets cannot be missed by a handler between its registration
\* and its wait.
WokenSocketsEnd ==
  \A c \in Clients : (stop[c] = "set") ~> (sock[c] \in {"ended", "redirected"})
=============================================================================
