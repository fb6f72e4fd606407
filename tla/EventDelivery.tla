--------------------------- MODULE EventDelivery ---------------------------
(***************************************************************************)
(* How a committed event reaches its consumers (internal/outbox, consume,  *)
(* sqsconsume, notifier of the offline-sync application; ticket-booking    *)
(* has the same relay).  The events are photos of one location.            *)
(*                                                                         *)
(* In production the relay publishes to a bus that copies each event into  *)
(* one SQS queue per consumer, whose Lambda reports the messages it could  *)
(* not handle; on a developer's machine every consumer polls the table.    *)
(* "transport" is that choice, made once.  Every database or network call  *)
(* is an action, since each may fail and a process may die after any.      *)
(***************************************************************************)
EXTENDS Naturals, Sequences, FiniteSets, SequencesExt

CONSTANTS
  Events, Conns,
  Relays,                \* invocations of the relay that may overlap
  Workers,               \* invocations of a consumer
  Roles,                 \* the consumers the workers may belong to, by worker
  Transports,            \* "queue", "poll" or both
  BatchSize,             \* 25 events of a relay or poll, 10 messages of a Lambda
  MaxReceives,           \* maxReceiveCount of the redrive policy, 5
  MaxFaults              \* bound: calls that fail and processes that die

Notifier == "notifier"

ASSUME BoundsAssumption ==
  /\ {BatchSize, MaxReceives} \subseteq Nat \ {0} /\ MaxFaults \in Nat
  /\ Transports \subseteq {"queue", "poll"}
  /\ IsFiniteSet(Workers)

VARIABLES
  transport,
  Consumer,   \* Consumer[w]: the consumer that worker w belongs to
  log,        \* domain_events, oldest first
  published,  \* those with a published_at
  relay,      \* relay[r]: where RunOnce is in its batch
  msgs,       \* messages on the queues
  sent,       \* how many messages were sent, which numbers them
  dead,       \* <<event, consumer>> in a dead-letter queue
  processed,  \* <<event, consumer>> in processed_events
  worker,     \* worker[w]: where an invocation is in its batch
  conn,       \* conn[c]: a websocket, from its row to the end of its row
  audience,   \* history: the sockets that were open when an event committed
  pushed,     \* <<event, connection>>: frames written
  faults

outbox == <<log, published>>
wire   == <<msgs, sent, dead>>
live   == <<conn, audience>>
once   == <<transport, Consumer>>
vars   == <<once, outbox, relay, wire, processed, worker, live, pushed, faults>>

Consumers == {Consumer[w] : w \in Workers}

IdleRelay  == [pc |-> "idle", batch |-> <<>>]
IdleWorker == [pc |-> "idle", batch |-> <<>>, took |-> {}, failed |-> {}, rest |-> {}]

Init ==
  /\ transport \in Transports /\ Consumer \in Roles
  /\ log = <<>> /\ published = {}
  /\ relay = [r \in Relays |-> IdleRelay]
  /\ msgs = {} /\ sent = 0 /\ dead = {}
  /\ processed = {}
  /\ worker = [w \in Workers |-> IdleWorker]
  /\ conn = [c \in Conns |-> "new"] /\ audience = [e \in Events |-> {}]
  /\ pushed = {} /\ faults = 0

Fault == faults < MaxFaults /\ faults' = faults + 1

\* ORDER BY occurred_at LIMIT BatchSize: the oldest of some events, in order.
Before(e, f) == \E i, j \in DOMAIN log : i < j /\ log[i] = e /\ log[j] = f
Oldest(es)   == {e \in es : Cardinality({f \in es : Before(f, e)}) < BatchSize}
Batches(es)  == {b \in SetToSeqs(Oldest(es)) : \A i, j \in DOMAIN b : i < j => Before(b[i], b[j])}

-----------------------------------------------------------------------------
(* The outbox and the sockets.                                             *)

OpenConns == {c \in Conns : conn[c] = "open"}

\* A photo and its event commit in one transaction.
Commit(e) ==
  /\ e \notin Range(log)
  /\ log' = Append(log, e)
  /\ audience' = [audience EXCEPT ![e] = OpenConns]
  /\ UNCHANGED <<once, published, relay, wire, processed, worker, conn, pushed, faults>>

\* InsertWSConnection: before it the socket gets nothing.
Connect(c) ==
  /\ conn[c] = "new"
  /\ conn' = [conn EXCEPT ![c] = "row"]
  /\ UNCHANGED <<once, outbox, relay, wire, processed, worker, audience, pushed, faults>>

\* hub.Register, or the end of $connect: now a push finds the socket.
Register(c) ==
  /\ conn[c] = "row"
  /\ conn' = [conn EXCEPT ![c] = "open"]
  /\ UNCHANGED <<once, outbox, relay, wire, processed, worker, audience, pushed, faults>>

\* The read loop ends, or the gateway notices: pushes no longer reach it.
Disconnect(c) ==
  /\ conn[c] \in {"row", "open"}
  /\ conn' = [conn EXCEPT ![c] = "left"]
  /\ UNCHANGED <<once, outbox, relay, wire, processed, worker, audience, pushed, faults>>

\* DeleteWSConnection: may fail or never run, the row then stays for good.
ForgetRow(c) ==
  /\ conn[c] = "left"
  /\ conn' = [conn EXCEPT ![c] = "gone"]
  /\ UNCHANGED <<once, outbox, relay, wire, processed, worker, audience, pushed, faults>>

-----------------------------------------------------------------------------
(* The relay: RunOnce.                                                     *)

\* Mutation: the batch continues after the newest event already published.
UnpublishedAfterCursor == {e \in Range(log) \ published : \A f \in published : Before(f, e)}

\* ListUnpublishedEvents.
Unpublished == Range(log) \ published

ListUnpublished(r) ==
  /\ relay[r].pc = "idle"
  /\ \E b \in Batches(Unpublished) :
       b # <<>> /\ relay' = [relay EXCEPT ![r] = [pc |-> "put", batch |-> b]]
  /\ UNCHANGED <<once, outbox, wire, processed, worker, live, pushed, faults>>

\* The next event of the batch, or its end.
NextEvent(r) ==
  [relay EXCEPT ![r] = IF Len(@.batch) = 1 THEN IdleRelay
                       ELSE [pc |-> "put", batch |-> Tail(@.batch)]]

\* The rules copy an event into the queue of every consumer; nobody listens
\* to the bus when the consumers poll.
Copies(e) ==
  IF transport = "poll" THEN {}
  ELSE {[id |-> sent + 1, to |-> c, event |-> e, receives |-> 0, hidden |-> FALSE] : c \in Consumers}

PutEvents(r) ==
  /\ relay[r].pc = "put"
  /\ msgs' = msgs \cup Copies(Head(relay[r].batch))
  /\ sent' = sent + 1
  /\ relay' = [relay EXCEPT ![r].pc = "mark"]
  /\ UNCHANGED <<once, outbox, dead, processed, worker, live, pushed, faults>>

\* Mutation: FailedEntryCount is not looked at.
RejectedUnseen(r) == [relay EXCEPT ![r].pc = "mark"]

\* An error or a rejected entry: the event stays unpublished.
Rejected(r) == NextEvent(r)

PutFails(r) ==
  /\ relay[r].pc = "put" /\ Fault
  /\ relay' = Rejected(r)
  /\ UNCHANGED <<once, outbox, wire, processed, worker, live, pushed>>

MarkPublished(r) ==
  /\ relay[r].pc = "mark"
  /\ published' = published \cup {Head(relay[r].batch)}
  /\ relay' = NextEvent(r)
  /\ UNCHANGED <<once, log, wire, processed, worker, live, pushed, faults>>

\* The mark fails, which ends the batch, or the process dies, also between
\* publishing and marking.
RelayStops(r) ==
  /\ relay[r].pc # "idle" /\ Fault
  /\ relay' = [relay EXCEPT ![r] = IdleRelay]
  /\ UNCHANGED <<once, outbox, wire, processed, worker, live, pushed>>

-----------------------------------------------------------------------------
(* The queues.  A received message is hidden until it is deleted or its    *)
(* visibility timeout passes, which is as long as the Lambda may run.      *)

Hide(ms, h) == {[m EXCEPT !.hidden = h] : m \in ms}

VisibilityTimeout(m) ==
  /\ m.hidden
  /\ msgs' = (msgs \ {m}) \cup Hide({m}, FALSE)
  /\ UNCHANGED <<once, outbox, relay, sent, dead, processed, worker, live, pushed, faults>>

\* A message received too often goes to the dead-letter queue.
Redrive(m) ==
  /\ ~m.hidden /\ m.receives = MaxReceives
  /\ msgs' = msgs \ {m}
  /\ dead' = dead \cup {<<m.event, m.to>>}
  /\ UNCHANGED <<once, outbox, relay, sent, processed, worker, live, pushed, faults>>

-----------------------------------------------------------------------------
(* The consumers.  An item of a batch is an event and the message it came  *)
(* in, 0 when it was polled.                                               *)

Item(e, id) == [event |-> e, id |-> id]
Current(w)  == Head(worker[w].batch)
Done(e, c)  == <<e, c>> \in processed

Deliverable(c) == {m \in msgs : m.to = c /\ ~m.hidden /\ m.receives < MaxReceives}

\* sqsconsume.Handle begins with up to a batch of messages, in any order.
Receive(w) ==
  /\ worker[w].pc = "idle"
  /\ \E ms \in SUBSET Deliverable(Consumer[w]) : \E s \in SetToSeqs(ms) :
       /\ 0 < Len(s) /\ Len(s) <= BatchSize
       /\ msgs' = (msgs \ ms) \cup {[m EXCEPT !.hidden = TRUE, !.receives = @ + 1] : m \in ms}
       /\ worker' = [worker EXCEPT ![w] =
            [IdleWorker EXCEPT !.pc = "check",
                               !.batch = [i \in DOMAIN s |-> Item(s[i].event, s[i].id)],
                               !.took = {m.id : m \in ms}]]
  /\ UNCHANGED <<once, outbox, relay, sent, dead, processed, live, pushed, faults>>

\* consume.RunOnce begins with ListUnprocessedEventsForConsumer.
Poll(w) ==
  /\ transport = "poll" /\ worker[w].pc = "idle"
  /\ \E b \in Batches({e \in Range(log) : ~Done(e, Consumer[w])}) :
       /\ b # <<>>
       /\ worker' = [worker EXCEPT ![w] =
            [IdleWorker EXCEPT !.pc = "handle", !.batch = [i \in DOMAIN b |-> Item(b[i], 0)]]]
  /\ UNCHANGED <<once, outbox, relay, wire, processed, live, pushed, faults>>

\* On to the next item; a Lambda answers after the last one.
Advance(r) ==
  IF Len(r.batch) > 1
  THEN [r EXCEPT !.pc = IF r.took = {} THEN "handle" ELSE "check", !.batch = Tail(@), !.rest = {}]
  ELSE IF r.took = {} THEN IdleWorker ELSE [r EXCEPT !.pc = "respond", !.batch = <<>>, !.rest = {}]

\* IsEventProcessed: a repeated message is acknowledged unhandled.
Check(w) ==
  /\ worker[w].pc = "check"
  /\ worker' = [worker EXCEPT ![w] = IF Done(Current(w).event, Consumer[w])
                                     THEN Advance(@) ELSE [@ EXCEPT !.pc = "handle"]]
  /\ UNCHANGED <<once, outbox, relay, wire, processed, live, pushed, faults>>

\* The other consumers' handlers change nothing another step reads.
Handle(w) ==
  /\ worker[w].pc = "handle" /\ Consumer[w] # Notifier
  /\ worker' = [worker EXCEPT ![w].pc = "mark"]
  /\ UNCHANGED <<once, outbox, relay, wire, processed, live, pushed, faults>>

\* ListWSConnectionsByLocation: also sockets that are not registered yet or have
\* left.
Rows == {c \in Conns : conn[c] \in {"row", "open", "left"}}

\* notifier.Handle.
ListConns(w) ==
  /\ worker[w].pc = "handle" /\ Consumer[w] = Notifier
  /\ worker' = [worker EXCEPT ![w].pc = IF Rows = {} THEN "mark" ELSE "push", ![w].rest = Rows]
  /\ UNCHANGED <<once, outbox, relay, wire, processed, live, pushed, faults>>

\* Push: a socket that is gone is no error.
Push(w, c) ==
  /\ worker[w].pc = "push" /\ c \in worker[w].rest
  /\ pushed' = IF conn[c] = "open" THEN pushed \cup {<<Current(w).event, c>>} ELSE pushed
  /\ worker' = [worker EXCEPT ![w].rest = @ \ {c},
                              ![w].pc = IF worker[w].rest = {c} THEN "mark" ELSE "push"]
  /\ UNCHANGED <<once, outbox, relay, wire, processed, live, faults>>

\* MarkEventProcessed, ON CONFLICT DO NOTHING.
Mark(w) ==
  /\ worker[w].pc = "mark"
  /\ processed' = processed \cup {<<Current(w).event, Consumer[w]>>}
  /\ worker' = [worker EXCEPT ![w] = Advance(@)]
  /\ UNCHANGED <<once, outbox, relay, wire, live, pushed, faults>>

\* Mutation: a push that fails is logged and passed over.
FailedPushing(r) == IF r.pc = "push" THEN [r EXCEPT !.pc = "mark"] ELSE Advance([r EXCEPT !.failed = @ \cup {Head(r.batch).id}])

\* A step of the current item fails: the item is reported or, when polled,
\* left for the next tick; a mark that fails ends a polled batch.
Failed(r) ==
  IF r.took = {} /\ r.pc = "mark" THEN IdleWorker
  ELSE Advance([r EXCEPT !.failed = @ \cup {Head(r.batch).id}])

ItemFails(w) ==
  /\ worker[w].pc \in {"check", "handle", "push", "mark"} /\ Fault
  /\ worker' = [worker EXCEPT ![w] = Failed(@)]
  /\ UNCHANGED <<once, outbox, relay, wire, processed, live, pushed>>

\* The answer: what did not fail is deleted, the rest may be received again.
Respond(w) ==
  LET mine == {m \in msgs : m.id \in worker[w].took /\ m.to = Consumer[w]}
      back == {m \in mine : m.id \in worker[w].failed}
  IN  /\ worker[w].pc = "respond"
      /\ msgs' = (msgs \ mine) \cup Hide(back, FALSE)
      /\ worker' = [worker EXCEPT ![w] = IdleWorker]
      /\ UNCHANGED <<once, outbox, relay, sent, dead, processed, live, pushed, faults>>

\* The process dies or the Lambda times out.  The notifier that polls lives
\* in the server, whose sockets go with it.
Crash(w) ==
  /\ worker[w].pc # "idle" /\ Fault
  /\ worker' = [worker EXCEPT ![w] = IdleWorker]
  /\ conn' = IF transport = "poll" /\ Consumer[w] = Notifier
             THEN [c \in Conns |-> IF conn[c] \in {"row", "open"} THEN "left" ELSE conn[c]]
             ELSE conn
  /\ UNCHANGED <<once, outbox, relay, wire, processed, audience, pushed>>
-----------------------------------------------------------------------------

RelayStep(r) == PutEvents(r) \/ MarkPublished(r)
WorkerStep(w) == Check(w) \/ Handle(w) \/ ListConns(w) \/ (\E c \in Conns : Push(w, c)) \/ Mark(w) \/ Respond(w)

Next ==
  \/ \E e \in Events : Commit(e)
  \/ \E c \in Conns : Connect(c) \/ Register(c) \/ Disconnect(c) \/ ForgetRow(c)
  \/ \E r \in Relays : ListUnpublished(r) \/ RelayStep(r) \/ PutFails(r) \/ RelayStops(r)
  \/ \E m \in msgs : VisibilityTimeout(m) \/ Redrive(m)
  \/ \E w \in Workers : Receive(w) \/ Poll(w) \/ WorkerStep(w) \/ ItemFails(w) \/ Crash(w)

Spec == Init /\ [][Next]_vars

\* The scheduler and the tickers run for ever, the queue service delivers,
\* shows again and redrives, and a running process goes on.  Clients need not
\* do anything.
FairSpec ==
  /\ Spec
  /\ \A r \in Relays : WF_vars(ListUnpublished(r)) /\ WF_vars(RelayStep(r))
  /\ \A w \in Workers : WF_vars(Receive(w)) /\ WF_vars(Poll(w)) /\ WF_vars(WorkerStep(w))
  /\ WF_vars(\E m \in msgs : Redrive(m))
  /\ \A w \in Workers : WF_vars(\E m \in msgs : m.to = Consumer[w] /\ VisibilityTimeout(m))

-----------------------------------------------------------------------------
(* Properties.                                                             *)

\* However the relay and the consumers fail, an event is always somewhere it
\* will be found again: unpublished, on the queue, dead-lettered or processed.
NothingForgotten ==
  transport = "queue" =>
    \A e \in Range(log) \cap published, c \in Consumers :
      \/ <<e, c>> \in processed \cup dead
      \/ \E m \in msgs : m.event = e /\ m.to = c

\* Once the notifier has marked an event, everyone whose socket has been open
\* since before the commit has been sent it: failing pushes, stale rows and
\* sockets that come and go take nothing from those who stay.
PushedBeforeProcessed ==
  \A e \in Events : Done(e, Notifier) => \A c \in audience[e] \cap OpenConns : <<e, c>> \in pushed

\* Every committed event is in the end processed by every consumer or in its
\* dead-letter queue, whatever fails finitely often.
EverythingSettles ==
  \A e \in Events : \A w \in Workers :
    e \in Range(log) ~> <<e, Consumer[w]>> \in processed \cup dead
=============================================================================
