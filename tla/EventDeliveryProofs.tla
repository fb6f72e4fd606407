------------------------ MODULE EventDeliveryProofs ------------------------
(***************************************************************************)
(* Proofs about EventDelivery for any events, sockets, relays, consumers   *)
(* and bounds: whatever fails, a published event is processed, dead or on  *)
(* its queue, and the notifier marks an event only after it has pushed it. *)
(***************************************************************************)
EXTENDS EventDelivery, TLAPS, FiniteSetTheorems

-----------------------------------------------------------------------------
(* Why they hold: the inductive invariant, named by what its parts relate. *)

Busy == {"check", "handle", "push", "mark"}

\* A relay, a worker and a message, when the events es have been committed and n
\* messages sent.
RelayRecord(es) == [pc : {"idle", "put", "mark"}, batch : Seq(es)]

Items(es, n) == [event : es, id : 0 .. n]

WorkerRecord(es, n) ==
  [pc : {"idle", "respond"} \cup Busy, batch : Seq(Items(es, n)),
   took : SUBSET (1 .. n), failed : SUBSET (0 .. n), rest : SUBSET Conns]

Message(es, n) ==
  [id : 1 .. n, to : Consumers, event : es, receives : 0 .. MaxReceives, hidden : BOOLEAN]

OutboxFits ==
  /\ transport \in Transports
  /\ log \in Seq(Events) /\ published \subseteq Range(log)
  /\ relay \in [Relays -> RelayRecord(Range(log))]
  /\ \A r \in Relays : relay[r].pc # "idle" => relay[r].batch # <<>>

WireFits ==
  /\ sent \in Nat /\ IsFiniteSet(msgs) /\ msgs \subseteq Message(Range(log), sent)
  /\ dead \subseteq Range(log) \X Consumers /\ processed \subseteq Range(log) \X Consumers

\* A bus message is one message on each queue.
MessagesDiffer == \A m, n \in msgs : m.id = n.id /\ m.to = n.to => m = n

LiveFits ==
  /\ conn \in [Conns -> {"new", "row", "open", "left", "gone"}]
  /\ audience \in [Events -> SUBSET Conns] /\ pushed \subseteq Events \X Conns /\ faults \in 0 .. MaxFaults

\* A worker has a batch while it is busy, and answers only for messages it took.
Shaped(a) ==
  /\ a.pc = "idle" => a = IdleWorker
  /\ a.pc \in Busy => a.batch # <<>>
  /\ a.pc = "respond" => a.batch = <<>>

WorkersFit ==
  /\ worker \in [Workers -> WorkerRecord(Range(log), sent)]
  /\ \A w \in Workers : Shaped(worker[w])

\* What is owed to a consumer for an event that has left the outbox.
Kept(e, c) ==
  \/ <<e, c>> \in processed \cup dead
  \/ \E m \in msgs : m.event = e /\ m.to = c

Sent(e) == \A c \in Consumers : Kept(e, c)

NothingDropped ==
  transport = "queue" =>
    /\ \A e \in published : Sent(e)
    /\ \A r \in Relays : relay[r].pc = "mark" => Sent(Head(relay[r].batch))

\* A message that a worker took is still in its batch, or reported, or done with.
HasItem(a, m) == \E i \in 1 .. Len(a.batch) : a.batch[i].event = m.event /\ a.batch[i].id = m.id

Accounts(a, m) ==
  m.id \in a.took => m.id \in a.failed \/ <<m.event, m.to>> \in processed \/ HasItem(a, m)

TakenAccounted ==
  \A w \in Workers : \A m \in msgs : m.to = Consumer[w] => Accounts(worker[w], m)

\* Sockets that have been open since before the commit still have theirs coming, or
\* have got it.
Listening(e) == audience[e] \cap OpenConns

Pushes(a) ==
  a.pc \in {"push", "mark"} =>
    \A c \in Listening(a.batch[1].event) :
      <<a.batch[1].event, c>> \in pushed \/ (a.pc = "push" /\ c \in a.rest)

PushesFit ==
  /\ \A e \in Events : \A c \in audience[e] : conn[c] \in {"open", "left", "gone"}
  /\ \A w \in Workers : Consumer[w] = Notifier => Pushes(worker[w])
  /\ PushedBeforeProcessed

IInv ==
  /\ OutboxFits /\ WireFits /\ MessagesDiffer /\ LiveFits /\ WorkersFit
  /\ NothingDropped /\ TakenAccounted /\ PushesFit
-----------------------------------------------------------------------------
(* Sequences and records.                                                  *)

LEMMA HeadTail ==
  ASSUME NEW S, NEW t \in Seq(S), t # <<>>
  PROVE  /\ Head(t) \in S /\ Head(t) = t[1] /\ Len(t) \in Nat \ {0}
         /\ Tail(t) \in Seq(S) /\ Len(Tail(t)) = Len(t) - 1
         /\ \A i \in 1 .. Len(t) - 1 : Tail(t)[i] = t[i + 1]
OBVIOUS

LEMMA SeqWidens ==
  ASSUME NEW S, NEW T, S \subseteq T, NEW t \in Seq(S)
  PROVE  t \in Seq(T)
<1>1. t \in [1 .. Len(t) -> S] /\ Len(t) \in Nat
  OBVIOUS
<1>2. t \in [1 .. Len(t) -> T]
  BY <1>1
<1> QED BY <1>1, <1>2

LEMMA RelayWidens ==
  ASSUME NEW S, NEW T, S \subseteq T, NEW a \in RelayRecord(S)
  PROVE  a \in RelayRecord(T)
<1>1. a.batch \in Seq(T)
  BY SeqWidens DEF RelayRecord
<1> QED BY <1>1 DEF RelayRecord

LEMMA WorkerWidens ==
  ASSUME NEW S, NEW T, S \subseteq T, NEW m \in Nat, NEW n \in Nat, m <= n, NEW a \in WorkerRecord(S, m)
  PROVE  a \in WorkerRecord(T, n)
<1>1. 1 .. m \subseteq 1 .. n /\ 0 .. m \subseteq 0 .. n
  OBVIOUS
<1>2. Items(S, m) \subseteq Items(T, n)
  BY <1>1 DEF Items
<1>3. a.batch \in Seq(Items(T, n))
  <2>1. a.batch \in Seq(Items(S, m))
    BY DEF WorkerRecord
  <2> QED BY ONLY <1>2, <2>1, SeqWidens
<1> QED BY <1>1, <1>3 DEF WorkerRecord

LEMMA MessageWidens ==
  ASSUME NEW S, NEW T, S \subseteq T, NEW m \in Nat, NEW n \in Nat, m <= n, NEW a \in Message(S, m)
  PROVE  a \in Message(T, n)
BY DEF Message

LEMMA IdleFits ==
  ASSUME NEW S, NEW n \in Nat
  PROVE  IdleWorker \in WorkerRecord(S, n) /\ Shaped(IdleWorker) /\ IdleRelay \in RelayRecord(S)
<1>1. <<>> \in Seq(S) /\ <<>> \in Seq(Items(S, n))
  OBVIOUS
<1> QED BY <1>1 DEF IdleWorker, IdleRelay, WorkerRecord, RelayRecord, Shaped, Busy

LEMMA CommittedEvents ==
  ASSUME OutboxFits
  PROVE  Range(log) \subseteq Events /\ log \in Seq(Events)
BY DEF OutboxFits, Range

\* The batches a query may return are of the events it selects from.
LEMMA BatchesFit ==
  ASSUME NEW es, IsFiniteSet(es), NEW b \in Batches(es)
  PROVE  b \in Seq(es)
<1>1. IsFiniteSet(Oldest(es)) /\ Oldest(es) \subseteq es
  <2>1. Oldest(es) \subseteq es
    BY DEF Oldest
  <2> QED BY <2>1, FS_Subset
<1>2. Cardinality(Oldest(es)) \in Nat
  BY <1>1, FS_CardinalityType
<1>3. b \in [1 .. Cardinality(Oldest(es)) -> Oldest(es)]
  BY DEF Batches, SetToSeqs
<1>4. b \in Seq(Oldest(es))
  BY <1>2, <1>3
<1> QED BY <1>1, <1>4, SeqWidens

LEMMA RangeFinite ==
  ASSUME NEW t \in Seq(Events)
  PROVE  IsFiniteSet(Range(t))
<1>1. IsFiniteSet(1 .. Len(t)) /\ DOMAIN t = 1 .. Len(t)
  BY FS_Interval
<1>2. t \in Surjection(1 .. Len(t), Range(t))
  BY <1>1 DEF Range, Surjection
<1> QED BY <1>1, <1>2, FS_Surjection

-----------------------------------------------------------------------------
(* A worker's steps within its batch.                                      *)

\* Worker w goes on as a, with at most its current item dealt with.
GoesOn(w, a) ==
  /\ worker' = [worker EXCEPT ![w] = a]
  /\ a \in WorkerRecord(Range(log), sent) /\ Shaped(a)

\* What a still has to do of b's batch.
Continues(w, a, b) ==
  \/ a = IdleWorker
  \/ /\ a.took = b.took /\ b.failed \subseteq a.failed
     /\ \/ a.batch = b.batch
        \/ /\ b.batch # <<>> /\ a.batch = Tail(b.batch)
           /\ \/ b.batch[1].id \in a.failed
              \/ <<b.batch[1].event, Consumer[w]>> \in processed'

\* The record a, field by field.
Record(a, pc, batch, took, failed, rest) ==
  a = [pc |-> pc, batch |-> batch, took |-> took, failed |-> failed, rest |-> rest]

LEMMA Fields ==
  ASSUME NEW a, NEW pc, NEW batch, NEW took, NEW failed, NEW rest, Record(a, pc, batch, took, failed, rest)
  PROVE  a.pc = pc /\ a.batch = batch /\ a.took = took /\ a.failed = failed /\ a.rest = rest
BY DEF Record

LEMMA RecordFits ==
  ASSUME NEW S, NEW n, NEW a, NEW pc \in {"idle", "respond"} \cup Busy,
         NEW batch \in Seq(Items(S, n)), NEW took \in SUBSET (1 .. n),
         NEW failed \in SUBSET (0 .. n), NEW rest \in SUBSET Conns,
         Record(a, pc, batch, took, failed, rest)
  PROVE  a \in WorkerRecord(S, n)
BY DEF Record, WorkerRecord

LEMMA FieldsFit ==
  ASSUME NEW S, NEW n, NEW b \in WorkerRecord(S, n)
  PROVE  /\ b.pc \in {"idle", "respond"} \cup Busy /\ b.batch \in Seq(Items(S, n))
         /\ b.took \in SUBSET (1 .. n) /\ b.failed \in SUBSET (0 .. n) /\ b.rest \in SUBSET Conns
         /\ Record(b, b.pc, b.batch, b.took, b.failed, b.rest)
BY DEF WorkerRecord, Record

\* The updates the steps make.
WithPc(b, p)         == [b EXCEPT !.pc = p]
WithFailed(b, f)     == [b EXCEPT !.failed = f]
WithRest(b, q)       == [b EXCEPT !.rest = q]
WithBatch(b, t)      == [b EXCEPT !.batch = t]
WithItems(b, p, t)   == [b EXCEPT !.pc = p, !.batch = t, !.rest = {}]
WithPushes(b, p, q)  == [b EXCEPT !.pc = p, !.rest = q]

LEMMA SetsOne ==
  ASSUME NEW b, NEW pc, NEW batch, NEW took, NEW failed, NEW rest,
         Record(b, pc, batch, took, failed, rest), NEW x
  PROVE  /\ Record(WithPc(b, x), x, batch, took, failed, rest)
         /\ Record(WithFailed(b, x), pc, batch, took, x, rest)
         /\ Record(WithRest(b, x), pc, batch, took, failed, x)
         /\ Record(WithBatch(b, x), pc, x, took, failed, rest)
<1>1. Record(WithPc(b, x), x, batch, took, failed, rest)
  BY DEF Record, WithPc
<1>2. Record(WithFailed(b, x), pc, batch, took, x, rest)
  BY DEF Record, WithFailed
<1>3. Record(WithRest(b, x), pc, batch, took, failed, x)
  BY DEF Record, WithRest
<1>4. Record(WithBatch(b, x), pc, x, took, failed, rest)
  BY DEF Record, WithBatch
<1> QED BY <1>1, <1>2, <1>3, <1>4

LEMMA SetsMore ==
  ASSUME NEW b, NEW pc, NEW batch, NEW took, NEW failed, NEW rest,
         Record(b, pc, batch, took, failed, rest), NEW p, NEW t, NEW q
  PROVE  /\ Record(WithItems(b, p, t), p, t, took, failed, {})
         /\ Record(WithPushes(b, p, q), p, batch, took, failed, q)
<1>1. WithItems(b, p, t) = WithRest(WithBatch(WithPc(b, p), t), {})
  BY DEF WithItems, WithRest, WithBatch, WithPc
<1>2. WithPushes(b, p, q) = WithRest(WithPc(b, p), q)
  BY DEF WithPushes, WithRest, WithPc
<1>3. Record(WithPc(b, p), p, batch, took, failed, rest)
  BY SetsOne
<1>4. Record(WithBatch(WithPc(b, p), t), p, t, took, failed, rest)
  BY <1>3, SetsOne
<1>5. Record(WithRest(WithBatch(WithPc(b, p), t), {}), p, t, took, failed, {})
  BY <1>4, SetsOne
<1>6. Record(WithRest(WithPc(b, p), q), p, batch, took, failed, q)
  BY <1>3, SetsOne
<1> QED BY <1>1, <1>2, <1>5, <1>6

LEMMA TailOfOne ==
  ASSUME NEW S, NEW t \in Seq(S), t # <<>>
  PROVE  \E u \in Seq(S) : u = Tail(t) /\ (IF Len(t) > 1 THEN u # <<>> ELSE Len(t) = 1 /\ u = <<>>)
<1>1. Tail(t) \in Seq(S) /\ Len(Tail(t)) = Len(t) - 1 /\ Len(t) \in Nat \ {0}
  BY HeadTail
<1>2. PICK n \in Nat : n = Len(t) /\ n # 0
  BY <1>1
<1>3. PICK u \in Seq(S) : u = Tail(t)
  BY <1>1
<1>4. Len(u) = n - 1
  BY <1>1, <1>2, <1>3
<1>5. CASE n > 1
  <2>1. u # <<>>
    BY <1>4, <1>5
  <2>2. Len(t) > 1
    BY <1>2, <1>5
  <2> QED BY <1>3, <2>1, <2>2
<1>6. CASE n = 1
  <2>1. u = <<>>
    BY <1>4, <1>6
  <2>2. Len(t) = 1 /\ ~(Len(t) > 1)
    BY <1>2, <1>6
  <2> QED BY <1>3, <2>1, <2>2
<1> QED BY <1>2, <1>5, <1>6

LEMMA AdvanceEffect ==
  ASSUME NEW S, NEW n \in Nat, NEW b \in WorkerRecord(S, n), b.batch # <<>>
  PROVE  /\ Advance(b) \in WorkerRecord(S, n) /\ Shaped(Advance(b))
         /\ Advance(b).pc \notin {"push", "mark"}
         /\ \/ Advance(b) = IdleWorker
            \/ /\ Advance(b).took = b.took /\ Advance(b).failed = b.failed
               /\ Advance(b).batch = Tail(b.batch)
<1>1. /\ b.batch \in Seq(Items(S, n)) /\ b.took \in SUBSET (1 .. n) /\ b.failed \in SUBSET (0 .. n)
      /\ Record(b, b.pc, b.batch, b.took, b.failed, b.rest)
  BY FieldsFit
<1>2. PICK t \in Seq(Items(S, n)) :
        t = Tail(b.batch) /\ (IF Len(b.batch) > 1 THEN t # <<>> ELSE Len(b.batch) = 1 /\ t = <<>>)
  BY <1>1, TailOfOne
<1>3. CASE Len(b.batch) > 1
  <2>1. PICK p \in {"handle", "check"} : Advance(b) = WithItems(b, p, t)
    <3>1. CASE b.took = {}
      BY <1>2, <1>3, <3>1 DEF Advance, WithItems
    <3>2. CASE b.took # {}
      BY <1>2, <1>3, <3>2 DEF Advance, WithItems
    <3> QED BY <3>1, <3>2
  <2>2. Record(Advance(b), p, t, b.took, b.failed, {})
    BY <1>1, <2>1, SetsMore
  <2>3. Advance(b) \in WorkerRecord(S, n)
    BY <1>1, <2>2, RecordFits DEF Busy
  <2>4. /\ Advance(b).pc = p /\ Advance(b).took = b.took /\ Advance(b).failed = b.failed
        /\ Advance(b).batch = t
    BY <2>2, Fields
  <2> QED BY <1>2, <1>3, <2>3, <2>4 DEF Shaped, Busy
<1>4. CASE ~(Len(b.batch) > 1)
  <2>1. t = <<>>
    BY <1>2, <1>4
  <2>2. CASE b.took = {}
    <3>1. Advance(b) = IdleWorker
      BY <1>4, <2>2 DEF Advance
    <3>2. IdleWorker.pc = "idle"
      BY DEF IdleWorker
    <3> QED BY <3>1, <3>2, IdleFits
  <2>3. CASE b.took # {}
    <3>1. Advance(b) = WithItems(b, "respond", t)
      BY <1>4, <2>1, <2>3 DEF Advance, WithItems
    <3>2. Record(Advance(b), "respond", t, b.took, b.failed, {})
      BY <1>1, <3>1, SetsMore
    <3>3. Advance(b) \in WorkerRecord(S, n)
      BY <1>1, <3>2, RecordFits
    <3>4. /\ Advance(b).pc = "respond" /\ Advance(b).took = b.took /\ Advance(b).failed = b.failed
          /\ Advance(b).batch = t
      BY <3>2, Fields
    <3> QED BY <1>2, <2>1, <3>3, <3>4 DEF Shaped, Busy
  <2> QED BY <2>2, <2>3
<1> QED BY <1>3, <1>4

LEMMA BusyWorker ==
  ASSUME OutboxFits, WireFits, WorkersFit, NEW w \in Workers
  PROVE  /\ worker[w] \in WorkerRecord(Range(log), sent) /\ Shaped(worker[w]) /\ sent \in Nat
         /\ worker \in [Workers -> WorkerRecord(Range(log), sent)]
         /\ worker[w].pc \in Busy =>
              /\ worker[w].batch # <<>>
              /\ Current(w) = worker[w].batch[1] /\ Current(w).event \in Range(log)
              /\ Current(w).id \in 0 .. sent
<1>1. /\ worker[w] \in WorkerRecord(Range(log), sent) /\ Shaped(worker[w]) /\ sent \in Nat
      /\ worker \in [Workers -> WorkerRecord(Range(log), sent)]
  BY DEF WorkersFit, WireFits
<1>2. ASSUME worker[w].pc \in Busy
      PROVE  /\ worker[w].batch # <<>>
             /\ Current(w) = worker[w].batch[1] /\ Current(w).event \in Range(log)
             /\ Current(w).id \in 0 .. sent
  <2>1. worker[w].batch # <<>> /\ worker[w].batch \in Seq(Items(Range(log), sent))
    BY <1>1, <1>2 DEF Shaped, WorkerRecord
  <2>2. /\ Head(worker[w].batch) \in Items(Range(log), sent)
        /\ Head(worker[w].batch) = worker[w].batch[1]
    BY <2>1, HeadTail
  <2> QED BY <2>1, <2>2 DEF Current, Items
<1> QED BY <1>1, <1>2

\* What each step makes of a worker's record.
Becomes(w, a) == worker' = [worker EXCEPT ![w] = a]

LEMMA CheckEffect ==
  ASSUME NEW w \in Workers, Check(w)
  PROVE  /\ worker[w].pc = "check"
         /\ UNCHANGED <<once, outbox, relay, wire, processed, live, pushed, faults>>
         /\ \/ Done(Current(w).event, Consumer[w]) /\ Becomes(w, Advance(worker[w]))
            \/ Becomes(w, WithPc(worker[w], "handle"))
<1>1. CASE Done(Current(w).event, Consumer[w])
  BY <1>1 DEF Check, Becomes
<1>2. CASE ~Done(Current(w).event, Consumer[w])
  BY <1>2 DEF Check, Becomes, WithPc
<1> QED BY <1>1, <1>2

LEMMA HandleEffect ==
  ASSUME NEW w \in Workers, Handle(w)
  PROVE  /\ worker[w].pc = "handle" /\ Consumer[w] # Notifier
         /\ UNCHANGED <<once, outbox, relay, wire, processed, live, pushed, faults>>
         /\ Becomes(w, WithPc(worker[w], "mark"))
<1>1. [worker EXCEPT ![w].pc = "mark"] = [worker EXCEPT ![w] = WithPc(worker[w], "mark")]
  BY DEF WithPc
<1> QED BY <1>1 DEF Handle, Becomes

LEMMA ListConnsEffect ==
  ASSUME NEW w \in Workers, ListConns(w)
  PROVE  /\ worker[w].pc = "handle" /\ Consumer[w] = Notifier
         /\ UNCHANGED <<once, outbox, relay, wire, processed, live, pushed, faults>>
         /\ \/ Rows = {} /\ Becomes(w, WithPushes(worker[w], "mark", Rows))
            \/ Becomes(w, WithPushes(worker[w], "push", Rows))
<1>1. PICK p : p = IF Rows = {} THEN "mark" ELSE "push"
  OBVIOUS
<1>2. worker' = [worker EXCEPT ![w].pc = p, ![w].rest = Rows]
  BY <1>1 DEF ListConns
<1>3. Becomes(w, WithPushes(worker[w], p, Rows))
  BY <1>2 DEF Becomes, WithPushes
<1> QED BY <1>1, <1>3 DEF ListConns

LEMMA PushEffect ==
  ASSUME NEW w \in Workers, NEW c \in Conns, Push(w, c)
  PROVE  /\ worker[w].pc = "push" /\ c \in worker[w].rest
         /\ UNCHANGED <<once, outbox, relay, wire, processed, live, faults>>
         /\ pushed' = IF conn[c] = "open" THEN pushed \cup {<<Current(w).event, c>>} ELSE pushed
         /\ \/ worker[w].rest = {c} /\ Becomes(w, WithPushes(worker[w], "mark", worker[w].rest \ {c}))
            \/ Becomes(w, WithPushes(worker[w], "push", worker[w].rest \ {c}))
<1>1. PICK p : p = IF worker[w].rest = {c} THEN "mark" ELSE "push"
  OBVIOUS
<1>2. PICK q : q = worker[w].rest \ {c}
  OBVIOUS
<1>3. worker' = [worker EXCEPT ![w].rest = q, ![w].pc = p]
  BY <1>1, <1>2 DEF Push
<1>4. Becomes(w, WithPushes(worker[w], p, q))
  BY <1>3 DEF Becomes, WithPushes
<1> QED BY <1>1, <1>2, <1>4 DEF Push

LEMMA MarkEffect ==
  ASSUME NEW w \in Workers, Mark(w)
  PROVE  /\ worker[w].pc = "mark" /\ Becomes(w, Advance(worker[w]))
         /\ UNCHANGED <<once, outbox, relay, wire, live, pushed, faults>>
         /\ processed' = processed \cup {<<Current(w).event, Consumer[w]>>}
BY DEF Mark, Becomes

LEMMA ItemFailsEffect ==
  ASSUME NEW w \in Workers, ItemFails(w)
  PROVE  /\ worker[w].pc \in Busy
         /\ UNCHANGED <<once, outbox, relay, wire, processed, live, pushed>>
         /\ \/ Becomes(w, IdleWorker)
            \/ Becomes(w, Advance(WithFailed(worker[w], worker[w].failed \cup {Head(worker[w].batch).id})))
<1>1. worker' = [worker EXCEPT ![w] = Failed(worker[w])]
  BY DEF ItemFails
<1>2. \/ Failed(worker[w]) = IdleWorker
      \/ Failed(worker[w]) = Advance(WithFailed(worker[w], worker[w].failed \cup {Head(worker[w].batch).id}))
  BY DEF Failed, WithFailed
<1> QED BY <1>1, <1>2 DEF ItemFails, Becomes, Busy

LEMMA WithFits ==
  ASSUME NEW S, NEW n \in Nat, NEW b \in WorkerRecord(S, n), b.batch # <<>>
  PROVE  /\ \A p \in Busy : /\ WithPc(b, p) \in WorkerRecord(S, n) /\ Shaped(WithPc(b, p))
                            /\ WithPc(b, p).pc = p /\ WithPc(b, p).took = b.took
                            /\ WithPc(b, p).failed = b.failed /\ WithPc(b, p).batch = b.batch
         /\ \A p \in Busy, q \in SUBSET Conns :
              /\ WithPushes(b, p, q) \in WorkerRecord(S, n) /\ Shaped(WithPushes(b, p, q))
              /\ WithPushes(b, p, q).pc = p /\ WithPushes(b, p, q).took = b.took
              /\ WithPushes(b, p, q).failed = b.failed /\ WithPushes(b, p, q).batch = b.batch
              /\ WithPushes(b, p, q).rest = q
         /\ \A f \in SUBSET (0 .. n) :
              /\ WithFailed(b, f) \in WorkerRecord(S, n) /\ WithFailed(b, f).took = b.took
              /\ WithFailed(b, f).failed = f /\ WithFailed(b, f).batch = b.batch
<1>1. /\ b.pc \in {"idle", "respond"} \cup Busy /\ b.batch \in Seq(Items(S, n))
      /\ b.took \in SUBSET (1 .. n) /\ b.failed \in SUBSET (0 .. n) /\ b.rest \in SUBSET Conns
      /\ Record(b, b.pc, b.batch, b.took, b.failed, b.rest)
  BY FieldsFit
<1>2. ASSUME NEW p \in Busy
      PROVE  /\ WithPc(b, p) \in WorkerRecord(S, n) /\ Shaped(WithPc(b, p))
             /\ WithPc(b, p).pc = p /\ WithPc(b, p).took = b.took
             /\ WithPc(b, p).failed = b.failed /\ WithPc(b, p).batch = b.batch
  <2>1. Record(WithPc(b, p), p, b.batch, b.took, b.failed, b.rest)
    BY <1>1, SetsOne
  <2>2. WithPc(b, p) \in WorkerRecord(S, n)
    BY <1>1, <2>1, RecordFits
  <2> QED BY <2>1, <2>2, Fields DEF Shaped, Busy
<1>3. ASSUME NEW p \in Busy, NEW q \in SUBSET Conns
      PROVE  /\ WithPushes(b, p, q) \in WorkerRecord(S, n) /\ Shaped(WithPushes(b, p, q))
             /\ WithPushes(b, p, q).pc = p /\ WithPushes(b, p, q).took = b.took
             /\ WithPushes(b, p, q).failed = b.failed /\ WithPushes(b, p, q).batch = b.batch
             /\ WithPushes(b, p, q).rest = q
  <2>1. Record(WithPushes(b, p, q), p, b.batch, b.took, b.failed, q)
    BY <1>1, SetsMore
  <2>2. WithPushes(b, p, q) \in WorkerRecord(S, n)
    BY <1>1, <2>1, RecordFits
  <2> QED BY <2>1, <2>2, Fields DEF Shaped, Busy
<1>4. ASSUME NEW f \in SUBSET (0 .. n)
      PROVE  /\ WithFailed(b, f) \in WorkerRecord(S, n) /\ WithFailed(b, f).took = b.took
             /\ WithFailed(b, f).failed = f /\ WithFailed(b, f).batch = b.batch
  <2>1. Record(WithFailed(b, f), b.pc, b.batch, b.took, f, b.rest)
    BY <1>1, SetsOne
  <2>2. WithFailed(b, f) \in WorkerRecord(S, n)
    BY <1>1, <2>1, RecordFits
  <2> QED BY <2>1, <2>2, Fields
<1> QED BY <1>2, <1>3, <1>4

LEMMA OneWorker ==
  ASSUME OutboxFits, WireFits, WorkersFit, NEW w \in Workers, NEW a, Becomes(w, a)
  PROVE  worker'[w] = a /\ \A v \in Workers \ {w} : worker'[v] = worker[v]
BY DEF WorkersFit, Becomes

LEMMA WorkersGoOn ==
  ASSUME OutboxFits, WireFits, WorkersFit, NEW w \in Workers,
         NEW a \in WorkerRecord(Range(log), sent), Shaped(a), Becomes(w, a), log' = log, sent' = sent
  PROVE  WorkersFit'
<1>1. worker' \in [Workers -> WorkerRecord(Range(log), sent)]
  BY DEF WorkersFit, Becomes
<1>2. ASSUME NEW v \in Workers PROVE Shaped(worker'[v])
  <2>1. worker'[w] = a /\ (v # w => worker'[v] = worker[v])
    BY OneWorker
  <2> QED BY <2>1 DEF WorkersFit
<1> QED BY <1>1, <1>2 DEF WorkersFit

\* A step within a batch loses track of no message that was taken.
LEMMA AccountsGoOn ==
  ASSUME OutboxFits, WireFits, WorkersFit, TakenAccounted, NEW w \in Workers, NEW a,
         Becomes(w, a), Continues(w, a, worker[w]),
         UNCHANGED <<msgs, Consumer>>, processed \subseteq processed'
  PROVE  TakenAccounted'
<1> SUFFICES ASSUME NEW v \in Workers, NEW m \in msgs, m.to = Consumer[v]
             PROVE  Accounts(worker[v], m)'
  BY DEF TakenAccounted
<1>1. Accounts(worker[v], m)
  BY DEF TakenAccounted
<1>2. CASE v # w
  <2>1. worker'[v] = worker[v]
    BY <1>2, OneWorker
  <2> QED BY <1>1, <2>1 DEF Accounts, HasItem
<1>3. CASE v = w /\ a = IdleWorker
  <2>1. worker'[v].took = {}
    BY <1>3, OneWorker DEF IdleWorker
  <2> QED BY <2>1 DEF Accounts
<1>4. CASE v = w /\ a # IdleWorker
  <2>1. worker'[v] = a
    BY <1>4, OneWorker
  <2>2. PICK b : b = worker[v]
    OBVIOUS
  <2>3. a.took = b.took /\ b.failed \subseteq a.failed
    BY <1>4, <2>2 DEF Continues
  <2>4. CASE a.batch = b.batch
    BY <1>1, <2>1, <2>2, <2>3, <2>4 DEF Accounts, HasItem
  <2>5. CASE a.batch # b.batch
    <3>1. /\ b.batch # <<>> /\ a.batch = Tail(b.batch)
          /\ b.batch[1].id \in a.failed \/ <<b.batch[1].event, Consumer[w]>> \in processed'
      BY <1>4, <2>2, <2>5 DEF Continues
    <3>2. b.batch \in Seq(Items(Range(log), sent))
      BY <2>2, BusyWorker, FieldsFit
    <3>3. PICK t, k : /\ k \in Nat /\ t = Tail(b.batch) /\ k = Len(b.batch) /\ k # 0 /\ Len(t) = k - 1
                      /\ \A i \in 1 .. k - 1 : t[i] = b.batch[i + 1]
      <4>1. /\ Len(b.batch) \in Nat \ {0} /\ Len(Tail(b.batch)) = Len(b.batch) - 1
            /\ \A i \in 1 .. Len(b.batch) - 1 : Tail(b.batch)[i] = b.batch[i + 1]
        BY <3>1, <3>2, HeadTail
      <4>2. PICK t, k : t = Tail(b.batch) /\ k = Len(b.batch)
        OBVIOUS
      <4>3. k \in Nat /\ k # 0 /\ Len(t) = k - 1 /\ \A i \in 1 .. k - 1 : t[i] = b.batch[i + 1]
        BY <4>1, <4>2
      <4> QED BY <4>2, <4>3
    <3>4. ASSUME HasItem(b, m)
          PROVE  \/ m.event = b.batch[1].event /\ m.id = b.batch[1].id
                 \/ HasItem(a, m)
      <4>1. PICK i \in 1 .. k : b.batch[i].event = m.event /\ b.batch[i].id = m.id
        BY <3>3, <3>4 DEF HasItem
      <4>2. CASE i = 1
        BY <4>1, <4>2
      <4>3. CASE i # 1
        <5>1. i - 1 \in 1 .. k - 1 /\ (i - 1) + 1 = i
          BY <3>3, <4>1, <4>3
        <5>2. t[i - 1] = b.batch[i]
          BY <3>3, <5>1
        <5>3. HasItem(a, m)
          BY <3>1, <3>3, <4>1, <5>1, <5>2 DEF HasItem
        <5> QED BY <5>3
      <4> QED BY <4>2, <4>3
    <3> QED BY <1>1, <1>4, <2>1, <2>2, <2>3, <3>1, <3>4 DEF Accounts, HasItem
  <2> QED BY <2>4, <2>5
<1> QED BY <1>2, <1>3, <1>4

LEMMA WorkerGoesOn ==
  ASSUME IInv, NEW w \in Workers, NEW a \in WorkerRecord(Range(log), sent), Shaped(a), Becomes(w, a),
         Continues(w, a, worker[w]), UNCHANGED <<once, outbox, relay, wire, live>>,
         processed \subseteq processed', processed' \subseteq Range(log) \X Consumers,
         pushed \subseteq pushed', pushed' \subseteq Events \X Conns, faults' \in 0 .. MaxFaults,
         (Consumer[w] = Notifier) => Pushes(a)', PushedBeforeProcessed'
  PROVE  IInv'
<1>1. /\ UNCHANGED <<transport, Consumer, log, published, relay, msgs, sent, dead, conn, audience>>
      /\ OutboxFits /\ WireFits /\ MessagesDiffer /\ LiveFits /\ WorkersFit
      /\ NothingDropped /\ TakenAccounted /\ PushesFit
  BY DEF IInv, once, outbox, wire, live
<1>2. Consumers' = Consumers
  BY <1>1 DEF Consumers
<1>3. OutboxFits'
  BY <1>1 DEF OutboxFits
<1>4. WireFits'
  BY <1>1, <1>2 DEF WireFits, Message
<1>5. MessagesDiffer' /\ LiveFits'
  BY <1>1 DEF MessagesDiffer, LiveFits
<1>6. WorkersFit'
  BY <1>1, WorkersGoOn
<1>7. NothingDropped'
  <2>1. \A e : Sent(e) => Sent(e)'
    BY <1>1, <1>2 DEF Sent, Kept
  <2> QED BY <1>1, <2>1 DEF NothingDropped
<1>8. TakenAccounted'
  BY <1>1, AccountsGoOn
<1>9. PushesFit'
  <2>1. \A v \in Workers : Consumer[v] = Notifier => Pushes(worker[v])'
    <3> SUFFICES ASSUME NEW v \in Workers, Consumer[v] = Notifier PROVE Pushes(worker[v])'
      OBVIOUS
    <3>1. CASE v = w
      <4>1. worker'[v] = a
        BY <1>1, <3>1, OneWorker
      <4> QED BY <3>1, <4>1 DEF Pushes
    <3>2. CASE v # w
      <4>1. worker'[v] = worker[v] /\ Pushes(worker[v])
        BY <1>1, <3>2, OneWorker DEF PushesFit
      <4> QED BY <1>1, <4>1 DEF Pushes, Listening, OpenConns
    <3> QED BY <3>1, <3>2
  <2> QED BY <1>1, <2>1 DEF PushesFit
<1> QED BY <1>3, <1>4, <1>5, <1>6, <1>7, <1>8, <1>9 DEF IInv

LEMMA Parts ==
  ASSUME IInv
  PROVE  /\ OutboxFits /\ WireFits /\ MessagesDiffer /\ LiveFits /\ WorkersFit
         /\ NothingDropped /\ TakenAccounted /\ PushesFit /\ PushedBeforeProcessed
         /\ Range(log) \subseteq Events /\ sent \in Nat
         /\ processed \subseteq Range(log) \X Consumers /\ pushed \subseteq Events \X Conns
         /\ faults \in 0 .. MaxFaults
BY CommittedEvents DEF IInv, PushesFit, WireFits, LiveFits

\* Everything but the worker and the faults stays.
Quiet == UNCHANGED <<once, outbox, relay, wire, processed, live, pushed>>

LEMMA QuietGoesOn ==
  ASSUME IInv, NEW w \in Workers, NEW a \in WorkerRecord(Range(log), sent), Shaped(a), Becomes(w, a),
         Continues(w, a, worker[w]), Quiet, faults' \in 0 .. MaxFaults,
         (Consumer[w] = Notifier) => Pushes(a)
  PROVE  IInv'
<1>1. /\ UNCHANGED <<once, outbox, relay, wire, live>> /\ processed' = processed /\ pushed' = pushed
      /\ UNCHANGED <<conn, audience>>
  BY DEF Quiet, live
<1>2. Pushes(a) => Pushes(a)'
  BY <1>1 DEF Pushes, Listening, OpenConns
<1>3. PushedBeforeProcessed'
  BY <1>1, Parts DEF PushedBeforeProcessed, Done, OpenConns
<1>4. processed' \subseteq Range(log) \X Consumers /\ pushed' \subseteq Events \X Conns
  BY <1>1, Parts
<1> QED BY <1>1, <1>2, <1>3, <1>4, WorkerGoesOn

LEMMA AdvanceStep ==
  ASSUME IInv, NEW w \in Workers, NEW b \in WorkerRecord(Range(log), sent),
         worker[w].batch # <<>>, b.batch = worker[w].batch, b.took = worker[w].took,
         worker[w].failed \subseteq b.failed,
         b.batch[1].id \in b.failed \/ <<b.batch[1].event, Consumer[w]>> \in processed'
  PROVE  /\ Advance(b) \in WorkerRecord(Range(log), sent) /\ Shaped(Advance(b))
         /\ Continues(w, Advance(b), worker[w]) /\ Pushes(Advance(b)) /\ Pushes(Advance(b))'
<1>1. sent \in Nat
  BY Parts
<1>2. /\ Advance(b) \in WorkerRecord(Range(log), sent) /\ Shaped(Advance(b))
      /\ Advance(b).pc \notin {"push", "mark"}
      /\ \/ Advance(b) = IdleWorker
         \/ /\ Advance(b).took = b.took /\ Advance(b).failed = b.failed
            /\ Advance(b).batch = Tail(b.batch)
  BY <1>1, AdvanceEffect
<1>3. PICK a : a = Advance(b)
  OBVIOUS
<1>4. Continues(w, a, worker[w])
  BY <1>2, <1>3 DEF Continues
<1>5. Pushes(a) /\ Pushes(a)'
  BY <1>2, <1>3 DEF Pushes
<1> QED BY <1>2, <1>3, <1>4, <1>5

LEMMA CheckStep ==
  ASSUME IInv, NEW w \in Workers, Check(w)
  PROVE  IInv'
<1>1. /\ worker[w].pc = "check" /\ Quiet /\ faults' = faults /\ processed' = processed
      /\ \/ Done(Current(w).event, Consumer[w]) /\ Becomes(w, Advance(worker[w]))
         \/ Becomes(w, WithPc(worker[w], "handle"))
  BY CheckEffect DEF Quiet
<1>2. /\ worker[w] \in WorkerRecord(Range(log), sent) /\ sent \in Nat /\ worker[w].batch # <<>>
      /\ Current(w) = worker[w].batch[1] /\ faults' \in 0 .. MaxFaults
  BY <1>1, BusyWorker, Parts DEF Busy
<1>3. CASE Done(Current(w).event, Consumer[w]) /\ Becomes(w, Advance(worker[w]))
  <2>1. <<worker[w].batch[1].event, Consumer[w]>> \in processed'
    BY <1>1, <1>2, <1>3 DEF Done
  <2>2. /\ Advance(worker[w]) \in WorkerRecord(Range(log), sent) /\ Shaped(Advance(worker[w]))
        /\ Continues(w, Advance(worker[w]), worker[w]) /\ Pushes(Advance(worker[w]))
    BY <1>2, <2>1, AdvanceStep
  <2> QED BY <1>1, <1>2, <1>3, <2>2, QuietGoesOn
<1>4. CASE Becomes(w, WithPc(worker[w], "handle"))
  <2>1. PICK a : a = WithPc(worker[w], "handle")
    OBVIOUS
  <2>2. /\ a \in WorkerRecord(Range(log), sent) /\ Shaped(a) /\ a.pc = "handle"
        /\ a.took = worker[w].took /\ a.failed = worker[w].failed /\ a.batch = worker[w].batch
    BY <1>2, <2>1, WithFits DEF Busy
  <2>3. Continues(w, a, worker[w]) /\ Pushes(a)
    BY <2>2 DEF Continues, Pushes
  <2> QED BY <1>1, <1>2, <1>4, <2>1, <2>2, <2>3, QuietGoesOn
<1> QED BY <1>1, <1>3, <1>4

LEMMA HandleStep ==
  ASSUME IInv, NEW w \in Workers, Handle(w)
  PROVE  IInv'
<1>1. /\ worker[w].pc = "handle" /\ Consumer[w] # Notifier /\ Quiet /\ faults' = faults
      /\ Becomes(w, WithPc(worker[w], "mark"))
  BY HandleEffect DEF Quiet
<1>2. /\ worker[w] \in WorkerRecord(Range(log), sent) /\ sent \in Nat /\ worker[w].batch # <<>>
      /\ faults' \in 0 .. MaxFaults
  BY <1>1, BusyWorker, Parts DEF Busy
<1>3. PICK a : a = WithPc(worker[w], "mark")
  OBVIOUS
<1>4. /\ a \in WorkerRecord(Range(log), sent) /\ Shaped(a)
      /\ a.took = worker[w].took /\ a.failed = worker[w].failed /\ a.batch = worker[w].batch
  BY <1>2, <1>3, WithFits DEF Busy
<1>5. Continues(w, a, worker[w])
  BY <1>4 DEF Continues
<1> QED BY <1>1, <1>2, <1>3, <1>4, <1>5, QuietGoesOn

\* The rows name every socket that is open, so none that listens is left out.
LEMMA ListConnsStep ==
  ASSUME IInv, NEW w \in Workers, ListConns(w)
  PROVE  IInv'
<1>1. PICK p \in {"mark", "push"} :
        /\ worker[w].pc = "handle" /\ Quiet /\ faults' = faults /\ (p = "mark" => Rows = {})
        /\ Becomes(w, WithPushes(worker[w], p, Rows))
  BY ListConnsEffect DEF Quiet
<1>2. /\ worker[w] \in WorkerRecord(Range(log), sent) /\ sent \in Nat /\ worker[w].batch # <<>>
      /\ faults' \in 0 .. MaxFaults
  BY <1>1, BusyWorker, Parts DEF Busy
<1>3. PICK a : a = WithPushes(worker[w], p, Rows)
  OBVIOUS
<1>4. Rows \in SUBSET Conns /\ p \in Busy
  BY DEF Rows, Busy
<1>5. /\ a \in WorkerRecord(Range(log), sent) /\ Shaped(a) /\ a.pc = p /\ a.rest = Rows
      /\ a.took = worker[w].took /\ a.failed = worker[w].failed /\ a.batch = worker[w].batch
  BY <1>2, <1>3, <1>4, WithFits
<1>6. Continues(w, a, worker[w])
  BY <1>5 DEF Continues
<1>7. \A e : Listening(e) \subseteq Rows
  BY DEF Listening, OpenConns, Rows
<1>8. Pushes(a)
  BY <1>1, <1>5, <1>7 DEF Pushes
<1> QED BY <1>1, <1>2, <1>3, <1>5, <1>6, <1>8, QuietGoesOn

LEMMA PushStep ==
  ASSUME IInv, NEW w \in Workers, NEW c \in Conns, Push(w, c)
  PROVE  IInv'
<1>1. PICK p \in {"mark", "push"} :
        /\ worker[w].pc = "push" /\ c \in worker[w].rest
        /\ UNCHANGED <<once, outbox, relay, wire, processed, live, faults>>
        /\ pushed' = IF conn[c] = "open" THEN pushed \cup {<<Current(w).event, c>>} ELSE pushed
        /\ p = "mark" => worker[w].rest = {c}
        /\ Becomes(w, WithPushes(worker[w], p, worker[w].rest \ {c}))
  BY PushEffect
<1>2. /\ worker[w] \in WorkerRecord(Range(log), sent) /\ sent \in Nat /\ worker[w].batch # <<>>
      /\ Current(w) = worker[w].batch[1] /\ Current(w).event \in Range(log) /\ faults' \in 0 .. MaxFaults
  BY <1>1, BusyWorker, Parts DEF Busy
<1>3. PICK e, q : e = Current(w).event /\ q = worker[w].rest \ {c}
  OBVIOUS
<1>4. PICK a : a = WithPushes(worker[w], p, q)
  OBVIOUS
<1>5. q \in SUBSET Conns /\ p \in Busy
  BY <1>2, <1>3, FieldsFit DEF Busy
<1>6. /\ a \in WorkerRecord(Range(log), sent) /\ Shaped(a) /\ a.pc = p /\ a.rest = q
      /\ a.took = worker[w].took /\ a.failed = worker[w].failed /\ a.batch = worker[w].batch
  BY <1>2, <1>4, <1>5, WithFits
<1>7. Continues(w, a, worker[w])
  BY <1>6 DEF Continues
<1>8. UNCHANGED <<processed, conn, audience, Consumer, log>>
  BY <1>1 DEF live, once, outbox
<1>9. pushed \subseteq pushed' /\ pushed' \subseteq Events \X Conns
  BY <1>1, <1>2, Parts
<1>10. PushedBeforeProcessed'
  <2>1. PushedBeforeProcessed
    BY Parts
  <2> QED BY <1>8, <1>9, <2>1 DEF PushedBeforeProcessed, Done, OpenConns
<1>11. ASSUME Consumer[w] = Notifier PROVE Pushes(a)'
  <2>1. \A d \in Listening(e) : <<e, d>> \in pushed \/ d \in worker[w].rest
    BY <1>1, <1>2, <1>3, <1>11, Parts DEF PushesFit, Pushes
  <2>2. \A d \in Listening(e) : <<e, d>> \in pushed' \/ d \in q
    <3> SUFFICES ASSUME NEW d \in Listening(e), d = c PROVE <<e, d>> \in pushed'
      BY <1>3, <1>9, <2>1
    <3>1. conn[d] = "open"
      BY DEF Listening, OpenConns
    <3> QED BY <1>1, <1>3, <3>1
  <2>3. Listening(e)' = Listening(e)
    BY <1>8 DEF Listening, OpenConns
  <2>4. a.batch[1].event = e
    BY <1>2, <1>3, <1>6
  <2>5. \A d \in Listening(e) : <<e, d>> \in pushed' \/ (a.pc = "push" /\ d \in a.rest)
    BY <1>1, <1>3, <1>6, <2>2
  <2> QED BY <2>3, <2>4, <2>5 DEF Pushes
<1>12. processed \subseteq processed' /\ processed' \subseteq Range(log) \X Consumers
       /\ UNCHANGED <<once, outbox, relay, wire, live>>
  BY <1>1, <1>8, Parts
<1>13. Becomes(w, a)
  BY <1>1, <1>3, <1>4
<1> QED BY <1>2, <1>6, <1>7, <1>9, <1>10, <1>11, <1>12, <1>13, WorkerGoesOn

\* An event is marked only when its pushes are done.
LEMMA MarkStep ==
  ASSUME IInv, NEW w \in Workers, Mark(w)
  PROVE  IInv'
<1>1. /\ worker[w].pc = "mark" /\ Becomes(w, Advance(worker[w]))
      /\ UNCHANGED <<once, outbox, relay, wire, live, pushed, faults>>
      /\ processed' = processed \cup {<<Current(w).event, Consumer[w]>>}
  BY MarkEffect
<1>2. /\ worker[w] \in WorkerRecord(Range(log), sent) /\ sent \in Nat /\ worker[w].batch # <<>>
      /\ Current(w) = worker[w].batch[1] /\ Current(w).event \in Range(log) /\ faults' \in 0 .. MaxFaults
  BY <1>1, BusyWorker, Parts DEF Busy
<1>3. /\ processed \subseteq processed' /\ processed' \subseteq Range(log) \X Consumers
      /\ <<worker[w].batch[1].event, Consumer[w]>> \in processed'
  BY <1>1, <1>2, Parts DEF Consumers
<1>10. PICK b, a : b = worker[w] /\ a = Advance(b)
  OBVIOUS
<1>4. /\ a \in WorkerRecord(Range(log), sent) /\ Shaped(a) /\ Becomes(w, a)
      /\ Continues(w, a, worker[w]) /\ Pushes(a)'
  <2>1. /\ b \in WorkerRecord(Range(log), sent) /\ b.batch = worker[w].batch /\ b.took = worker[w].took
        /\ worker[w].failed \subseteq b.failed /\ <<b.batch[1].event, Consumer[w]>> \in processed'
    BY <1>2, <1>3, <1>10
  <2>2. /\ Advance(b) \in WorkerRecord(Range(log), sent) /\ Shaped(Advance(b))
        /\ Continues(w, Advance(b), worker[w]) /\ Pushes(Advance(b))'
    BY <1>2, <2>1, AdvanceStep
  <2>3. Becomes(w, a)
    BY <1>1, <1>10
  <2> QED BY <1>10, <2>2, <2>3
<1>5. pushed' = pushed /\ UNCHANGED <<conn, audience>>
  BY <1>1 DEF live
<1>6. PushedBeforeProcessed'
  <2> SUFFICES ASSUME NEW e \in Events, <<e, Notifier>> \in processed', NEW c \in audience[e] \cap OpenConns
               PROVE  <<e, c>> \in pushed
    BY <1>5 DEF PushedBeforeProcessed, Done, OpenConns
  <2>1. CASE <<e, Notifier>> \in processed
    BY <2>1, Parts DEF PushedBeforeProcessed, Done
  <2>2. CASE <<e, Notifier>> = <<Current(w).event, Consumer[w]>>
    <3>1. Consumer[w] = Notifier /\ e = worker[w].batch[1].event
      BY <1>2, <2>2
    <3>2. Pushes(worker[w]) /\ c \in Listening(e)
      BY <3>1, Parts DEF PushesFit, Listening
    <3>3. c \in Listening(worker[w].batch[1].event)
      BY <3>1, <3>2
    <3>4. <<worker[w].batch[1].event, c>> \in pushed
      BY <1>1, <3>2, <3>3 DEF Pushes
    <3> QED BY <3>1, <3>4
  <2> QED BY <1>1, <2>1, <2>2
<1>7. pushed \subseteq pushed' /\ pushed' \subseteq Events \X Conns
  BY <1>5, Parts
<1> QED BY <1>1, <1>2, <1>3, <1>4, <1>6, <1>7, WorkerGoesOn

LEMMA ItemFailsStep ==
  ASSUME IInv, NEW w \in Workers, ItemFails(w)
  PROVE  IInv'
<1> DEFINE f == worker[w].failed \cup {Head(worker[w].batch).id}
<1>1. /\ worker[w].pc \in Busy /\ Quiet
      /\ Becomes(w, IdleWorker) \/ Becomes(w, Advance(WithFailed(worker[w], f)))
  BY ItemFailsEffect DEF Quiet
<1>2. /\ worker[w] \in WorkerRecord(Range(log), sent) /\ sent \in Nat /\ worker[w].batch # <<>>
      /\ Current(w) = worker[w].batch[1] /\ Current(w).id \in 0 .. sent
      /\ Head(worker[w].batch) = worker[w].batch[1]
  BY <1>1, BusyWorker, Parts DEF Current
<1>3. faults' \in 0 .. MaxFaults
  <2>1. faults < MaxFaults /\ faults' = faults + 1 /\ faults \in 0 .. MaxFaults /\ MaxFaults \in Nat
    BY Parts, BoundsAssumption DEF ItemFails, Fault
  <2> QED BY <2>1
<1>4. CASE Becomes(w, IdleWorker)
  <2>1. IdleWorker \in WorkerRecord(Range(log), sent) /\ Shaped(IdleWorker) /\ IdleWorker.pc = "idle"
    BY <1>2, IdleFits DEF IdleWorker
  <2>2. Continues(w, IdleWorker, worker[w]) /\ Pushes(IdleWorker)
    BY <2>1 DEF Continues, Pushes
  <2> QED BY <1>1, <1>3, <1>4, <2>1, <2>2, QuietGoesOn
<1>5. CASE Becomes(w, Advance(WithFailed(worker[w], f)))
  <2>1. f \in SUBSET (0 .. sent) /\ worker[w].batch[1].id \in f /\ worker[w].failed \subseteq f
    BY <1>2, FieldsFit
  <2>2. PICK b : b = WithFailed(worker[w], f)
    OBVIOUS
  <2>3. /\ b \in WorkerRecord(Range(log), sent) /\ b.took = worker[w].took /\ b.failed = f
        /\ b.batch = worker[w].batch
    BY <1>2, <2>1, <2>2, WithFits
  <2>4. /\ Advance(b) \in WorkerRecord(Range(log), sent) /\ Shaped(Advance(b))
        /\ Continues(w, Advance(b), worker[w]) /\ Pushes(Advance(b))
    BY <1>2, <2>1, <2>3, AdvanceStep
  <2> QED BY <1>1, <1>3, <1>5, <2>2, <2>4, QuietGoesOn
<1> QED BY <1>1, <1>4, <1>5

-----------------------------------------------------------------------------
(* The queues.                                                             *)

Same(x, m)  == x.id = m.id /\ x.to = m.to /\ x.event = m.event
Revealed(m) == [m EXCEPT !.hidden = FALSE]
Received(m) == [m EXCEPT !.hidden = TRUE, !.receives = @ + 1]

\* Every message of ms is one of the queue, and no two are the same.
Mirrors(ms) ==
  /\ IsFiniteSet(ms) /\ ms \subseteq Message(Range(log), sent)
  /\ \A x \in ms : \E m \in msgs : Same(x, m)
  /\ \A x, y \in ms : x.id = y.id /\ x.to = y.to => x = y

LEMMA Changed ==
  ASSUME NEW S, NEW n \in Nat, NEW m \in Message(S, n)
  PROVE  /\ Revealed(m) \in Message(S, n) /\ Same(Revealed(m), m)
         /\ Same(Received(m), m) /\ (m.receives < MaxReceives => Received(m) \in Message(S, n))
<1>1. Revealed(m) \in Message(S, n) /\ Same(Revealed(m), m)
  BY DEF Revealed, Message, Same
<1>2. PICK k : k = m.receives + 1
  OBVIOUS
<1>3. Received(m) = [m EXCEPT !.hidden = TRUE, !.receives = k]
  BY <1>2 DEF Received
<1>4. Same(Received(m), m)
  BY <1>3 DEF Message, Same
<1>5. ASSUME m.receives < MaxReceives PROVE Received(m) \in Message(S, n)
  <2>1. k \in 0 .. MaxReceives
    <3>1. m.receives \in 0 .. MaxReceives /\ MaxReceives \in Nat
      BY BoundsAssumption DEF Message
    <3> QED BY <1>2, <1>5, <3>1
  <2> QED BY <1>3, <2>1 DEF Message
<1> QED BY <1>1, <1>4, <1>5

\* Messages taken off the queue, and some put back changed.
LEMMA Replaced ==
  ASSUME IInv, NEW gone \in SUBSET msgs, NEW back \in SUBSET gone,
         NEW f \in [back -> Message(Range(log), sent)], \A m \in back : Same(f[m], m),
         NEW ms, ms = (msgs \ gone) \cup {f[m] : m \in back}
  PROVE  Mirrors(ms)
<1> DEFINE new == {f[m] : m \in back}
<1>1. IsFiniteSet(msgs) /\ msgs \subseteq Message(Range(log), sent) /\ MessagesDiffer
  BY Parts DEF WireFits
<1>2. IsFiniteSet(new)
  <2>1. IsFiniteSet(back)
    BY <1>1, FS_Subset
  <2>2. f \in Surjection(back, new)
    BY DEF Surjection
  <2> HIDE DEF new
  <2> QED BY <2>1, <2>2, FS_Surjection
<1>3. IsFiniteSet(msgs \ gone)
  BY <1>1, FS_Subset
<1>4. IsFiniteSet(ms)
  <2> HIDE DEF new
  <2>1. PICK rest : rest = msgs \ gone /\ IsFiniteSet(rest)
    BY <1>3
  <2>2. IsFiniteSet(rest \cup new)
    BY <1>2, <2>1, FS_Union
  <2>3. ms = rest \cup new
    BY <2>1 DEF new
  <2> QED BY <2>2, <2>3
<1>5. ms \subseteq Message(Range(log), sent)
  BY <1>1
<1>6. ASSUME NEW x \in ms
      PROVE  \/ x \in msgs \ gone
             \/ \E m \in back : x = f[m] /\ Same(x, m)
  OBVIOUS
<1>7. \A x \in ms : \E m \in msgs : Same(x, m)
  BY <1>6 DEF Same
<1>8. ASSUME NEW x \in ms, NEW y \in ms, x.id = y.id, x.to = y.to
      PROVE  x = y
  <2>1. CASE x \in msgs \ gone /\ y \in msgs \ gone
    BY <1>1, <1>8, <2>1 DEF MessagesDiffer
  <2>2. ASSUME NEW m \in back, NEW n \in msgs, Same(x, m) \/ Same(y, m), n.id = x.id, n.to = x.to
        PROVE  n = m
    BY <1>1, <1>8, <2>2 DEF MessagesDiffer, Same
  <2>3. CASE x \in msgs \ gone /\ y \notin msgs \ gone
    BY <1>6, <1>8, <2>2, <2>3
  <2>4. CASE x \notin msgs \ gone /\ y \in msgs \ gone
    <3>1. y.id = x.id /\ y.to = x.to
      BY <1>8
    <3>2. PICK m \in back : x = f[m] /\ Same(x, m)
      BY <1>6, <2>4
    <3>3. y = m
      BY <2>2, <2>4, <3>1, <3>2
    <3> QED BY <2>4, <3>2, <3>3
  <2>5. CASE x \notin msgs \ gone /\ y \notin msgs \ gone
    <3>1. PICK m \in back : x = f[m] /\ Same(x, m)
      BY <1>6, <2>5
    <3>2. PICK n \in back : y = f[n] /\ Same(y, n)
      BY <1>6, <2>5
    <3>3. m = n
      BY <1>1, <1>8, <3>1, <3>2 DEF MessagesDiffer, Same
    <3> QED BY <3>1, <3>2, <3>3
  <2> QED BY <2>1, <2>3, <2>4, <2>5
<1> QED BY <1>4, <1>5, <1>7, <1>8 DEF Mirrors

\* A step that only changes messages, what is dead, or a worker that is not pushing.
LEMMA WireChanges ==
  ASSUME IInv, Mirrors(msgs'), UNCHANGED <<once, outbox, relay, sent, processed, live, pushed, faults>>,
         dead \subseteq dead', dead' \subseteq Range(log) \X Consumers,
         \A m \in msgs : \/ <<m.event, m.to>> \in processed \cup dead'
                         \/ \E x \in msgs' : Same(x, m),
         NEW w \in Workers, NEW a \in WorkerRecord(Range(log), sent), Shaped(a),
         Becomes(w, a), a = worker[w] \/ a.pc \notin {"push", "mark"},
         \A x \in msgs' : x.to = Consumer[w] => Accounts(a, x)
  PROVE  IInv'
<1>1. /\ UNCHANGED <<transport, Consumer, log, published, relay, sent, processed, conn, audience, pushed, faults>>
      /\ OutboxFits /\ WireFits /\ MessagesDiffer /\ LiveFits /\ WorkersFit
      /\ NothingDropped /\ TakenAccounted /\ PushesFit
  BY DEF IInv, once, outbox, live
<1>2. Consumers' = Consumers
  BY <1>1 DEF Consumers
<1>3. OutboxFits'
  BY <1>1 DEF OutboxFits
<1>4. WireFits' /\ MessagesDiffer' /\ LiveFits'
  BY <1>1, <1>2 DEF WireFits, Message, Mirrors, MessagesDiffer, LiveFits
<1>5. WorkersFit'
  BY <1>1, WorkersGoOn
<1>6. NothingDropped'
  <2>1. ASSUME NEW e, NEW c, Kept(e, c) PROVE Kept(e, c)'
    <3>1. CASE <<e, c>> \in processed \cup dead
      BY <1>1, <3>1 DEF Kept
    <3>2. CASE \E m \in msgs : m.event = e /\ m.to = c
      BY <1>1, <3>2 DEF Kept, Same
    <3> QED BY <2>1, <3>1, <3>2 DEF Kept
  <2>2. \A e : Sent(e) => Sent(e)'
    BY <1>2, <2>1 DEF Sent
  <2> QED BY <1>1, <2>2 DEF NothingDropped
<1>7. TakenAccounted'
  <2> SUFFICES ASSUME NEW v \in Workers, NEW x \in msgs', x.to = Consumer[v]
               PROVE  Accounts(worker[v], x)'
    BY <1>1 DEF TakenAccounted
  <2>1. CASE v = w
    <3>1. worker'[v] = a
      BY <1>1, <2>1, OneWorker
    <3> QED BY <1>1, <2>1, <3>1 DEF Accounts, HasItem
  <2>2. CASE v # w
    <3>1. worker'[v] = worker[v]
      BY <1>1, <2>2, OneWorker
    <3>2. PICK m \in msgs : Same(x, m)
      BY DEF Mirrors
    <3>3. Accounts(worker[v], m)
      BY <1>1, <3>2 DEF TakenAccounted, Same
    <3> QED BY <1>1, <3>1, <3>2, <3>3 DEF Accounts, HasItem, Same
  <2> QED BY <2>1, <2>2
<1>8. PushesFit'
  <2>1. ASSUME NEW v \in Workers, Consumer[v] = Notifier PROVE Pushes(worker[v])'
    <3>1. worker'[v] = worker[v] \/ worker'[v].pc \notin {"push", "mark"}
      BY <1>1, OneWorker
    <3>2. CASE worker'[v] = worker[v]
      BY <1>1, <2>1, <3>2 DEF PushesFit, Pushes, Listening, OpenConns
    <3> QED BY <3>1, <3>2 DEF Pushes
  <2>2. PushedBeforeProcessed'
    BY <1>1 DEF PushesFit, PushedBeforeProcessed, Done, OpenConns
  <2> QED BY <1>1, <2>1, <2>2 DEF PushesFit
<1> QED BY <1>3, <1>4, <1>5, <1>6, <1>7, <1>8 DEF IInv

\* A step of no worker.
LEMMA QueueChanges ==
  ASSUME IInv, Mirrors(msgs'), msgs # {},
         UNCHANGED <<once, outbox, relay, sent, processed, worker, live, pushed, faults>>,
         dead \subseteq dead', dead' \subseteq Range(log) \X Consumers,
         \A m \in msgs : \/ <<m.event, m.to>> \in processed \cup dead'
                         \/ \E x \in msgs' : Same(x, m)
  PROVE  IInv'
<1>1. /\ msgs \subseteq Message(Range(log), sent) /\ TakenAccounted
      /\ worker \in [Workers -> WorkerRecord(Range(log), sent)] /\ \A w \in Workers : Shaped(worker[w])
  BY Parts DEF WireFits, WorkersFit
<1>2. PICK w \in Workers : TRUE
  BY <1>1 DEF Message, Consumers
<1>3. PICK a : a = worker[w]
  OBVIOUS
<1>4. Becomes(w, a)
  BY <1>1, <1>2, <1>3 DEF Becomes
<1>5. ASSUME NEW x \in msgs', x.to = Consumer[w] PROVE Accounts(a, x)
  <2>1. PICK m \in msgs : Same(x, m)
    BY DEF Mirrors
  <2>2. Accounts(a, m)
    BY <1>1, <1>2, <1>3, <1>5, <2>1 DEF TakenAccounted, Same
  <2> QED BY <2>1, <2>2 DEF Accounts, HasItem, Same
<1> QED BY <1>1, <1>2, <1>3, <1>4, <1>5, WireChanges

LEMMA VisibilityStep ==
  ASSUME IInv, NEW m \in msgs, VisibilityTimeout(m)
  PROVE  IInv'
<1> DEFINE f == [n \in {m} |-> Revealed(n)]
<1>1. m \in Message(Range(log), sent) /\ sent \in Nat /\ dead \subseteq Range(log) \X Consumers
  BY Parts DEF WireFits
<1>2. Revealed(m) \in Message(Range(log), sent) /\ Same(Revealed(m), m)
  BY <1>1, Changed
<1>3. msgs' = (msgs \ {m}) \cup {f[n] : n \in {m}}
  BY DEF VisibilityTimeout, Hide, Revealed
<1>4. f \in [{m} -> Message(Range(log), sent)] /\ \A n \in {m} : Same(f[n], n)
  BY <1>2
<1>5. Mirrors(msgs')
  <2> HIDE DEF f
  <2> QED BY <1>3, <1>4, Replaced
<1>6. ASSUME NEW n \in msgs PROVE \E x \in msgs' : Same(x, n)
  <2>1. CASE n = m
    BY <1>2, <1>3, <2>1
  <2>2. CASE n # m
    BY <1>3, <2>2 DEF Same
  <2> QED BY <2>1, <2>2
<1>7. UNCHANGED <<once, outbox, relay, sent, dead, processed, worker, live, pushed, faults>>
  BY DEF VisibilityTimeout
<1> QED BY <1>1, <1>5, <1>6, <1>7, QueueChanges

LEMMA RedriveStep ==
  ASSUME IInv, NEW m \in msgs, Redrive(m)
  PROVE  IInv'
<1>1. /\ m \in Message(Range(log), sent) /\ dead \subseteq Range(log) \X Consumers
      /\ IsFiniteSet(msgs) /\ msgs \subseteq Message(Range(log), sent) /\ MessagesDiffer
  BY Parts DEF WireFits
<1>2. /\ msgs' = msgs \ {m} /\ dead' = dead \cup {<<m.event, m.to>>}
      /\ UNCHANGED <<once, outbox, relay, sent, processed, worker, live, pushed, faults>>
  BY DEF Redrive
<1>3. Mirrors(msgs')
  <2>1. IsFiniteSet(msgs')
    BY <1>1, <1>2, FS_Subset
  <2> QED BY <1>1, <1>2, <2>1 DEF Mirrors, Same, MessagesDiffer
<1>4. dead \subseteq dead' /\ dead' \subseteq Range(log) \X Consumers
  BY <1>1, <1>2 DEF Message
<1>5. ASSUME NEW n \in msgs PROVE <<n.event, n.to>> \in dead' \/ \E x \in msgs' : Same(x, n)
  BY <1>2 DEF Same
<1> QED BY <1>2, <1>3, <1>4, <1>5, QueueChanges

LEMMA MirrorsItself ==
  ASSUME IInv
  PROVE  Mirrors(msgs) /\ \A m \in msgs : \E x \in msgs : Same(x, m)
BY Parts DEF Mirrors, WireFits, Same, MessagesDiffer

LEMMA PollStep ==
  ASSUME IInv, NEW w \in Workers, Poll(w)
  PROVE  IInv'
<1> DEFINE due == {e \in Range(log) : ~Done(e, Consumer[w])}
<1>1. PICK b \in Batches(due) :
        /\ b # <<>>
        /\ worker' = [worker EXCEPT ![w] =
             [IdleWorker EXCEPT !.pc = "handle", !.batch = [i \in DOMAIN b |-> Item(b[i], 0)]]]
  BY DEF Poll
<1>2. b \in Seq(Range(log))
  <2>1. IsFiniteSet(Range(log))
    BY CommittedEvents, RangeFinite, Parts
  <2>2. IsFiniteSet(due) /\ due \subseteq Range(log)
    BY <2>1, FS_Subset
  <2> HIDE DEF due
  <2>3. b \in Seq(due)
    BY <2>2, BatchesFit
  <2> QED BY <2>2, <2>3, SeqWidens
<1>3. PICK t : t = [i \in DOMAIN b |-> Item(b[i], 0)]
  OBVIOUS
<1>4. t \in Seq(Items(Range(log), sent)) /\ t # <<>>
  <2>1. Len(b) \in Nat /\ DOMAIN b = 1 .. Len(b) /\ Len(b) # 0 /\ \A i \in 1 .. Len(b) : b[i] \in Range(log)
    BY <1>1, <1>2
  <2>2. sent \in Nat
    BY Parts
  <2>3. \A i \in 1 .. Len(b) : Item(b[i], 0) \in Items(Range(log), sent)
    BY <2>1, <2>2 DEF Item, Items
  <2>4. t \in [1 .. Len(b) -> Items(Range(log), sent)]
    BY <1>3, <2>1, <2>3
  <2>5. t \in Seq(Items(Range(log), sent)) /\ Len(t) = Len(b)
    BY <2>1, <2>4
  <2> QED BY <2>1, <2>5
<1>5. PICK a : a = [IdleWorker EXCEPT !.pc = "handle", !.batch = t]
  OBVIOUS
<1>6. Record(a, "handle", t, {}, {}, {})
  BY <1>5 DEF Record, IdleWorker
<1>7. a.pc = "handle" /\ a.batch = t /\ a.took = {}
  BY <1>6, Fields
<1>8. a \in WorkerRecord(Range(log), sent) /\ Shaped(a)
  <2>1. a \in WorkerRecord(Range(log), sent)
    BY <1>4, <1>6, RecordFits DEF Busy
  <2> QED BY <1>4, <1>7, <2>1 DEF Shaped, Busy
<1>9. Becomes(w, a)
  BY <1>1, <1>3, <1>5 DEF Becomes
<1>10. UNCHANGED <<once, outbox, relay, wire, processed, live, pushed, faults>> /\ UNCHANGED <<msgs, sent, dead>>
  BY DEF Poll, wire
<1>11. Mirrors(msgs') /\ \A m \in msgs : \E x \in msgs' : Same(x, m)
  BY <1>10, MirrorsItself
<1>12. \A x \in msgs' : Accounts(a, x)
  BY <1>7 DEF Accounts
<1>13. dead \subseteq dead' /\ dead' \subseteq Range(log) \X Consumers
  BY <1>10, Parts DEF WireFits
<1> QED BY <1>7, <1>8, <1>9, <1>10, <1>11, <1>12, <1>13, WireChanges

\* What is in an order of a finite set is the whole set.
LEMMA Orders ==
  ASSUME NEW S, IsFiniteSet(S), NEW t \in SetToSeqs(S)
  PROVE  t \in Seq(S) /\ \A x \in S : \E i \in 1 .. Len(t) : t[i] = x
<1>1. PICK n \in Nat : n = Cardinality(S)
  BY FS_CardinalityType
<1>2. IsFiniteSet(1 .. n) /\ Cardinality(1 .. n) = n
  BY FS_Interval
<1>3. t \in [1 .. n -> S] /\ \A i, j \in 1 .. n : i # j => t[i] # t[j]
  BY <1>1 DEF SetToSeqs
<1>4. t \in Injection(1 .. n, S)
  BY <1>3 DEF Injection, IsInjective
<1>5. t \in Surjection(1 .. n, S)
  BY <1>1, <1>2, <1>4, FS_Injection
<1>6. t \in Seq(S) /\ Len(t) = n
  BY <1>3
<1> QED BY <1>5, <1>6 DEF Surjection

LEMMA ReceiveStep ==
  ASSUME IInv, NEW w \in Workers, Receive(w)
  PROVE  IInv'
<1>20. PICK ms \in SUBSET Deliverable(Consumer[w]) : \E s \in SetToSeqs(ms) :
        /\ 0 < Len(s)
        /\ msgs' = (msgs \ ms) \cup {[m EXCEPT !.hidden = TRUE, !.receives = @ + 1] : m \in ms}
        /\ worker' = [worker EXCEPT ![w] =
             [IdleWorker EXCEPT !.pc = "check",
                                !.batch = [i \in DOMAIN s |-> Item(s[i].event, s[i].id)],
                                !.took = {m.id : m \in ms}]]
  BY DEF Receive
<1>1. PICK s \in SetToSeqs(ms) :
        /\ 0 < Len(s)
        /\ msgs' = (msgs \ ms) \cup {[m EXCEPT !.hidden = TRUE, !.receives = @ + 1] : m \in ms}
        /\ worker' = [worker EXCEPT ![w] =
             [IdleWorker EXCEPT !.pc = "check",
                                !.batch = [i \in DOMAIN s |-> Item(s[i].event, s[i].id)],
                                !.took = {m.id : m \in ms}]]
  BY <1>20
<1>2. UNCHANGED <<once, outbox, relay, sent, dead, processed, live, pushed, faults>>
  BY DEF Receive
<1>3. /\ msgs \subseteq Message(Range(log), sent) /\ IsFiniteSet(msgs) /\ sent \in Nat /\ MessagesDiffer
      /\ dead \subseteq Range(log) \X Consumers
  BY Parts DEF WireFits
<1>4. /\ ms \subseteq msgs /\ IsFiniteSet(ms)
      /\ \A m \in ms : m.to = Consumer[w] /\ m.receives < MaxReceives
  <2>1. ms \subseteq msgs /\ \A m \in ms : m.to = Consumer[w] /\ m.receives < MaxReceives
    BY DEF Deliverable
  <2> QED BY <1>3, <2>1, FS_Subset
<1>5. s \in Seq(ms) /\ \A m \in ms : \E i \in 1 .. Len(s) : s[i] = m
  BY <1>4, Orders
<1>6. PICK t : t = [i \in DOMAIN s |-> Item(s[i].event, s[i].id)]
  OBVIOUS
<1>7. /\ t \in Seq(Items(Range(log), sent)) /\ t # <<>> /\ Len(t) = Len(s)
      /\ \A i \in 1 .. Len(s) : t[i].event = s[i].event /\ t[i].id = s[i].id
  <2>1. Len(s) \in Nat /\ DOMAIN s = 1 .. Len(s) /\ Len(s) # 0 /\ \A i \in 1 .. Len(s) : s[i] \in ms
    <3>1. 0 < Len(s)
      BY <1>1
    <3>2. Len(s) \in Nat /\ DOMAIN s = 1 .. Len(s) /\ \A i \in 1 .. Len(s) : s[i] \in ms
      BY <1>5
    <3> QED BY <3>1, <3>2
  <2>2. \A i \in 1 .. Len(s) : Item(s[i].event, s[i].id) \in Items(Range(log), sent)
    BY <1>3, <1>4, <2>1 DEF Item, Items, Message
  <2>3. t \in [1 .. Len(s) -> Items(Range(log), sent)]
    BY <1>6, <2>1, <2>2
  <2>4. t \in Seq(Items(Range(log), sent)) /\ Len(t) = Len(s)
    BY <2>1, <2>3
  <2>5. \A i \in 1 .. Len(s) : t[i].event = s[i].event /\ t[i].id = s[i].id
    BY <1>6, <2>1 DEF Item
  <2> QED BY <2>1, <2>4, <2>5
<1>8. PICK ids : ids = {m.id : m \in ms}
  OBVIOUS
<1>9. ids \in SUBSET (1 .. sent)
  BY <1>3, <1>4, <1>8 DEF Message
<1>10. PICK a : a = [IdleWorker EXCEPT !.pc = "check", !.batch = t, !.took = ids]
  OBVIOUS
<1>11. Record(a, "check", t, ids, {}, {})
  BY <1>10 DEF Record, IdleWorker
<1>12. a.pc = "check" /\ a.batch = t /\ a.took = ids
  BY <1>11, Fields
<1>13. a \in WorkerRecord(Range(log), sent) /\ Shaped(a)
  <2>1. a \in WorkerRecord(Range(log), sent)
    BY <1>7, <1>9, <1>11, RecordFits DEF Busy
  <2> QED BY <1>7, <1>12, <2>1 DEF Shaped, Busy
<1>14. Becomes(w, a)
  BY <1>1, <1>6, <1>8, <1>10 DEF Becomes
<1> DEFINE f == [m \in ms |-> Received(m)]
<1>15. msgs' = (msgs \ ms) \cup {f[m] : m \in ms}
  BY <1>1 DEF Received
<1>16. f \in [ms -> Message(Range(log), sent)] /\ \A m \in ms : Same(f[m], m)
  BY <1>3, <1>4, Changed
<1>17. Mirrors(msgs')
  <2>1. ms \in SUBSET msgs /\ ms \in SUBSET ms
    BY <1>4
  <2> HIDE DEF f
  <2> QED BY <1>15, <1>16, <2>1, Replaced
<1>18. ASSUME NEW m \in msgs PROVE \E x \in msgs' : Same(x, m)
  BY <1>15, <1>16 DEF Same
<1>19. ASSUME NEW x \in msgs', x.to = Consumer[w] PROVE Accounts(a, x)
  <2> SUFFICES ASSUME x.id \in ids PROVE HasItem(a, x)
    BY <1>12 DEF Accounts
  <2>1. PICK m \in ms : m.id = x.id
    BY <1>8
  <2>2. PICK n \in msgs : Same(x, n)
    BY <1>17 DEF Mirrors
  <2>3. n = m
    BY <1>3, <1>4, <1>19, <2>1, <2>2 DEF MessagesDiffer, Same
  <2>4. PICK i \in 1 .. Len(s) : s[i] = m
    BY <1>5
  <2> QED BY <1>7, <1>12, <2>1, <2>2, <2>3, <2>4 DEF HasItem, Same
<1> QED BY <1>2, <1>3, <1>12, <1>13, <1>14, <1>17, <1>18, <1>19, WireChanges

\* What a worker acknowledges is processed: its batch is empty and nothing failed of it.
LEMMA RespondSettles ==
  ASSUME IInv, NEW w \in Workers, Respond(w), NEW m \in msgs
  PROVE  <<m.event, m.to>> \in processed \/ \E x \in msgs' : Same(x, m)
<1> DEFINE mine == {n \in msgs : n.id \in worker[w].took /\ n.to = Consumer[w]}
<1> DEFINE back == {n \in mine : n.id \in worker[w].failed}
<1>1. /\ worker[w].pc = "respond" /\ msgs' = (msgs \ mine) \cup {Revealed(n) : n \in back}
      /\ Shaped(worker[w]) /\ TakenAccounted /\ sent \in Nat /\ msgs \subseteq Message(Range(log), sent)
  BY Parts DEF Respond, Hide, Revealed, WorkersFit, WireFits
<1>2. CASE m \notin mine
  BY <1>1, <1>2 DEF Same
<1>3. CASE m \in back
  BY <1>1, <1>3, Changed
<1>4. CASE m \in mine /\ m \notin back
  <2>1. Accounts(worker[w], m) /\ m.id \in worker[w].took /\ m.id \notin worker[w].failed
    BY <1>1, <1>4 DEF TakenAccounted
  <2>2. ~HasItem(worker[w], m)
    <3>1. Len(worker[w].batch) = 0
      BY <1>1 DEF Shaped
    <3>2. 1 .. 0 = {}
      OBVIOUS
    <3> QED BY <3>1, <3>2 DEF HasItem
  <2> QED BY <2>1, <2>2 DEF Accounts
<1> QED BY <1>2, <1>3, <1>4

LEMMA RespondStep ==
  ASSUME IInv, NEW w \in Workers, Respond(w)
  PROVE  IInv'
<1> DEFINE mine == {m \in msgs : m.id \in worker[w].took /\ m.to = Consumer[w]}
<1> DEFINE back == {m \in mine : m.id \in worker[w].failed}
<1> DEFINE f == [m \in back |-> Revealed(m)]
<1>1. /\ worker[w].pc = "respond" /\ Becomes(w, IdleWorker)
      /\ msgs' = (msgs \ mine) \cup {f[m] : m \in back}
      /\ UNCHANGED <<once, outbox, relay, sent, dead, processed, live, pushed, faults>>
  BY DEF Respond, Becomes, Hide, Revealed
<1>2. /\ msgs \subseteq Message(Range(log), sent) /\ sent \in Nat /\ TakenAccounted
      /\ dead \subseteq Range(log) \X Consumers /\ Shaped(worker[w])
  BY Parts DEF WireFits, WorkersFit
<1>3. f \in [back -> Message(Range(log), sent)] /\ \A m \in back : Same(f[m], m)
  BY <1>2, Changed
<1>4. Mirrors(msgs')
  <2>1. mine \in SUBSET msgs /\ back \in SUBSET mine
    OBVIOUS
  <2> HIDE DEF mine, back, f
  <2> QED BY <1>1, <1>3, <2>1, Replaced
<1>5. \A m \in msgs : <<m.event, m.to>> \in processed \cup dead \/ \E x \in msgs' : Same(x, m)
  BY RespondSettles
<1>6. /\ IdleWorker \in WorkerRecord(Range(log), sent) /\ Shaped(IdleWorker)
      /\ IdleWorker.pc = "idle" /\ IdleWorker.took = {}
  BY <1>2, IdleFits DEF IdleWorker
<1>7. \A x \in msgs' : Accounts(IdleWorker, x)
  BY <1>6 DEF Accounts
<1> HIDE DEF mine, back, f
<1> QED BY <1>1, <1>2, <1>4, <1>5, <1>6, <1>7, WireChanges

-----------------------------------------------------------------------------
(* Sockets, crashes and the relay.                                         *)

\* Sockets come and go, and workers die.
LEMMA LiveChanges ==
  ASSUME IInv, UNCHANGED <<once, outbox, relay, wire, processed, audience, pushed>>, faults' \in 0 .. MaxFaults,
         conn' \in [Conns -> {"new", "row", "open", "left", "gone"}],
         \A c \in Conns : /\ conn'[c] = "open" => conn[c] \in {"row", "open"}
                          /\ conn[c] \in {"open", "left", "gone"} => conn'[c] \in {"open", "left", "gone"},
         \A w \in Workers : worker'[w] \in {worker[w], IdleWorker},
         worker' \in [Workers -> WorkerRecord(Range(log), sent)]
  PROVE  IInv'
<1>1. /\ UNCHANGED <<transport, Consumer, log, published, relay, msgs, sent, dead, processed, audience, pushed>>
      /\ OutboxFits /\ WireFits /\ MessagesDiffer /\ LiveFits /\ WorkersFit
      /\ NothingDropped /\ TakenAccounted /\ PushesFit
  BY DEF IInv, once, outbox, wire
<1>2. Consumers' = Consumers
  BY <1>1 DEF Consumers
<1>3. OutboxFits' /\ MessagesDiffer'
  BY <1>1 DEF OutboxFits, MessagesDiffer
<1>4. WireFits'
  BY <1>1, <1>2 DEF WireFits, Message
<1>5. LiveFits'
  BY <1>1 DEF LiveFits
<1>6. /\ IdleWorker.took = {} /\ IdleWorker.pc = "idle" /\ Shaped(IdleWorker)
  BY <1>1, IdleFits DEF IdleWorker, WireFits
<1>7. WorkersFit'
  BY <1>1, <1>6 DEF WorkersFit
<1>8. NothingDropped'
  <2>1. \A e : Sent(e) => Sent(e)'
    BY <1>1, <1>2 DEF Sent, Kept
  <2> QED BY <1>1, <2>1 DEF NothingDropped
<1>9. TakenAccounted'
  <2> SUFFICES ASSUME NEW w \in Workers, NEW m \in msgs, m.to = Consumer[w] PROVE Accounts(worker[w], m)'
    BY <1>1 DEF TakenAccounted
  <2>1. CASE worker'[w] = worker[w]
    BY <1>1, <2>1 DEF TakenAccounted, Accounts, HasItem
  <2>2. CASE worker'[w] = IdleWorker
    BY <1>6, <2>2 DEF Accounts
  <2> QED BY <2>1, <2>2
<1>10. PushesFit'
  <2>1. ASSUME NEW e \in Events PROVE Listening(e)' \subseteq Listening(e)
    <3> SUFFICES ASSUME NEW c \in Conns, c \in audience[e], conn'[c] = "open" PROVE conn[c] = "open"
      BY <1>1 DEF Listening, OpenConns
    <3> QED BY <1>1 DEF PushesFit
  <2>2. ASSUME NEW w \in Workers, Consumer[w] = Notifier PROVE Pushes(worker[w])'
    <3>1. CASE worker'[w] = IdleWorker
      BY <1>6, <3>1 DEF Pushes
    <3>2. CASE worker'[w] = worker[w]
      <4> SUFFICES ASSUME worker[w].pc \in {"push", "mark"} PROVE Pushes(worker[w])'
        BY <3>2 DEF Pushes
      <4>1. PICK e : e = worker[w].batch[1].event
        OBVIOUS
      <4>2. e \in Events /\ Pushes(worker[w])
        <5>1. Current(w) = worker[w].batch[1] /\ Current(w).event \in Range(log)
          BY <1>1, BusyWorker DEF Busy
        <5> QED BY <1>1, <2>2, <4>1, <5>1, CommittedEvents DEF PushesFit
      <4>3. Listening(e)' \subseteq Listening(e)
        BY <2>1, <4>2
      <4> QED BY <1>1, <3>2, <4>1, <4>2, <4>3 DEF Pushes
    <3> QED BY <3>1, <3>2
  <2>3. PushedBeforeProcessed'
    BY <1>1, <2>1 DEF PushesFit, PushedBeforeProcessed, Done, Listening
  <2>4. \A e \in Events : \A c \in audience[e] : conn'[c] \in {"open", "left", "gone"}
    BY <1>1 DEF PushesFit, LiveFits
  <2> QED BY <1>1, <2>2, <2>3, <2>4 DEF PushesFit
<1> QED BY <1>3, <1>4, <1>5, <1>7, <1>8, <1>9, <1>10 DEF IInv

LEMMA ConnStep ==
  ASSUME IInv, NEW c \in Conns, Connect(c) \/ Register(c) \/ Disconnect(c) \/ ForgetRow(c)
  PROVE  IInv'
<1>1. /\ UNCHANGED <<once, outbox, relay, wire, processed, worker, audience, pushed, faults>>
      /\ conn \in [Conns -> {"new", "row", "open", "left", "gone"}] /\ faults' \in 0 .. MaxFaults
  BY Parts DEF Connect, Register, Disconnect, ForgetRow, LiveFits
<1>2. worker' \in [Workers -> WorkerRecord(Range(log), sent)] /\ \A w \in Workers : worker'[w] = worker[w]
  BY <1>1, Parts DEF WorkersFit
<1>3. PICK p \in {"row", "open", "left", "gone"} :
        /\ conn' = [conn EXCEPT ![c] = p]
        /\ p = "row" => conn[c] = "new"
        /\ p = "open" => conn[c] = "row"
  BY DEF Connect, Register, Disconnect, ForgetRow
<1>4. conn' \in [Conns -> {"new", "row", "open", "left", "gone"}]
  BY <1>1, <1>3
<1>5. ASSUME NEW d \in Conns
      PROVE  /\ conn'[d] = "open" => conn[d] \in {"row", "open"}
             /\ conn[d] \in {"open", "left", "gone"} => conn'[d] \in {"open", "left", "gone"}
  BY <1>1, <1>3
<1> QED BY <1>1, <1>2, <1>4, <1>5, LiveChanges

LEMMA CrashStep ==
  ASSUME IInv, NEW w \in Workers, Crash(w)
  PROVE  IInv'
<1>1. /\ UNCHANGED <<once, outbox, relay, wire, processed, audience, pushed>>
      /\ conn \in [Conns -> {"new", "row", "open", "left", "gone"}]
      /\ worker' = [worker EXCEPT ![w] = IdleWorker]
      /\ worker \in [Workers -> WorkerRecord(Range(log), sent)] /\ sent \in Nat
  BY Parts DEF Crash, LiveFits, WorkersFit
<1>2. faults' \in 0 .. MaxFaults
  <2>1. faults < MaxFaults /\ faults' = faults + 1 /\ faults \in 0 .. MaxFaults /\ MaxFaults \in Nat
    BY Parts, BoundsAssumption DEF Crash, Fault
  <2> QED BY <2>1
<1>3. IdleWorker \in WorkerRecord(Range(log), sent)
  BY <1>1, IdleFits
<1>4. worker' \in [Workers -> WorkerRecord(Range(log), sent)] /\ \A v \in Workers : worker'[v] \in {worker[v], IdleWorker}
  BY <1>1, <1>3
<1>5. \/ conn' = [c \in Conns |-> IF conn[c] \in {"row", "open"} THEN "left" ELSE conn[c]]
      \/ conn' = conn
  BY DEF Crash
<1>6. conn' \in [Conns -> {"new", "row", "open", "left", "gone"}]
  BY <1>1, <1>5
<1>7. ASSUME NEW d \in Conns
      PROVE  /\ conn'[d] = "open" => conn[d] \in {"row", "open"}
             /\ conn[d] \in {"open", "left", "gone"} => conn'[d] \in {"open", "left", "gone"}
  BY <1>1, <1>5
<1> QED BY <1>1, <1>2, <1>4, <1>6, <1>7, LiveChanges

\* What follows the current event of a relay's batch.
LEMMA RelayGoesOn ==
  ASSUME IInv, NEW r \in Relays, relay[r].pc # "idle"
  PROVE  /\ relay[r].batch # <<>> /\ Head(relay[r].batch) \in Range(log)
         /\ \E a \in RelayRecord(Range(log)) :
              /\ NextEvent(r) = [relay EXCEPT ![r] = a]
              /\ a.pc # "mark" /\ (a.pc # "idle" => a.batch # <<>>)
<1>1. relay[r] \in RelayRecord(Range(log)) /\ relay[r].batch # <<>> /\ sent \in Nat
  BY Parts DEF OutboxFits
<1>2. PICK b \in Seq(Range(log)) : b = relay[r].batch
  BY <1>1 DEF RelayRecord
<1>3. Head(b) \in Range(log)
  BY <1>1, <1>2, HeadTail
<1>4. PICK t \in Seq(Range(log)) :
        t = Tail(b) /\ (IF Len(b) > 1 THEN t # <<>> ELSE Len(b) = 1 /\ t = <<>>)
  BY <1>1, <1>2, TailOfOne
<1>5. CASE Len(b) = 1
  <2>1. NextEvent(r) = [relay EXCEPT ![r] = IdleRelay]
    BY <1>2, <1>5 DEF NextEvent
  <2>2. IdleRelay \in RelayRecord(Range(log)) /\ IdleRelay.pc = "idle"
    BY <1>1, IdleFits DEF IdleRelay
  <2> QED BY <1>1, <1>2, <1>3, <2>1, <2>2
<1>6. CASE Len(b) # 1
  <2>1. PICK a : a = [pc |-> "put", batch |-> t]
    OBVIOUS
  <2>2. NextEvent(r) = [relay EXCEPT ![r] = a]
    BY <1>2, <1>4, <1>6, <2>1 DEF NextEvent
  <2>3. t # <<>>
    BY <1>4, <1>6
  <2>4. a \in RelayRecord(Range(log)) /\ a.pc = "put" /\ a.batch = t
    BY <2>1 DEF RelayRecord
  <2> QED BY <1>1, <1>2, <1>3, <2>2, <2>3, <2>4
<1> QED BY <1>5, <1>6

\* A relay goes on, and may have marked what has been sent.
LEMMA RelayChanges ==
  ASSUME IInv, UNCHANGED <<once, log, wire, processed, worker, live, pushed>>, faults' \in 0 .. MaxFaults,
         published \subseteq published', published' \subseteq Range(log),
         (transport = "queue") => \A e \in published' \ published : Sent(e),
         NEW r \in Relays, NEW a \in RelayRecord(Range(log)), a.pc # "mark", a.pc # "idle" => a.batch # <<>>,
         relay' = [relay EXCEPT ![r] = a]
  PROVE  IInv'
<1>1. /\ UNCHANGED <<transport, Consumer, log, msgs, sent, dead, processed, worker, conn, audience, pushed>>
      /\ OutboxFits /\ WireFits /\ MessagesDiffer /\ LiveFits /\ WorkersFit
      /\ NothingDropped /\ TakenAccounted /\ PushesFit
  BY DEF IInv, once, wire, live
<1>2. Consumers' = Consumers
  BY <1>1 DEF Consumers
<1>3. /\ relay' \in [Relays -> RelayRecord(Range(log))] /\ relay'[r] = a
      /\ \A q \in Relays \ {r} : relay'[q] = relay[q]
  BY <1>1 DEF OutboxFits
<1>4. OutboxFits'
  <2>1. \A q \in Relays : relay'[q].pc # "idle" => relay'[q].batch # <<>>
    BY <1>1, <1>3 DEF OutboxFits
  <2> QED BY <1>1, <1>3, <2>1 DEF OutboxFits
<1>5. WireFits' /\ MessagesDiffer' /\ LiveFits' /\ WorkersFit'
  BY <1>1, <1>2 DEF WireFits, Message, MessagesDiffer, LiveFits, WorkersFit
<1>6. NothingDropped'
  <2>1. \A e : Sent(e) => Sent(e)'
    BY <1>1, <1>2 DEF Sent, Kept
  <2> SUFFICES ASSUME transport = "queue"
               PROVE  /\ \A e \in published' : Sent(e)'
                      /\ \A q \in Relays : relay'[q].pc = "mark" => Sent(Head(relay[q].batch))'
    BY <1>1 DEF NothingDropped
  <2>2. \A e \in published' : Sent(e)'
    BY <1>1, <2>1 DEF NothingDropped
  <2>3. ASSUME NEW q \in Relays, relay'[q].pc = "mark" PROVE Sent(Head(relay[q].batch))'
    <3>1. relay'[q] = relay[q]
      BY <1>3, <2>3
    <3>2. PICK e : e = Head(relay[q].batch)
      OBVIOUS
    <3>3. Sent(e)'
      BY <1>1, <2>1, <2>3, <3>1, <3>2 DEF NothingDropped
    <3> QED BY <3>1, <3>2, <3>3 DEF Sent
  <2> QED BY <2>2, <2>3
<1>7. TakenAccounted'
  BY <1>1 DEF TakenAccounted, Accounts, HasItem
<1>8. PushesFit'
  BY <1>1 DEF PushesFit, Pushes, PushedBeforeProcessed, Done, Listening, OpenConns
<1> QED BY <1>4, <1>5, <1>6, <1>7, <1>8 DEF IInv

LEMMA ListUnpublishedStep ==
  ASSUME IInv, NEW r \in Relays, ListUnpublished(r)
  PROVE  IInv'
<1>1. PICK b \in Batches(Unpublished) : b # <<>> /\ relay' = [relay EXCEPT ![r] = [pc |-> "put", batch |-> b]]
  BY DEF ListUnpublished
<1>2. b \in Seq(Range(log))
  <2>1. IsFiniteSet(Range(log))
    BY CommittedEvents, RangeFinite, Parts
  <2>2. IsFiniteSet(Unpublished) /\ Unpublished \subseteq Range(log)
    BY <2>1, FS_Subset DEF Unpublished
  <2>3. b \in Seq(Unpublished)
    BY <2>2, BatchesFit
  <2> QED BY <2>2, <2>3, SeqWidens
<1>3. PICK a : a = [pc |-> "put", batch |-> b]
  OBVIOUS
<1>4. a \in RelayRecord(Range(log)) /\ a.pc = "put" /\ a.batch = b
  BY <1>2, <1>3 DEF RelayRecord
<1>5. /\ UNCHANGED <<once, log, wire, processed, worker, live, pushed>> /\ published' = published
      /\ faults' \in 0 .. MaxFaults /\ published \subseteq Range(log)
  BY Parts DEF ListUnpublished, outbox, OutboxFits
<1>6. published \subseteq published' /\ published' \subseteq Range(log) /\ published' \ published = {}
  BY <1>5
<1> QED BY <1>1, <1>3, <1>4, <1>5, <1>6, RelayChanges

LEMMA RelayFailsStep ==
  ASSUME IInv, NEW r \in Relays, PutFails(r) \/ RelayStops(r)
  PROVE  IInv'
<1>1. /\ UNCHANGED <<once, log, wire, processed, worker, live, pushed>> /\ published' = published
      /\ published \subseteq Range(log) /\ sent \in Nat
  BY Parts DEF PutFails, RelayStops, outbox, OutboxFits
<1>2. faults' \in 0 .. MaxFaults
  <2>1. faults < MaxFaults /\ faults' = faults + 1 /\ faults \in 0 .. MaxFaults /\ MaxFaults \in Nat
    BY Parts, BoundsAssumption DEF PutFails, RelayStops, Fault
  <2> QED BY <2>1
<1>3. \E a \in RelayRecord(Range(log)) :
        relay' = [relay EXCEPT ![r] = a] /\ a.pc # "mark" /\ (a.pc # "idle" => a.batch # <<>>)
  <2>1. CASE PutFails(r)
    <3>1. relay[r].pc # "idle" /\ relay' = NextEvent(r)
      BY <2>1 DEF PutFails, Rejected
    <3> QED BY <3>1, RelayGoesOn
  <2>2. CASE RelayStops(r)
    <3>1. IdleRelay \in RelayRecord(Range(log)) /\ IdleRelay.pc = "idle"
      BY <1>1, IdleFits DEF IdleRelay
    <3> QED BY <2>2, <3>1 DEF RelayStops
  <2> QED BY <2>1, <2>2
<1>4. published \subseteq published' /\ published' \subseteq Range(log) /\ published' \ published = {}
  BY <1>1
<1> QED BY <1>1, <1>2, <1>3, <1>4, RelayChanges

\* An event is marked as published only after it was sent.
LEMMA MarkPublishedStep ==
  ASSUME IInv, NEW r \in Relays, MarkPublished(r)
  PROVE  IInv'
<1>1. /\ relay[r].pc = "mark" /\ relay' = NextEvent(r)
      /\ published' = published \cup {Head(relay[r].batch)}
      /\ UNCHANGED <<once, log, wire, processed, worker, live, pushed>> /\ faults' = faults
  BY DEF MarkPublished
<1>2. Head(relay[r].batch) \in Range(log)
  BY <1>1, RelayGoesOn
<1>3. PICK a \in RelayRecord(Range(log)) :
        relay' = [relay EXCEPT ![r] = a] /\ a.pc # "mark" /\ (a.pc # "idle" => a.batch # <<>>)
  BY <1>1, RelayGoesOn
<1>4. /\ published \subseteq published' /\ published' \subseteq Range(log) /\ faults' \in 0 .. MaxFaults
      /\ \A e \in published' \ published : e = Head(relay[r].batch)
  BY <1>1, <1>2, Parts DEF OutboxFits
<1>5. (transport = "queue") => \A e \in published' \ published : Sent(e)
  BY <1>1, <1>4, Parts DEF NothingDropped
<1> QED BY <1>1, <1>3, <1>4, <1>5, RelayChanges

\* The bus makes one copy of an event for each queue, under a number of its own.
LEMMA CopiesFit ==
  ASSUME IInv, NEW e \in Range(log)
  PROVE  /\ IsFiniteSet(Copies(e)) /\ Copies(e) \subseteq Message(Range(log), sent + 1)
         /\ \A m \in Copies(e) : m.id = sent + 1 /\ m.event = e
         /\ \A m, n \in Copies(e) : m.to = n.to => m = n
         /\ transport = "queue" => \A c \in Consumers : \E m \in Copies(e) : m.to = c
<1> DEFINE copy(c) == [id |-> sent + 1, to |-> c, event |-> e, receives |-> 0, hidden |-> FALSE]
<1>1. sent \in Nat /\ MaxReceives \in Nat
  BY Parts, BoundsAssumption
<1>2. IsFiniteSet(Consumers)
  <2> DEFINE f == [w \in Workers |-> Consumer[w]]
  <2>1. f \in Surjection(Workers, Consumers)
    BY DEF Surjection, Consumers
  <2> HIDE DEF f
  <2> QED BY <2>1, BoundsAssumption, FS_Surjection
<1>3. \/ transport = "poll" /\ Copies(e) = {}
      \/ transport # "poll" /\ Copies(e) = {copy(c) : c \in Consumers}
  BY DEF Copies
<1>4. IsFiniteSet(Copies(e))
  <2>1. CASE Copies(e) = {}
    BY <2>1, FS_EmptySet
  <2>2. CASE Copies(e) = {copy(c) : c \in Consumers}
    <3> DEFINE f == [c \in Consumers |-> copy(c)]
    <3>1. f \in Surjection(Consumers, Copies(e))
      BY <2>2 DEF Surjection
    <3> HIDE DEF f
    <3> QED BY <1>2, <3>1, FS_Surjection
  <2> QED BY <1>3, <2>1, <2>2
<1>5. ASSUME NEW c \in Consumers
      PROVE  /\ copy(c) \in Message(Range(log), sent + 1)
             /\ copy(c).id = sent + 1 /\ copy(c).event = e /\ copy(c).to = c
  BY <1>1 DEF Message
<1>6. ASSUME NEW m \in Copies(e) PROVE \E c \in Consumers : m = copy(c)
  BY <1>3
<1>7. transport = "queue" => \A c \in Consumers : \E m \in Copies(e) : m.to = c
  BY <1>3, <1>5
<1> HIDE DEF copy
<1> QED BY <1>4, <1>5, <1>6, <1>7

LEMMA PutEventsStep ==
  ASSUME IInv, NEW r \in Relays, PutEvents(r)
  PROVE  IInv'
<1>1. PICK e, b : e = Head(relay[r].batch) /\ b = relay[r].batch
  OBVIOUS
<1>2. PICK new : new = Copies(e)
  OBVIOUS
<1>3. /\ relay[r].pc = "put" /\ msgs' = msgs \cup new /\ sent' = sent + 1
      /\ relay' = [relay EXCEPT ![r].pc = "mark"]
      /\ UNCHANGED <<transport, Consumer, log, published, dead, processed, worker, conn, audience, pushed, faults>>
  BY <1>1, <1>2 DEF PutEvents, once, outbox, live
<1>4. /\ OutboxFits /\ WireFits /\ MessagesDiffer /\ LiveFits /\ WorkersFit
      /\ NothingDropped /\ TakenAccounted /\ PushesFit /\ sent \in Nat
  BY Parts
<1>5. Consumers' = Consumers
  BY <1>3 DEF Consumers
<1>6. e \in Range(log) /\ b # <<>> /\ relay[r] \in RelayRecord(Range(log))
  BY <1>1, <1>3, <1>4, RelayGoesOn DEF OutboxFits
<1>7. /\ IsFiniteSet(new) /\ new \subseteq Message(Range(log), sent + 1)
      /\ \A m \in new : m.id = sent + 1 /\ m.event = e
      /\ \A m, n \in new : m.to = n.to => m = n
      /\ transport = "queue" => \A c \in Consumers : \E m \in new : m.to = c
  BY <1>2, <1>6, CopiesFit
<1>8. PICK a : a = [relay[r] EXCEPT !.pc = "mark"]
  OBVIOUS
<1>9. a \in RelayRecord(Range(log)) /\ a.pc = "mark" /\ a.batch = b
  BY <1>1, <1>6, <1>8 DEF RelayRecord
<1>10. /\ relay' \in [Relays -> RelayRecord(Range(log))] /\ relay'[r] = a
       /\ \A q \in Relays \ {r} : relay'[q] = relay[q]
  <2>1. relay' = [relay EXCEPT ![r] = a]
    BY <1>3, <1>8
  <2> QED BY <1>4, <1>9, <2>1 DEF OutboxFits
<1>11. OutboxFits'
  <2>1. \A q \in Relays : relay'[q].pc # "idle" => relay'[q].batch # <<>>
    BY <1>4, <1>6, <1>9, <1>10 DEF OutboxFits
  <2> QED BY <1>3, <1>4, <1>10, <2>1 DEF OutboxFits
<1>12. \A m \in msgs : m \in Message(Range(log), sent) /\ m.id \in 1 .. sent
  BY <1>4 DEF WireFits, Message
<1>13. WireFits'
  <2>1. IsFiniteSet(msgs')
    BY <1>3, <1>4, <1>7, FS_Union DEF WireFits
  <2>2. msgs' \subseteq Message(Range(log), sent + 1)
    BY <1>3, <1>4, <1>7, <1>12, MessageWidens
  <2>3. Message(Range(log), sent)' = Message(Range(log), sent + 1)
    BY <1>3, <1>5 DEF Message
  <2> QED BY <1>3, <1>4, <1>5, <2>1, <2>2, <2>3 DEF WireFits
<1>14. MessagesDiffer'
  <2>1. \A m \in msgs, n \in new : m.id # n.id
    BY <1>4, <1>7, <1>12
  <2> QED BY <1>3, <1>4, <1>7, <2>1 DEF MessagesDiffer
<1>15. LiveFits'
  BY <1>3, <1>4 DEF LiveFits
<1>16. WorkersFit'
  <2>1. worker' \in [Workers -> WorkerRecord(Range(log), sent + 1)]
    BY <1>3, <1>4, WorkerWidens DEF WorkersFit
  <2> QED BY <1>3, <1>4, <2>1 DEF WorkersFit
<1>17. NothingDropped'
  <2>1. ASSUME NEW d, Sent(d) PROVE Sent(d)'
    BY <1>3, <1>5, <2>1 DEF Sent, Kept
  <2>2. (transport = "queue") => Sent(e)'
    BY <1>3, <1>5, <1>7 DEF Sent, Kept
  <2> SUFFICES ASSUME transport = "queue"
               PROVE  /\ \A d \in published : Sent(d)'
                      /\ \A q \in Relays : relay'[q].pc = "mark" => Sent(Head(relay[q].batch))'
    BY <1>3 DEF NothingDropped
  <2>3. ASSUME NEW q \in Relays, relay'[q].pc = "mark" PROVE Sent(Head(relay[q].batch))'
    <3>1. PICK d : d = Head(relay'[q].batch)
      OBVIOUS
    <3>2. Sent(d)'
      <4>1. CASE q = r
        BY <1>1, <1>9, <1>10, <2>2, <3>1, <4>1
      <4>2. CASE q # r
        <5>1. relay'[q] = relay[q]
          BY <1>10, <4>2
        <5>2. Sent(d)
          BY <1>4, <2>3, <3>1, <5>1 DEF NothingDropped
        <5> QED BY <2>1, <5>2
      <4> QED BY <4>1, <4>2
    <3> QED BY <3>1, <3>2 DEF Sent
  <2> QED BY <1>4, <2>1, <2>3 DEF NothingDropped
<1>18. TakenAccounted'
  <2> SUFFICES ASSUME NEW w \in Workers, NEW m \in msgs', m.to = Consumer[w] PROVE Accounts(worker[w], m)'
    BY <1>3 DEF TakenAccounted
  <2>1. CASE m \in msgs
    BY <1>3, <1>4, <2>1 DEF TakenAccounted, Accounts, HasItem
  <2>2. CASE m \in new
    <3>1. worker[w].took \in SUBSET (1 .. sent)
      BY <1>4, BusyWorker, FieldsFit
    <3>2. m.id \notin worker[w].took
      BY <1>4, <1>7, <2>2, <3>1
    <3> QED BY <1>3, <3>2 DEF Accounts
  <2> QED BY <1>3, <2>1, <2>2
<1>19. PushesFit'
  BY <1>3, <1>4 DEF PushesFit, Pushes, PushedBeforeProcessed, Done, Listening, OpenConns
<1> QED BY <1>11, <1>13, <1>14, <1>15, <1>16, <1>17, <1>18, <1>19 DEF IInv

\* An event that commits has no worker and no mark yet, so that the sockets which are
\* open now can be its audience.
LEMMA CommitStep ==
  ASSUME IInv, NEW e \in Events, Commit(e)
  PROVE  IInv'
<1>1. /\ e \notin Range(log) /\ log' = Append(log, e)
      /\ audience' = [audience EXCEPT ![e] = OpenConns]
      /\ UNCHANGED <<transport, Consumer, published, relay, msgs, sent, dead, processed, worker, conn, pushed, faults>>
  BY DEF Commit, once, wire
<1>2. /\ OutboxFits /\ WireFits /\ MessagesDiffer /\ LiveFits /\ WorkersFit
      /\ NothingDropped /\ TakenAccounted /\ PushesFit /\ sent \in Nat /\ log \in Seq(Events)
  BY Parts, CommittedEvents
<1>3. Consumers' = Consumers
  BY <1>1 DEF Consumers
<1>4. log' \in Seq(Events) /\ Range(log)' = Range(log) \cup {e}
  BY <1>1, <1>2 DEF Range
<1>5. PICK es, et : es = Range(log) /\ et = Range(log)' /\ es \subseteq et
  BY <1>4
<1>6. OutboxFits'
  <2>1. relay' \in [Relays -> RelayRecord(et)]
    BY <1>1, <1>2, <1>5, RelayWidens DEF OutboxFits
  <2> QED BY <1>1, <1>2, <1>4, <1>5, <2>1 DEF OutboxFits
<1>7. WireFits'
  <2>1. msgs \subseteq Message(et, sent)
    BY <1>2, <1>5, MessageWidens DEF WireFits
  <2>2. Message(Range(log), sent)' = Message(et, sent)
    BY <1>1, <1>3, <1>5 DEF Message
  <2> QED BY <1>1, <1>2, <1>3, <1>4, <2>1, <2>2 DEF WireFits
<1>8. MessagesDiffer'
  BY <1>1, <1>2 DEF MessagesDiffer
<1>9. LiveFits'
  BY <1>1, <1>2 DEF LiveFits, OpenConns
<1>10. WorkersFit'
  <2>1. worker' \in [Workers -> WorkerRecord(et, sent)]
    BY <1>1, <1>2, <1>5, WorkerWidens DEF WorkersFit
  <2> QED BY <1>1, <1>2, <1>5, <2>1 DEF WorkersFit
<1>11. NothingDropped'
  <2>1. \A d : Sent(d) => Sent(d)'
    BY <1>1, <1>3 DEF Sent, Kept
  <2> QED BY <1>1, <1>2, <2>1 DEF NothingDropped
<1>12. TakenAccounted'
  BY <1>1, <1>2 DEF TakenAccounted, Accounts, HasItem
<1>13. ASSUME NEW d \in Range(log) PROVE Listening(d)' = Listening(d)
  <2>1. d # e /\ d \in Events
    BY <1>1, <1>2, CommittedEvents
  <2> QED BY <1>1, <1>2, <2>1 DEF Listening, OpenConns, LiveFits
<1>14. ASSUME NEW w \in Workers, Consumer[w] = Notifier PROVE Pushes(worker[w])'
  <2> SUFFICES ASSUME worker[w].pc \in {"push", "mark"} PROVE Pushes(worker[w])'
    BY <1>1 DEF Pushes
  <2>1. PICK d : d = worker[w].batch[1].event
    OBVIOUS
  <2>2. d \in Range(log) /\ Pushes(worker[w])
    <3>1. Current(w) = worker[w].batch[1] /\ Current(w).event \in Range(log)
      BY <1>2, BusyWorker DEF Busy
    <3> QED BY <1>2, <1>14, <2>1, <3>1 DEF PushesFit
  <2>3. Listening(d)' = Listening(d)
    BY <1>13, <2>2
  <2> QED BY <1>1, <2>1, <2>2, <2>3 DEF Pushes
<1>15. PushedBeforeProcessed'
  <2> SUFFICES ASSUME NEW d \in Events, <<d, Notifier>> \in processed, NEW c \in Listening(d)'
               PROVE  <<d, c>> \in pushed
    BY <1>1 DEF PushedBeforeProcessed, Done, Listening
  <2>1. d \in Range(log)
    BY <1>2 DEF WireFits
  <2>2. c \in Listening(d)
    BY <1>13, <2>1
  <2> QED BY <1>2, <2>2 DEF PushesFit, PushedBeforeProcessed, Done, Listening
<1>16. \A d \in Events : \A c \in audience'[d] : conn'[c] \in {"open", "left", "gone"}
  BY <1>1, <1>2 DEF LiveFits, PushesFit, OpenConns
<1>17. PushesFit'
  BY <1>1, <1>14, <1>15, <1>16 DEF PushesFit
<1> QED BY <1>6, <1>7, <1>8, <1>9, <1>10, <1>11, <1>12, <1>17 DEF IInv
-----------------------------------------------------------------------------
(* The whole invariant.                                                    *)

LEMMA Starts ==
  Init => IInv
<1> SUFFICES ASSUME Init PROVE IInv
  OBVIOUS
<1>1. /\ transport \in Transports /\ log = <<>> /\ published = {} /\ msgs = {} /\ sent = 0 /\ dead = {}
      /\ relay = [r \in Relays |-> IdleRelay] /\ processed = {} /\ worker = [w \in Workers |-> IdleWorker]
      /\ conn = [c \in Conns |-> "new"] /\ audience = [e \in Events |-> {}] /\ pushed = {} /\ faults = 0
  BY DEF Init
<1>2. Range(log) = {} /\ log \in Seq(Events)
  BY <1>1 DEF Range
<1>3. sent \in Nat /\ \A S : IdleWorker \in WorkerRecord(S, sent) /\ IdleRelay \in RelayRecord(S)
  BY <1>1, IdleFits
<1>4. Shaped(IdleWorker) /\ IdleRelay.pc = "idle" /\ IdleWorker.pc = "idle" /\ IdleWorker.took = {}
  BY IdleFits DEF IdleRelay, IdleWorker
<1>5. OutboxFits
  BY <1>1, <1>2, <1>3, <1>4 DEF OutboxFits
<1>6. WireFits /\ MessagesDiffer
  BY <1>1, <1>3, FS_EmptySet DEF WireFits, MessagesDiffer
<1>7. LiveFits
  BY <1>1, BoundsAssumption DEF LiveFits
<1>8. WorkersFit
  BY <1>1, <1>3, <1>4 DEF WorkersFit
<1>9. NothingDropped /\ TakenAccounted
  BY <1>1, <1>4 DEF NothingDropped, TakenAccounted
<1>10. PushesFit
  BY <1>1, <1>4 DEF PushesFit, Pushes, PushedBeforeProcessed, Done
<1> QED BY <1>5, <1>6, <1>7, <1>8, <1>9, <1>10 DEF IInv

LEMMA StuttersKeep ==
  ASSUME IInv, UNCHANGED vars
  PROVE  IInv'
<1>1. /\ transport' = transport /\ Consumer' = Consumer /\ log' = log /\ published' = published
      /\ relay' = relay /\ msgs' = msgs /\ sent' = sent /\ dead' = dead /\ processed' = processed
      /\ worker' = worker /\ conn' = conn /\ audience' = audience /\ pushed' = pushed /\ faults' = faults
  BY DEF vars, once, outbox, wire, live
<1>2. Consumers' = Consumers
  BY <1>1 DEF Consumers
<1>3. OutboxFits' /\ MessagesDiffer' /\ LiveFits' /\ WorkersFit'
  BY <1>1, Parts DEF OutboxFits, MessagesDiffer, LiveFits, WorkersFit
<1>4. WireFits'
  BY <1>1, <1>2, Parts DEF WireFits, Message
<1>5. NothingDropped'
  BY <1>1, <1>2, Parts DEF NothingDropped, Sent, Kept
<1>6. TakenAccounted'
  BY <1>1, Parts DEF TakenAccounted, Accounts
<1>7. PushesFit'
  BY <1>1, Parts DEF PushesFit, Pushes, Listening, OpenConns, PushedBeforeProcessed, Done
<1> QED BY <1>3, <1>4, <1>5, <1>6, <1>7 DEF IInv

LEMMA Steps ==
  ASSUME IInv, [Next]_vars
  PROVE  IInv'
<1>1. CASE UNCHANGED vars
  BY <1>1, StuttersKeep
<1>2. ASSUME NEW e \in Events, Commit(e) PROVE IInv'
  BY <1>2, CommitStep
<1>3. ASSUME NEW c \in Conns, Connect(c) \/ Register(c) \/ Disconnect(c) \/ ForgetRow(c) PROVE IInv'
  BY <1>3, ConnStep
<1>4. ASSUME NEW r \in Relays, ListUnpublished(r) \/ RelayStep(r) \/ PutFails(r) \/ RelayStops(r)
      PROVE  IInv'
  BY <1>4, ListUnpublishedStep, PutEventsStep, MarkPublishedStep, RelayFailsStep DEF RelayStep
<1>5. ASSUME NEW m \in msgs, VisibilityTimeout(m) \/ Redrive(m) PROVE IInv'
  BY <1>5, VisibilityStep, RedriveStep
<1>6. ASSUME NEW w \in Workers, Receive(w) \/ Poll(w) \/ WorkerStep(w) \/ ItemFails(w) \/ Crash(w)
      PROVE  IInv'
  <2>1. CASE Receive(w) \/ Poll(w) \/ ItemFails(w) \/ Crash(w)
    BY <2>1, ReceiveStep, PollStep, ItemFailsStep, CrashStep
  <2>2. CASE WorkerStep(w)
    <3>1. ASSUME NEW c \in Conns, Push(w, c) PROVE IInv'
      BY <3>1, PushStep
    <3> QED BY <2>2, <3>1, CheckStep, HandleStep, ListConnsStep, MarkStep, RespondStep DEF WorkerStep
  <2> QED BY <1>6, <2>1, <2>2
<1> QED BY <1>1, <1>2, <1>3, <1>4, <1>5, <1>6 DEF Next

\* Only the bus, the queue service and the Lambdas touch messages.
LEMMA MessagesChange ==
  ASSUME [Next]_vars, msgs' # msgs
  PROVE  \/ \E r \in Relays : PutEvents(r)
         \/ \E m \in msgs : VisibilityTimeout(m) \/ Redrive(m)
         \/ \E w \in Workers : Receive(w) \/ Respond(w)
<1>1. Next
  BY DEF vars, wire
<1>2. ASSUME NEW e \in Events, Commit(e) PROVE FALSE
  BY <1>2 DEF Commit, wire
<1>3. ASSUME NEW c \in Conns, Connect(c) \/ Register(c) \/ Disconnect(c) \/ ForgetRow(c) PROVE FALSE
  BY <1>3 DEF Connect, Register, Disconnect, ForgetRow, wire
<1>4. ASSUME NEW r \in Relays, ListUnpublished(r) \/ MarkPublished(r) \/ PutFails(r) \/ RelayStops(r)
      PROVE  FALSE
  BY <1>4 DEF ListUnpublished, MarkPublished, PutFails, RelayStops, wire
<1>5. ASSUME NEW w \in Workers, Poll(w) \/ ItemFails(w) \/ Crash(w) PROVE FALSE
  BY <1>5 DEF Poll, ItemFails, Crash, wire
<1>6. ASSUME NEW w \in Workers, WorkerStep(w) PROVE Respond(w)
  BY <1>6 DEF WorkerStep, Check, Handle, ListConns, Push, Mark, wire
<1> QED BY <1>1, <1>2, <1>3, <1>4, <1>5, <1>6 DEF Next, RelayStep

\* The invariant of relays and consumers that overlap, fail and die between any two
\* of their database and network calls (outbox.RunOnce, sqsconsume.Handle,
\* consume.RunOnce, notifier.Handle).
THEOREM Invariance ==
  Spec => []IInv
<1>1. Init => IInv
  BY Starts
<1>2. IInv /\ [Next]_vars => IInv'
  BY Steps
<1> QED BY <1>1, <1>2, PTL DEF Spec

\* On the queues, an event that the relay has marked published is processed by a
\* consumer, in its dead-letter queue, or still in a message to it: RunOnce marks
\* only after PutEvents accepted the entry, and sqsconsume.Handle reports what it
\* could not handle, so that only what was handled is deleted.
THEOREM QueuedUntilSettled ==
  Spec => []NothingForgotten
<1>1. IInv => NothingForgotten
  BY DEF IInv, NothingDropped, NothingForgotten, Sent, Kept
<1> QED BY <1>1, Invariance, PTL

\* The notifier marks an event only when everyone whose socket has been open since
\* before the commit has been sent it: a push that fails fails the event, and a
\* socket that comes or goes while Handle walks the rows takes nothing from another.
THEOREM NotifierPushesFirst ==
  Spec => []PushedBeforeProcessed
<1>1. IInv => PushedBeforeProcessed
  BY DEF IInv, PushesFit
<1> QED BY <1>1, Invariance, PTL

\* A queue loses a message only when it is done with: what a Lambda's answer deletes
\* was handled and marked (sqsconsume.Handle), and what the redrive policy takes
\* away is dead.  Receiving and timing out change a message, never lose one.
THEOREM MessagesSettle ==
  Spec => [][\A m \in msgs : \/ <<m.event, m.to>> \in processed \cup dead'
                             \/ \E x \in msgs' : Same(x, m)]_msgs
<1> DEFINE Settles(m) == \/ <<m.event, m.to>> \in processed \cup dead'
                         \/ \E x \in msgs' : Same(x, m)
<1>1. ASSUME IInv, [Next]_vars, msgs' # msgs, NEW m \in msgs
      PROVE  Settles(m)
  <2>1. m \in Message(Range(log), sent) /\ msgs \subseteq Message(Range(log), sent) /\ sent \in Nat
    BY <1>1, Parts DEF WireFits
  <2>2. ASSUME NEW r \in Relays, PutEvents(r) PROVE Settles(m)
    BY <2>2 DEF PutEvents, Same
  <2>3. ASSUME NEW n \in msgs, VisibilityTimeout(n) PROVE Settles(m)
    <3>1. msgs' = (msgs \ {n}) \cup {Revealed(n)} /\ Same(Revealed(n), n)
      BY <2>1, <2>3, Changed DEF VisibilityTimeout, Hide, Revealed
    <3> QED BY <3>1 DEF Same
  <2>4. ASSUME NEW n \in msgs, Redrive(n) PROVE Settles(m)
    BY <2>4 DEF Redrive, Same
  <2>5. ASSUME NEW w \in Workers, Receive(w) PROVE Settles(m)
    <3>1. PICK ms : msgs' = (msgs \ ms) \cup {Received(n) : n \in ms}
      BY <2>5 DEF Receive, Received
    <3>2. Same(Received(m), m)
      BY <2>1, Changed
    <3> QED BY <3>1, <3>2 DEF Same
  <2>6. ASSUME NEW w \in Workers, Respond(w) PROVE Settles(m)
    BY <1>1, <2>6, RespondSettles
  <2>7. \/ \E r \in Relays : PutEvents(r)
        \/ \E n \in msgs : VisibilityTimeout(n) \/ Redrive(n)
        \/ \E w \in Workers : Receive(w) \/ Respond(w)
    BY <1>1, MessagesChange
  <2> QED BY <2>2, <2>3, <2>4, <2>5, <2>6, <2>7
<1>2. IInv /\ [Next]_vars =>
        [\A m \in msgs : \/ <<m.event, m.to>> \in processed \cup dead'
                         \/ \E x \in msgs' : Same(x, m)]_msgs
  BY <1>1
<1> QED BY <1>2, Invariance, PTL DEF Spec
=============================================================================
