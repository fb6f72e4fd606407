------------------------------ MODULE SeatFeed ------------------------------
(***************************************************************************)
(* The live availability feed of one event: the projector turns the        *)
(* domain events of event_seats into a packed bitset, a sequence number    *)
(* and a capped ring of deltas in Redis, and the websocket hub sends each  *)
(* client one initial frame and then the published deltas.                 *)
(*                                                                         *)
(* Every Redis command is a step of its own, except LPUSH, LTRIM and       *)
(* PUBLISH, which one pipeline sends, and GETRANGE and SETRANGE of one     *)
(* byte, which no other writer can separate.  A client keeps what the      *)
(* frames told it and follows the contract wshub and wsproto rely on.      *)
(***************************************************************************)
EXTENDS Naturals, Sequences, FiniteSets

CONSTANTS
  Seats,
  Clients,
  NoBits,           \* an absent bitset key, and a client without a snapshot
  RingCap,          \* ringCap
  BufCap,           \* the capacity of conn.send
  BatchSize,        \* RunOnce's batchSize
  MaxChanges,       \* bound: seat changes committed
  MaxFaults         \* bound: crashes, Redis errors and lost marks

State == {"free", "held", "sold"}
Bits  == [Seats -> State]

ASSUME NoBitsAssumption == NoBits \notin Bits
ASSUME FeedAssumption   == {RingCap, BufCap, BatchSize} \subseteq Nat \ {0}

VARIABLES
  rows,     \* event_seats.status as seatmap.StateFromDB shows it
  changes,  \* how many domain events were written; an event's id is its place
  todo,     \* the domain events without a processed mark of the projector
  bits,     \* {event}:bitset
  seq,      \* {event}:seq
  ring,     \* {event}:deltas, newest first
  proj,     \* the projector: its step, its batch, the rows it scanned
  hub,      \* the hub's SUBSCRIBE of the event's channel
  conn,     \* conn[c]: the client's connection as the hub handles it
  view,     \* view[c]: what the client shows
  moved,    \* history: moved[k] is the seat of the k-th INCR
  relapsed, \* history: the seats one of whose processed marks was lost
  faults    \* how many faults happened

vars == <<rows, changes, todo, bits, seq, ring, proj, hub, conn, view, moved, relapsed, faults>>
redisVars == <<bits, seq, ring, moved>>
dbVars    == <<rows, changes, todo, relapsed>>
feedVars  == <<hub, conn, view>>

Event == [id : Nat, seat : Seats, state : State]
Delta == [seq : Nat, seat : Seats, state : State]

Idle == [pc |-> "idle", batch |-> {}, scan |-> NoBits]
Off  == [pc |-> "off", upTo |-> 0, scan |-> NoBits, unsure |-> {}, send |-> <<>>, missed |-> FALSE]
Blank == [bits |-> NoBits, seq |-> 0, unsure |-> {}]

Init ==
  /\ rows = [s \in Seats |-> "free"]
  /\ changes = 0 /\ todo = {}
  /\ bits = NoBits /\ seq = 0 /\ ring = <<>>
  /\ proj = Idle
  /\ hub = "off"
  /\ conn = [c \in Clients |-> Off]
  /\ view = [c \in Clients |-> Blank]
  /\ moved = <<>> /\ relapsed = {} /\ faults = 0

-----------------------------------------------------------------------------
(* The inventory (see SeatInventory): a status and its event commit in one *)
(* transaction, and the row lock orders the events of one seat.            *)

\* A live or lapsed hold may be taken over: HELD again, with an event.
Leads(from) == CASE from = "free" -> {"held"}
                 [] from = "held" -> {"held", "free", "sold"}
                 [] from = "sold" -> {}

ChangeSeat(s, to) ==
  /\ changes < MaxChanges
  /\ to \in Leads(rows[s])
  /\ rows' = [rows EXCEPT ![s] = to]
  /\ changes' = changes + 1
  /\ todo' = todo \cup {[id |-> changes', seat |-> s, state |-> to]}
  /\ UNCHANGED <<relapsed, redisVars, proj, feedVars, faults>>

-----------------------------------------------------------------------------
(* The projector.                                                          *)

Before(e, E) == {d \in E : d.id < e.id}

\* ListUnprocessedDomainEvents: the oldest BatchSize of them.
ListBatch ==
  /\ proj.pc = "idle" /\ todo # {}
  /\ proj' = [proj EXCEPT !.pc = "ensure",
                          !.batch = {e \in todo : Cardinality(Before(e, todo)) < BatchSize}]
  /\ UNCHANGED <<dbVars, redisVars, feedVars, faults>>

\* The event the loop of RunOnce is at.
Current(e) == e \in proj.batch /\ Before(e, proj.batch) = {}

\* One statement over event_seats.
TableScan == rows

\* EnsureBitset: read the key, scan the table when it is absent.
EnsureScan ==
  /\ proj.pc = "ensure"
  /\ proj' = IF bits = NoBits THEN [proj EXCEPT !.pc = "seed", !.scan = TableScan]
                              ELSE [proj EXCEPT !.pc = "apply"]
  /\ UNCHANGED <<dbVars, redisVars, feedVars, faults>>

\* Mutation: SET instead of SETNX.
SeededAnyway(scan) == scan

\* SETNX: the first snapshot of the table wins.
Seeded(scan) == IF bits = NoBits THEN scan ELSE bits

EnsureSeed ==
  /\ proj.pc = "seed"
  /\ bits' = Seeded(proj.scan)
  /\ proj' = [proj EXCEPT !.pc = "apply", !.scan = NoBits]
  /\ UNCHANGED <<seq, ring, moved, dbVars, feedVars, faults>>

\* GETRANGE and SETRANGE; an event the bitset already shows is a no-op.
WriteByte(e) ==
  /\ proj.pc = "apply" /\ Current(e)
  /\ IF bits[e.seat] = e.state
     THEN proj' = [proj EXCEPT !.pc = "mark"] /\ UNCHANGED bits
     ELSE /\ bits' = [bits EXCEPT ![e.seat] = e.state]
          /\ proj' = [proj EXCEPT !.pc = "incr"]
  /\ UNCHANGED <<seq, ring, moved, dbVars, feedVars, faults>>

\* History only: <<s, n>> is in unsure when the client may show a wrong state of
\* s until a delta of s numbered above n reaches it.  Here the client read the
\* bitset before the byte was written and will read the number after this INCR,
\* so it takes this delta for an old one.
Tear(s) ==
  [c \in Clients |->
     IF conn[c].pc = "seq" /\ conn[c].scan[s] # bits[s]
     THEN [conn[c] EXCEPT !.unsure = @ \cup {<<s, seq + 1>>}] ELSE conn[c]]

IncrSeq(e) ==
  /\ proj.pc = "incr" /\ Current(e)
  /\ seq' = seq + 1
  /\ moved' = Append(moved, e.seat)
  /\ conn' = Tear(e.seat)
  /\ proj' = [proj EXCEPT !.pc = "push"]
  /\ UNCHANGED <<bits, ring, dbVars, hub, view, faults>>

\* Mutation: a connection is registered after its initial frame.
FanOutLive(d) ==
  [c \in Clients |->
     IF conn[c].pc # "live" THEN conn[c]
     ELSE IF hub = "on" /\ Len(conn[c].send) < BufCap
     THEN [conn[c] EXCEPT !.send = Append(@, d)]
     ELSE [conn[c] EXCEPT !.missed = TRUE]]

\* pumpRedis: every registered connection gets the delta unless its buffer is full.
FanOut(d) ==
  [c \in Clients |->
     IF conn[c].pc = "off" THEN conn[c]
     ELSE IF hub = "on" /\ Len(conn[c].send) < BufCap
     THEN [conn[c] EXCEPT !.send = Append(@, d)]
     ELSE [conn[c] EXCEPT !.missed = TRUE]]

\* Mutation: LPUSH without LTRIM.
Untrimmed(d) == <<d>> \o ring

\* LPUSH and LTRIM.
Trimmed(d) == IF Len(ring) < RingCap THEN <<d>> \o ring ELSE <<d>> \o SubSeq(ring, 1, RingCap - 1)

PushDelta(e) ==
  LET d == [seq |-> seq, seat |-> e.seat, state |-> e.state]
  IN /\ proj.pc = "push" /\ Current(e)
     /\ ring' = Trimmed(d)
     /\ conn' = FanOut(d)
     /\ proj' = [proj EXCEPT !.pc = "mark"]
     /\ UNCHANGED <<bits, seq, moved, dbVars, hub, view, faults>>

After(e) == [proj EXCEPT !.batch = @ \ {e},
                         !.pc = IF proj.batch = {e} THEN "idle" ELSE "ensure"]

MarkProcessed(e) ==
  /\ proj.pc = "mark" /\ Current(e)
  /\ todo' = todo \ {e}
  /\ proj' = After(e)
  /\ UNCHANGED <<rows, changes, relapsed, redisVars, feedVars, faults>>

\* The mark fails: it is logged, and the batch goes on with the next event.
LoseMark(e) ==
  /\ proj.pc = "mark" /\ Current(e) /\ faults < MaxFaults
  /\ faults' = faults + 1
  /\ relapsed' = relapsed \cup {e.seat}
  /\ proj' = After(e)
  /\ UNCHANGED <<rows, changes, todo, redisVars, feedVars>>

\* History only: a byte was written and its delta will never be pushed.
Silence(U) ==
  /\ view' = [c \in Clients |-> [view[c] EXCEPT !.unsure = @ \cup U]]
  /\ conn' = [c \in Clients |->
       [conn[c] EXCEPT !.unsure = IF conn[c].pc = "seq" THEN @ \cup U ELSE @,
                       !.missed = conn[c].pc # "off" /\ (@ \/ proj.pc = "push")]]

\* A crash, or a Redis error: the rest of the batch stays unprocessed.
Abandon ==
  /\ proj.pc # "idle" /\ faults < MaxFaults
  /\ faults' = faults + 1
  /\ proj' = Idle
  /\ Silence({<<e.seat, seq>> : e \in {d \in proj.batch : proj.pc = "incr" /\ Current(d)}})
  /\ UNCHANGED <<dbVars, redisVars, hub>>

Handle(e) == WriteByte(e) \/ IncrSeq(e) \/ PushDelta(e) \/ MarkProcessed(e) \/ LoseMark(e)

Project == ListBatch \/ EnsureScan \/ EnsureSeed \/ Abandon \/ \E e \in proj.batch : Handle(e)

-----------------------------------------------------------------------------
(* The hub: ServeWS subscribes the connection, sends one initial frame and *)
(* then drains conn.send.                                                  *)

Connect(c) ==
  /\ conn[c].pc = "off"
  /\ conn' = [conn EXCEPT ![c] = [Off EXCEPT !.pc = IF view[c].seq > 0 THEN "gap" ELSE "bits"]]
  /\ hub'  = IF hub = "off" THEN "starting" ELSE hub
  /\ UNCHANGED <<dbVars, redisVars, proj, view, faults>>

\* pumpRedis, a goroutine of its own, gets to its SUBSCRIBE.
HubSubscribed ==
  /\ hub = "starting"
  /\ hub' = "on"
  /\ UNCHANGED <<dbVars, redisVars, proj, conn, view, faults>>

\* GapFill: the current sequence number; nothing to send when it is the client's.
GapSeq(c) ==
  /\ conn[c].pc = "gap"
  /\ conn' = [conn EXCEPT ![c].pc = IF view[c].seq >= seq THEN "live" ELSE "ring", ![c].upTo = seq]
  /\ UNCHANGED <<dbVars, redisVars, proj, hub, view, faults>>

Wanted(since) == {i \in 1 .. Len(ring) : ring[i].seq > since}

\* Mutation: a ring that starts after the gap is accepted.
CoversAnyway(since) == Wanted(since) # {}

\* The oldest wanted delta is the client's next one.
Covers(since) == \E i \in Wanted(since) : ring[i].seq = since + 1 /\ Wanted(since) = 1 .. i

\* Last write wins: ring is newest first.
NewestOf(W, s)  == CHOOSE i \in W : ring[i].seat = s /\ \A j \in W : ring[j].seat = s => i <= j
SeatsIn(W)      == {ring[i].seat : i \in W}
Surer(U, W)     == {u \in U : \A i \in W : ring[i].seat = u[1] => ring[i].seq <= u[2]}
Coalesced(b, W) == [s \in Seats |-> IF s \in SeatsIn(W) THEN ring[NewestOf(W, s)].state ELSE b[s]]

\* History only: the seats of the numbers the frame claims and the ring lacks,
\* although it reaches further back.
Hole(k) == /\ \A i \in 1 .. Len(ring) : ring[i].seq # k
           /\ \E i \in 1 .. Len(ring) : ring[i].seq < k

Skipped(since, upTo) == {<<moved[k], k>> : k \in {j \in since + 1 .. upTo : Hole(j)}}

\* GapFill: one frame labelled with the number read before the ring, or a snapshot.
GapRing(c) ==
  LET W == Wanted(view[c].seq)
  IN /\ conn[c].pc = "ring"
     /\ IF Covers(view[c].seq)
        THEN /\ view' = [view EXCEPT ![c] =
                  [bits   |-> Coalesced(view[c].bits, W), seq |-> conn[c].upTo,
                   unsure |-> Surer(view[c].unsure \cup Skipped(view[c].seq, conn[c].upTo), W)]]
             /\ conn' = [conn EXCEPT ![c].pc = "live"]
        ELSE conn' = [conn EXCEPT ![c].pc = "bits"] /\ UNCHANGED view
     /\ UNCHANGED <<dbVars, redisVars, proj, hub, faults>>

\* EnsureBitset for a snapshot: read the key, scan the table when it is absent.
SnapBits(c) ==
  /\ conn[c].pc = "bits"
  /\ conn' = [conn EXCEPT ![c].pc = IF bits = NoBits THEN "seed" ELSE "seq",
                          ![c].scan = IF bits = NoBits THEN TableScan ELSE bits]
  /\ UNCHANGED <<dbVars, redisVars, proj, hub, view, faults>>

\* SETNX, and GET again when another snapshot won.
SnapSeed(c) ==
  /\ conn[c].pc = "seed"
  /\ bits' = Seeded(conn[c].scan)
  /\ conn' = [conn EXCEPT ![c].pc = "seq", ![c].scan = bits']
  /\ UNCHANGED <<seq, ring, moved, dbVars, proj, hub, view, faults>>

\* The sequence number, and the snapshot frame of the two.
SnapSeq(c) ==
  /\ conn[c].pc = "seq"
  /\ view' = [view EXCEPT ![c] = [bits |-> conn[c].scan, seq |-> seq, unsure |-> conn[c].unsure]]
  /\ conn' = [conn EXCEPT ![c].pc = "live", ![c].scan = NoBits, ![c].unsure = {}]
  /\ UNCHANGED <<dbVars, redisVars, proj, hub, faults>>

\* unsubscribe: the last connection cancels the subscription.
Closed(c) ==
  /\ conn' = [conn EXCEPT ![c] = Off]
  /\ hub'  = IF \A d \in Clients \ {c} : conn[d].pc = "off" THEN "off" ELSE hub

NewTo(c, d) == d.seq > view[c].seq

\* writeLoop sends the next delta: the client ignores an old one, applies the
\* next one, and reconnects from where it is when one is missing.
Deliver(c) ==
  LET d == Head(conn[c].send)
  IN /\ conn[c].pc = "live" /\ conn[c].send # <<>>
     /\ IF d.seq > view[c].seq + 1
        THEN Closed(c) /\ UNCHANGED view
        ELSE /\ conn' = [conn EXCEPT ![c].send = Tail(@)]
             /\ view' = IF ~NewTo(c, d) THEN view
                        ELSE [view EXCEPT ![c].bits[d.seat] = d.state, ![c].seq = d.seq,
                                          ![c].unsure = {u \in @ : u[1] # d.seat \/ u[2] >= d.seq}]
             /\ UNCHANGED hub
     /\ UNCHANGED <<dbVars, redisVars, proj, faults>>

\* A failed write, a chaos or an idle disconnect, a client that leaves.
Disconnect(c) ==
  /\ conn[c].pc # "off"
  /\ Closed(c)
  /\ UNCHANGED <<dbVars, redisVars, proj, view, faults>>

Serve(c) == Connect(c) \/ GapSeq(c) \/ GapRing(c) \/ SnapBits(c) \/ SnapSeed(c) \/ SnapSeq(c) \/ Deliver(c)

Next ==
  \/ \E s \in Seats, to \in State : ChangeSeat(s, to)
  \/ Project
  \/ HubSubscribed
  \/ \E c \in Clients : Serve(c) \/ Disconnect(c)

Spec == Init /\ [][Next]_vars

-----------------------------------------------------------------------------
(* Properties.                                                             *)

ProjStep == {"idle", "ensure", "seed", "apply", "incr", "push", "mark"}
ConnStep == {"off", "gap", "ring", "bits", "seed", "seq", "live"}

\* The feed's values have the types the code gives them: in particular a ring
\* and a send buffer never outgrow their capacity.
TypeOK ==
  /\ rows \in Bits /\ changes \in Nat /\ todo \subseteq Event
  /\ bits \in Bits \cup {NoBits} /\ seq \in Nat
  /\ ring \in Seq(Delta) /\ Len(ring) <= RingCap
  /\ proj \in [pc : ProjStep, batch : SUBSET Event, scan : Bits \cup {NoBits}]
  /\ hub \in {"off", "starting", "on"}
  /\ conn \in [Clients -> [pc : ConnStep, upTo : Nat, scan : Bits \cup {NoBits},
                           unsure : SUBSET (Seats \X Nat), send : Seq(Delta), missed : BOOLEAN]]
  /\ \A c \in Clients : Len(conn[c].send) <= BufCap
  /\ view \in [Clients -> [bits : Bits \cup {NoBits}, seq : Nat, unsure : SUBSET (Seats \X Nat)]]
  /\ moved \in Seq(Seats) /\ relapsed \subseteq Seats /\ faults \in Nat

\* projector.go RunOnce and EnsureBitset: once a seat has no unprocessed event
\* the bitset shows its row, whoever seeded it and however often the projector
\* crashed, unless a lost mark made it apply an old event again.
BitsFollowRows ==
  \A s \in Seats \ relapsed :
    bits = NoBits \/ bits[s] = rows[s] \/ \E e \in todo : e.seat = s

\* What wshub.go promises of the client contract: a client whose last applied
\* number is the current one shows the bitset, but for the seats of the known
\* races: a snapshot torn by an INCR, a gap-fill that ran ahead of a push or over
\* a hole in the ring, a crash before the INCR.
ClientShowsBitset ==
  \A c \in Clients, s \in Seats :
    \/ view[c].bits = NoBits \/ view[c].seq # seq
    \/ \E u \in view[c].unsure : u[1] = s
    \/ proj.pc = "incr" /\ \E e \in proj.batch : Current(e) /\ e.seat = s
    \/ view[c].bits[s] = bits[s]

\* wshub.go ServeWS subscribes before it builds the initial frame: every number
\* a live client has not applied is in its buffer or about to be pushed, unless
\* the buffer overflowed, the SUBSCRIBE was still under way or the push crashed.
NothingSlipsBetween ==
  \A c \in Clients :
    conn[c].pc = "live" /\ ~conn[c].missed =>
      \A k \in view[c].seq + 1 .. seq :
        \/ \E i \in 1 .. Len(conn[c].send) : conn[c].send[i].seq = k
        \/ k = seq /\ proj.pc = "push"

=============================================================================
