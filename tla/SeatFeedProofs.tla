--------------------------- MODULE SeatFeedProofs ----------------------------
(***************************************************************************)
(* Proofs about SeatFeed for any seats, clients, ring, buffers, batches    *)
(* and faults: types, the bitset follows the rows, a client that has the   *)
(* current number shows the bitset, and no delta slips between a client's  *)
(* subscription and its initial frame.                                     *)
(***************************************************************************)
EXTENDS SeatFeed, TLAPS, FiniteSetTheorems, WellFoundedInduction

-----------------------------------------------------------------------------
(* Why they hold: the inductive invariant, named by what its parts relate. *)

\* Ids are unique.  Unless a mark of the seat was lost, its newest unprocessed event
\* shows its row, and a batch has the oldest ones.
NewestShowsRow(s) ==
  \A e \in todo : e.seat = s /\ (\A d \in todo : d.seat = s => d.id <= e.id) => e.state = rows[s]

OldestAreTaken(s) ==
  \A e \in proj.batch : \A d \in todo : e.seat = s /\ d.seat = s /\ d.id < e.id => d \in proj.batch

EventsFit ==
  /\ proj.batch \subseteq todo
  /\ \A e \in todo : e.id <= changes
  /\ \A d, e \in todo : d.id = e.id => d = e
  /\ \A s \in Seats \ relapsed : NewestShowsRow(s) /\ OldestAreTaken(s)

\* A scan of the table, while the bitset is absent, may still become the bitset.
Follows(b) == \A s \in Seats \ relapsed : b[s] = rows[s] \/ \E e \in todo : e.seat = s

ScansFit ==
  /\ proj.pc = "seed" => proj.scan \in Bits /\ (bits = NoBits => Follows(proj.scan))
  /\ \A c \in Clients : /\ conn[c].pc \in {"seed", "seq"} => conn[c].scan \in Bits
                        /\ conn[c].pc = "seed" /\ bits = NoBits => Follows(conn[c].scan)

\* Where the projector is with the current event.
ProjFits ==
  /\ proj.pc \in {"apply", "incr", "push", "mark"} => bits # NoBits
  /\ \A e \in proj.batch : Current(e) =>
       /\ proj.pc \in {"incr", "push", "mark"} => bits[e.seat] = e.state
       /\ proj.pc = "push" => seq > 0 /\ moved[seq] = e.seat

\* The deltas of the ring and of the send buffers.
Sent(c) == {conn[c].send[i] : i \in 1 .. Len(conn[c].send)}
Deltas  == {ring[i] : i \in 1 .. Len(ring)} \cup UNION {Sent(c) : c \in Clients}

DeltasFit ==
  /\ Len(moved) = seq
  /\ seq > 0 => bits # NoBits
  /\ \A d \in Deltas : /\ d.seq \in 1 .. seq /\ moved[d.seq] = d.seat
                       /\ proj.pc = "push" => d.seq < seq
  /\ \A i, j \in 1 .. Len(ring) : i < j => ring[j].seq < ring[i].seq

ViewsFit ==
  \A c \in Clients :
    /\ view[c].seq <= seq
    /\ view[c].bits = NoBits => view[c].seq = 0 /\ conn[c].pc \notin {"gap", "ring", "live"}
    /\ view[c].bits # NoBits \/ conn[c].pc = "seq" => bits # NoBits
    /\ conn[c].pc = "ring" => view[c].seq < conn[c].upTo /\ conn[c].upTo <= seq

\* What the byte of s said at number k is what it says, but for moves after k and
\* a byte just written.
Writing(s)  == proj.pc = "incr" /\ \E e \in proj.batch : Current(e) /\ e.seat = s
Moved(s, k) == \E j \in k + 1 .. seq : moved[j] = s
Holds(x, s, k) == x = bits[s] \/ Writing(s) \/ Moved(s, k)

ViewHolds(c) ==
  view[c].bits # NoBits =>
    \A s \in Seats : (\E u \in view[c].unsure : u[1] = s) \/ Holds(view[c].bits[s], s, view[c].seq)

ScanHolds(c) ==
  conn[c].pc = "seq" =>
    \A s \in Seats : (\E u \in conn[c].unsure : u[1] = s) \/ conn[c].scan[s] = bits[s] \/ Writing(s)

DeltasHold(c) ==
  \A d \in Deltas : d.seq > view[c].seq =>
    (\E u \in view[c].unsure : u[1] = d.seat /\ u[2] >= d.seq) \/ Holds(d.state, d.seat, d.seq)

ClientsHold == \A c \in Clients : ViewHolds(c) /\ ScanHolds(c) /\ DeltasHold(c)

\* Every number after n is in c's buffer or about to be pushed.
Covered(c, n) ==
  \A k \in n + 1 .. seq : (\E d \in Sent(c) : d.seq = k) \/ (k = seq /\ proj.pc = "push")

BuffersFit ==
  \A c \in Clients : ~conn[c].missed =>
    /\ conn[c].pc = "live" => Covered(c, view[c].seq)
    /\ conn[c].pc = "ring" => Covered(c, conn[c].upTo)

IInv == /\ TypeOK /\ EventsFit /\ BitsFollowRows /\ ScansFit /\ ProjFits /\ DeltasFit
        /\ ViewsFit /\ ClientsHold /\ BuffersFit

-----------------------------------------------------------------------------
(* Types.                                                                  *)

ConnState == [pc : ConnStep, upTo : Nat, scan : Bits \cup {NoBits},
              unsure : SUBSET (Seats \X Nat), send : Seq(Delta), missed : BOOLEAN]
ViewState == [bits : Bits \cup {NoBits}, seq : Nat, unsure : SUBSET (Seats \X Nat)]

LEMMA CapsFit == RingCap \in Nat \ {0} /\ BufCap \in Nat \ {0} /\ BatchSize \in Nat \ {0}
BY FeedAssumption

LEMMA FieldTypes ==
  ASSUME TypeOK
  PROVE  /\ proj.pc \in ProjStep /\ proj.batch \subseteq Event /\ proj.scan \in Bits \cup {NoBits}
         /\ \A c \in Clients :
              /\ conn[c].pc \in ConnStep /\ conn[c].upTo \in Nat /\ conn[c].scan \in Bits \cup {NoBits}
              /\ conn[c].unsure \subseteq Seats \X Nat /\ conn[c].send \in Seq(Delta)
              /\ conn[c].missed \in BOOLEAN
              /\ view[c].bits \in Bits \cup {NoBits} /\ view[c].seq \in Nat
              /\ view[c].unsure \subseteq Seats \X Nat
BY DEF TypeOK


LEMMA TypeInit ==
  ASSUME Init
  PROVE  TypeOK
<1>1. Off \in ConnState /\ Blank \in ViewState
  BY DEF Off, Blank, ConnState, ViewState, ConnStep
<1>2. conn \in [Clients -> ConnState] /\ view \in [Clients -> ViewState]
  BY <1>1 DEF Init
<1>3. \A c \in Clients : Len(conn[c].send) <= BufCap
  BY CapsFit DEF Init, Off
<1>4. ring \in Seq(Delta) /\ Len(ring) <= RingCap /\ moved \in Seq(Seats)
  BY CapsFit DEF Init
<1>5. rows \in Bits
  BY DEF Init, Bits, State
<1> QED
  BY <1>2, <1>3, <1>4, <1>5 DEF Init, TypeOK, Idle, ProjStep, ConnState, ViewState

\* The batch only shrinks with the events handled.
LEMMA AfterTyped ==
  ASSUME TypeOK, NEW e
  PROVE  /\ After(e) \in [pc : ProjStep, batch : SUBSET Event, scan : Bits \cup {NoBits}]
         /\ After(e).batch = proj.batch \ {e} /\ After(e).pc \in {"idle", "ensure"}
         /\ After(e).scan = proj.scan
<1>1. proj \in [pc : ProjStep, batch : SUBSET Event, scan : Bits \cup {NoBits}]
  BY DEF TypeOK
<1> DEFINE b == proj.batch \ {e}
<1> DEFINE p == [proj EXCEPT !.batch = b]
<1> DEFINE n == IF proj.batch = {e} THEN "idle" ELSE "ensure"
<1>2. b \in SUBSET Event /\ n \in ProjStep /\ n \in {"idle", "ensure"}
  BY <1>1 DEF ProjStep
<1>3. After(e) = [p EXCEPT !.pc = n]
  BY DEF After
<1>4. b = proj.batch \ {e}
  OBVIOUS
<1> HIDE DEF b, n
<1>5. /\ p \in [pc : ProjStep, batch : SUBSET Event, scan : Bits \cup {NoBits}]
      /\ p.batch = b /\ p.scan = proj.scan
  BY <1>1, <1>2
<1> HIDE DEF p
<1>6. /\ [p EXCEPT !.pc = n] \in [pc : ProjStep, batch : SUBSET Event, scan : Bits \cup {NoBits}]
      /\ [p EXCEPT !.pc = n].batch = b /\ [p EXCEPT !.pc = n].pc = n /\ [p EXCEPT !.pc = n].scan = proj.scan
  BY <1>2, <1>5
<1> QED
  BY <1>2, <1>3, <1>4, <1>6

\* A current event is an event of the batch.
LEMMA CurrentTyped ==
  ASSUME TypeOK, NEW e, Current(e)
  PROVE  e \in proj.batch /\ e \in Event /\ e.seat \in Seats /\ e.state \in State /\ e.id \in Nat
BY FieldTypes DEF Current, Event

\* LTRIM keeps the newest RingCap deltas.
LEMMA TrimmedEffect ==
  ASSUME TypeOK, NEW d \in Delta
  PROVE  /\ Trimmed(d) \in Seq(Delta) /\ Len(Trimmed(d)) \in 1 .. RingCap
         /\ Len(Trimmed(d)) <= Len(ring) + 1
         /\ Trimmed(d)[1] = d
         /\ \A i \in 2 .. Len(Trimmed(d)) : i - 1 \in 1 .. Len(ring) /\ Trimmed(d)[i] = ring[i - 1]
<1>1. ring \in Seq(Delta) /\ Len(ring) <= RingCap /\ RingCap \in Nat \ {0} /\ Len(ring) \in Nat
  BY CapsFit DEF TypeOK
<1>2. <<d>> \in Seq(Delta) /\ Len(<<d>>) = 1 /\ <<d>>[1] = d
  OBVIOUS
<1>3. CASE Len(ring) < RingCap
  <2>1. Trimmed(d) = <<d>> \o ring
    BY <1>3 DEF Trimmed
  <2> QED BY <2>1, <1>1, <1>2, <1>3
<1>4. CASE ~(Len(ring) < RingCap)
  <2>1. Trimmed(d) = <<d>> \o SubSeq(ring, 1, RingCap - 1)
    BY <1>4 DEF Trimmed
  <2> DEFINE t == SubSeq(ring, 1, RingCap - 1)
  <2>2. /\ t \in Seq(Delta) /\ Len(t) = RingCap - 1
        /\ \A i \in 1 .. RingCap - 1 : t[i] = ring[i]
    BY <1>1, <1>4
  <2>3. Trimmed(d) = <<d>> \o t
    BY <2>1
  <2> HIDE DEF t
  <2>4. Len(Trimmed(d)) = RingCap /\ Trimmed(d) \in Seq(Delta)
    BY <2>2, <2>3, <1>1, <1>2
  <2>5. Trimmed(d)[1] = d
    BY <2>2, <2>3, <1>1, <1>2
  <2>6. ASSUME NEW i \in 2 .. RingCap PROVE i - 1 \in 1 .. Len(ring) /\ Trimmed(d)[i] = ring[i - 1]
    <3>1. i - 1 \in 1 .. RingCap - 1 /\ i - 1 \in 1 .. Len(ring)
      BY <1>1, <1>4
    <3>2. Trimmed(d)[i] = t[i - 1]
      BY <2>2, <2>3, <1>1, <1>2, <3>1
    <3> QED BY <3>1, <3>2, <2>2
  <2> QED BY <2>4, <2>5, <2>6, <1>1, <1>4
<1> QED
  BY <1>3, <1>4

\* TypeOK, but for the connections and the views.
CoreTyped ==
  /\ rows \in Bits /\ changes \in Nat /\ todo \subseteq Event
  /\ bits \in Bits \cup {NoBits} /\ seq \in Nat
  /\ ring \in Seq(Delta) /\ Len(ring) <= RingCap
  /\ proj \in [pc : ProjStep, batch : SUBSET Event, scan : Bits \cup {NoBits}]
  /\ hub \in {"off", "starting", "on"}
  /\ moved \in Seq(Seats) /\ relapsed \subseteq Seats /\ faults \in Nat

ConnTyped(x) == x \in ConnState /\ Len(x.send) <= BufCap

LEMMA TypeParts ==
  TypeOK <=> /\ CoreTyped
             /\ conn \in [Clients -> ConnState] /\ view \in [Clients -> ViewState]
             /\ \A c \in Clients : ConnTyped(conn[c])
BY DEF TypeOK, CoreTyped, ConnTyped, ConnState, ViewState

LEMMA TypePartsNext ==
  ASSUME CoreTyped', conn' \in [Clients -> ConnState], view' \in [Clients -> ViewState],
         \A c \in Clients : ConnTyped(conn'[c])
  PROVE  TypeOK'
BY DEF TypeOK, CoreTyped, ConnTyped, ConnState, ViewState

\* FanOut fills no buffer beyond its capacity.
LEMMA FanOutTyped ==
  ASSUME TypeOK, NEW d \in Delta, NEW c \in Clients
  PROVE  ConnTyped(FanOut(d)[c])
<1>1. ConnTyped(conn[c])
  BY TypeParts
<1>2. conn[c].send \in Seq(Delta) /\ Len(conn[c].send) \in Nat
  BY <1>1 DEF ConnTyped, ConnState
<1>3. CASE conn[c].pc = "off"
  BY <1>1, <1>3 DEF FanOut
<1>4. CASE conn[c].pc # "off" /\ hub = "on" /\ Len(conn[c].send) < BufCap
  <2> DEFINE t == Append(conn[c].send, d)
  <2>1. t \in Seq(Delta) /\ Len(t) = Len(conn[c].send) + 1
    BY <1>2
  <2>2. FanOut(d)[c] = [conn[c] EXCEPT !.send = t]
    BY <1>4 DEF FanOut
  <2> HIDE DEF t
  <2> QED BY <1>1, <1>2, <1>4, <2>1, <2>2, CapsFit DEF ConnTyped, ConnState
<1>5. CASE conn[c].pc # "off" /\ ~(hub = "on" /\ Len(conn[c].send) < BufCap)
  <2>1. FanOut(d)[c] = [conn[c] EXCEPT !.missed = TRUE]
    BY <1>5 DEF FanOut
  <2> QED BY <1>1, <2>1 DEF ConnTyped, ConnState
<1> QED
  BY <1>3, <1>4, <1>5

LEMMA OffTyped == Off \in ConnState /\ ConnTyped(Off) /\ Blank \in ViewState
BY CapsFit DEF Off, Blank, ConnState, ViewState, ConnStep, ConnTyped

LEMMA IdleTyped == Idle \in [pc : ProjStep, batch : SUBSET Event, scan : Bits \cup {NoBits}]
BY DEF Idle, ProjStep

\* ChangeSeat adds one event, newer than all.
LEMMA ChangeTyped ==
  ASSUME TypeOK, NEW s \in Seats, NEW to \in State, ChangeSeat(s, to)
  PROVE  /\ rows' \in Bits /\ changes' = changes + 1 /\ changes' \in Nat
         /\ \E e \in Event : /\ e.id = changes + 1 /\ e.seat = s /\ e.state = to
                             /\ todo' = todo \cup {e}
         /\ rows'[s] = to /\ \A r \in Seats \ {s} : rows'[r] = rows[r]
<1> DEFINE e == [id |-> changes', seat |-> s, state |-> to]
<1>1. changes \in Nat /\ changes' = changes + 1
  BY DEF TypeOK, ChangeSeat
<1>2. e \in Event /\ e.id = changes + 1 /\ e.seat = s /\ e.state = to
  BY <1>1 DEF Event
<1>3. todo' = todo \cup {e}
  BY DEF ChangeSeat
<1>4. rows \in Bits /\ rows' = [rows EXCEPT ![s] = to]
  BY DEF TypeOK, ChangeSeat
<1>5. rows' \in Bits /\ rows'[s] = to /\ \A r \in Seats \ {s} : rows'[r] = rows[r]
  BY <1>4 DEF Bits
<1> QED
  BY <1>1, <1>2, <1>3, <1>5

ProjState == [pc : ProjStep, batch : SUBSET Event, scan : Bits \cup {NoBits}]

\* The fields of an updated projector.
LEMMA ProjTyped == ASSUME TypeOK PROVE proj \in ProjState
BY DEF TypeOK, ProjState

SetsPc(q, p)         == q = [proj EXCEPT !.pc = p]
SetsPcBatch(q, p, b) == q = [proj EXCEPT !.pc = p, !.batch = b]
SetsPcScan(q, p, x)  == q = [proj EXCEPT !.pc = p, !.scan = x]

LEMMA SetPc ==
  ASSUME TypeOK, NEW p \in ProjStep, NEW q, SetsPc(q, p)
  PROVE  q \in ProjState /\ q.pc = p /\ q.batch = proj.batch /\ q.scan = proj.scan
BY ProjTyped DEF ProjState, SetsPc

LEMMA SetPcBatch ==
  ASSUME TypeOK, NEW p \in ProjStep, NEW b \in SUBSET Event, NEW q, SetsPcBatch(q, p, b)
  PROVE  q \in ProjState /\ q.pc = p /\ q.batch = b /\ q.scan = proj.scan
<1> DEFINE r == [proj EXCEPT !.pc = p]
<1>1. r \in ProjState /\ r.pc = p /\ r.scan = proj.scan
  BY ProjTyped DEF ProjState
<1>2. q = [r EXCEPT !.batch = b]
  BY DEF SetsPcBatch
<1> HIDE DEF r
<1> QED
  BY <1>1, <1>2 DEF ProjState

LEMMA SetPcScan ==
  ASSUME TypeOK, NEW p \in ProjStep, NEW x \in Bits \cup {NoBits}, NEW q, SetsPcScan(q, p, x)
  PROVE  q \in ProjState /\ q.pc = p /\ q.batch = proj.batch /\ q.scan = x
<1> DEFINE r == [proj EXCEPT !.pc = p]
<1>1. r \in ProjState /\ r.pc = p /\ r.batch = proj.batch
  BY ProjTyped DEF ProjState
<1>2. q = [r EXCEPT !.scan = x]
  BY DEF SetsPcScan
<1> HIDE DEF r
<1> QED
  BY <1>1, <1>2 DEF ProjState

\* What the projector's steps do to it.
LEMMA ListBatchEffect ==
  ASSUME TypeOK, ListBatch
  PROVE  /\ proj' \in ProjState /\ proj.pc = "idle" /\ proj'.pc = "ensure" /\ proj'.scan = proj.scan
         /\ proj'.batch = {e \in todo : Cardinality(Before(e, todo)) < BatchSize}
<1> DEFINE b == {e \in todo : Cardinality(Before(e, todo)) < BatchSize}
<1>1. b \in SUBSET Event /\ "ensure" \in ProjStep
  BY DEF TypeOK, ProjStep
<1>2. SetsPcBatch(proj', "ensure", b) /\ proj.pc = "idle"
  BY DEF ListBatch, SetsPc, SetsPcBatch, SetsPcScan
<1>3. b = {e \in todo : Cardinality(Before(e, todo)) < BatchSize}
  OBVIOUS
<1> HIDE DEF b
<1>4. proj.scan \in Bits \cup {NoBits}
  BY FieldTypes
<1> QED
  BY <1>1, <1>2, <1>3, <1>4, SetPc, SetPcBatch, SetPcScan

LEMMA EnsureScanEffect ==
  ASSUME TypeOK, EnsureScan
  PROVE  /\ proj' \in ProjState /\ proj.pc = "ensure" /\ proj'.batch = proj.batch
         /\ \/ bits = NoBits /\ proj'.pc = "seed" /\ proj'.scan = rows
            \/ bits # NoBits /\ proj'.pc = "apply" /\ proj'.scan = proj.scan
<1>1. rows \in Bits \cup {NoBits} /\ proj.batch \in SUBSET Event /\ "seed" \in ProjStep /\ "apply" \in ProjStep
  BY DEF TypeOK, ProjStep
<1>2. /\ proj.pc = "ensure"
      /\ bits = NoBits => SetsPcScan(proj', "seed", rows)
      /\ bits # NoBits => SetsPc(proj', "apply")
  BY DEF EnsureScan, TableScan, SetsPc, SetsPcBatch, SetsPcScan
<1>3. CASE bits = NoBits
  BY <1>1, <1>2, <1>3, SetPc, SetPcBatch, SetPcScan
<1>4. CASE bits # NoBits
  BY <1>1, <1>2, <1>4, SetPc, SetPcBatch, SetPcScan
<1> QED
  BY <1>3, <1>4

LEMMA EnsureSeedEffect ==
  ASSUME TypeOK, EnsureSeed, proj.scan \in Bits
  PROVE  /\ proj' \in ProjState /\ proj.pc = "seed" /\ proj'.pc = "apply" /\ proj'.batch = proj.batch
         /\ bits' \in Bits /\ bits' # NoBits
         /\ bits = NoBits => bits' = proj.scan
         /\ bits # NoBits => bits' = bits
<1>1. proj.batch \in SUBSET Event /\ "apply" \in ProjStep /\ bits \in Bits \cup {NoBits}
  BY DEF TypeOK, ProjStep
<1>2. proj.pc = "seed" /\ SetsPcScan(proj', "apply", NoBits)
  BY DEF EnsureSeed, SetsPc, SetsPcBatch, SetsPcScan
<1>3. bits' = IF bits = NoBits THEN proj.scan ELSE bits
  BY DEF EnsureSeed, Seeded
<1> QED
  BY <1>1, <1>2, <1>3, SetPc, SetPcBatch, SetPcScan, NoBitsAssumption

LEMMA WriteByteEffect ==
  ASSUME TypeOK, NEW e, WriteByte(e), bits # NoBits
  PROVE  /\ proj' \in ProjState /\ proj.pc = "apply" /\ proj'.batch = proj.batch /\ proj'.scan = proj.scan
         /\ bits \in Bits /\ bits' \in Bits /\ bits' # NoBits /\ Current(e)
         /\ bits'[e.seat] = e.state /\ \A s \in Seats \ {e.seat} : bits'[s] = bits[s]
         /\ \/ proj'.pc = "mark" /\ bits' = bits
            \/ proj'.pc = "incr"
<1>1. bits \in Bits /\ proj.batch \in SUBSET Event /\ "mark" \in ProjStep /\ "incr" \in ProjStep
  BY DEF TypeOK, ProjStep
<1>2. proj.pc = "apply" /\ Current(e) /\ e.seat \in Seats /\ e.state \in State
  BY CurrentTyped DEF WriteByte
<1>3. CASE bits[e.seat] = e.state
  <2>1. SetsPc(proj', "mark") /\ bits' = bits
    BY <1>3 DEF WriteByte, SetsPc, SetsPcBatch, SetsPcScan
  <2> QED BY <1>1, <1>2, <1>3, <2>1, SetPc, SetPcBatch, SetPcScan
<1>4. CASE bits[e.seat] # e.state
  <2>1. SetsPc(proj', "incr") /\ bits' = [bits EXCEPT ![e.seat] = e.state]
    BY <1>4 DEF WriteByte, SetsPc, SetsPcBatch, SetsPcScan
  <2>2. bits' \in Bits /\ bits'[e.seat] = e.state /\ \A s \in Seats \ {e.seat} : bits'[s] = bits[s]
    BY <1>1, <1>2, <2>1 DEF Bits
  <2> QED BY <1>1, <1>2, <2>1, <2>2, SetPc, SetPcBatch, SetPcScan, NoBitsAssumption
<1> QED
  BY <1>3, <1>4

LEMMA IncrSeqEffect ==
  ASSUME TypeOK, NEW e, IncrSeq(e), Len(moved) = seq
  PROVE  /\ proj' \in ProjState /\ proj.pc = "incr" /\ proj'.pc = "push"
         /\ proj'.batch = proj.batch /\ proj'.scan = proj.scan /\ Current(e)
         /\ seq \in Nat /\ seq' = seq + 1 /\ seq' \in Nat
         /\ moved' \in Seq(Seats) /\ Len(moved') = seq' /\ moved'[seq'] = e.seat
         /\ \A k \in 1 .. seq : moved'[k] = moved[k]
<1>1. moved \in Seq(Seats) /\ seq \in Nat /\ proj.batch \in SUBSET Event /\ "push" \in ProjStep
  BY DEF TypeOK, ProjStep
<1>2. proj.pc = "incr" /\ Current(e) /\ e.seat \in Seats /\ SetsPc(proj', "push")
  BY CurrentTyped DEF IncrSeq, SetsPc, SetsPcBatch, SetsPcScan
<1>3. moved' = Append(moved, e.seat) /\ seq' = seq + 1
  BY DEF IncrSeq
<1>4. proj' \in ProjState /\ proj'.pc = "push" /\ proj'.batch = proj.batch /\ proj'.scan = proj.scan
  BY <1>1, <1>2, SetPc, SetPcBatch, SetPcScan
<1> QED
  BY <1>1, <1>2, <1>3, <1>4

LEMMA PushDeltaEffect ==
  ASSUME TypeOK, NEW e, PushDelta(e)
  PROVE  /\ proj' \in ProjState /\ proj.pc = "push" /\ proj'.pc = "mark"
         /\ proj'.batch = proj.batch /\ proj'.scan = proj.scan /\ Current(e)
         /\ \E d \in Delta : /\ d.seq = seq /\ d.seat = e.seat /\ d.state = e.state
                             /\ ring' = Trimmed(d) /\ conn' = FanOut(d)
<1> DEFINE d == [seq |-> seq, seat |-> e.seat, state |-> e.state]
<1>1. proj.pc = "push" /\ Current(e) /\ SetsPc(proj', "mark")
  BY DEF PushDelta, SetsPc, SetsPcBatch, SetsPcScan
<1>2. ring' = Trimmed(d) /\ conn' = FanOut(d)
  BY DEF PushDelta
<1>3. e.seat \in Seats /\ e.state \in State /\ seq \in Nat
  BY <1>1, CurrentTyped DEF TypeOK
<1>4. d \in Delta /\ d.seq = seq /\ d.seat = e.seat /\ d.state = e.state
  BY <1>3 DEF Delta
<1>5. proj.batch \in SUBSET Event /\ "mark" \in ProjStep
  BY DEF TypeOK, ProjStep
<1>6. proj' \in ProjState /\ proj'.pc = "mark" /\ proj'.batch = proj.batch /\ proj'.scan = proj.scan
  BY <1>1, <1>5, SetPc, SetPcBatch, SetPcScan
<1> QED
  BY <1>1, <1>2, <1>4, <1>6

\* What the hub's steps do to the connection of c and to no other.
Conns == [Clients -> ConnState]
Others(c) == \A d \in Clients \ {c} : conn'[d] = conn[d]
SameBuffer(c) == conn'[c].send = conn[c].send /\ conn'[c].missed = conn[c].missed

LEMMA ConnsTyped ==
  ASSUME TypeOK
  PROVE  conn \in Conns /\ \A c \in Clients : ConnTyped(conn[c])
BY TypeParts DEF Conns

\* One field of one connection.
SetsConnPc(f, g, c, p)  == g = [f EXCEPT ![c].pc = p]
LEMMA SetConnPc ==
  ASSUME NEW f \in Conns, NEW c \in Clients, NEW p \in ConnStep, NEW g, SetsConnPc(f, g, c, p)
  PROVE  /\ g \in Conns /\ g[c].pc = p /\ g[c].upTo = f[c].upTo /\ g[c].scan = f[c].scan
         /\ g[c].unsure = f[c].unsure /\ g[c].send = f[c].send /\ g[c].missed = f[c].missed
         /\ \A d \in Clients \ {c} : g[d] = f[d]
<1> DEFINE x == [f[c] EXCEPT !.pc = p]
<1>1. x \in ConnState /\ x.pc = p /\ x.upTo = f[c].upTo /\ x.scan = f[c].scan
      /\ x.unsure = f[c].unsure /\ x.send = f[c].send /\ x.missed = f[c].missed
  BY DEF Conns, ConnState
<1>2. g = [f EXCEPT ![c] = x]
  BY DEF SetsConnPc
<1> HIDE DEF x
<1> QED
  BY <1>1, <1>2 DEF Conns

SetsUpTo(f, g, c, n) == g = [f EXCEPT ![c].upTo = n]
LEMMA SetUpTo ==
  ASSUME NEW f \in Conns, NEW c \in Clients, NEW n \in Nat, NEW g, SetsUpTo(f, g, c, n)
  PROVE  /\ g \in Conns /\ g[c].pc = f[c].pc /\ g[c].upTo = n /\ g[c].scan = f[c].scan
         /\ g[c].unsure = f[c].unsure /\ g[c].send = f[c].send /\ g[c].missed = f[c].missed
         /\ \A d \in Clients \ {c} : g[d] = f[d]
<1> DEFINE x == [f[c] EXCEPT !.upTo = n]
<1>1. x \in ConnState /\ x.pc = f[c].pc /\ x.upTo = n /\ x.scan = f[c].scan
      /\ x.unsure = f[c].unsure /\ x.send = f[c].send /\ x.missed = f[c].missed
  BY DEF Conns, ConnState
<1>2. g = [f EXCEPT ![c] = x]
  BY DEF SetsUpTo
<1> HIDE DEF x
<1> QED
  BY <1>1, <1>2 DEF Conns

SetsScan(f, g, c, b) == g = [f EXCEPT ![c].scan = b]
LEMMA SetScan ==
  ASSUME NEW f \in Conns, NEW c \in Clients, NEW b \in Bits \cup {NoBits}, NEW g, SetsScan(f, g, c, b)
  PROVE  /\ g \in Conns /\ g[c].pc = f[c].pc /\ g[c].upTo = f[c].upTo /\ g[c].scan = b
         /\ g[c].unsure = f[c].unsure /\ g[c].send = f[c].send /\ g[c].missed = f[c].missed
         /\ \A d \in Clients \ {c} : g[d] = f[d]
<1> DEFINE x == [f[c] EXCEPT !.scan = b]
<1>1. x \in ConnState /\ x.pc = f[c].pc /\ x.upTo = f[c].upTo /\ x.scan = b
      /\ x.unsure = f[c].unsure /\ x.send = f[c].send /\ x.missed = f[c].missed
  BY DEF Conns, ConnState
<1>2. g = [f EXCEPT ![c] = x]
  BY DEF SetsScan
<1> HIDE DEF x
<1> QED
  BY <1>1, <1>2 DEF Conns

SetsSure(f, g, c) == g = [f EXCEPT ![c].unsure = {}]
LEMMA SetSure ==
  ASSUME NEW f \in Conns, NEW c \in Clients, NEW g, SetsSure(f, g, c)
  PROVE  /\ g \in Conns /\ g[c].pc = f[c].pc /\ g[c].upTo = f[c].upTo /\ g[c].scan = f[c].scan
         /\ g[c].unsure = {} /\ g[c].send = f[c].send /\ g[c].missed = f[c].missed
         /\ \A d \in Clients \ {c} : g[d] = f[d]
<1> DEFINE x == [f[c] EXCEPT !.unsure = {}]
<1>1. x \in ConnState /\ x.pc = f[c].pc /\ x.upTo = f[c].upTo /\ x.scan = f[c].scan
      /\ x.unsure = {} /\ x.send = f[c].send /\ x.missed = f[c].missed
  BY DEF Conns, ConnState
<1>2. g = [f EXCEPT ![c] = x]
  BY DEF SetsSure
<1> HIDE DEF x
<1> QED
  BY <1>1, <1>2 DEF Conns

SetsSend(f, g, c, t) == g = [f EXCEPT ![c].send = t]
LEMMA SetSend ==
  ASSUME NEW f \in Conns, NEW c \in Clients, NEW t \in Seq(Delta), NEW g, SetsSend(f, g, c, t)
  PROVE  /\ g \in Conns /\ g[c].pc = f[c].pc /\ g[c].upTo = f[c].upTo /\ g[c].scan = f[c].scan
         /\ g[c].unsure = f[c].unsure /\ g[c].send = t /\ g[c].missed = f[c].missed
         /\ \A d \in Clients \ {c} : g[d] = f[d]
<1> DEFINE x == [f[c] EXCEPT !.send = t]
<1>1. x \in ConnState /\ x.pc = f[c].pc /\ x.upTo = f[c].upTo /\ x.scan = f[c].scan
      /\ x.unsure = f[c].unsure /\ x.send = t /\ x.missed = f[c].missed
  BY DEF Conns, ConnState
<1>2. g = [f EXCEPT ![c] = x]
  BY DEF SetsSend
<1> HIDE DEF x
<1> QED
  BY <1>1, <1>2 DEF Conns

\* A buffer that did not change keeps its capacity.
Shifted(c) == conn' \in Conns /\ Others(c) /\ ConnTyped(conn'[c])

LEMMA ShiftedOf ==
  ASSUME TypeOK, NEW c \in Clients, conn' \in Conns, Others(c), SameBuffer(c)
  PROVE  Shifted(c)
BY ConnsTyped DEF Shifted, SameBuffer, ConnTyped, Conns

LEMMA ConnectEffect ==
  ASSUME TypeOK, NEW c \in Clients, Connect(c)
  PROVE  /\ Shifted(c) /\ conn[c].pc = "off" /\ hub' \in {"off", "starting", "on"}
         /\ conn'[c].unsure = {} /\ conn'[c].send = <<>> /\ conn'[c].missed = FALSE
         /\ \/ view[c].seq > 0 /\ conn'[c].pc = "gap"
            \/ view[c].seq = 0 /\ conn'[c].pc = "bits"
<1> DEFINE p == IF view[c].seq > 0 THEN "gap" ELSE "bits"
<1> DEFINE x == [Off EXCEPT !.pc = p]
<1>1. view[c].seq \in Nat
  BY FieldTypes
<1>2. /\ p \in {"gap", "bits"} /\ p \in ConnStep /\ (view[c].seq > 0 => p = "gap") /\ (view[c].seq = 0 => p = "bits")
      /\ view[c].seq > 0 \/ view[c].seq = 0
  BY <1>1 DEF ConnStep
<1>3. conn[c].pc = "off" /\ conn' = [conn EXCEPT ![c] = x] /\ hub' \in {"off", "starting", "on"}
  BY DEF Connect, TypeOK
<1> HIDE DEF p
<1>4. x \in ConnState /\ x.pc = p /\ x.unsure = {} /\ x.send = <<>> /\ x.missed = FALSE
  BY <1>2, OffTyped DEF Off, ConnState
<1>5. Len(x.send) <= BufCap
  BY <1>4, CapsFit
<1> HIDE DEF x
<1>6. conn' \in Conns /\ conn'[c] = x /\ Others(c)
  BY <1>3, <1>4, ConnsTyped DEF Conns, Others
<1> QED
  BY <1>2, <1>3, <1>4, <1>5, <1>6 DEF Shifted, ConnTyped

LEMMA GapSeqEffect ==
  ASSUME TypeOK, NEW c \in Clients, GapSeq(c)
  PROVE  /\ Shifted(c) /\ conn[c].pc = "gap" /\ SameBuffer(c) /\ conn'[c].unsure = conn[c].unsure
         /\ conn'[c].upTo = seq
         /\ \/ view[c].seq >= seq /\ conn'[c].pc = "live"
            \/ view[c].seq < seq /\ conn'[c].pc = "ring"
<1> DEFINE p == IF view[c].seq >= seq THEN "live" ELSE "ring"
<1> DEFINE g == [conn EXCEPT ![c].pc = p]
<1>1. seq \in Nat /\ view[c].seq \in Nat
  BY FieldTypes DEF TypeOK
<1>2. p \in ConnStep /\ ((view[c].seq >= seq /\ p = "live") \/ (view[c].seq < seq /\ p = "ring"))
  BY <1>1 DEF ConnStep
<1>3. SetsUpTo(g, conn', c, seq) /\ conn[c].pc = "gap"
  BY DEF GapSeq, SetsUpTo
<1> HIDE DEF p
<1>4. SetsConnPc(conn, g, c, p)
  BY DEF SetsConnPc
<1> HIDE DEF g
<1>5. /\ g \in Conns /\ g[c].pc = p /\ g[c].unsure = conn[c].unsure /\ g[c].send = conn[c].send
      /\ g[c].missed = conn[c].missed /\ \A d \in Clients \ {c} : g[d] = conn[d]
  BY <1>2, <1>4, ConnsTyped, SetConnPc
<1>6. /\ conn' \in Conns /\ conn'[c].pc = g[c].pc /\ conn'[c].upTo = seq /\ conn'[c].unsure = g[c].unsure
      /\ conn'[c].send = g[c].send /\ conn'[c].missed = g[c].missed
      /\ \A d \in Clients \ {c} : conn'[d] = g[d]
  BY <1>1, <1>3, <1>5, SetUpTo
<1>7. SameBuffer(c) /\ Others(c)
  BY <1>5, <1>6 DEF SameBuffer, Others
<1>8. Shifted(c)
  BY <1>6, <1>7, ShiftedOf
<1>9. conn'[c].pc = p /\ conn'[c].unsure = conn[c].unsure
  BY <1>5, <1>6
<1> QED
  BY <1>2, <1>3, <1>6, <1>7, <1>8, <1>9

LEMMA SnapBitsEffect ==
  ASSUME TypeOK, NEW c \in Clients, SnapBits(c)
  PROVE  /\ Shifted(c) /\ conn[c].pc = "bits" /\ SameBuffer(c) /\ conn'[c].unsure = conn[c].unsure
         /\ conn'[c].scan \in Bits
         /\ \/ bits = NoBits /\ conn'[c].pc = "seed" /\ conn'[c].scan = rows
            \/ bits # NoBits /\ conn'[c].pc = "seq" /\ conn'[c].scan = bits
<1> DEFINE p == IF bits = NoBits THEN "seed" ELSE "seq"
<1> DEFINE b == IF bits = NoBits THEN rows ELSE bits
<1> DEFINE g == [conn EXCEPT ![c].pc = p]
<1>1. rows \in Bits /\ bits \in Bits \cup {NoBits}
  BY DEF TypeOK
<1>2. /\ p \in ConnStep /\ b \in Bits
      /\ (bits = NoBits /\ p = "seed" /\ b = rows) \/ (bits # NoBits /\ p = "seq" /\ b = bits)
  BY <1>1 DEF ConnStep
<1>3. SetsScan(g, conn', c, b) /\ conn[c].pc = "bits"
  BY DEF SnapBits, SetsScan, TableScan
<1> HIDE DEF p, b
<1>4. SetsConnPc(conn, g, c, p)
  BY DEF SetsConnPc
<1> HIDE DEF g
<1>5. /\ g \in Conns /\ g[c].pc = p /\ g[c].unsure = conn[c].unsure /\ g[c].send = conn[c].send
      /\ g[c].missed = conn[c].missed /\ \A d \in Clients \ {c} : g[d] = conn[d]
  BY <1>2, <1>4, ConnsTyped, SetConnPc
<1>6. /\ conn' \in Conns /\ conn'[c].pc = g[c].pc /\ conn'[c].scan = b /\ conn'[c].unsure = g[c].unsure
      /\ conn'[c].send = g[c].send /\ conn'[c].missed = g[c].missed
      /\ \A d \in Clients \ {c} : conn'[d] = g[d]
  BY <1>2, <1>3, <1>5, SetScan
<1>7. SameBuffer(c) /\ Others(c)
  BY <1>5, <1>6 DEF SameBuffer, Others
<1>8. Shifted(c)
  BY <1>6, <1>7, ShiftedOf
<1>9. conn'[c].pc = p /\ conn'[c].unsure = conn[c].unsure
  BY <1>5, <1>6
<1> QED
  BY <1>2, <1>3, <1>6, <1>7, <1>8, <1>9

LEMMA SnapSeedEffect ==
  ASSUME TypeOK, NEW c \in Clients, SnapSeed(c), conn[c].scan \in Bits
  PROVE  /\ Shifted(c) /\ conn[c].pc = "seed" /\ SameBuffer(c) /\ conn'[c].unsure = conn[c].unsure
         /\ conn'[c].pc = "seq" /\ conn'[c].scan = bits' /\ bits' \in Bits /\ bits' # NoBits
         /\ bits = NoBits => bits' = conn[c].scan
         /\ bits # NoBits => bits' = bits
<1> DEFINE g == [conn EXCEPT ![c].pc = "seq"]
<1>1. bits' \in Bits /\ bits' # NoBits /\ (bits = NoBits => bits' = conn[c].scan) /\ (bits # NoBits => bits' = bits)
  BY NoBitsAssumption DEF TypeOK, SnapSeed, Seeded
<1>2. SetsScan(g, conn', c, bits') /\ conn[c].pc = "seed"
  BY DEF SnapSeed, SetsScan
<1>3. SetsConnPc(conn, g, c, "seq") /\ "seq" \in ConnStep
  BY DEF SetsConnPc, ConnStep
<1> HIDE DEF g
<1>4. /\ g \in Conns /\ g[c].pc = "seq" /\ g[c].unsure = conn[c].unsure /\ g[c].send = conn[c].send
      /\ g[c].missed = conn[c].missed /\ \A d \in Clients \ {c} : g[d] = conn[d]
  BY <1>3, ConnsTyped, SetConnPc
<1>5. /\ conn' \in Conns /\ conn'[c].pc = g[c].pc /\ conn'[c].scan = bits' /\ conn'[c].unsure = g[c].unsure
      /\ conn'[c].send = g[c].send /\ conn'[c].missed = g[c].missed
      /\ \A d \in Clients \ {c} : conn'[d] = g[d]
  BY <1>1, <1>2, <1>4, SetScan
<1>6. SameBuffer(c) /\ Others(c)
  BY <1>4, <1>5 DEF SameBuffer, Others
<1> QED
  BY <1>1, <1>2, <1>4, <1>5, <1>6, ShiftedOf

\* What they do to what c shows and to no other client.
Views == [Clients -> ViewState]
OtherViews(c) == \A d \in Clients \ {c} : view'[d] = view[d]

LEMMA ViewsTyped ==
  ASSUME TypeOK
  PROVE  view \in Views
BY TypeParts DEF Views

LEMMA SnapSeqEffect ==
  ASSUME TypeOK, NEW c \in Clients, SnapSeq(c), conn[c].scan \in Bits
  PROVE  /\ Shifted(c) /\ conn[c].pc = "seq" /\ SameBuffer(c) /\ conn'[c].unsure = {}
         /\ conn'[c].pc = "live"
         /\ view' \in Views /\ OtherViews(c)
         /\ view'[c].bits = conn[c].scan /\ view'[c].seq = seq /\ view'[c].unsure = conn[c].unsure
<1> DEFINE none == NoBits
<1> DEFINE f == [conn EXCEPT ![c].pc = "live"]
<1> DEFINE g == [f EXCEPT ![c].scan = none]
<1>1. SetsSure(g, conn', c) /\ conn[c].pc = "seq"
  BY DEF SnapSeq, SetsSure
<1>2. SetsScan(f, g, c, none) /\ none \in Bits \cup {NoBits}
  BY DEF SetsScan
<1> HIDE DEF g, none
<1>3. SetsConnPc(conn, f, c, "live") /\ "live" \in ConnStep
  BY DEF SetsConnPc, ConnStep
<1> HIDE DEF f
<1>4. /\ f \in Conns /\ f[c].pc = "live" /\ f[c].send = conn[c].send
      /\ f[c].missed = conn[c].missed /\ \A d \in Clients \ {c} : f[d] = conn[d]
  BY <1>3, ConnsTyped, SetConnPc
<1>5. /\ g \in Conns /\ g[c].pc = "live" /\ g[c].send = conn[c].send
      /\ g[c].missed = conn[c].missed /\ \A d \in Clients \ {c} : g[d] = conn[d]
  BY <1>2, <1>4, SetScan
<1>6. /\ conn' \in Conns /\ conn'[c].pc = "live" /\ conn'[c].send = conn[c].send /\ conn'[c].unsure = {}
      /\ conn'[c].missed = conn[c].missed /\ \A d \in Clients \ {c} : conn'[d] = conn[d]
  BY <1>1, <1>5, SetSure
<1>7. SameBuffer(c) /\ Others(c)
  BY <1>6 DEF SameBuffer, Others
<1> DEFINE x == [bits |-> conn[c].scan, seq |-> seq, unsure |-> conn[c].unsure]
<1>8. view' = [view EXCEPT ![c] = x]
  BY DEF SnapSeq
<1>9. x \in ViewState /\ x.bits = conn[c].scan /\ x.seq = seq /\ x.unsure = conn[c].unsure
  BY FieldTypes DEF TypeOK, ViewState
<1> HIDE DEF x
<1>10. view' \in Views /\ OtherViews(c) /\ view'[c] = x
  BY <1>8, <1>9, ViewsTyped DEF Views, OtherViews
<1> QED
  BY <1>1, <1>6, <1>7, <1>9, <1>10, ShiftedOf

LEMMA ClosedEffect ==
  ASSUME TypeOK, NEW c \in Clients, Closed(c)
  PROVE  /\ Shifted(c) /\ conn'[c].pc = "off" /\ conn'[c].unsure = {} /\ conn'[c].send = <<>>
         /\ hub' \in {"off", "starting", "on"}
<1>1. conn' = [conn EXCEPT ![c] = Off] /\ hub' \in {"off", "starting", "on"}
  BY DEF Closed, TypeOK
<1>2. conn' \in Conns /\ conn'[c] = Off /\ Others(c)
  BY <1>1, ConnsTyped, OffTyped DEF Conns, Others
<1> QED
  BY <1>1, <1>2, OffTyped DEF Shifted, Off

\* The head of a buffer, and the rest of it.
LEMMA HeadTail ==
  ASSUME NEW t \in Seq(Delta), t # <<>>
  PROVE  /\ Head(t) \in Delta /\ Head(t) = t[1] /\ Len(t) \in Nat \ {0}
         /\ Tail(t) \in Seq(Delta) /\ Len(Tail(t)) = Len(t) - 1
         /\ \A i \in 1 .. Len(t) - 1 : Tail(t)[i] = t[i + 1]
OBVIOUS

\* A delta in order: the client applies it.
Applies(c, d) == [view EXCEPT ![c].bits[d.seat] = d.state, ![c].seq = d.seq,
                              ![c].unsure = {u \in @ : u[1] # d.seat \/ u[2] >= d.seq}]

LEMMA AppliesEffect ==
  ASSUME TypeOK, NEW c \in Clients, NEW d \in Delta, view[c].bits \in Bits, NEW w, w = Applies(c, d)
  PROVE  /\ w \in Views /\ \A b \in Clients \ {c} : w[b] = view[b]
         /\ w[c].bits \in Bits /\ w[c].bits[d.seat] = d.state
         /\ \A s \in Seats \ {d.seat} : w[c].bits[s] = view[c].bits[s]
         /\ w[c].seq = d.seq
         /\ w[c].unsure = {u \in view[c].unsure : u[1] # d.seat \/ u[2] >= d.seq}
<1>1. view \in Views /\ d.seat \in Seats /\ d.state \in State /\ d.seq \in Nat
  BY ViewsTyped DEF Delta
<1> DEFINE b == [view[c].bits EXCEPT ![d.seat] = d.state]
<1> DEFINE U == {u \in view[c].unsure : u[1] # d.seat \/ u[2] >= d.seq}
<1> DEFINE x == [view[c] EXCEPT !.bits = b]
<1> DEFINE y == [x EXCEPT !.seq = d.seq]
<1> DEFINE z == [y EXCEPT !.unsure = U]
<1> DEFINE f == [view EXCEPT ![c].bits[d.seat] = d.state]
<1> DEFINE g == [f EXCEPT ![c].seq = d.seq]
<1>2. b \in Bits /\ b[d.seat] = d.state /\ \A s \in Seats \ {d.seat} : b[s] = view[c].bits[s]
  BY <1>1 DEF Bits
<1>3. U \in SUBSET (Seats \X Nat)
  BY FieldTypes
<1>4. f = [view EXCEPT ![c] = x]
  OBVIOUS
<1> HIDE DEF b
<1>5. /\ x \in ViewState /\ x.bits = b /\ x.seq = view[c].seq /\ x.unsure = view[c].unsure
      /\ f \in Views /\ f[c] = x /\ \A e \in Clients \ {c} : f[e] = view[e]
  BY <1>1, <1>2, <1>4 DEF ViewState, Views
<1>6. g = [f EXCEPT ![c] = [f[c] EXCEPT !.seq = d.seq]]
  OBVIOUS
<1>7. w = [g EXCEPT ![c].unsure = {u \in g[c].unsure : u[1] # d.seat \/ u[2] >= d.seq}]
  BY DEF Applies
<1> HIDE DEF f, x
<1>8. /\ y \in ViewState /\ y.bits = b /\ y.seq = d.seq /\ y.unsure = view[c].unsure
      /\ g \in Views /\ g[c] = y /\ \A e \in Clients \ {c} : g[e] = view[e]
  BY <1>1, <1>5, <1>6 DEF ViewState, Views
<1> HIDE DEF g, y
<1>9. {u \in g[c].unsure : u[1] # d.seat \/ u[2] >= d.seq} = U
  BY <1>8
<1> HIDE DEF U
<1>10. w = [g EXCEPT ![c].unsure = U]
  BY <1>7, <1>9
<1>11. /\ z \in ViewState /\ z.bits = b /\ z.seq = d.seq /\ z.unsure = U
       /\ w \in Views /\ w[c] = z /\ \A e \in Clients \ {c} : w[e] = view[e]
  BY <1>3, <1>8, <1>10 DEF ViewState, Views
<1> QED
  BY <1>2, <1>11 DEF U

\* The client is told a delta is missing, that it is old, or the next one.
LEMMA DeliverEffect ==
  ASSUME TypeOK, NEW c \in Clients, Deliver(c), view[c].bits \in Bits
  PROVE  /\ Shifted(c) /\ conn[c].pc = "live" /\ hub' \in {"off", "starting", "on"}
         /\ view' \in Views /\ OtherViews(c)
         /\ \/ conn'[c].pc = "off" /\ view' = view /\ conn'[c].unsure = {} /\ conn'[c].send = <<>>
            \/ \E d \in Delta :
                 /\ conn[c].send # <<>> /\ d = conn[c].send[1] /\ conn'[c].pc = "live"
                 /\ conn'[c].unsure = conn[c].unsure /\ conn'[c].missed = conn[c].missed
                 /\ conn'[c].send = Tail(conn[c].send)
                 /\ \/ d.seq <= view[c].seq /\ view' = view
                    \/ d.seq = view[c].seq + 1 /\ view' = Applies(c, d)
<1> DEFINE d == Head(conn[c].send)
<1>1. conn[c].pc = "live" /\ conn[c].send # <<>> /\ conn[c].send \in Seq(Delta)
  BY FieldTypes DEF Deliver
<1>2. d \in Delta /\ d = conn[c].send[1] /\ d.seq \in Nat /\ view[c].seq \in Nat
  BY <1>1, HeadTail, FieldTypes DEF Delta
<1>3. hub \in {"off", "starting", "on"} /\ view \in Views
  BY ViewsTyped DEF TypeOK
<1>4. CASE d.seq > view[c].seq + 1
  <2>1. Closed(c) /\ view' = view
    BY <1>4 DEF Deliver
  <2> QED BY <1>1, <1>3, <2>1, ClosedEffect DEF OtherViews
<1>5. CASE ~(d.seq > view[c].seq + 1)
  <2> DEFINE t == Tail(conn[c].send)
  <2>1. SetsSend(conn, conn', c, t) /\ hub' = hub
    BY <1>5 DEF Deliver, SetsSend
  <2>2. t \in Seq(Delta) /\ Len(t) <= Len(conn[c].send) /\ Len(t) \in Nat /\ Len(conn[c].send) \in Nat
    BY <1>1, HeadTail
  <2>3. t = Tail(conn[c].send)
    OBVIOUS
  <2>4. view' = IF ~NewTo(c, d) THEN view ELSE Applies(c, d)
    BY <1>5 DEF Deliver, Applies
  <2> HIDE DEF d
  <2>5. (d.seq <= view[c].seq /\ view' = view) \/ (d.seq = view[c].seq + 1 /\ view' = Applies(c, d))
    BY <1>2, <1>5, <2>4 DEF NewTo
  <2> HIDE DEF t
  <2>6. /\ conn' \in Conns /\ conn'[c].pc = conn[c].pc /\ conn'[c].unsure = conn[c].unsure
        /\ conn'[c].send = t /\ conn'[c].missed = conn[c].missed /\ \A b \in Clients \ {c} : conn'[b] = conn[b]
    BY <2>1, <2>2, ConnsTyped, SetSend
  <2>7. Shifted(c)
    BY <2>2, <2>6, ConnsTyped, CapsFit DEF Shifted, Others, ConnTyped, Conns
  <2>8. view' \in Views /\ OtherViews(c)
    BY <1>2, <1>3, <2>5, AppliesEffect DEF OtherViews
  <2> QED BY <1>1, <1>2, <1>3, <2>1, <2>3, <2>5, <2>6, <2>7, <2>8
<1> QED
  BY <1>4, <1>5

\* A nonempty set of numbers has a least one.
LEMMA LeastOf ==
  ASSUME NEW S \in SUBSET Nat, S # {}
  PROVE  \E x \in S : \A y \in S : x <= y
<1>1. IsWellFoundedOn(OpToRel(<, Nat), Nat)
  BY NatLessThanWellFounded
<1>2. PICK x \in S : \A y \in S : <<y, x>> \notin OpToRel(<, Nat)
  <2> HIDE DEF OpToRel
  <2> QED BY <1>1, WFMin
<1>3. \A y \in S : ~(y < x)
  BY <1>2 DEF OpToRel
<1> QED
  BY <1>3

\* Last write wins: the newest delta of a seat is well defined.
LEMMA NewestEffect ==
  ASSUME TypeOK, NEW W \in SUBSET (1 .. Len(ring)), NEW s \in SeatsIn(W)
  PROVE  /\ NewestOf(W, s) \in W /\ ring[NewestOf(W, s)].seat = s
         /\ \A j \in W : ring[j].seat = s => NewestOf(W, s) <= j
<1> DEFINE P(i) == ring[i].seat = s /\ \A j \in W : ring[j].seat = s => i <= j
<1> DEFINE S == {i \in W : ring[i].seat = s}
<1>1. S \in SUBSET Nat /\ S # {}
  <2>1. Len(ring) \in Nat
    BY DEF TypeOK
  <2>2. 1 .. Len(ring) \subseteq Nat
    BY <2>1
  <2>3. \E i \in W : ring[i].seat = s
    BY DEF SeatsIn
  <2> QED BY <2>2, <2>3
<1>2. PICK i \in S : \A j \in S : i <= j
  BY <1>1, LeastOf
<1>3. \E k \in W : P(k)
  BY <1>2
<1>4. NewestOf(W, s) = CHOOSE k \in W : P(k)
  BY DEF NewestOf
<1> HIDE DEF P
<1>5. NewestOf(W, s) \in W /\ P(NewestOf(W, s))
  BY <1>3, <1>4
<1> QED
  BY <1>5 DEF P

\* The frame of a gap-fill.
LEMMA CoalescedEffect ==
  ASSUME TypeOK, NEW b \in Bits, NEW W \in SUBSET (1 .. Len(ring))
  PROVE  /\ Coalesced(b, W) \in Bits
         /\ \A s \in Seats : s \notin SeatsIn(W) => Coalesced(b, W)[s] = b[s]
         /\ \A s \in Seats : s \in SeatsIn(W) =>
              \E m \in W : /\ ring[m].seat = s /\ Coalesced(b, W)[s] = ring[m].state
                           /\ \A j \in W : ring[j].seat = s => m <= j
<1>1. ASSUME NEW s \in Seats, s \in SeatsIn(W)
      PROVE  /\ ring[NewestOf(W, s)].state \in State
             /\ Coalesced(b, W)[s] = ring[NewestOf(W, s)].state
             /\ \E m \in W : /\ ring[m].seat = s /\ Coalesced(b, W)[s] = ring[m].state
                             /\ \A j \in W : ring[j].seat = s => m <= j
  <2>1. /\ NewestOf(W, s) \in W /\ ring[NewestOf(W, s)].seat = s
        /\ \A j \in W : ring[j].seat = s => NewestOf(W, s) <= j
    BY <1>1, NewestEffect
  <2>2. NewestOf(W, s) \in 1 .. Len(ring) /\ ring \in Seq(Delta)
    BY <2>1 DEF TypeOK
  <2>3. ring[NewestOf(W, s)] \in Delta
    BY <2>2
  <2>4. Coalesced(b, W)[s] = ring[NewestOf(W, s)].state
    BY <1>1 DEF Coalesced
  <2> QED BY <2>1, <2>3, <2>4 DEF Delta
<1>2. ASSUME NEW s \in Seats, s \notin SeatsIn(W) PROVE Coalesced(b, W)[s] = b[s] /\ b[s] \in State
  BY <1>2 DEF Coalesced, Bits
<1> DEFINE f == [s \in Seats |-> IF s \in SeatsIn(W) THEN ring[NewestOf(W, s)].state ELSE b[s]]
<1>3. Coalesced(b, W) = f
  BY DEF Coalesced
<1>4. \A s \in Seats : (IF s \in SeatsIn(W) THEN ring[NewestOf(W, s)].state ELSE b[s]) \in State
  BY <1>1, <1>2
<1>5. f \in Bits
  BY <1>4 DEF Bits
<1> QED
  BY <1>1, <1>2, <1>3, <1>5

LEMMA GapRingEffect ==
  ASSUME TypeOK, NEW c \in Clients, GapRing(c), view[c].bits \in Bits, Len(moved) = seq,
         conn[c].upTo <= seq
  PROVE  /\ Shifted(c) /\ conn[c].pc = "ring" /\ SameBuffer(c) /\ conn'[c].unsure = conn[c].unsure
         /\ view' \in Views /\ OtherViews(c)
         /\ \/ /\ Covers(view[c].seq) /\ conn'[c].pc = "live"
               /\ view'[c].bits = Coalesced(view[c].bits, Wanted(view[c].seq))
               /\ view'[c].seq = conn[c].upTo
               /\ view'[c].unsure = Surer(view[c].unsure \cup Skipped(view[c].seq, conn[c].upTo),
                                          Wanted(view[c].seq))
            \/ conn'[c].pc = "bits" /\ view' = view
<1> DEFINE W == Wanted(view[c].seq)
<1> DEFINE b == Coalesced(view[c].bits, W)
<1> DEFINE U == Surer(view[c].unsure \cup Skipped(view[c].seq, conn[c].upTo), W)
<1> DEFINE x == [bits |-> b, seq |-> conn[c].upTo, unsure |-> U]
<1>1. W \in SUBSET (1 .. Len(ring))
  BY DEF Wanted
<1>2. b \in Bits
  <2> HIDE DEF W
  <2> QED BY <1>1, CoalescedEffect
<1>3. U \in SUBSET (Seats \X Nat)
  <2>1. ASSUME NEW k \in view[c].seq + 1 .. conn[c].upTo PROVE <<moved[k], k>> \in Seats \X Nat
    <3>1. view[c].seq \in Nat /\ conn[c].upTo \in Nat /\ moved \in Seq(Seats) /\ seq \in Nat
      BY FieldTypes DEF TypeOK
    <3>2. k \in 1 .. Len(moved)
      BY <3>1
    <3> QED BY <3>1, <3>2
  <2>2. Skipped(view[c].seq, conn[c].upTo) \subseteq Seats \X Nat
    BY <2>1 DEF Skipped
  <2> QED BY <2>2, FieldTypes DEF Surer
<1>4. conn[c].pc = "ring" /\ (Covers(view[c].seq) => view' = [view EXCEPT ![c] = x])
  BY DEF GapRing
<1>5. ~Covers(view[c].seq) => view' = view
  BY DEF GapRing
<1>6. x.bits = b /\ x.seq = conn[c].upTo /\ x.unsure = U
  OBVIOUS
<1>7. conn[c].upTo \in Nat
  BY FieldTypes
<1>8. b = Coalesced(view[c].bits, Wanted(view[c].seq))
      /\ U = Surer(view[c].unsure \cup Skipped(view[c].seq, conn[c].upTo), Wanted(view[c].seq))
  OBVIOUS
<1> HIDE DEF b, U
<1>9. x \in ViewState
  BY <1>2, <1>3, <1>7 DEF ViewState
<1> HIDE DEF x, W
<1>10. CASE Covers(view[c].seq)
  <2>1. SetsConnPc(conn, conn', c, "live") /\ "live" \in ConnStep
    BY <1>10 DEF GapRing, SetsConnPc, ConnStep
  <2>2. /\ conn' \in Conns /\ conn'[c].pc = "live" /\ conn'[c].unsure = conn[c].unsure
        /\ conn'[c].send = conn[c].send /\ conn'[c].missed = conn[c].missed
        /\ \A d \in Clients \ {c} : conn'[d] = conn[d]
    BY <2>1, ConnsTyped, SetConnPc
  <2>3. SameBuffer(c) /\ Others(c)
    BY <2>2 DEF SameBuffer, Others
  <2>4. Shifted(c)
    BY <2>2, <2>3, ShiftedOf
  <2>5. view' \in Views /\ OtherViews(c) /\ view'[c] = x
    BY <1>4, <1>9, <1>10, ViewsTyped DEF Views, OtherViews
  <2> QED BY <1>4, <1>6, <1>8, <1>10, <2>2, <2>3, <2>4, <2>5
<1>11. CASE ~Covers(view[c].seq)
  <2>1. SetsConnPc(conn, conn', c, "bits") /\ "bits" \in ConnStep
    BY <1>11 DEF GapRing, SetsConnPc, ConnStep
  <2>2. /\ conn' \in Conns /\ conn'[c].pc = "bits" /\ conn'[c].unsure = conn[c].unsure
        /\ conn'[c].send = conn[c].send /\ conn'[c].missed = conn[c].missed
        /\ \A d \in Clients \ {c} : conn'[d] = conn[d]
    BY <2>1, ConnsTyped, SetConnPc
  <2>3. SameBuffer(c) /\ Others(c)
    BY <2>2 DEF SameBuffer, Others
  <2>4. Shifted(c)
    BY <2>2, <2>3, ShiftedOf
  <2> QED BY <1>4, <1>5, <1>11, <2>2, <2>3, <2>4, ViewsTyped DEF OtherViews
<1> QED
  BY <1>10, <1>11

\* What a delta published, an INCR and an abandoned batch do to every connection.
LEMMA FanOutEffect ==
  ASSUME TypeOK, NEW d \in Delta, conn' = FanOut(d)
  PROVE  /\ conn' \in Conns
         /\ \A c \in Clients :
              /\ ConnTyped(conn'[c]) /\ conn'[c].pc = conn[c].pc /\ conn'[c].upTo = conn[c].upTo
              /\ conn'[c].scan = conn[c].scan /\ conn'[c].unsure = conn[c].unsure
              /\ \/ conn'[c] = conn[c] /\ conn[c].pc = "off"
                 \/ conn'[c].send = conn[c].send /\ conn'[c].missed = TRUE
                 \/ conn'[c].send = Append(conn[c].send, d) /\ conn'[c].missed = conn[c].missed
<1> SUFFICES ASSUME NEW c \in Clients
    PROVE  /\ ConnTyped(FanOut(d)[c]) /\ FanOut(d)[c] \in ConnState
           /\ FanOut(d)[c].pc = conn[c].pc /\ FanOut(d)[c].upTo = conn[c].upTo
           /\ FanOut(d)[c].scan = conn[c].scan /\ FanOut(d)[c].unsure = conn[c].unsure
           /\ \/ FanOut(d)[c] = conn[c] /\ conn[c].pc = "off"
              \/ FanOut(d)[c].send = conn[c].send /\ FanOut(d)[c].missed = TRUE
              \/ FanOut(d)[c].send = Append(conn[c].send, d) /\ FanOut(d)[c].missed = conn[c].missed
  BY DEF Conns, FanOut
<1>1. ConnTyped(FanOut(d)[c]) /\ FanOut(d)[c] \in ConnState
  BY FanOutTyped DEF ConnTyped
<1>2. conn[c] \in ConnState
  BY ConnsTyped DEF Conns
<1>3. CASE conn[c].pc = "off"
  BY <1>1, <1>3 DEF FanOut
<1>4. CASE conn[c].pc # "off" /\ hub = "on" /\ Len(conn[c].send) < BufCap
  <2> DEFINE t == Append(conn[c].send, d)
  <2>1. FanOut(d)[c] = [conn[c] EXCEPT !.send = t]
    BY <1>4 DEF FanOut
  <2>2. t = Append(conn[c].send, d)
    OBVIOUS
  <2> HIDE DEF t
  <2> QED BY <1>1, <1>2, <2>1, <2>2 DEF ConnState
<1>5. CASE conn[c].pc # "off" /\ ~(hub = "on" /\ Len(conn[c].send) < BufCap)
  <2>1. FanOut(d)[c] = [conn[c] EXCEPT !.missed = TRUE]
    BY <1>5 DEF FanOut
  <2> QED BY <1>1, <1>2, <2>1 DEF ConnState
<1> QED
  BY <1>3, <1>4, <1>5

LEMMA TearEffect ==
  ASSUME TypeOK, NEW s \in Seats, conn' = Tear(s)
  PROVE  /\ conn' \in Conns
         /\ \A c \in Clients :
              /\ ConnTyped(conn'[c]) /\ conn'[c].pc = conn[c].pc /\ conn'[c].upTo = conn[c].upTo
              /\ conn'[c].scan = conn[c].scan /\ SameBuffer(c)
              /\ conn[c].pc = "seq" /\ conn[c].scan[s] # bits[s] =>
                   conn'[c].unsure = conn[c].unsure \cup {<<s, seq + 1>>}
              /\ ~(conn[c].pc = "seq" /\ conn[c].scan[s] # bits[s]) => conn'[c].unsure = conn[c].unsure
<1>1. ASSUME NEW c \in Clients
      PROVE  /\ ConnTyped(Tear(s)[c]) /\ Tear(s)[c] \in ConnState
             /\ Tear(s)[c].pc = conn[c].pc /\ Tear(s)[c].upTo = conn[c].upTo
             /\ Tear(s)[c].scan = conn[c].scan
             /\ Tear(s)[c].send = conn[c].send /\ Tear(s)[c].missed = conn[c].missed
             /\ conn[c].pc = "seq" /\ conn[c].scan[s] # bits[s] =>
                  Tear(s)[c].unsure = conn[c].unsure \cup {<<s, seq + 1>>}
             /\ ~(conn[c].pc = "seq" /\ conn[c].scan[s] # bits[s]) => Tear(s)[c].unsure = conn[c].unsure
  <2>1. conn[c] \in ConnState /\ ConnTyped(conn[c])
    BY ConnsTyped DEF Conns
  <2>2. CASE conn[c].pc = "seq" /\ conn[c].scan[s] # bits[s]
    <3> DEFINE U == conn[c].unsure \cup {<<s, seq + 1>>}
    <3>1. Tear(s)[c] = [conn[c] EXCEPT !.unsure = U]
      BY <2>2 DEF Tear
    <3>2. seq + 1 \in Nat
      BY DEF TypeOK
    <3>3. U \in SUBSET (Seats \X Nat)
      BY <3>2, FieldTypes
    <3>4. U = conn[c].unsure \cup {<<s, seq + 1>>}
      OBVIOUS
    <3> HIDE DEF U
    <3> QED BY <2>1, <2>2, <3>1, <3>3, <3>4 DEF ConnState, ConnTyped
  <2>3. CASE ~(conn[c].pc = "seq" /\ conn[c].scan[s] # bits[s])
    BY <2>1, <2>3 DEF Tear
  <2> QED BY <2>2, <2>3
<1>2. conn' \in Conns
  BY <1>1 DEF Conns, Tear
<1> QED
  BY <1>1, <1>2 DEF SameBuffer

LEMMA SilenceEffect ==
  ASSUME TypeOK, NEW U \in SUBSET (Seats \X Nat), Silence(U)
  PROVE  /\ conn' \in Conns /\ view' \in Views
         /\ \A c \in Clients :
              /\ ConnTyped(conn'[c]) /\ conn'[c].pc = conn[c].pc /\ conn'[c].upTo = conn[c].upTo
              /\ conn'[c].scan = conn[c].scan /\ conn'[c].send = conn[c].send
              /\ conn[c].pc = "seq" => conn'[c].unsure = conn[c].unsure \cup U
              /\ conn[c].pc # "seq" => conn'[c].unsure = conn[c].unsure
              /\ conn'[c].missed = (conn[c].pc # "off" /\ (conn[c].missed \/ proj.pc = "push"))
              /\ view'[c].bits = view[c].bits /\ view'[c].seq = view[c].seq
              /\ view'[c].unsure = view[c].unsure \cup U
<1>1. ASSUME NEW c \in Clients
      PROVE  /\ ConnTyped(conn'[c]) /\ conn'[c] \in ConnState
             /\ conn'[c].pc = conn[c].pc /\ conn'[c].upTo = conn[c].upTo
             /\ conn'[c].scan = conn[c].scan /\ conn'[c].send = conn[c].send
             /\ conn[c].pc = "seq" => conn'[c].unsure = conn[c].unsure \cup U
             /\ conn[c].pc # "seq" => conn'[c].unsure = conn[c].unsure
             /\ conn'[c].missed = (conn[c].pc # "off" /\ (conn[c].missed \/ proj.pc = "push"))
  <2>1. conn[c] \in ConnState /\ ConnTyped(conn[c])
    BY ConnsTyped DEF Conns
  <2> DEFINE V == IF conn[c].pc = "seq" THEN conn[c].unsure \cup U ELSE conn[c].unsure
  <2> DEFINE m == conn[c].pc # "off" /\ (conn[c].missed \/ proj.pc = "push")
  <2> DEFINE x == [conn[c] EXCEPT !.unsure = V]
  <2>2. V \in SUBSET (Seats \X Nat) /\ m \in BOOLEAN
    BY FieldTypes
  <2>3. conn'[c] = [x EXCEPT !.missed = m]
    BY DEF Silence
  <2>4. /\ conn[c].pc = "seq" => V = conn[c].unsure \cup U
        /\ conn[c].pc # "seq" => V = conn[c].unsure
        /\ m = (conn[c].pc # "off" /\ (conn[c].missed \/ proj.pc = "push"))
    OBVIOUS
  <2> HIDE DEF V, m
  <2>5. /\ x \in ConnState /\ x.pc = conn[c].pc /\ x.upTo = conn[c].upTo /\ x.scan = conn[c].scan
        /\ x.send = conn[c].send /\ x.unsure = V /\ x.missed = conn[c].missed
    BY <2>1, <2>2 DEF ConnState
  <2> HIDE DEF x
  <2>6. /\ conn'[c] \in ConnState /\ conn'[c].pc = x.pc /\ conn'[c].upTo = x.upTo /\ conn'[c].scan = x.scan
        /\ conn'[c].send = x.send /\ conn'[c].unsure = x.unsure /\ conn'[c].missed = m
    BY <2>2, <2>3, <2>5 DEF ConnState
  <2>7. Len(conn[c].send) <= BufCap
    BY <2>1 DEF ConnTyped
  <2>8. ConnTyped(conn'[c])
    BY <2>5, <2>6, <2>7 DEF ConnTyped
  <2> QED BY <2>4, <2>5, <2>6, <2>8
<1>2. ASSUME NEW c \in Clients
      PROVE  /\ view'[c] \in ViewState
             /\ view'[c].bits = view[c].bits /\ view'[c].seq = view[c].seq
             /\ view'[c].unsure = view[c].unsure \cup U
  <2>1. view[c] \in ViewState
    BY ViewsTyped DEF Views
  <2> DEFINE V == view[c].unsure \cup U
  <2>2. V \in SUBSET (Seats \X Nat)
    BY FieldTypes
  <2>3. view'[c] = [view[c] EXCEPT !.unsure = V]
    BY DEF Silence
  <2>4. V = view[c].unsure \cup U
    OBVIOUS
  <2> HIDE DEF V
  <2> QED BY <2>1, <2>2, <2>3, <2>4 DEF ViewState
<1>3. conn' \in Conns
  BY <1>1 DEF Conns, Silence
<1>4. view' \in Views
  BY <1>2 DEF Views, Silence
<1> QED
  BY <1>1, <1>2, <1>3, <1>4

\* What is lost with an abandoned batch.
Lost == {<<e.seat, seq>> : e \in {d \in proj.batch : proj.pc = "incr" /\ Current(d)}}

LEMMA AbandonEffect ==
  ASSUME TypeOK, Abandon
  PROVE  /\ proj' = Idle /\ proj.pc # "idle" /\ Lost \in SUBSET (Seats \X Nat) /\ Silence(Lost)
         /\ faults' \in Nat
<1>1. Lost \in SUBSET (Seats \X Nat)
  <2>1. \A e \in proj.batch : e.seat \in Seats
    BY FieldTypes DEF Event
  <2> QED BY <2>1 DEF Lost, TypeOK
<1>2. Silence(Lost)
  BY DEF Abandon, Lost
<1> QED
  BY <1>1, <1>2 DEF Abandon, TypeOK

LEMMA ShiftedTyped ==
  ASSUME TypeOK, NEW c \in Clients, Shifted(c), CoreTyped', view' \in Views
  PROVE  TypeOK'
BY ConnsTyped, TypePartsNext DEF Shifted, Others, Conns, Views

LEMMA SameClientsTyped ==
  ASSUME TypeOK, conn' = conn, view' = view, CoreTyped'
  PROVE  TypeOK'
BY ConnsTyped, ViewsTyped, TypePartsNext DEF Conns, Views

LEMMA TypeNext ==
  ASSUME TypeOK, ScansFit, ProjFits, DeltasFit, ViewsFit, [Next]_vars
  PROVE  TypeOK'
<1> USE DEF ProjState
<1>1. CoreTyped /\ view \in Views /\ proj \in ProjState
  BY TypeParts, ViewsTyped DEF CoreTyped
<1>2. ASSUME NEW s \in Seats, NEW to \in State, ChangeSeat(s, to) PROVE TypeOK'
  <2>0. rows' \in Bits /\ changes' \in Nat /\ todo' \subseteq Event
    <3>1. todo \subseteq Event
      BY <1>1 DEF CoreTyped
    <3> QED BY <1>2, <3>1, ChangeTyped
  <2>2. UNCHANGED <<bits, seq, ring, moved, relapsed, proj, hub, faults>>
    BY <1>2 DEF ChangeSeat, redisVars, feedVars
  <2>1. CoreTyped'
    BY <1>1, <2>0, <2>2 DEF CoreTyped
  <2> QED BY <1>2, <2>1, SameClientsTyped DEF ChangeSeat, feedVars
<1>3. ASSUME ListBatch PROVE TypeOK'
  <2>1. CoreTyped'
    BY <1>1, <1>3, ListBatchEffect DEF CoreTyped, ListBatch, dbVars, redisVars, feedVars
  <2> QED BY <1>3, <2>1, SameClientsTyped DEF ListBatch, feedVars
<1>4. ASSUME EnsureScan PROVE TypeOK'
  <2>1. CoreTyped'
    BY <1>1, <1>4, EnsureScanEffect DEF CoreTyped, EnsureScan, dbVars, redisVars, feedVars
  <2> QED BY <1>4, <2>1, SameClientsTyped DEF EnsureScan, feedVars
<1>5. ASSUME EnsureSeed PROVE TypeOK'
  <2>1. proj.scan \in Bits
    BY <1>5 DEF ScansFit, EnsureSeed
  <2>2. CoreTyped'
    BY <1>1, <1>5, <2>1, EnsureSeedEffect DEF CoreTyped, EnsureSeed, dbVars, feedVars
  <2> QED BY <1>5, <2>2, SameClientsTyped DEF EnsureSeed, feedVars
<1>6. ASSUME NEW e \in proj.batch, WriteByte(e) PROVE TypeOK'
  <2>1. bits # NoBits
    BY <1>6 DEF ProjFits, WriteByte
  <2>2. CoreTyped'
    BY <1>1, <1>6, <2>1, WriteByteEffect DEF CoreTyped, WriteByte, dbVars, feedVars
  <2> QED BY <1>6, <2>2, SameClientsTyped DEF WriteByte, feedVars
<1>7. ASSUME NEW e \in proj.batch, IncrSeq(e) PROVE TypeOK'
  <2>1. Len(moved) = seq
    BY DEF DeltasFit
  <2>2. CoreTyped'
    BY <1>1, <1>7, <2>1, IncrSeqEffect DEF CoreTyped, IncrSeq, dbVars
  <2>3. e.seat \in Seats /\ conn' = Tear(e.seat) /\ view' = view
    BY <1>7, CurrentTyped DEF IncrSeq
  <2>4. conn' \in Conns /\ \A c \in Clients : ConnTyped(conn'[c])
    BY <2>3, TearEffect
  <2> QED BY <1>1, <2>2, <2>3, <2>4, TypePartsNext DEF Conns, Views
<1>8. ASSUME NEW e \in proj.batch, PushDelta(e) PROVE TypeOK'
  <2>1. PICK d \in Delta : ring' = Trimmed(d) /\ conn' = FanOut(d)
    BY <1>8, PushDeltaEffect
  <2>2. ring' \in Seq(Delta) /\ Len(ring') <= RingCap
    BY <2>1, TrimmedEffect, CapsFit
  <2>3. CoreTyped'
    BY <1>1, <1>8, <2>2, PushDeltaEffect DEF CoreTyped, PushDelta, dbVars
  <2>4. conn' \in Conns /\ \A c \in Clients : ConnTyped(conn'[c])
    BY <2>1, FanOutEffect
  <2>5. view' = view
    BY <1>8 DEF PushDelta
  <2> QED BY <1>1, <2>3, <2>4, <2>5, TypePartsNext DEF Conns, Views
<1>9. ASSUME NEW e \in proj.batch, MarkProcessed(e) \/ LoseMark(e) PROVE TypeOK'
  <2>1. proj' = After(e) /\ e.seat \in Seats
    BY <1>9, CurrentTyped DEF MarkProcessed, LoseMark
  <2>2. proj' \in ProjState
    BY <2>1, AfterTyped
  <2>3. CoreTyped'
    BY <1>1, <1>9, <2>1, <2>2 DEF CoreTyped, MarkProcessed, LoseMark, redisVars, feedVars
  <2> QED BY <1>9, <2>3, SameClientsTyped DEF MarkProcessed, LoseMark, feedVars
<1>10. ASSUME Abandon PROVE TypeOK'
  <2>1. proj' = Idle /\ Silence(Lost) /\ Lost \in SUBSET (Seats \X Nat) /\ faults' \in Nat
    BY <1>10, AbandonEffect
  <2>2. CoreTyped'
    BY <1>1, <1>10, <2>1, IdleTyped DEF CoreTyped, Abandon, dbVars, redisVars
  <2>3. conn' \in Conns /\ view' \in Views /\ \A c \in Clients : ConnTyped(conn'[c])
    BY <2>1, SilenceEffect
  <2> QED BY <2>2, <2>3, TypePartsNext DEF Conns, Views
<1>11. ASSUME HubSubscribed PROVE TypeOK'
  <2>1. CoreTyped'
    BY <1>1, <1>11 DEF CoreTyped, HubSubscribed, dbVars, redisVars
  <2> QED BY <1>11, <2>1, SameClientsTyped DEF HubSubscribed
<1>12. ASSUME NEW c \in Clients, Connect(c) PROVE TypeOK'
  <2>1. CoreTyped' /\ view' = view
    BY <1>1, <1>12, ConnectEffect DEF CoreTyped, Connect, dbVars, redisVars
  <2> QED BY <1>1, <1>12, <2>1, ConnectEffect, ShiftedTyped
<1>13. ASSUME NEW c \in Clients, GapSeq(c) PROVE TypeOK'
  <2>1. CoreTyped' /\ view' = view
    BY <1>1, <1>13 DEF CoreTyped, GapSeq, dbVars, redisVars
  <2> QED BY <1>1, <1>13, <2>1, GapSeqEffect, ShiftedTyped
<1>14. ASSUME NEW c \in Clients, GapRing(c) PROVE TypeOK'
  <2>1. CoreTyped'
    BY <1>1, <1>14 DEF CoreTyped, GapRing, dbVars, redisVars
  <2>2. view[c].bits \in Bits /\ conn[c].upTo <= seq /\ Len(moved) = seq
    BY <1>14, FieldTypes DEF GapRing, ViewsFit, DeltasFit
  <2> QED BY <1>14, <2>1, <2>2, GapRingEffect, ShiftedTyped
<1>15. ASSUME NEW c \in Clients, SnapBits(c) PROVE TypeOK'
  <2>1. CoreTyped' /\ view' = view
    BY <1>1, <1>15 DEF CoreTyped, SnapBits, dbVars, redisVars
  <2> QED BY <1>1, <1>15, <2>1, SnapBitsEffect, ShiftedTyped
<1>16. ASSUME NEW c \in Clients, SnapSeed(c) PROVE TypeOK'
  <2>1. conn[c].scan \in Bits /\ view' = view
    BY <1>16 DEF ScansFit, SnapSeed
  <2>2. CoreTyped'
    BY <1>1, <1>16, <2>1, SnapSeedEffect DEF CoreTyped, SnapSeed, dbVars
  <2> QED BY <1>1, <1>16, <2>1, <2>2, SnapSeedEffect, ShiftedTyped
<1>17. ASSUME NEW c \in Clients, SnapSeq(c) PROVE TypeOK'
  <2>1. conn[c].scan \in Bits
    BY <1>17 DEF ScansFit, SnapSeq
  <2>2. CoreTyped'
    BY <1>1, <1>17 DEF CoreTyped, SnapSeq, dbVars, redisVars
  <2> QED BY <1>17, <2>1, <2>2, SnapSeqEffect, ShiftedTyped
<1>18. ASSUME NEW c \in Clients, Deliver(c) PROVE TypeOK'
  <2>1. view[c].bits \in Bits
    BY <1>18, FieldTypes DEF ViewsFit, Deliver
  <2>2. CoreTyped'
    BY <1>1, <1>18, <2>1, DeliverEffect DEF CoreTyped, Deliver, dbVars, redisVars
  <2> QED BY <1>18, <2>1, <2>2, DeliverEffect, ShiftedTyped
<1>19. ASSUME NEW c \in Clients, Disconnect(c) PROVE TypeOK'
  <2>1. Closed(c) /\ view' = view
    BY <1>19 DEF Disconnect
  <2>2. CoreTyped'
    BY <1>1, <1>19, <2>1, ClosedEffect DEF CoreTyped, Disconnect, dbVars, redisVars
  <2> QED BY <1>1, <2>1, <2>2, ClosedEffect, ShiftedTyped
<1>20. ASSUME UNCHANGED vars PROVE TypeOK'
  BY <1>20 DEF vars, TypeOK
<1> QED
  BY <1>2, <1>3, <1>4, <1>5, <1>6, <1>7, <1>8, <1>9, <1>10, <1>11, <1>12, <1>13, <1>14, <1>15, <1>16,
     <1>17, <1>18, <1>19, <1>20 DEF Next, Project, Handle, Serve

-----------------------------------------------------------------------------
(* The events, the bitset and the rows.                                    *)

\* What the steps of the hub and of the projector leave alone.
LEMMA HubFrame ==
  ASSUME NEW c \in Clients, Serve(c) \/ Disconnect(c)
  PROVE  /\ UNCHANGED <<rows, changes, todo, relapsed, seq, ring, moved, proj>>
         /\ bits' = bits \/ SnapSeed(c)
BY DEF Serve, Disconnect, Connect, GapSeq, GapRing, SnapBits, SnapSeed, SnapSeq, Deliver, dbVars, redisVars

LEMMA ProjFrame ==
  /\ ListBatch \/ EnsureScan \/ Abandon =>
       UNCHANGED <<rows, changes, todo, relapsed, bits, seq, ring, moved>>
  /\ ListBatch \/ EnsureScan \/ EnsureSeed => UNCHANGED <<rows, changes, todo, relapsed, seq, ring, moved, conn, view, hub>>
  /\ \A e : WriteByte(e) => UNCHANGED <<rows, changes, todo, relapsed, seq, ring, moved, conn, view, hub>>
  /\ \A e : IncrSeq(e) => UNCHANGED <<rows, changes, todo, relapsed, bits, ring, view, hub>>
  /\ \A e : PushDelta(e) => UNCHANGED <<rows, changes, todo, relapsed, bits, seq, moved, view, hub>>
  /\ \A e : MarkProcessed(e) \/ LoseMark(e) =>
       UNCHANGED <<rows, changes, bits, seq, ring, moved, conn, view, hub>>
<1>1. ListBatch \/ EnsureScan \/ Abandon => UNCHANGED <<rows, changes, todo, relapsed, bits, seq, ring, moved>>
  BY DEF ListBatch, EnsureScan, Abandon, dbVars, redisVars
<1>2. ListBatch \/ EnsureScan \/ EnsureSeed => UNCHANGED <<rows, changes, todo, relapsed, seq, ring, moved, conn, view, hub>>
  BY DEF ListBatch, EnsureScan, EnsureSeed, dbVars, redisVars, feedVars
<1>3. \A e : WriteByte(e) => UNCHANGED <<rows, changes, todo, relapsed, seq, ring, moved, conn, view, hub>>
  BY DEF WriteByte, dbVars, feedVars
<1>4. \A e : IncrSeq(e) => UNCHANGED <<rows, changes, todo, relapsed, bits, ring, view, hub>>
  BY DEF IncrSeq, dbVars
<1>5. \A e : PushDelta(e) => UNCHANGED <<rows, changes, todo, relapsed, bits, seq, moved, view, hub>>
  BY DEF PushDelta, dbVars
<1>6. \A e : MarkProcessed(e) \/ LoseMark(e) => UNCHANGED <<rows, changes, bits, seq, ring, moved, conn, view, hub>>
  BY DEF MarkProcessed, LoseMark, redisVars, feedVars
<1> QED
  BY <1>1, <1>2, <1>3, <1>4, <1>5, <1>6

\* Finitely many events were written.
LEMMA TodoFinite ==
  ASSUME TypeOK, EventsFit
  PROVE  IsFiniteSet(todo)
<1> DEFINE f == [e \in todo |-> e.id]
<1>1. \A e \in todo : e.id \in Nat /\ e.id <= changes
  BY DEF TypeOK, EventsFit, Event
<1>2. changes \in Nat
  BY DEF TypeOK
<1>3. f \in [todo -> 0 .. changes]
  BY <1>1, <1>2
<1>4. f \in Injection(todo, 0 .. changes)
  BY <1>3 DEF Injection, IsInjective, EventsFit
<1>5. IsFiniteSet(0 .. changes)
  BY <1>2, FS_Interval
<1> HIDE DEF f
<1> QED
  BY <1>4, <1>5, FS_Injection

\* A batch has at most one current event.
LEMMA CurrentUnique ==
  ASSUME TypeOK, EventsFit, NEW d \in proj.batch, NEW e \in proj.batch, Current(d), Current(e)
  PROVE  d = e
<1>1. d.id \in Nat /\ e.id \in Nat
  BY CurrentTyped
<1>2. ~(d.id < e.id) /\ ~(e.id < d.id)
  BY DEF Current, Before
<1>3. d.id = e.id
  BY <1>1, <1>2
<1> QED
  BY <1>3 DEF EventsFit

\* ListBatch takes the oldest events.
LEMMA ListBatchTakesOldest ==
  ASSUME TypeOK, EventsFit, ListBatch
  PROVE  EventsFit'
<1> DEFINE b == {e \in todo : Cardinality(Before(e, todo)) < BatchSize}
<1>1. proj'.batch = b /\ UNCHANGED <<rows, changes, todo, relapsed>>
  BY ListBatchEffect, ProjFrame
<1>2. ASSUME NEW e \in b, NEW d \in todo, d.id < e.id
      PROVE  d \in b
  <2>1. IsFiniteSet(Before(e, todo))
    BY TodoFinite, FS_Subset DEF Before
  <2>2. \A x \in todo : x.id \in Nat
    BY DEF TypeOK, Event
  <2>3. Before(d, todo) \subseteq Before(e, todo)
    BY <1>2, <2>2 DEF Before
  <2>4. Cardinality(Before(d, todo)) <= Cardinality(Before(e, todo)) /\ IsFiniteSet(Before(d, todo))
    BY <2>1, <2>3, FS_Subset
  <2>5. Cardinality(Before(d, todo)) \in Nat /\ Cardinality(Before(e, todo)) \in Nat
    BY <2>1, <2>4, FS_CardinalityType
  <2> QED BY <2>4, <2>5, CapsFit
<1>3. b \subseteq todo
  OBVIOUS
<1> HIDE DEF b
<1>4. \A s \in Seats \ relapsed : NewestShowsRow(s)' /\ OldestAreTaken(s)'
  BY <1>1, <1>2 DEF EventsFit, NewestShowsRow, OldestAreTaken
<1> QED
  BY <1>1, <1>3, <1>4 DEF EventsFit

LEMMA ChangeKeepsEvents ==
  ASSUME TypeOK, EventsFit, NEW s \in Seats, NEW to \in State, ChangeSeat(s, to)
  PROVE  EventsFit'
<1>1. PICK n \in Event : n.id = changes + 1 /\ n.seat = s /\ n.state = to /\ todo' = todo \cup {n}
  BY ChangeTyped
<1>2. proj' = proj /\ relapsed' = relapsed /\ changes' = changes + 1 /\ changes \in Nat
  BY DEF ChangeSeat, TypeOK
<1>3. rows'[s] = to /\ \A r \in Seats \ {s} : rows'[r] = rows[r]
  BY ChangeTyped
<1>4. \A e \in todo : e.id \in Nat /\ e.id <= changes /\ e.id < n.id
  BY <1>1, <1>2 DEF TypeOK, Event, EventsFit
<1>5. ASSUME NEW r \in Seats \ relapsed PROVE NewestShowsRow(r)' /\ OldestAreTaken(r)'
  <2>1. NewestShowsRow(r) /\ OldestAreTaken(r)
    BY DEF EventsFit
  <2>2. ASSUME NEW e \in todo', e.seat = r, \A d \in todo' : d.seat = r => d.id <= e.id
        PROVE  e.state = rows'[r]
    <3>1. CASE r = s
      <4>1. e = n
        <5>1. n.id <= e.id
          BY <1>1, <2>2, <3>1
        <5> QED BY <1>1, <1>2, <1>4, <5>1
      <4> QED BY <1>1, <1>3, <3>1, <4>1
    <3>2. CASE r # s
      BY <1>1, <1>3, <2>1, <2>2, <3>2 DEF NewestShowsRow
    <3> QED BY <3>1, <3>2
  <2>3. ASSUME NEW e \in proj.batch, NEW d \in todo', e.seat = r, d.seat = r, d.id < e.id
        PROVE  d \in proj.batch
    <3>1. e \in todo
      BY DEF EventsFit
    <3>2. d # n
      BY <1>1, <1>2, <1>4, <2>3, <3>1
    <3> QED BY <1>1, <2>1, <2>3, <3>2 DEF OldestAreTaken
  <2> QED BY <1>2, <2>2, <2>3 DEF NewestShowsRow, OldestAreTaken
<1>6. proj.batch \subseteq todo'
  BY <1>1 DEF EventsFit
<1>7. \A e \in todo' : e.id <= changes'
  BY <1>1, <1>2, <1>4
<1>8. \A d, e \in todo' : d.id = e.id => d = e
  BY <1>1, <1>4 DEF EventsFit
<1> QED
  BY <1>2, <1>5, <1>6, <1>7, <1>8 DEF EventsFit

\* The current event is the oldest of its seat, unless a mark of the seat was lost.
LEMMA CurrentIsOldest ==
  ASSUME TypeOK, EventsFit, NEW e \in proj.batch, Current(e), NEW d \in todo, d.seat = e.seat,
         e.seat \notin relapsed
  PROVE  e.id <= d.id
<1>1. e.id \in Nat /\ d.id \in Nat /\ e.seat \in Seats
  BY CurrentTyped DEF TypeOK, Event
<1>2. OldestAreTaken(e.seat)
  BY <1>1 DEF EventsFit
<1>3. ~(d.id < e.id)
  BY <1>2 DEF OldestAreTaken, Current, Before
<1> QED
  BY <1>1, <1>3

LEMMA MarkKeepsEvents ==
  ASSUME TypeOK, EventsFit, NEW e \in proj.batch, MarkProcessed(e) \/ LoseMark(e)
  PROVE  EventsFit'
<1>1. Current(e) /\ proj' = After(e) /\ rows' = rows /\ changes' = changes
  BY ProjFrame DEF MarkProcessed, LoseMark
<1>2. proj'.batch = proj.batch \ {e}
  BY <1>1, AfterTyped
<1>3. \/ todo' = todo \ {e} /\ relapsed' = relapsed
      \/ todo' = todo /\ relapsed' = relapsed \cup {e.seat}
  BY DEF MarkProcessed, LoseMark
<1>4. proj'.batch \subseteq todo' /\ todo' \subseteq todo
  BY <1>2, <1>3 DEF EventsFit
<1>5. ASSUME NEW s \in Seats \ relapsed' PROVE NewestShowsRow(s)' /\ OldestAreTaken(s)'
  <2>1. s \in Seats \ relapsed /\ NewestShowsRow(s) /\ OldestAreTaken(s)
    BY <1>3 DEF EventsFit
  <2>2. ASSUME NEW f \in todo', f.seat = s, \A d \in todo' : d.seat = s => d.id <= f.id
        PROVE  f.state = rows[s]
    <3>1. f \in todo /\ f.id \in Nat /\ e.id \in Nat
      BY <1>1, <1>4, CurrentTyped DEF TypeOK, Event
    <3>2. ASSUME NEW d \in todo, d.seat = s PROVE d.id <= f.id
      <4>1. CASE d \in todo'
        BY <2>2, <3>2, <4>1
      <4>2. CASE d \notin todo'
        <5>1. d = e
          BY <1>3, <4>2
        <5>2. e.id <= f.id
          BY <1>1, <2>1, <2>2, <3>1, <3>2, <5>1, CurrentIsOldest
        <5> QED BY <5>1, <5>2
      <4> QED BY <4>1, <4>2
    <3> QED BY <2>1, <2>2, <3>1, <3>2 DEF NewestShowsRow
  <2>3. ASSUME NEW f \in proj'.batch, NEW d \in todo', f.seat = s, d.seat = s, d.id < f.id
        PROVE  d \in proj'.batch
    <3>1. f \in proj.batch /\ d \in todo /\ d \in proj.batch
      BY <1>2, <1>4, <2>1, <2>3 DEF OldestAreTaken
    <3>2. d # e
      <4>1. CASE todo' = todo \ {e}
        BY <4>1
      <4>2. CASE relapsed' = relapsed \cup {e.seat}
        BY <2>3, <4>2
      <4> QED BY <1>3, <4>1, <4>2
    <3> QED BY <1>2, <3>1, <3>2
  <2> QED BY <1>1, <2>2, <2>3 DEF NewestShowsRow, OldestAreTaken
<1> QED
  BY <1>1, <1>4, <1>5 DEF EventsFit

\* Whatever follows the rows still does after the seat changed.
FollowsNext(b) == \A s \in Seats \ relapsed' : b[s] = rows'[s] \/ \E e \in todo' : e.seat = s

LEMMA ChangeFollows ==
  ASSUME TypeOK, NEW s \in Seats, NEW to \in State, ChangeSeat(s, to), NEW b, Follows(b)
  PROVE  FollowsNext(b)
<1>1. PICK n \in Event : n.seat = s /\ todo' = todo \cup {n}
  BY ChangeTyped
<1>2. relapsed' = relapsed /\ \A r \in Seats \ {s} : rows'[r] = rows[r]
  BY ChangeTyped DEF ChangeSeat
<1>3. ASSUME NEW r \in Seats \ relapsed' PROVE b[r] = rows'[r] \/ \E e \in todo' : e.seat = r
  BY <1>1, <1>2 DEF Follows
<1> QED
  BY <1>3 DEF FollowsNext

LEMMA SameFollows ==
  ASSUME UNCHANGED <<rows, todo, relapsed>>, NEW b, Follows(b)
  PROVE  FollowsNext(b)
BY DEF Follows, FollowsNext

LEMMA BitsFollow == BitsFollowRows <=> (bits = NoBits \/ Follows(bits))
BY DEF BitsFollowRows, Follows

LEMMA BitsFollowNext ==
  ASSUME bits' = NoBits \/ FollowsNext(bits')
  PROVE  BitsFollowRows'
BY DEF BitsFollowRows, FollowsNext

LEMMA RowsFollow ==
  ASSUME NEW b, b = rows
  PROVE  Follows(b)
BY DEF Follows

\* MarkProcessed takes an event whose state the bitset and, if it is the last of its
\* seat, the row show.
LEMMA MarkFollows ==
  ASSUME TypeOK, EventsFit, ProjFits, NEW e \in proj.batch, MarkProcessed(e) \/ LoseMark(e), Follows(bits)
  PROVE  FollowsNext(bits')
<1>1. Current(e) /\ proj.pc = "mark" /\ rows' = rows /\ bits' = bits
  BY ProjFrame DEF MarkProcessed, LoseMark
<1>2. \/ todo' = todo \ {e} /\ relapsed' = relapsed
      \/ todo' = todo /\ relapsed' = relapsed \cup {e.seat}
  BY DEF MarkProcessed, LoseMark
<1>3. e \in todo /\ bits[e.seat] = e.state
  BY <1>1 DEF EventsFit, ProjFits
<1>4. ASSUME NEW s \in Seats \ relapsed' PROVE bits[s] = rows[s] \/ \E f \in todo' : f.seat = s
  <2>1. s \in Seats \ relapsed
    BY <1>2
  <2>2. CASE \E f \in todo : f.seat = s /\ f # e
    BY <1>2, <2>2
  <2>3. CASE (\A f \in todo : f.seat = s => f = e) /\ e.seat = s
    <3>1. \A f \in todo : f.seat = s => f.id <= e.id
      BY <2>3, <1>1, CurrentTyped
    <3>2. NewestShowsRow(s)
      BY <2>1 DEF EventsFit
    <3>3. e.state = rows[s]
      BY <1>3, <2>3, <3>1, <3>2 DEF NewestShowsRow
    <3> QED BY <1>3, <2>3, <3>3
  <2>4. CASE \A f \in todo : f.seat # s
    BY <2>1, <2>4 DEF Follows
  <2> QED BY <2>2, <2>3, <2>4
<1> QED
  BY <1>1, <1>4 DEF FollowsNext

\* The bitset after a step.
BitsStep == bits' = bits \/ (bits = NoBits /\ bits' \in Bits /\ FollowsNext(bits'))

LEMMA SeedStep ==
  ASSUME TypeOK, ScansFit, EnsureSeed \/ \E c \in Clients : SnapSeed(c)
  PROVE  BitsStep /\ bits' # NoBits
<1>1. ASSUME EnsureSeed PROVE BitsStep /\ bits' # NoBits
  <2>1. proj.scan \in Bits /\ (bits = NoBits => Follows(proj.scan))
    BY <1>1 DEF ScansFit, EnsureSeed
  <2>2. UNCHANGED <<rows, todo, relapsed>>
    BY <1>1, ProjFrame
  <2>3. bits' \in Bits /\ bits' # NoBits /\ (bits = NoBits => bits' = proj.scan) /\ (bits # NoBits => bits' = bits)
    BY <1>1, <2>1, EnsureSeedEffect
  <2>4. bits = NoBits => FollowsNext(proj.scan)
    BY <2>1, <2>2, SameFollows
  <2> QED BY <2>3, <2>4 DEF BitsStep
<1>2. ASSUME NEW c \in Clients, SnapSeed(c) PROVE BitsStep /\ bits' # NoBits
  <2>1. conn[c].scan \in Bits /\ (bits = NoBits => Follows(conn[c].scan))
    BY <1>2 DEF ScansFit, SnapSeed
  <2>2. UNCHANGED <<rows, todo, relapsed>>
    BY <1>2, HubFrame DEF Serve
  <2>3. bits' \in Bits /\ bits' # NoBits /\ (bits = NoBits => bits' = conn[c].scan) /\ (bits # NoBits => bits' = bits)
    BY <1>2, <2>1, SnapSeedEffect
  <2>4. bits = NoBits => FollowsNext(conn[c].scan)
    BY <2>1, <2>2, SameFollows
  <2> QED BY <2>3, <2>4 DEF BitsStep
<1> QED
  BY <1>1, <1>2

LEMMA BitsFollowRowsNext ==
  ASSUME TypeOK, EventsFit, BitsFollowRows, ScansFit, ProjFits, [Next]_vars
  PROVE  BitsFollowRows'
<1>1. bits = NoBits \/ Follows(bits)
  BY BitsFollow
<1>2. ASSUME NEW s \in Seats, NEW to \in State, ChangeSeat(s, to) PROVE BitsFollowRows'
  <2>1. bits' = bits
    BY <1>2 DEF ChangeSeat, redisVars
  <2>2. Follows(bits) => FollowsNext(bits)
    BY <1>2, ChangeFollows
  <2> QED BY <1>1, <2>1, <2>2, BitsFollowNext
<1>3. ASSUME UNCHANGED <<rows, todo, relapsed, bits>> PROVE BitsFollowRows'
  BY <1>3 DEF BitsFollowRows
<1>4. ASSUME EnsureSeed \/ \E c \in Clients : SnapSeed(c) PROVE BitsFollowRows'
  <2>1. UNCHANGED <<rows, todo, relapsed>>
    BY <1>4, ProjFrame, HubFrame DEF Serve
  <2>2. BitsStep
    BY <1>4, SeedStep
  <2>3. CASE bits' = bits
    BY <2>1, <2>3, <1>3
  <2>4. CASE FollowsNext(bits')
    BY <2>4, BitsFollowNext
  <2> QED BY <2>2, <2>3, <2>4 DEF BitsStep
<1>5. ASSUME NEW e \in proj.batch, WriteByte(e) PROVE BitsFollowRows'
  <2>1. bits # NoBits
    BY <1>5 DEF ProjFits, WriteByte
  <2>2. \A s \in Seats \ {e.seat} : bits'[s] = bits[s]
    BY <1>5, <2>1, WriteByteEffect
  <2>3. UNCHANGED <<rows, todo, relapsed>> /\ e \in todo
    BY <1>5, ProjFrame DEF EventsFit
  <2>4. FollowsNext(bits')
    BY <1>1, <2>1, <2>2, <2>3 DEF Follows, FollowsNext
  <2> QED BY <2>4, BitsFollowNext
<1>6. ASSUME NEW e \in proj.batch, MarkProcessed(e) \/ LoseMark(e) PROVE BitsFollowRows'
  <2>1. bits # NoBits
    BY <1>6 DEF ProjFits, MarkProcessed, LoseMark
  <2> QED BY <1>1, <1>6, <2>1, MarkFollows, BitsFollowNext
<1>7. ASSUME ListBatch \/ EnsureScan \/ Abandon \/ (\E e : IncrSeq(e) \/ PushDelta(e)) \/ UNCHANGED vars
      PROVE  BitsFollowRows'
  BY <1>3, <1>7, ProjFrame DEF vars
<1>8. ASSUME NEW c \in Clients, Serve(c) \/ Disconnect(c), ~SnapSeed(c) PROVE BitsFollowRows'
  BY <1>3, <1>8, HubFrame
<1>9. ASSUME HubSubscribed PROVE BitsFollowRows'
  BY <1>3, <1>9 DEF HubSubscribed, dbVars, redisVars
<1> QED
  BY <1>2, <1>4, <1>5, <1>6, <1>7, <1>8, <1>9 DEF Next, Project, Handle

LEMMA EventsFitNext ==
  ASSUME TypeOK, EventsFit, [Next]_vars
  PROVE  EventsFit'
<1>1. ASSUME UNCHANGED <<rows, changes, todo, relapsed>>, proj'.batch = proj.batch \/ proj'.batch = {}
      PROVE  EventsFit'
  BY <1>1 DEF EventsFit, NewestShowsRow, OldestAreTaken
<1>2. ASSUME NEW s \in Seats, NEW to \in State, ChangeSeat(s, to) PROVE EventsFit'
  BY <1>2, ChangeKeepsEvents
<1>3. ASSUME ListBatch PROVE EventsFit'
  BY <1>3, ListBatchTakesOldest
<1>4. ASSUME NEW e \in proj.batch, MarkProcessed(e) \/ LoseMark(e) PROVE EventsFit'
  BY <1>4, MarkKeepsEvents
<1>5. ASSUME EnsureScan \/ EnsureSeed \/ \E e : WriteByte(e) \/ IncrSeq(e) \/ PushDelta(e) PROVE EventsFit'
  <2>1. UNCHANGED <<rows, changes, todo, relapsed>>
    BY <1>5, ProjFrame
  <2>2. proj'.batch = proj.batch
    <3>1. proj \in ProjState
      BY ProjTyped
    <3> QED BY <1>5, <3>1 DEF EnsureScan, EnsureSeed, WriteByte, IncrSeq, PushDelta, ProjState
  <2> QED BY <1>1, <2>1, <2>2
<1>6. ASSUME Abandon PROVE EventsFit'
  <2>1. UNCHANGED <<rows, changes, todo, relapsed>> /\ proj'.batch = {}
    BY <1>6, ProjFrame, AbandonEffect DEF Idle
  <2> QED BY <1>1, <2>1
<1>7. ASSUME NEW c \in Clients, Serve(c) \/ Disconnect(c) PROVE EventsFit'
  BY <1>1, <1>7, HubFrame
<1>8. ASSUME HubSubscribed \/ UNCHANGED vars PROVE EventsFit'
  BY <1>1, <1>8 DEF HubSubscribed, dbVars, vars
<1> QED
  BY <1>2, <1>3, <1>4, <1>5, <1>6, <1>7, <1>8 DEF Next, Project, Handle

\* A step of the hub for d moves no other connection.
LEMMA HubShifts ==
  ASSUME TypeOK, ScansFit, DeltasFit, ViewsFit, NEW d \in Clients, Serve(d) \/ Disconnect(d)
  PROVE  Shifted(d)
<1>1. conn[d].pc = "ring" => view[d].bits \in Bits /\ conn[d].upTo <= seq
  BY FieldTypes DEF ViewsFit
<1>2. conn[d].pc = "live" => view[d].bits \in Bits
  BY FieldTypes DEF ViewsFit
<1>3. conn[d].pc \in {"seed", "seq"} => conn[d].scan \in Bits
  BY DEF ScansFit
<1>4. Connect(d) => Shifted(d)
  BY ConnectEffect
<1>5. GapSeq(d) => Shifted(d)
  BY GapSeqEffect
<1>6. GapRing(d) => Shifted(d)
  BY <1>1, GapRingEffect DEF GapRing, DeltasFit
<1>7. SnapBits(d) => Shifted(d)
  BY SnapBitsEffect
<1>8. SnapSeed(d) => Shifted(d)
  BY <1>3, SnapSeedEffect DEF SnapSeed
<1>9. SnapSeq(d) => Shifted(d)
  BY <1>3, SnapSeqEffect DEF SnapSeq
<1>10. Deliver(d) => Shifted(d)
  BY <1>2, DeliverEffect DEF Deliver
<1>11. Disconnect(d) => Shifted(d)
  BY ClosedEffect DEF Disconnect
<1> QED
  BY <1>4, <1>5, <1>6, <1>7, <1>8, <1>9, <1>10, <1>11 DEF Serve

\* A client's connection moves only by a step of its own.
KeepsPlace(c) == conn'[c].pc = conn[c].pc /\ conn'[c].upTo = conn[c].upTo /\ conn'[c].scan = conn[c].scan

LEMMA OthersKeepPlace ==
  ASSUME TypeOK, ScansFit, DeltasFit, ViewsFit, [Next]_vars, NEW c \in Clients,
         ~Serve(c), ~Disconnect(c)
  PROVE  KeepsPlace(c)
<1>1. ASSUME conn' = conn PROVE KeepsPlace(c)
  BY <1>1 DEF KeepsPlace
<1>2. ASSUME NEW d \in Clients, Serve(d) \/ Disconnect(d) PROVE KeepsPlace(c)
  <2>1. c # d
    BY <1>2
  <2>2. Shifted(d)
    BY <1>2, HubShifts
  <2> QED BY <1>1, <2>1, <2>2 DEF Shifted, Others, KeepsPlace
<1>3. ASSUME NEW e \in proj.batch, IncrSeq(e) PROVE KeepsPlace(c)
  <2>1. e.seat \in Seats /\ conn' = Tear(e.seat)
    BY <1>3, CurrentTyped DEF IncrSeq
  <2> QED BY <2>1, TearEffect DEF KeepsPlace
<1>4. ASSUME NEW e \in proj.batch, PushDelta(e) PROVE KeepsPlace(c)
  <2>1. PICK d \in Delta : conn' = FanOut(d)
    BY <1>4, PushDeltaEffect
  <2> QED BY <2>1, FanOutEffect DEF KeepsPlace
<1>5. ASSUME Abandon PROVE KeepsPlace(c)
  BY <1>5, AbandonEffect, SilenceEffect DEF KeepsPlace
<1>6. ASSUME ListBatch \/ EnsureScan \/ EnsureSeed \/ \E e : WriteByte(e) \/ MarkProcessed(e) \/ LoseMark(e)
      PROVE  KeepsPlace(c)
  BY <1>1, <1>6, ProjFrame
<1>7. ASSUME NEW s \in Seats, NEW to \in State, ChangeSeat(s, to) PROVE KeepsPlace(c)
  BY <1>1, <1>7 DEF ChangeSeat, feedVars
<1>8. ASSUME HubSubscribed \/ UNCHANGED vars PROVE KeepsPlace(c)
  BY <1>1, <1>8 DEF HubSubscribed, vars
<1> QED
  BY <1>2, <1>3, <1>4, <1>5, <1>6, <1>7, <1>8 DEF Next, Project, Handle

\* The bitset appears once and changes byte by byte.
LEMMA BitsStay ==
  ASSUME TypeOK, ScansFit, ProjFits, [Next]_vars, bits # NoBits
  PROVE  bits' # NoBits /\ (bits' = bits \/ \E e \in proj.batch : WriteByte(e))
<1>1. ASSUME NEW e \in proj.batch, WriteByte(e) PROVE bits' # NoBits
  BY <1>1, WriteByteEffect
<1>2. ASSUME EnsureSeed \/ \E c \in Clients : SnapSeed(c) PROVE bits' = bits
  BY <1>2, SeedStep DEF BitsStep
<1>3. ASSUME NEW c \in Clients, Serve(c) \/ Disconnect(c) PROVE bits' = bits
  BY <1>2, <1>3, HubFrame
<1>4. ASSUME ListBatch \/ EnsureScan \/ Abandon \/ \E e : IncrSeq(e) \/ PushDelta(e) \/ MarkProcessed(e) \/ LoseMark(e)
      PROVE  bits' = bits
  BY <1>4, ProjFrame
<1>5. ASSUME HubSubscribed \/ UNCHANGED vars \/ \E s \in Seats, to \in State : ChangeSeat(s, to) PROVE bits' = bits
  BY <1>5 DEF HubSubscribed, ChangeSeat, redisVars, vars
<1> QED
  BY <1>1, <1>2, <1>3, <1>4, <1>5 DEF Next, Project, Handle

\* While there is no bitset no event is marked, so a scan of the table stays good.
LEMMA ScanKept ==
  ASSUME TypeOK, EventsFit, ProjFits, [Next]_vars, bits = NoBits, NEW b, Follows(b)
  PROVE  FollowsNext(b)
<1>1. ASSUME UNCHANGED <<rows, todo, relapsed>> PROVE FollowsNext(b)
  BY <1>1, SameFollows
<1>2. ASSUME NEW s \in Seats, NEW to \in State, ChangeSeat(s, to) PROVE FollowsNext(b)
  BY <1>2, ChangeFollows
<1>3. ASSUME NEW e \in proj.batch, Handle(e) PROVE UNCHANGED <<rows, todo, relapsed>>
  <2>1. ~MarkProcessed(e) /\ ~LoseMark(e)
    BY DEF ProjFits, MarkProcessed, LoseMark
  <2> QED BY <1>3, <2>1, ProjFrame DEF Handle
<1>4. ASSUME ListBatch \/ EnsureScan \/ EnsureSeed \/ Abandon PROVE UNCHANGED <<rows, todo, relapsed>>
  BY <1>4, ProjFrame
<1>5. ASSUME NEW c \in Clients, Serve(c) \/ Disconnect(c) PROVE UNCHANGED <<rows, todo, relapsed>>
  BY <1>5, HubFrame
<1>6. ASSUME HubSubscribed \/ UNCHANGED vars PROVE UNCHANGED <<rows, todo, relapsed>>
  BY <1>6 DEF HubSubscribed, dbVars, vars
<1> QED
  BY <1>1, <1>2, <1>3, <1>4, <1>5, <1>6 DEF Next, Project

\* The projector enters "seed" only with a scan of the rows as they are.
LEMMA ProjSeed ==
  ASSUME TypeOK, ScansFit, ProjFits, DeltasFit, [Next]_vars, proj'.pc = "seed"
  PROVE  proj' = proj \/ (proj'.scan = rows /\ UNCHANGED <<rows, todo, relapsed>>)
<1>1. ASSUME NEW e \in proj.batch, Handle(e) PROVE FALSE
  <2>1. proj'.pc # "seed"
    <3>1. WriteByte(e) => bits # NoBits
      BY DEF ProjFits, WriteByte
    <3>2. WriteByte(e) => proj'.pc # "seed"
      BY <3>1, WriteByteEffect
    <3>3. IncrSeq(e) => proj'.pc # "seed"
      BY IncrSeqEffect DEF DeltasFit
    <3>4. PushDelta(e) => proj'.pc # "seed"
      BY PushDeltaEffect
    <3>5. MarkProcessed(e) \/ LoseMark(e) => proj'.pc # "seed"
      BY AfterTyped DEF MarkProcessed, LoseMark
    <3> QED BY <1>1, <3>2, <3>3, <3>4, <3>5 DEF Handle
  <2> QED BY <2>1
<1>2. ASSUME ListBatch \/ EnsureSeed \/ Abandon PROVE FALSE
  <2>1. proj.pc = "seed" => proj.scan \in Bits
    BY DEF ScansFit
  <2> QED BY <1>2, <2>1, ListBatchEffect, EnsureSeedEffect, AbandonEffect DEF Idle, EnsureSeed
<1>3. ASSUME EnsureScan PROVE proj'.scan = rows /\ UNCHANGED <<rows, todo, relapsed>>
  BY <1>3, EnsureScanEffect, ProjFrame
<1>4. ASSUME NEW c \in Clients, Serve(c) \/ Disconnect(c) PROVE proj' = proj
  BY <1>4, HubFrame
<1>5. ASSUME HubSubscribed \/ UNCHANGED vars \/ \E s \in Seats, to \in State : ChangeSeat(s, to) PROVE proj' = proj
  BY <1>5 DEF HubSubscribed, ChangeSeat, vars
<1> QED
  BY <1>1, <1>2, <1>3, <1>4, <1>5 DEF Next, Project

LEMMA ScansFitNext ==
  ASSUME TypeOK, EventsFit, ScansFit, ProjFits, DeltasFit, ViewsFit, [Next]_vars
  PROVE  ScansFit'
<1>1. rows \in Bits
  BY DEF TypeOK
<1>2. ASSUME NEW b, Follows(b) /\ bits = NoBits PROVE FollowsNext(b)
  BY <1>2, ScanKept
<1>3. bits' = NoBits => bits = NoBits
  BY BitsStay
<1>4. ASSUME proj'.pc = "seed" PROVE proj'.scan \in Bits /\ (bits' = NoBits => FollowsNext(proj'.scan))
  <2>1. CASE proj' = proj
    <3>1. proj.scan \in Bits /\ (bits = NoBits => Follows(proj.scan))
      BY <1>4, <2>1 DEF ScansFit
    <3>2. PICK b : b = proj.scan
      OBVIOUS
    <3>3. bits = NoBits => FollowsNext(b)
      BY <1>2, <3>1, <3>2
    <3> QED BY <1>3, <2>1, <3>1, <3>2, <3>3
  <2>2. CASE proj'.scan = rows /\ UNCHANGED <<rows, todo, relapsed>>
    <3>1. PICK b : b = rows
      OBVIOUS
    <3>2. FollowsNext(b)
      BY <2>2, <3>1, RowsFollow, SameFollows
    <3> QED BY <1>1, <2>2, <3>1, <3>2
  <2> QED BY <1>4, <2>1, <2>2, ProjSeed
<1>5. ASSUME NEW c \in Clients, conn'[c].pc \in {"seed", "seq"}
      PROVE  conn'[c].scan \in Bits /\ (conn'[c].pc = "seed" /\ bits' = NoBits => FollowsNext(conn'[c].scan))
  <2>1. CASE KeepsPlace(c)
    <3>1. conn[c].scan \in Bits /\ (conn[c].pc = "seed" /\ bits = NoBits => Follows(conn[c].scan))
      BY <1>5, <2>1 DEF ScansFit, KeepsPlace
    <3>2. PICK b : b = conn[c].scan
      OBVIOUS
    <3>3. conn[c].pc = "seed" /\ bits = NoBits => FollowsNext(b)
      BY <1>2, <3>1, <3>2
    <3> QED BY <1>3, <2>1, <3>1, <3>2, <3>3 DEF KeepsPlace
  <2>2. CASE SnapBits(c)
    <3>1. conn'[c].scan \in Bits /\ (conn'[c].pc = "seed" => conn'[c].scan = rows)
      BY <2>2, SnapBitsEffect
    <3>2. UNCHANGED <<rows, todo, relapsed>>
      BY <2>2, HubFrame DEF Serve
    <3>3. PICK b : b = rows
      OBVIOUS
    <3>4. FollowsNext(b)
      BY <3>2, <3>3, RowsFollow, SameFollows
    <3> QED BY <3>1, <3>3, <3>4
  <2>3. CASE SnapSeed(c)
    <3>1. conn[c].scan \in Bits
      BY <2>3 DEF ScansFit, SnapSeed
    <3> QED BY <2>3, <3>1, SnapSeedEffect
  <2>4. CASE Connect(c) \/ GapSeq(c) \/ GapRing(c) \/ SnapSeq(c) \/ Deliver(c) \/ Disconnect(c)
    <3>1. conn[c].pc = "ring" => view[c].bits \in Bits /\ conn[c].upTo <= seq
      BY FieldTypes DEF ViewsFit
    <3>2. conn[c].pc = "live" => view[c].bits \in Bits
      BY FieldTypes DEF ViewsFit
    <3>3. conn[c].pc = "seq" => conn[c].scan \in Bits
      BY DEF ScansFit
    <3>4. ~Connect(c)
      BY <1>5, ConnectEffect
    <3>5. ~GapSeq(c)
      BY <1>5, GapSeqEffect
    <3>6. ~GapRing(c)
      BY <1>5, <3>1, GapRingEffect DEF GapRing, DeltasFit
    <3>7. ~SnapSeq(c)
      BY <1>5, <3>3, SnapSeqEffect DEF SnapSeq
    <3>8. ~Deliver(c)
      BY <1>5, <3>2, DeliverEffect DEF Deliver
    <3>9. ~Disconnect(c)
      BY <1>5, ClosedEffect DEF Disconnect
    <3> QED BY <2>4, <3>4, <3>5, <3>6, <3>7, <3>8, <3>9
  <2> QED BY <2>1, <2>2, <2>3, <2>4, OthersKeepPlace DEF Serve
<1> QED
  BY <1>4, <1>5 DEF ScansFit, FollowsNext, Follows

\* The projector moves only by its own steps.
LEMMA ProjFitsNext ==
  ASSUME TypeOK, EventsFit, ScansFit, ProjFits, DeltasFit, [Next]_vars
  PROVE  ProjFits'
<1>1. \A d \in proj.batch : proj'.batch = proj.batch => (Current(d)' <=> Current(d))
  BY DEF Current
<1>2. ASSUME UNCHANGED <<proj, seq, moved>> PROVE ProjFits'
  <2>1. proj.pc \in {"apply", "incr", "push", "mark"} => bits # NoBits
    BY DEF ProjFits
  <2>2. CASE proj.pc \in {"incr", "push", "mark"}
    <3>1. \A e \in proj.batch : ~WriteByte(e)
      BY <2>2 DEF WriteByte
    <3>2. bits' = bits
      BY <2>1, <2>2, <3>1, BitsStay
    <3> QED BY <1>2, <3>2 DEF ProjFits, Current
  <2>3. CASE proj.pc = "apply"
    <3>1. bits' # NoBits
      BY <2>1, <2>3, BitsStay
    <3> QED BY <1>2, <2>3, <3>1 DEF ProjFits
  <2>4. CASE proj.pc \notin {"apply", "incr", "push", "mark"}
    BY <1>2, <2>4 DEF ProjFits
  <2> QED BY <2>2, <2>3, <2>4
<1>3. ASSUME ListBatch \/ EnsureScan \/ EnsureSeed \/ Abandon PROVE ProjFits'
  <2>1. proj.pc = "seed" => proj.scan \in Bits
    BY DEF ScansFit
  <2>2. ListBatch => proj'.pc = "ensure"
    BY ListBatchEffect
  <2>3. EnsureScan => proj'.pc = "seed" \/ (proj'.pc = "apply" /\ bits' # NoBits)
    BY EnsureScanEffect, ProjFrame
  <2>4. EnsureSeed => proj'.pc = "apply" /\ bits' # NoBits
    BY <2>1, EnsureSeedEffect DEF EnsureSeed
  <2>5. Abandon => proj'.pc = "idle"
    BY AbandonEffect DEF Idle
  <2>6. proj'.pc \in {"idle", "ensure", "seed"} \/ (proj'.pc = "apply" /\ bits' # NoBits)
    BY <1>3, <2>2, <2>3, <2>4, <2>5
  <2> QED BY <2>6 DEF ProjFits
<1>4. ASSUME NEW e \in proj.batch, WriteByte(e) PROVE ProjFits'
  <2>1. bits # NoBits
    BY <1>4 DEF ProjFits, WriteByte
  <2>2. /\ proj'.batch = proj.batch /\ Current(e) /\ bits' # NoBits /\ bits'[e.seat] = e.state
        /\ proj'.pc \in {"mark", "incr"}
    BY <1>4, <2>1, WriteByteEffect
  <2>3. \A d \in proj'.batch : Current(d)' => d = e
    BY <1>1, <2>2, CurrentUnique
  <2> QED BY <2>2, <2>3 DEF ProjFits
<1>5. ASSUME NEW e \in proj.batch, IncrSeq(e) PROVE ProjFits'
  <2>1. /\ proj'.batch = proj.batch /\ Current(e) /\ proj.pc = "incr" /\ proj'.pc = "push"
        /\ seq' > 0 /\ moved'[seq'] = e.seat /\ bits' = bits
    BY <1>5, IncrSeqEffect, ProjFrame DEF DeltasFit
  <2>2. \A d \in proj'.batch : Current(d)' => d = e
    BY <1>1, <2>1, CurrentUnique
  <2>3. bits[e.seat] = e.state /\ bits # NoBits
    BY <2>1 DEF ProjFits
  <2> QED BY <2>1, <2>2, <2>3 DEF ProjFits
<1>6. ASSUME NEW e \in proj.batch, PushDelta(e) PROVE ProjFits'
  <2>1. /\ proj'.batch = proj.batch /\ Current(e) /\ proj.pc = "push" /\ proj'.pc = "mark" /\ bits' = bits
    BY <1>6, PushDeltaEffect, ProjFrame
  <2>2. \A d \in proj'.batch : Current(d)' => d = e
    BY <1>1, <2>1, CurrentUnique
  <2>3. bits[e.seat] = e.state /\ bits # NoBits
    BY <2>1 DEF ProjFits
  <2> QED BY <2>1, <2>2, <2>3 DEF ProjFits
<1>7. ASSUME NEW e \in proj.batch, MarkProcessed(e) \/ LoseMark(e) PROVE ProjFits'
  <2>1. proj'.pc \in {"idle", "ensure"}
    BY <1>7, AfterTyped DEF MarkProcessed, LoseMark
  <2> QED BY <2>1 DEF ProjFits
<1>8. ASSUME NEW c \in Clients, Serve(c) \/ Disconnect(c) PROVE ProjFits'
  BY <1>2, <1>8, HubFrame
<1>9. ASSUME HubSubscribed \/ UNCHANGED vars \/ \E s \in Seats, to \in State : ChangeSeat(s, to) PROVE ProjFits'
  BY <1>2, <1>9 DEF HubSubscribed, ChangeSeat, redisVars, vars
<1> QED
  BY <1>3, <1>4, <1>5, <1>6, <1>7, <1>8, <1>9 DEF Next, Project, Handle

-----------------------------------------------------------------------------
(* The deltas.                                                             *)

\* What a step does to the buffer of c and to what c shows.
LEMMA Sending ==
  ASSUME TypeOK, NEW c \in Clients, NEW d \in Delta
  PROVE  /\ conn'[c].send = conn[c].send => Sent(c)' = Sent(c)
         /\ conn'[c].send = <<>> => Sent(c)' = {}
         /\ conn'[c].send = Append(conn[c].send, d) => Sent(c)' = Sent(c) \cup {d}
         /\ conn[c].send # <<>> /\ d = conn[c].send[1] /\ conn'[c].send = Tail(conn[c].send) =>
              d \in Sent(c) /\ Sent(c) = Sent(c)' \cup {d}
<1>1. conn[c].send \in Seq(Delta)
  BY FieldTypes
<1> DEFINE t == conn[c].send
<1>2. t \in Seq(Delta) /\ Len(t) \in Nat /\ Sent(c) = {t[i] : i \in 1 .. Len(t)}
  BY <1>1 DEF Sent
<1>3. conn'[c].send = t => Sent(c)' = Sent(c)
  BY DEF Sent
<1>4. conn'[c].send = <<>> => Sent(c)' = {}
  BY DEF Sent
<1>5. ASSUME conn'[c].send = Append(t, d) PROVE Sent(c)' = Sent(c) \cup {d}
  <2> DEFINE n == Append(t, d)
  <2>1. Len(n) = Len(t) + 1 /\ n[Len(t) + 1] = d /\ \A i \in 1 .. Len(t) : n[i] = t[i]
    BY <1>2
  <2>2. Sent(c)' = {n[i] : i \in 1 .. Len(n)}
    BY <1>5 DEF Sent
  <2> HIDE DEF n, t
  <2>3. 1 .. Len(n) = (1 .. Len(t)) \cup {Len(t) + 1}
    BY <1>2, <2>1
  <2> QED BY <1>2, <2>1, <2>2, <2>3
<1>6. ASSUME t # <<>>, d = t[1], conn'[c].send = Tail(t) PROVE d \in Sent(c) /\ Sent(c) = Sent(c)' \cup {d}
  <2> DEFINE n == Tail(t)
  <2>1. Len(t) \in Nat \ {0} /\ Len(n) = Len(t) - 1 /\ \A i \in 1 .. Len(t) - 1 : n[i] = t[i + 1]
    BY <1>2, <1>6, HeadTail
  <2>2. Sent(c)' = {n[i] : i \in 1 .. Len(n)}
    BY <1>6 DEF Sent
  <2> HIDE DEF n, t
  <2>3. \A i \in 1 .. Len(n) : i + 1 \in 1 .. Len(t)
    BY <2>1
  <2>4. \A i \in 1 .. Len(t) : i = 1 \/ (i - 1 \in 1 .. Len(n) /\ t[i] = n[i - 1])
    <3> TAKE i \in 1 .. Len(t)
    <3>1. i # 1 => i - 1 \in 1 .. Len(t) - 1 /\ (i - 1) + 1 = i
      BY <2>1
    <3> QED BY <2>1, <3>1
  <2>5. 1 \in 1 .. Len(t)
    BY <2>1
  <2> QED BY <1>2, <1>6, <2>1, <2>2, <2>3, <2>4, <2>5
<1> QED
  BY <1>3, <1>4, <1>5, <1>6

\* Only GapRing, SnapSeq and Deliver change what a client shows; an abandoned batch
\* may make it unsure.
KeepsView(c) == view'[c].bits = view[c].bits /\ view'[c].seq = view[c].seq /\ view[c].unsure \subseteq view'[c].unsure

\* A buffer changes by Connect, Deliver, Disconnect and a delta published.
LEMMA OthersKeepBuffer ==
  ASSUME TypeOK, ScansFit, DeltasFit, ViewsFit, [Next]_vars, NEW c \in Clients,
         ~Connect(c), ~Deliver(c), ~Disconnect(c), ~ \E e \in proj.batch : PushDelta(e)
  PROVE  conn'[c].send = conn[c].send
<1>1. ASSUME conn' = conn PROVE conn'[c].send = conn[c].send
  BY <1>1
<1>2. ASSUME NEW d \in Clients, Serve(d) \/ Disconnect(d), c # d PROVE conn'[c].send = conn[c].send
  <2>1. Shifted(d)
    BY <1>2, HubShifts
  <2> QED BY <1>2, <2>1 DEF Shifted, Others
<1>3. ASSUME Serve(c) PROVE conn'[c].send = conn[c].send
  <2>1. conn[c].pc = "ring" => view[c].bits \in Bits /\ conn[c].upTo <= seq
    BY FieldTypes DEF ViewsFit
  <2>2. conn[c].pc \in {"seed", "seq"} => conn[c].scan \in Bits
    BY DEF ScansFit
  <2>3. GapSeq(c) \/ SnapBits(c) => SameBuffer(c)
    BY GapSeqEffect, SnapBitsEffect
  <2>4. GapRing(c) => SameBuffer(c)
    BY <2>1, GapRingEffect DEF GapRing, DeltasFit
  <2>5. SnapSeed(c) \/ SnapSeq(c) => SameBuffer(c)
    BY <2>2, SnapSeedEffect, SnapSeqEffect DEF SnapSeed, SnapSeq
  <2> QED BY <1>3, <2>3, <2>4, <2>5 DEF Serve, SameBuffer
<1>4. ASSUME NEW e \in proj.batch, IncrSeq(e) PROVE conn'[c].send = conn[c].send
  <2>1. e.seat \in Seats /\ conn' = Tear(e.seat)
    BY <1>4, CurrentTyped DEF IncrSeq
  <2> QED BY <2>1, TearEffect DEF SameBuffer
<1>5. ASSUME Abandon PROVE conn'[c].send = conn[c].send
  BY <1>5, AbandonEffect, SilenceEffect
<1>6. ASSUME ListBatch \/ EnsureScan \/ EnsureSeed \/ \E e : WriteByte(e) \/ MarkProcessed(e) \/ LoseMark(e)
      PROVE  conn'[c].send = conn[c].send
  BY <1>1, <1>6, ProjFrame
<1>7. ASSUME NEW s \in Seats, NEW to \in State, ChangeSeat(s, to) PROVE conn'[c].send = conn[c].send
  BY <1>1, <1>7 DEF ChangeSeat, feedVars
<1>8. ASSUME HubSubscribed \/ UNCHANGED vars PROVE conn'[c].send = conn[c].send
  BY <1>1, <1>8 DEF HubSubscribed, vars
<1> QED
  BY <1>2, <1>3, <1>4, <1>5, <1>6, <1>7, <1>8 DEF Next, Project, Handle

\* Who adds a delta to the ring and to the buffers.
LEMMA DeltasGrow ==
  ASSUME TypeOK, ScansFit, DeltasFit, ViewsFit, [Next]_vars
  PROVE  \/ Deltas' \subseteq Deltas /\ ring' = ring /\ (\A e \in proj.batch : ~PushDelta(e))
         \/ \E e \in proj.batch, d \in Delta :
              /\ PushDelta(e) /\ d.seq = seq /\ d.seat = e.seat /\ d.state = e.state
              /\ ring' = Trimmed(d) /\ conn' = FanOut(d) /\ Deltas' \subseteq Deltas \cup {d}
<1>1. CASE \A e \in proj.batch : ~PushDelta(e)
  <2>1. ring' = ring
    <3>1. ASSUME NEW c \in Clients, Serve(c) \/ Disconnect(c) PROVE ring' = ring
      BY <3>1, HubFrame
    <3>2. ASSUME NEW e \in proj.batch, Handle(e) PROVE ring' = ring
      BY <1>1, <3>2, ProjFrame DEF Handle
    <3>3. ASSUME ListBatch \/ EnsureScan \/ EnsureSeed \/ Abandon PROVE ring' = ring
      BY <3>3, ProjFrame
    <3>4. ASSUME HubSubscribed \/ UNCHANGED vars \/ \E s \in Seats, to \in State : ChangeSeat(s, to) PROVE ring' = ring
      BY <3>4 DEF HubSubscribed, ChangeSeat, redisVars, vars
    <3> QED BY <3>1, <3>2, <3>3, <3>4 DEF Next, Project
  <2>2. ASSUME NEW c \in Clients PROVE Sent(c)' \subseteq Sent(c)
    <3>1. CASE Connect(c) \/ Disconnect(c)
      <4>1. conn'[c].send = <<>>
        BY <3>1, ConnectEffect, ClosedEffect DEF Disconnect
      <4> QED BY <4>1 DEF Sent
    <3>2. CASE Deliver(c)
      <4>1. view[c].bits \in Bits
        BY <3>2, FieldTypes DEF ViewsFit, Deliver
      <4>2. CASE conn'[c].send = <<>>
        BY <4>2 DEF Sent
      <4>3. CASE conn'[c].send # <<>>
        <5>1. PICK d \in Delta : conn[c].send # <<>> /\ d = conn[c].send[1] /\ conn'[c].send = Tail(conn[c].send)
          BY <3>2, <4>1, <4>3, DeliverEffect
        <5> QED BY <5>1, Sending
      <4> QED BY <4>2, <4>3
    <3>3. CASE ~Connect(c) /\ ~Deliver(c) /\ ~Disconnect(c)
      <4>1. conn'[c].send = conn[c].send
        BY <1>1, <3>3, OthersKeepBuffer
      <4> QED BY <4>1 DEF Sent
    <3> QED BY <3>1, <3>2, <3>3
  <2>3. UNION {Sent(c)' : c \in Clients} \subseteq UNION {Sent(c) : c \in Clients}
    BY <2>2
  <2> QED BY <1>1, <2>1, <2>3 DEF Deltas
<1>2. ASSUME NEW e \in proj.batch, PushDelta(e)
      PROVE  \E d \in Delta : /\ d.seq = seq /\ d.seat = e.seat /\ d.state = e.state
                              /\ ring' = Trimmed(d) /\ conn' = FanOut(d) /\ Deltas' \subseteq Deltas \cup {d}
  <2>1. PICK d \in Delta : /\ d.seq = seq /\ d.seat = e.seat /\ d.state = e.state
                           /\ ring' = Trimmed(d) /\ conn' = FanOut(d)
    BY <1>2, PushDeltaEffect
  <2>2. ASSUME NEW c \in Clients PROVE Sent(c)' \subseteq Sent(c) \cup {d}
    <3>1. \/ conn'[c].send = conn[c].send
          \/ conn'[c].send = Append(conn[c].send, d)
      BY <2>1, FanOutEffect
    <3>2. CASE conn'[c].send = conn[c].send
      BY <3>2 DEF Sent
    <3>3. CASE conn'[c].send = Append(conn[c].send, d)
      BY <3>3, Sending
    <3> QED BY <3>1, <3>2, <3>3
  <2>4. {ring'[i] : i \in 1 .. Len(ring')} \subseteq {ring[i] : i \in 1 .. Len(ring)} \cup {d}
    <3>1. /\ Len(ring') \in 1 .. RingCap /\ ring'[1] = d
          /\ \A i \in 2 .. Len(ring') : i - 1 \in 1 .. Len(ring) /\ ring'[i] = ring[i - 1]
      BY <2>1, TrimmedEffect
    <3>2. \A i \in 1 .. Len(ring') : i = 1 \/ i \in 2 .. Len(ring')
      BY <3>1
    <3> QED BY <3>1, <3>2
  <2>5. ASSUME NEW x \in Deltas' PROVE x \in Deltas \cup {d}
    <3>1. CASE x \in {ring'[i] : i \in 1 .. Len(ring')}
      BY <2>4, <3>1 DEF Deltas
    <3>2. CASE \E c \in Clients : x \in Sent(c)'
      BY <2>2, <3>2 DEF Deltas
    <3> QED BY <3>1, <3>2 DEF Deltas
  <2> QED BY <2>1, <2>5
<1> QED
  BY <1>1, <1>2

\* Numbers only grow.
LEMMA SeqGrows ==
  ASSUME TypeOK, DeltasFit, [Next]_vars
  PROVE  /\ seq \in Nat /\ seq' \in Nat /\ seq <= seq'
         /\ \/ seq' = seq /\ moved' = moved /\ \A e \in proj.batch : ~IncrSeq(e)
            \/ \E e \in proj.batch : IncrSeq(e)
<1>1. seq \in Nat
  BY DEF TypeOK
<1>2. CASE \A e \in proj.batch : ~IncrSeq(e)
  <2>1. ASSUME NEW c \in Clients, Serve(c) \/ Disconnect(c) PROVE UNCHANGED <<seq, moved>>
    BY <2>1, HubFrame
  <2>2. ASSUME NEW e \in proj.batch, Handle(e) PROVE UNCHANGED <<seq, moved>>
    BY <1>2, <2>2, ProjFrame DEF Handle
  <2>3. ASSUME ListBatch \/ EnsureScan \/ EnsureSeed \/ Abandon PROVE UNCHANGED <<seq, moved>>
    BY <2>3, ProjFrame
  <2>4. ASSUME HubSubscribed \/ UNCHANGED vars \/ \E s \in Seats, to \in State : ChangeSeat(s, to) PROVE UNCHANGED <<seq, moved>>
    BY <2>4 DEF HubSubscribed, ChangeSeat, redisVars, vars
  <2>5. UNCHANGED <<seq, moved>>
    BY <2>1, <2>2, <2>3, <2>4 DEF Next, Project
  <2> QED BY <1>1, <1>2, <2>5
<1>3. ASSUME NEW e \in proj.batch, IncrSeq(e) PROVE seq' = seq + 1
  BY <1>3 DEF IncrSeq
<1> QED
  BY <1>1, <1>2, <1>3

\* The projector is at "push" only after an INCR.
LEMMA PushOnlyAfterIncr ==
  ASSUME TypeOK, ScansFit, ProjFits, DeltasFit, [Next]_vars, proj'.pc = "push"
  PROVE  (\E e \in proj.batch : IncrSeq(e)) \/ (proj' = proj /\ \A e \in proj.batch : ~Handle(e))
<1>1. proj.pc = "seed" => proj.scan \in Bits
  BY DEF ScansFit
<1>2. ASSUME NEW e \in proj.batch, Handle(e) PROVE IncrSeq(e)
  <2>1. WriteByte(e) => bits # NoBits
    BY DEF ProjFits, WriteByte
  <2>2. ~WriteByte(e)
    BY <2>1, WriteByteEffect
  <2>3. ~PushDelta(e)
    BY PushDeltaEffect
  <2>4. ~MarkProcessed(e) /\ ~LoseMark(e)
    BY AfterTyped DEF MarkProcessed, LoseMark
  <2> QED BY <1>2, <2>2, <2>3, <2>4 DEF Handle
<1>3. ~ListBatch /\ ~EnsureScan /\ ~EnsureSeed /\ ~Abandon
  BY <1>1, ListBatchEffect, EnsureScanEffect, EnsureSeedEffect, AbandonEffect DEF Idle, EnsureSeed
<1>4. CASE \A e \in proj.batch : ~Handle(e)
  <2>1. ASSUME NEW c \in Clients, Serve(c) \/ Disconnect(c) PROVE proj' = proj
    BY <2>1, HubFrame
  <2>2. ASSUME HubSubscribed \/ UNCHANGED vars \/ \E s \in Seats, to \in State : ChangeSeat(s, to) PROVE proj' = proj
    BY <2>2 DEF HubSubscribed, ChangeSeat, vars
  <2> QED BY <1>3, <1>4, <2>1, <2>2 DEF Next, Project
<1> QED
  BY <1>2, <1>4

LEMMA DeltasFitNext ==
  ASSUME TypeOK, ScansFit, ProjFits, DeltasFit, ViewsFit, [Next]_vars
  PROVE  DeltasFit'
<1>1. /\ seq \in Nat /\ seq' \in Nat /\ seq <= seq'
      /\ \/ seq' = seq /\ moved' = moved /\ \A e \in proj.batch : ~IncrSeq(e)
         \/ \E e \in proj.batch : IncrSeq(e)
  BY SeqGrows
<1>2. /\ Len(moved') = seq' /\ (\A k \in 1 .. seq : moved'[k] = moved[k])
      /\ (seq' > 0 => bits' # NoBits)
  <2>1. CASE seq' = seq /\ moved' = moved
    BY <2>1, BitsStay DEF DeltasFit
  <2>2. ASSUME NEW e \in proj.batch, IncrSeq(e)
        PROVE  /\ Len(moved') = seq' /\ (\A k \in 1 .. seq : moved'[k] = moved[k])
               /\ (seq' > 0 => bits' # NoBits)
    <3>1. bits # NoBits
      BY <2>2 DEF ProjFits, IncrSeq
    <3> QED BY <2>2, <3>1, BitsStay, IncrSeqEffect DEF DeltasFit
  <2> QED BY <1>1, <2>1, <2>2
<1>3. ASSUME NEW d \in Deltas
      PROVE  /\ d.seq \in 1 .. seq' /\ moved'[d.seq] = d.seat /\ d.seq \in 1 .. seq
             /\ proj'.pc = "push" => d.seq < seq'
  <2>1. d.seq \in 1 .. seq /\ moved[d.seq] = d.seat /\ (proj.pc = "push" => d.seq < seq)
    BY DEF DeltasFit
  <2>2. ASSUME proj'.pc = "push" PROVE d.seq < seq'
    <3>1. CASE \E e \in proj.batch : IncrSeq(e)
      <4>1. seq' = seq + 1
        BY <3>1 DEF IncrSeq
      <4> QED BY <1>1, <2>1, <4>1
    <3>2. CASE proj' = proj
      BY <1>1, <2>1, <2>2, <3>2
    <3> QED BY <2>2, <3>1, <3>2, PushOnlyAfterIncr
  <2> QED BY <1>1, <1>2, <2>1, <2>2
<1>4. CASE Deltas' \subseteq Deltas /\ ring' = ring
  <2>1. \A i, j \in 1 .. Len(ring') : i < j => ring'[j].seq < ring'[i].seq
    BY <1>4 DEF DeltasFit
  <2> QED BY <1>2, <1>3, <1>4, <2>1 DEF DeltasFit
<1>5. ASSUME NEW e \in proj.batch, NEW d \in Delta, PushDelta(e), d.seq = seq, d.seat = e.seat,
             ring' = Trimmed(d), Deltas' \subseteq Deltas \cup {d}
      PROVE  DeltasFit'
  <2>1. proj.pc = "push" /\ proj'.pc = "mark" /\ Current(e) /\ seq' = seq /\ moved' = moved
    BY <1>5, PushDeltaEffect, ProjFrame
  <2>2. seq > 0 /\ moved[seq] = e.seat
    BY <2>1 DEF ProjFits
  <2>3. \A x \in Deltas' : x.seq \in 1 .. seq' /\ moved'[x.seq] = x.seat
    BY <1>1, <1>3, <1>5, <2>1, <2>2
  <2>4. /\ Len(ring') \in 1 .. RingCap /\ ring'[1] = d
        /\ \A i \in 2 .. Len(ring') : i - 1 \in 1 .. Len(ring) /\ ring'[i] = ring[i - 1]
    BY <1>5, TrimmedEffect
  <2>5. ASSUME NEW i \in 1 .. Len(ring'), NEW j \in 1 .. Len(ring'), i < j PROVE ring'[j].seq < ring'[i].seq
    <3>1. j \in 2 .. Len(ring') /\ j - 1 \in 1 .. Len(ring) /\ ring'[j] = ring[j - 1]
      BY <2>4, <2>5
    <3>2. CASE i = 1
      <4>1. ring[j - 1] \in Deltas
        BY <3>1 DEF Deltas
      <4>2. ring[j - 1].seq < seq
        BY <2>1, <4>1 DEF DeltasFit
      <4> QED BY <1>5, <2>4, <3>1, <3>2, <4>2
    <3>3. CASE i # 1
      <4>1. i \in 2 .. Len(ring')
        BY <2>4, <3>3
      <4>2. i - 1 \in 1 .. Len(ring) /\ ring'[i] = ring[i - 1] /\ i - 1 < j - 1
        BY <2>4, <2>5, <4>1
      <4> QED BY <3>1, <4>2 DEF DeltasFit
    <3> QED BY <3>2, <3>3
  <2> QED BY <1>2, <2>1, <2>3, <2>5 DEF DeltasFit
<1> QED
  BY <1>4, <1>5, DeltasGrow

-----------------------------------------------------------------------------
(* The clients.                                                            *)

LEMMA OthersKeepView ==
  ASSUME TypeOK, ScansFit, DeltasFit, ViewsFit, [Next]_vars, NEW c \in Clients,
         ~GapRing(c), ~SnapSeq(c), ~Deliver(c)
  PROVE  KeepsView(c) /\ (view'[c] = view[c] \/ Abandon)
<1>1. ASSUME view' = view PROVE KeepsView(c)
  BY <1>1 DEF KeepsView
<1>2. ASSUME NEW d \in Clients, GapRing(d) \/ SnapSeq(d) \/ Deliver(d), c # d PROVE view'[c] = view[c] /\ KeepsView(c)
  <2>1. conn[d].pc = "ring" => view[d].bits \in Bits /\ conn[d].upTo <= seq
    BY FieldTypes DEF ViewsFit
  <2>2. conn[d].pc = "live" => view[d].bits \in Bits
    BY FieldTypes DEF ViewsFit
  <2>3. conn[d].pc = "seq" => conn[d].scan \in Bits
    BY DEF ScansFit
  <2>4. GapRing(d) => OtherViews(d)
    BY <2>1, GapRingEffect DEF GapRing, DeltasFit
  <2>5. SnapSeq(d) => OtherViews(d)
    BY <2>3, SnapSeqEffect DEF SnapSeq
  <2>6. Deliver(d) => OtherViews(d)
    BY <2>2, DeliverEffect DEF Deliver
  <2>7. view'[c] = view[c]
    BY <1>2, <2>4, <2>5, <2>6 DEF OtherViews
  <2> QED BY <2>7 DEF KeepsView
<1>3. ASSUME NEW d \in Clients, Connect(d) \/ GapSeq(d) \/ SnapBits(d) \/ SnapSeed(d) \/ Disconnect(d)
      PROVE  view' = view
  BY <1>3 DEF Connect, GapSeq, SnapBits, SnapSeed, Disconnect
<1>4. ASSUME Abandon PROVE KeepsView(c)
  BY <1>4, AbandonEffect, SilenceEffect DEF KeepsView
<1>5. ASSUME ListBatch \/ EnsureScan \/ EnsureSeed \/ \E e \in proj.batch : Handle(e) PROVE view' = view
  BY <1>5, ProjFrame DEF Handle
<1>6. ASSUME HubSubscribed \/ UNCHANGED vars \/ \E s \in Seats, to \in State : ChangeSeat(s, to) PROVE view' = view
  BY <1>6 DEF HubSubscribed, ChangeSeat, feedVars, vars
<1> QED
  BY <1>1, <1>2, <1>3, <1>4, <1>5, <1>6 DEF Next, Project, Serve

LEMMA ViewsFitNext ==
  ASSUME TypeOK, ScansFit, ProjFits, DeltasFit, ViewsFit, [Next]_vars
  PROVE  ViewsFit'
<1>1. seq \in Nat /\ seq' \in Nat /\ seq <= seq' /\ (bits # NoBits => bits' # NoBits)
  BY SeqGrows, BitsStay
<1>2. ASSUME NEW c \in Clients
      PROVE  /\ view'[c].seq <= seq'
             /\ view'[c].bits = NoBits => view'[c].seq = 0 /\ conn'[c].pc \notin {"gap", "ring", "live"}
             /\ view'[c].bits # NoBits \/ conn'[c].pc = "seq" => bits' # NoBits
             /\ conn'[c].pc = "ring" => view'[c].seq < conn'[c].upTo /\ conn'[c].upTo <= seq'
  <2>1. /\ view[c].seq <= seq
        /\ view[c].bits = NoBits => view[c].seq = 0 /\ conn[c].pc \notin {"gap", "ring", "live"}
        /\ view[c].bits # NoBits \/ conn[c].pc = "seq" => bits # NoBits
        /\ conn[c].pc = "ring" => view[c].seq < conn[c].upTo /\ conn[c].upTo <= seq
    BY DEF ViewsFit
  <2>2. view[c].seq \in Nat /\ conn[c].upTo \in Nat /\ view[c].bits \in Bits \cup {NoBits}
    BY FieldTypes
  <2>3. CASE KeepsView(c) /\ KeepsPlace(c)
    BY <1>1, <2>1, <2>2, <2>3 DEF KeepsView, KeepsPlace
  <2>4. CASE Connect(c)
    <3>1. view' = view
      BY <2>4 DEF Connect
    <3>2. (view[c].seq > 0 /\ conn'[c].pc = "gap") \/ (view[c].seq = 0 /\ conn'[c].pc = "bits")
      BY <2>4, ConnectEffect
    <3> QED BY <1>1, <2>1, <2>2, <3>1, <3>2
  <2>5. CASE GapSeq(c)
    <3>1. view' = view
      BY <2>5 DEF GapSeq
    <3>2. /\ conn[c].pc = "gap" /\ conn'[c].upTo = seq
          /\ (view[c].seq >= seq /\ conn'[c].pc = "live") \/ (view[c].seq < seq /\ conn'[c].pc = "ring")
      BY <2>5, GapSeqEffect
    <3> QED BY <1>1, <2>1, <2>2, <3>1, <3>2
  <2>6. CASE GapRing(c)
    <3>1. conn[c].pc = "ring" /\ view[c].bits \in Bits /\ view[c].bits # NoBits
      BY <2>1, <2>2, <2>6, NoBitsAssumption DEF GapRing
    <3>2. \/ /\ conn'[c].pc = "live" /\ view'[c].seq = conn[c].upTo
             /\ view'[c].bits = Coalesced(view[c].bits, Wanted(view[c].seq))
          \/ conn'[c].pc = "bits" /\ view' = view
      BY <2>1, <2>6, <3>1, GapRingEffect DEF DeltasFit
    <3>3. Coalesced(view[c].bits, Wanted(view[c].seq)) # NoBits
      <4>1. Wanted(view[c].seq) \in SUBSET (1 .. Len(ring))
        BY DEF Wanted
      <4> QED BY <3>1, <4>1, CoalescedEffect, NoBitsAssumption
    <3> QED BY <1>1, <2>1, <2>2, <3>1, <3>2, <3>3
  <2>7. CASE SnapBits(c)
    <3>1. view' = view /\ UNCHANGED seq
      BY <2>7 DEF SnapBits, redisVars
    <3>2. \/ bits = NoBits /\ conn'[c].pc = "seed"
          \/ bits # NoBits /\ conn'[c].pc = "seq"
      BY <2>7, SnapBitsEffect
    <3>3. conn[c].pc = "bits"
      BY <2>7 DEF SnapBits
    <3> QED BY <1>1, <2>1, <2>2, <3>1, <3>2, <3>3
  <2>8. CASE SnapSeed(c)
    <3>1. view' = view /\ conn[c].scan \in Bits
      BY <2>8 DEF SnapSeed, ScansFit
    <3>2. conn'[c].pc = "seq" /\ bits' # NoBits
      BY <2>8, <3>1, SnapSeedEffect
    <3> QED BY <1>1, <2>1, <2>2, <3>1, <3>2
  <2>9. CASE SnapSeq(c)
    <3>1. conn[c].scan \in Bits /\ conn[c].pc = "seq"
      BY <2>9 DEF SnapSeq, ScansFit
    <3>2. conn'[c].pc = "live" /\ view'[c].bits = conn[c].scan /\ view'[c].seq = seq
      BY <2>9, <3>1, SnapSeqEffect
    <3> QED BY <1>1, <2>1, <3>1, <3>2, NoBitsAssumption
  <2>10. CASE Deliver(c)
    <3>1. conn[c].pc = "live" /\ view[c].bits \in Bits /\ view[c].bits # NoBits
      BY <2>1, <2>2, <2>10, NoBitsAssumption DEF Deliver
    <3>2. CASE view' = view
      BY <1>1, <2>1, <2>2, <2>10, <3>1, <3>2, DeliverEffect
    <3>3. CASE view' # view
      <4>1. PICK d \in Delta : /\ conn[c].send # <<>> /\ d = conn[c].send[1] /\ conn'[c].pc = "live"
                               /\ conn'[c].send = Tail(conn[c].send) /\ view' = Applies(c, d)
        BY <2>10, <3>1, <3>3, DeliverEffect
      <4>2. d \in Deltas
        BY <4>1, Sending DEF Deltas
      <4>3. view'[c].bits \in Bits /\ view'[c].seq = d.seq
        BY <3>1, <4>1, AppliesEffect
      <4>4. d.seq \in 1 .. seq
        BY <4>2 DEF DeltasFit
      <4> QED BY <1>1, <2>1, <3>1, <4>1, <4>3, <4>4, NoBitsAssumption
    <3> QED BY <3>2, <3>3
  <2>11. CASE Disconnect(c)
    <3>1. view' = view /\ conn'[c].pc = "off"
      BY <2>11, ClosedEffect DEF Disconnect
    <3> QED BY <1>1, <2>1, <2>2, <3>1
  <2>12. CASE ~Serve(c) /\ ~Disconnect(c)
    BY <2>3, <2>12, OthersKeepPlace, OthersKeepView DEF Serve
  <2> QED BY <2>4, <2>5, <2>6, <2>7, <2>8, <2>9, <2>10, <2>11, <2>12 DEF Serve
<1> QED
  BY <1>2 DEF ViewsFit

\* A byte that holds for number k still does, unless its INCR is lost.
HoldsNext(x, s, k) == x = bits'[s] \/ Writing(s)' \/ \E j \in k + 1 .. seq' : moved'[j] = s

LEMMA WritingKept ==
  ASSUME TypeOK, EventsFit, ScansFit, ProjFits, DeltasFit, [Next]_vars, NEW s \in Seats, Writing(s)
  PROVE  \/ Writing(s)' /\ bits' = bits
         \/ seq' = seq + 1 /\ moved'[seq'] = s
         \/ Abandon /\ <<s, seq>> \in Lost
<1>1. PICK e \in proj.batch : Current(e) /\ e.seat = s /\ proj.pc = "incr"
  BY DEF Writing
<1>2. bits # NoBits /\ \A d \in proj.batch : ~WriteByte(d)
  BY <1>1 DEF ProjFits, WriteByte
<1>3. bits' = bits
  BY <1>2, BitsStay
<1>4. ASSUME proj' = proj PROVE Writing(s)'
  BY <1>1, <1>4 DEF Writing, Current
<1>5. ASSUME NEW d \in proj.batch, Handle(d) PROVE seq' = seq + 1 /\ moved'[seq'] = s
  <2>1. IncrSeq(d)
    BY <1>1, <1>5 DEF Handle, WriteByte, PushDelta, MarkProcessed, LoseMark
  <2>2. Current(d) /\ seq' = seq + 1 /\ moved'[seq'] = d.seat
    BY <2>1, IncrSeqEffect DEF DeltasFit
  <2> QED BY <1>1, <2>2, CurrentUnique
<1>6. ASSUME Abandon PROVE <<s, seq>> \in Lost
  BY <1>1 DEF Lost
<1>7. ~ListBatch /\ ~EnsureScan /\ ~EnsureSeed
  BY <1>1 DEF ListBatch, EnsureScan, EnsureSeed
<1>8. ASSUME NEW c \in Clients, Serve(c) \/ Disconnect(c) PROVE proj' = proj
  BY <1>8, HubFrame
<1>9. ASSUME HubSubscribed \/ UNCHANGED vars \/ \E r \in Seats, to \in State : ChangeSeat(r, to) PROVE proj' = proj
  BY <1>9 DEF HubSubscribed, ChangeSeat, vars
<1> QED
  BY <1>3, <1>4, <1>5, <1>6, <1>7, <1>8, <1>9 DEF Next, Project

LEMMA MovesStay ==
  ASSUME TypeOK, DeltasFit, [Next]_vars
  PROVE  \A k \in 1 .. seq : k \in 1 .. seq' /\ moved'[k] = moved[k]
<1>1. seq \in Nat /\ seq' \in Nat /\ seq <= seq'
  BY SeqGrows
<1>2. CASE moved' = moved
  BY <1>1, <1>2
<1>3. ASSUME NEW e \in proj.batch, IncrSeq(e) PROVE \A k \in 1 .. seq : moved'[k] = moved[k]
  BY <1>3, IncrSeqEffect DEF DeltasFit
<1> QED
  BY <1>1, <1>2, <1>3, SeqGrows

LEMMA HoldsKept ==
  ASSUME TypeOK, EventsFit, ScansFit, ProjFits, DeltasFit, [Next]_vars, bits # NoBits,
         NEW s \in Seats, NEW k \in Nat, k <= seq, NEW x, Holds(x, s, k)
  PROVE  HoldsNext(x, s, k) \/ (Abandon /\ <<s, seq>> \in Lost)
<1>1. seq \in Nat /\ seq' \in Nat /\ seq <= seq' /\ \A j \in 1 .. seq : j \in 1 .. seq' /\ moved'[j] = moved[j]
  BY SeqGrows, MovesStay
<1>2. CASE x = bits[s]
  <2>1. CASE bits' = bits
    BY <1>2, <2>1 DEF HoldsNext
  <2>2. ASSUME NEW e \in proj.batch, WriteByte(e) PROVE HoldsNext(x, s, k)
    <3>1. /\ proj'.batch = proj.batch /\ Current(e) /\ \A r \in Seats \ {e.seat} : bits'[r] = bits[r]
          /\ (proj'.pc = "mark" /\ bits' = bits) \/ proj'.pc = "incr"
      BY <2>2, WriteByteEffect
    <3>2. CASE s # e.seat \/ bits' = bits
      BY <1>2, <3>1, <3>2 DEF HoldsNext
    <3>3. CASE s = e.seat /\ proj'.pc = "incr"
      <4>1. Writing(s)'
        BY <3>1, <3>3 DEF Writing, Current
      <4> QED BY <4>1 DEF HoldsNext
    <3> QED BY <3>1, <3>2, <3>3
  <2> QED BY <2>1, <2>2, BitsStay
<1>3. CASE Writing(s)
  <2>1. seq' = seq + 1 => seq' \in k + 1 .. seq'
    BY <1>1
  <2> QED BY <1>3, <2>1, WritingKept DEF HoldsNext
<1>4. CASE Moved(s, k)
  <2>1. PICK j \in k + 1 .. seq : moved[j] = s
    BY <1>4 DEF Moved
  <2>2. j \in 1 .. seq /\ j \in k + 1 .. seq'
    BY <1>1
  <2> QED BY <1>1, <2>1, <2>2 DEF HoldsNext
<1> QED
  BY <1>2, <1>3, <1>4 DEF Holds

\* What was unsure stays unsure, and an INCR lost makes every view unsure.
LEMMA KeptViewHolds ==
  ASSUME TypeOK, EventsFit, ScansFit, ProjFits, DeltasFit, ViewsFit, [Next]_vars,
         NEW c \in Clients, ViewHolds(c), ~GapRing(c), ~SnapSeq(c), ~Deliver(c)
  PROVE  ViewHolds(c)'
<1>1. KeepsView(c) /\ view[c].seq \in Nat /\ view[c].seq <= seq
  BY OthersKeepView, FieldTypes DEF ViewsFit
<1>2. Abandon => Lost \subseteq view'[c].unsure
  BY AbandonEffect, SilenceEffect
<1>3. ASSUME view[c].bits # NoBits, NEW s \in Seats
      PROVE  (\E u \in view'[c].unsure : u[1] = s) \/ HoldsNext(view[c].bits[s], s, view[c].seq)
  <2>1. bits # NoBits
    BY <1>3 DEF ViewsFit
  <2>2. CASE \E u \in view[c].unsure : u[1] = s
    BY <1>1, <2>2 DEF KeepsView
  <2>3. CASE Holds(view[c].bits[s], s, view[c].seq)
    <3>1. HoldsNext(view[c].bits[s], s, view[c].seq) \/ (Abandon /\ <<s, seq>> \in Lost)
      BY <1>1, <2>1, <2>3, HoldsKept
    <3>2. <<s, seq>>[1] = s
      OBVIOUS
    <3> QED BY <1>2, <3>1, <3>2
  <2> QED BY <1>3, <2>2, <2>3 DEF ViewHolds
<1> QED
  BY <1>1, <1>3 DEF ViewHolds, KeepsView, HoldsNext, Holds, Moved

LEMMA KeptDeltasHold ==
  ASSUME TypeOK, EventsFit, ScansFit, ProjFits, DeltasFit, ViewsFit, [Next]_vars,
         NEW c \in Clients, DeltasHold(c), ~GapRing(c), ~SnapSeq(c), ~Deliver(c)
  PROVE  DeltasHold(c)'
<1>1. KeepsView(c) /\ seq \in Nat
  BY OthersKeepView DEF TypeOK
<1>2. Abandon => Lost \subseteq view'[c].unsure
  BY AbandonEffect, SilenceEffect
<1>3. ASSUME NEW d \in Deltas, d.seq > view[c].seq
      PROVE  (\E u \in view'[c].unsure : u[1] = d.seat /\ u[2] >= d.seq) \/ HoldsNext(d.state, d.seat, d.seq)
  <2>1. d.seq \in 1 .. seq /\ moved[d.seq] = d.seat /\ bits # NoBits
    BY <1>1 DEF DeltasFit
  <2>2. d.seq \in Nat /\ d.seq <= seq /\ d.seat \in Seats
    <3>1. moved \in Seq(Seats) /\ Len(moved) = seq
      BY DEF TypeOK, DeltasFit
    <3> QED BY <1>1, <2>1, <3>1
  <2>3. CASE \E u \in view[c].unsure : u[1] = d.seat /\ u[2] >= d.seq
    BY <1>1, <2>3 DEF KeepsView
  <2>4. CASE Holds(d.state, d.seat, d.seq)
    <3>1. HoldsNext(d.state, d.seat, d.seq) \/ (Abandon /\ <<d.seat, seq>> \in Lost)
      BY <2>1, <2>2, <2>4, HoldsKept
    <3>2. <<d.seat, seq>>[1] = d.seat /\ <<d.seat, seq>>[2] >= d.seq
      BY <1>1, <2>2
    <3> QED BY <1>2, <3>1, <3>2
  <2> QED BY <1>3, <2>3, <2>4 DEF DeltasHold
<1>4. ASSUME NEW d \in Deltas', d \notin Deltas PROVE HoldsNext(d.state, d.seat, d.seq)
  <2>1. PICK e \in proj.batch : PushDelta(e) /\ d.seat = e.seat /\ d.state = e.state
    BY <1>4, DeltasGrow
  <2>2. Current(e) /\ proj.pc = "push" /\ bits' = bits
    BY <2>1, PushDeltaEffect, ProjFrame
  <2>3. bits[e.seat] = e.state
    BY <2>2 DEF ProjFits
  <2> QED BY <2>1, <2>2, <2>3 DEF HoldsNext
<1> QED
  BY <1>1, <1>3, <1>4 DEF DeltasHold, KeepsView, HoldsNext, Holds, Moved

LEMMA ScanHoldsNext ==
  ASSUME TypeOK, EventsFit, ScansFit, ProjFits, DeltasFit, ViewsFit, [Next]_vars,
         NEW c \in Clients, ScanHolds(c), conn'[c].pc = "seq", NEW s \in Seats
  PROVE  (\E u \in conn'[c].unsure : u[1] = s) \/ conn'[c].scan[s] = bits'[s] \/ Writing(s)'
<1>1. CASE SnapBits(c)
  <2>1. conn'[c].scan = bits /\ bits' = bits
    BY <1>1, SnapBitsEffect DEF SnapBits, redisVars
  <2> QED BY <2>1
<1>2. CASE SnapSeed(c)
  <2>1. conn[c].scan \in Bits
    BY <1>2 DEF SnapSeed, ScansFit
  <2> QED BY <1>2, <2>1, SnapSeedEffect
<1>3. CASE Connect(c) \/ GapSeq(c) \/ GapRing(c) \/ SnapSeq(c) \/ Deliver(c) \/ Disconnect(c)
  <2>1. conn[c].pc = "ring" => view[c].bits \in Bits /\ conn[c].upTo <= seq
    BY FieldTypes DEF ViewsFit
  <2>2. conn[c].pc = "live" => view[c].bits \in Bits
    BY FieldTypes DEF ViewsFit
  <2>3. conn[c].pc = "seq" => conn[c].scan \in Bits
    BY DEF ScansFit
  <2>4. ~Connect(c) /\ ~GapSeq(c) /\ ~Disconnect(c)
    BY ConnectEffect, GapSeqEffect, ClosedEffect DEF Disconnect
  <2>5. ~GapRing(c)
    BY <2>1, GapRingEffect DEF GapRing, DeltasFit
  <2>6. ~SnapSeq(c)
    BY <2>3, SnapSeqEffect DEF SnapSeq
  <2>7. ~Deliver(c)
    BY <2>2, DeliverEffect DEF Deliver
  <2> QED BY <1>3, <2>4, <2>5, <2>6, <2>7
<1>4. CASE ~Serve(c) /\ ~Disconnect(c)
  <2>1. KeepsPlace(c) /\ conn[c].pc = "seq" /\ conn'[c].scan = conn[c].scan
    BY <1>4, OthersKeepPlace DEF KeepsPlace
  <2>2. bits # NoBits /\ seq \in Nat /\ seq' \in Nat
    BY <2>1, SeqGrows DEF ViewsFit
  <2>3. conn[c].unsure \subseteq conn'[c].unsure /\ (Abandon => Lost \subseteq conn'[c].unsure)
    <3>1. CASE Abandon
      BY <2>1, <3>1, AbandonEffect, SilenceEffect
    <3>2. ASSUME NEW e \in proj.batch, IncrSeq(e), ~Abandon PROVE conn[c].unsure \subseteq conn'[c].unsure
      <4>1. e.seat \in Seats /\ conn' = Tear(e.seat)
        BY <3>2, CurrentTyped DEF IncrSeq
      <4> QED BY <4>1, TearEffect
    <3>3. ASSUME NEW e \in proj.batch, PushDelta(e) PROVE conn'[c].unsure = conn[c].unsure
      <4>1. PICK d \in Delta : conn' = FanOut(d)
        BY <3>3, PushDeltaEffect
      <4> QED BY <4>1, FanOutEffect
    <3>4. ASSUME NEW d \in Clients, Serve(d) \/ Disconnect(d) PROVE conn'[c] = conn[c]
      <4>1. c # d
        BY <1>4, <3>4
      <4> QED BY <3>4, <4>1, HubShifts DEF Shifted, Others
    <3>5. ASSUME ListBatch \/ EnsureScan \/ EnsureSeed \/ \E e : WriteByte(e) \/ MarkProcessed(e) \/ LoseMark(e)
          PROVE  conn' = conn
      BY <3>5, ProjFrame
    <3>6. ASSUME HubSubscribed \/ UNCHANGED vars \/ \E r \in Seats, to \in State : ChangeSeat(r, to) PROVE conn' = conn
      BY <3>6 DEF HubSubscribed, ChangeSeat, feedVars, vars
    <3>7. CASE ~Abandon
      BY <3>2, <3>3, <3>4, <3>5, <3>6, <3>7 DEF Next, Project, Handle
    <3> QED BY <3>1, <3>7
  <2>4. CASE \E u \in conn[c].unsure : u[1] = s
    BY <2>3, <2>4
  <2>5. CASE conn[c].scan[s] = bits[s] \/ Writing(s)
    <3>1. Holds(conn[c].scan[s], s, seq)
      BY <2>5 DEF Holds
    <3>2. HoldsNext(conn[c].scan[s], s, seq) \/ (Abandon /\ <<s, seq>> \in Lost)
      BY <2>2, <3>1, HoldsKept
    <3>3. <<s, seq>>[1] = s /\ <<s, seq + 1>>[1] = s
      OBVIOUS
    <3>4. CASE Abandon /\ <<s, seq>> \in Lost
      BY <2>3, <3>3, <3>4
    <3>5. ASSUME NEW j \in seq + 1 .. seq', moved'[j] = s
          PROVE  (\E u \in conn'[c].unsure : u[1] = s) \/ conn'[c].scan[s] = bits'[s]
      <4>1. seq' # seq
        <5>1. seq' = seq => seq + 1 .. seq' = {}
          BY <2>2
        <5> QED BY <3>5, <5>1
      <4>2. PICK e \in proj.batch : IncrSeq(e)
        BY <4>1, SeqGrows
      <4>3. seq' = seq + 1 /\ moved'[seq'] = e.seat /\ bits' = bits
        BY <4>2, IncrSeqEffect, ProjFrame DEF DeltasFit
      <4>4. e.seat = s /\ conn' = Tear(s)
        <5>1. j = seq'
          BY <2>2, <3>5, <4>3
        <5>2. conn' = Tear(e.seat)
          BY <4>2 DEF IncrSeq
        <5> QED BY <3>5, <4>3, <5>1, <5>2
      <4>5. conn[c].scan[s] # bits[s] => conn'[c].unsure = conn[c].unsure \cup {<<s, seq + 1>>}
        BY <2>1, <4>4, TearEffect
      <4> QED BY <2>1, <3>3, <4>3, <4>5
    <3> QED BY <2>1, <3>2, <3>4, <3>5 DEF HoldsNext
  <2> QED BY <2>1, <2>4, <2>5 DEF ScanHolds
<1> QED
  BY <1>1, <1>2, <1>3, <1>4 DEF Serve

\* A delta of the ring past since is wanted.
LEMMA WantedEffect ==
  ASSUME TypeOK, DeltasFit, NEW since \in Nat
  PROVE  /\ Wanted(since) \in SUBSET (1 .. Len(ring))
         /\ \A i \in 1 .. Len(ring) : /\ ring[i] \in Delta /\ ring[i] \in Deltas
                                      /\ ring[i].seq \in 1 .. seq /\ moved[ring[i].seq] = ring[i].seat
                                      /\ ring[i].seq > since <=> i \in Wanted(since)
         /\ \A i, j \in 1 .. Len(ring) : i <= j => ring[j].seq <= ring[i].seq
<1>1. ring \in Seq(Delta) /\ Len(ring) \in Nat /\ seq \in Nat
  BY DEF TypeOK
<1>2. \A i \in 1 .. Len(ring) : ring[i] \in Delta /\ ring[i] \in Deltas
  BY <1>1 DEF Deltas
<1>3. \A i \in 1 .. Len(ring) : ring[i].seq \in 1 .. seq /\ moved[ring[i].seq] = ring[i].seat
  BY <1>2 DEF DeltasFit
<1>4. ASSUME NEW i \in 1 .. Len(ring), NEW j \in 1 .. Len(ring), i <= j PROVE ring[j].seq <= ring[i].seq
  <2>1. CASE i = j
    BY <1>1, <1>3, <2>1
  <2>2. CASE i < j
    <3>1. ring[j].seq < ring[i].seq
      BY <2>2 DEF DeltasFit
    <3> QED BY <1>1, <1>3, <3>1
  <2> QED BY <1>1, <1>4, <2>1, <2>2
<1>5. Wanted(since) \in SUBSET (1 .. Len(ring)) /\ \A i \in 1 .. Len(ring) : ring[i].seq > since <=> i \in Wanted(since)
  BY DEF Wanted
<1> QED
  BY <1>2, <1>3, <1>4, <1>5

\* A move the frame claims and the ring lacks is recorded as skipped.
LEMMA SkippedMove ==
  ASSUME NEW since, NEW upTo, NEW j \in since + 1 .. upTo, Hole(j), NEW s, moved[j] = s
  PROVE  <<s, j>> \in Skipped(since, upTo)
BY DEF Skipped

LEMMA GapRingHolds ==
  ASSUME TypeOK, DeltasFit, ViewsFit, NEW c \in Clients, GapRing(c), Covers(view[c].seq),
         ViewHolds(c), DeltasHold(c), NEW s \in Seats
  PROVE  LET W == Wanted(view[c].seq)
         IN \/ \E u \in Surer(view[c].unsure \cup Skipped(view[c].seq, conn[c].upTo), W) : u[1] = s
            \/ Holds(Coalesced(view[c].bits, W)[s], s, conn[c].upTo)
<1> DEFINE n == view[c].seq
<1> DEFINE m == conn[c].upTo
<1> DEFINE W == Wanted(n)
<1> DEFINE U == Surer(view[c].unsure \cup Skipped(n, m), W)
<1> DEFINE x == Coalesced(view[c].bits, W)[s]
<1>1. conn[c].pc = "ring" /\ n < m /\ m <= seq /\ n \in Nat /\ m \in Nat /\ seq \in Nat /\ view[c].bits \in Bits
  BY FieldTypes DEF GapRing, ViewsFit, TypeOK
<1>2. /\ W \in SUBSET (1 .. Len(ring))
      /\ \A i \in 1 .. Len(ring) : /\ ring[i] \in Delta /\ ring[i] \in Deltas
                                   /\ ring[i].seq \in 1 .. seq /\ moved[ring[i].seq] = ring[i].seat
                                   /\ ring[i].seq > n <=> i \in W
      /\ \A i, j \in 1 .. Len(ring) : i <= j => ring[j].seq <= ring[i].seq
  BY <1>1, WantedEffect
<1>3. ASSUME NEW u \in view[c].unsure \cup Skipped(n, m), u[1] = s,
             \A i \in W : ring[i].seat = s => ring[i].seq <= u[2]
      PROVE  \E v \in U : v[1] = s
  BY <1>3 DEF Surer
<1>4. \A v, r : (<<v, r>>)[1] = v /\ (<<v, r>>)[2] = r
  OBVIOUS
<1>5. view[c].bits # NoBits
  BY <1>1, NoBitsAssumption
<1>6. CASE s \in SeatsIn(W)
  <2>1. PICK w \in W : /\ ring[w].seat = s /\ x = ring[w].state
                       /\ \A i \in W : ring[i].seat = s => w <= i
    <3>1. W \in SUBSET (1 .. Len(ring))
      BY <1>2
    <3>2. view[c].bits \in Bits /\ x = Coalesced(view[c].bits, W)[s]
      BY <1>1
    <3> HIDE DEF W, x
    <3> QED BY <1>6, <3>1, <3>2, CoalescedEffect
  <2> DEFINE M == ring[w].seq
  <2>2. w \in 1 .. Len(ring) /\ ring[w] \in Deltas /\ M \in 1 .. seq /\ M > n
    BY <1>2
  <2>3. \A i \in W : ring[i].seat = s => ring[i].seq <= M
    BY <1>2, <2>1, <2>2
  <2> HIDE DEF x, U, W
  <2>4. CASE \E u \in view[c].unsure : u[1] = s /\ u[2] >= M
    <3>1. PICK u \in view[c].unsure : u[1] = s /\ u[2] >= M
      BY <2>4
    <3>2. u[2] \in Nat
      BY FieldTypes
    <3>3. \A i \in W : ring[i].seq \in Nat
      BY <1>1, <1>2
    <3>4. \A i \in W : ring[i].seat = s => ring[i].seq <= u[2]
      BY <1>1, <2>2, <2>3, <3>1, <3>2, <3>3
    <3>5. \E v \in U : v[1] = s
      BY <1>3, <3>1, <3>4
    <3> QED BY <3>5 DEF U, W
  <2>5. CASE x = bits[s] \/ Writing(s)
    BY <2>5 DEF Holds, x, W
  <2>6. CASE Moved(s, M)
    <3>1. PICK j \in M + 1 .. seq : moved[j] = s
      BY <2>6 DEF Moved
    <3>2. CASE j > m
      <4>1. j \in m + 1 .. seq
        BY <1>1, <2>2, <3>2
      <4> QED BY <3>1, <4>1 DEF Holds, Moved, x, W
    <3>3. CASE j <= m
      <4>1. j \in n + 1 .. m /\ j > M /\ j \in Nat
        BY <1>1, <2>2, <3>3
      <4>2. ASSUME NEW i \in 1 .. Len(ring), ring[i].seq = j PROVE FALSE
        <5>1. i \in W /\ ring[i].seat = s
          BY <1>1, <1>2, <3>1, <4>1, <4>2
        <5> QED BY <2>2, <2>3, <4>1, <4>2, <5>1
      <4>3. Hole(j)
        BY <2>2, <4>1, <4>2 DEF Hole
      <4>4. <<s, j>> \in Skipped(n, m)
        BY <3>1, <4>1, <4>3, SkippedMove
      <4>5. \A i \in W : ring[i].seat = s => ring[i].seq <= j
        BY <1>1, <1>2, <2>2, <2>3, <4>1
      <4>6. \E v \in U : v[1] = s
        BY <1>3, <1>4, <4>4, <4>5
      <4> QED BY <4>6 DEF U, W
    <3>4. j > m \/ j <= m
      BY <1>1, <2>2
    <3> QED BY <3>2, <3>3, <3>4
  <2>7. (\E u \in view[c].unsure : u[1] = s /\ u[2] >= M) \/ Holds(ring[w].state, s, M)
    BY <2>1, <2>2 DEF DeltasHold
  <2> QED BY <2>1, <2>4, <2>5, <2>6, <2>7 DEF Holds
<1>7. CASE s \notin SeatsIn(W)
  <2>1. x = view[c].bits[s]
    BY <1>1, <1>2, <1>7, CoalescedEffect
  <2>2. \A i \in W : ring[i].seat # s
    BY <1>7 DEF SeatsIn
  <2> HIDE DEF x, U, W
  <2>3. CASE \E u \in view[c].unsure : u[1] = s
    <3>1. \E v \in U : v[1] = s
      BY <1>3, <2>2, <2>3
    <3> QED BY <3>1 DEF U, W
  <2>4. CASE x = bits[s] \/ Writing(s)
    BY <2>4 DEF Holds, x, W
  <2>5. CASE Moved(s, n)
    <3>1. PICK j \in n + 1 .. seq : moved[j] = s
      BY <2>5 DEF Moved
    <3>2. CASE j > m
      <4>1. j \in m + 1 .. seq
        BY <1>1, <3>2
      <4> QED BY <3>1, <4>1 DEF Holds, Moved, x, W
    <3>3. CASE j <= m
      <4>1. j \in n + 1 .. m /\ j > n /\ j \in Nat
        BY <1>1, <3>3
      <4>2. ASSUME NEW i \in 1 .. Len(ring), ring[i].seq = j PROVE FALSE
        BY <1>2, <2>2, <3>1, <4>1, <4>2
      <4>3. PICK i \in 1 .. Len(ring) : ring[i].seq = n + 1
        BY <1>2 DEF Covers, W
      <4>4. ring[i].seq < j
        BY <1>1, <4>1, <4>2, <4>3
      <4>5. Hole(j)
        BY <4>2, <4>4 DEF Hole
      <4>6. <<s, j>> \in Skipped(n, m)
        BY <3>1, <4>1, <4>5, SkippedMove
      <4>7. \E v \in U : v[1] = s
        BY <1>3, <1>4, <2>2, <4>6
      <4> QED BY <4>7 DEF U, W
    <3>4. j > m \/ j <= m
      BY <1>1
    <3> QED BY <3>2, <3>3, <3>4
  <2> QED BY <1>5, <2>1, <2>3, <2>4, <2>5 DEF ViewHolds, Holds
<1> QED
  BY <1>6, <1>7

LEMMA GapRingClientHolds ==
  ASSUME TypeOK, DeltasFit, ViewsFit, NEW c \in Clients, GapRing(c), ViewHolds(c), DeltasHold(c)
  PROVE  ViewHolds(c)' /\ DeltasHold(c)'
<1>1. view[c].bits \in Bits /\ conn[c].upTo <= seq /\ Len(moved) = seq
  BY FieldTypes DEF GapRing, ViewsFit, DeltasFit
<1>2. UNCHANGED <<bits, seq, moved, proj, ring>>
  BY DEF GapRing, redisVars
<1>3. \A s : Writing(s)' <=> Writing(s)
  BY <1>2 DEF Writing, Current
<1>4. \A s, k : Moved(s, k)' <=> Moved(s, k)
  BY <1>2 DEF Moved
<1>5. Shifted(c) /\ SameBuffer(c)
  BY <1>1, GapRingEffect
<1>6. Deltas' = Deltas
  <2>1. \A b \in Clients : conn'[b].send = conn[b].send
    BY <1>5 DEF Shifted, Others, SameBuffer
  <2>2. \A b \in Clients : Sent(b)' = Sent(b)
    BY <2>1 DEF Sent
  <2> QED BY <1>2, <2>2 DEF Deltas
<1>7. CASE view' = view
  BY <1>2, <1>3, <1>4, <1>6, <1>7 DEF ViewHolds, DeltasHold, Holds
<1>8. CASE view' # view
  <2> DEFINE W == Wanted(view[c].seq)
  <2>1. /\ Covers(view[c].seq)
        /\ view'[c].bits = Coalesced(view[c].bits, W) /\ view'[c].seq = conn[c].upTo
        /\ view'[c].unsure = Surer(view[c].unsure \cup Skipped(view[c].seq, conn[c].upTo), W)
    BY <1>1, <1>8, GapRingEffect
  <2>2. ViewHolds(c)'
    <3>1. \A s \in Seats : (\E u \in view'[c].unsure : u[1] = s) \/ Holds(view'[c].bits[s], s, view'[c].seq)
      BY <2>1, GapRingHolds
    <3> QED BY <1>2, <1>3, <1>4, <3>1 DEF ViewHolds, Holds
  <2>3. ASSUME NEW d \in Deltas, d.seq > view'[c].seq
        PROVE  (\E u \in view'[c].unsure : u[1] = d.seat /\ u[2] >= d.seq) \/ Holds(d.state, d.seat, d.seq)
    <3>1. /\ d.seq \in 1 .. seq /\ seq \in Nat /\ view[c].seq \in Nat /\ conn[c].upTo \in Nat
          /\ view[c].seq < conn[c].upTo
      BY FieldTypes DEF DeltasFit, TypeOK, ViewsFit, GapRing
    <3>2. d.seq > view[c].seq
      BY <2>1, <2>3, <3>1
    <3>3. CASE Holds(d.state, d.seat, d.seq)
      BY <3>3
    <3>4. ASSUME NEW u \in view[c].unsure, u[1] = d.seat, u[2] >= d.seq
          PROVE  u \in view'[c].unsure \/ Moved(d.seat, d.seq)
      <4>1. CASE \A i \in W : ring[i].seat = u[1] => ring[i].seq <= u[2]
        BY <2>1, <4>1 DEF Surer
      <4>2. ASSUME NEW i \in W, ring[i].seat = u[1], ~(ring[i].seq <= u[2]) PROVE Moved(d.seat, d.seq)
        <5>1. i \in 1 .. Len(ring)
          BY DEF Wanted
        <5>2. ring[i].seq \in 1 .. seq /\ moved[ring[i].seq] = ring[i].seat
          BY <3>1, <5>1, WantedEffect
        <5>3. u[2] \in Nat
          BY FieldTypes
        <5>4. ring[i].seq \in d.seq + 1 .. seq
          BY <3>1, <3>4, <4>2, <5>2, <5>3
        <5> QED BY <3>4, <4>2, <5>2, <5>4 DEF Moved
      <4> QED BY <4>1, <4>2
    <3> QED BY <3>2, <3>3, <3>4 DEF DeltasHold, Holds
  <2> QED BY <1>2, <1>3, <1>4, <1>6, <2>2, <2>3 DEF DeltasHold, Holds
<1> QED
  BY <1>7, <1>8

LEMMA SnapSeqClientHolds ==
  ASSUME TypeOK, ScansFit, DeltasFit, ViewsFit, [Next]_vars, NEW c \in Clients, SnapSeq(c), ScanHolds(c)
  PROVE  ViewHolds(c)' /\ DeltasHold(c)'
<1>1. conn[c].pc = "seq" /\ conn[c].scan \in Bits
  BY DEF SnapSeq, ScansFit
<1>2. UNCHANGED <<bits, seq, moved, proj, ring>>
  BY DEF SnapSeq, redisVars
<1>3. view'[c].bits = conn[c].scan /\ view'[c].seq = seq /\ view'[c].unsure = conn[c].unsure
  BY <1>1, SnapSeqEffect
<1>4. \A s : Writing(s)' <=> Writing(s)
  BY <1>2 DEF Writing, Current
<1>5. ViewHolds(c)'
  BY <1>1, <1>2, <1>3, <1>4 DEF ViewHolds, ScanHolds, Holds
<1>6. ASSUME NEW d \in Deltas' PROVE ~(d.seq > view'[c].seq)
  <2>1. \A e \in proj.batch : ~PushDelta(e)
    BY <1>2, PushDeltaEffect
  <2>2. d \in Deltas
    BY <2>1, DeltasGrow
  <2>3. d.seq \in 1 .. seq /\ seq \in Nat
    BY <2>2 DEF DeltasFit, TypeOK
  <2> QED BY <1>3, <2>3
<1> QED
  BY <1>5, <1>6 DEF DeltasHold

LEMMA DeliverClientHolds ==
  ASSUME TypeOK, ScansFit, DeltasFit, ViewsFit, [Next]_vars, NEW c \in Clients, Deliver(c),
         ViewHolds(c), DeltasHold(c)
  PROVE  ViewHolds(c)' /\ DeltasHold(c)'
<1>1. conn[c].pc = "live" /\ view[c].bits \in Bits /\ view[c].bits # NoBits
  BY FieldTypes, NoBitsAssumption DEF Deliver, ViewsFit
<1>2. UNCHANGED <<bits, seq, moved, proj, ring>>
  BY DEF Deliver, redisVars
<1>3. \A s : Writing(s)' <=> Writing(s)
  BY <1>2 DEF Writing, Current
<1>4. \A s, k : Moved(s, k)' <=> Moved(s, k)
  BY <1>2 DEF Moved
<1>5. Deltas' \subseteq Deltas
  <2>1. \A e \in proj.batch : ~PushDelta(e)
    BY <1>2, PushDeltaEffect
  <2> QED BY <2>1, DeltasGrow
<1>6. CASE view' = view
  BY <1>2, <1>3, <1>4, <1>5, <1>6 DEF ViewHolds, DeltasHold, Holds
<1>7. CASE view' # view
  <2>1. PICK d \in Delta : /\ conn[c].send # <<>> /\ d = conn[c].send[1] /\ conn'[c].send = Tail(conn[c].send)
                           /\ d.seq = view[c].seq + 1 /\ view' = Applies(c, d)
    BY <1>1, <1>7, DeliverEffect
  <2>2. d \in Deltas
    BY <2>1, Sending DEF Deltas
  <2>3. /\ view'[c].bits \in Bits /\ view'[c].bits[d.seat] = d.state /\ view'[c].seq = d.seq
        /\ \A s \in Seats \ {d.seat} : view'[c].bits[s] = view[c].bits[s]
        /\ view'[c].unsure = {u \in view[c].unsure : u[1] # d.seat \/ u[2] >= d.seq}
    BY <1>1, <2>1, AppliesEffect
  <2>4. d.seq \in 1 .. seq /\ moved[d.seq] = d.seat /\ seq \in Nat /\ view[c].seq \in Nat /\ d.seq > view[c].seq
    BY <2>1, <2>2, FieldTypes DEF DeltasFit, TypeOK
  <2>5. ASSUME NEW s \in Seats
        PROVE  (\E u \in view'[c].unsure : u[1] = s) \/ Holds(view'[c].bits[s], s, d.seq)
    <3>1. CASE s = d.seat
      <4>1. (\E u \in view[c].unsure : u[1] = d.seat /\ u[2] >= d.seq) \/ Holds(d.state, d.seat, d.seq)
        BY <2>2, <2>4 DEF DeltasHold
      <4> QED BY <2>3, <3>1, <4>1
    <3>2. CASE s # d.seat
      <4>1. (\E u \in view[c].unsure : u[1] = s) \/ Holds(view[c].bits[s], s, view[c].seq)
        BY <1>1 DEF ViewHolds
      <4>2. Moved(s, view[c].seq) => Moved(s, d.seq)
        <5>1. ASSUME NEW j \in view[c].seq + 1 .. seq, moved[j] = s PROVE j \in d.seq + 1 .. seq
          <6>1. j # d.seq
            BY <2>4, <3>2, <5>1
          <6> QED BY <2>1, <2>4, <6>1
        <5> QED BY <5>1 DEF Moved
      <4>3. view'[c].bits[s] = view[c].bits[s]
        BY <2>3, <3>2
      <4>4. CASE \E u \in view[c].unsure : u[1] = s
        BY <2>3, <3>2, <4>4
      <4>5. CASE Holds(view[c].bits[s], s, view[c].seq)
        BY <4>2, <4>3, <4>5 DEF Holds
      <4> QED BY <4>1, <4>4, <4>5
    <3> QED BY <3>1, <3>2
  <2>6. ASSUME NEW x \in Deltas, x.seq > d.seq
        PROVE  (\E u \in view'[c].unsure : u[1] = x.seat /\ u[2] >= x.seq) \/ Holds(x.state, x.seat, x.seq)
    <3>1. x.seq \in 1 .. seq /\ x.seq > view[c].seq
      BY <2>4, <2>6 DEF DeltasFit
    <3>2. CASE Holds(x.state, x.seat, x.seq)
      BY <3>2
    <3>3. ASSUME NEW u \in view[c].unsure, u[1] = x.seat, u[2] >= x.seq PROVE u \in view'[c].unsure
      <4>1. u[2] \in Nat
        BY FieldTypes
      <4>2. u[2] >= d.seq
        BY <2>4, <2>6, <3>1, <3>3, <4>1
      <4> QED BY <2>3, <4>2
    <3> QED BY <3>1, <3>2, <3>3 DEF DeltasHold
  <2>7. ViewHolds(c)'
    BY <1>2, <1>3, <1>4, <2>3, <2>5 DEF ViewHolds, Holds
  <2>8. DeltasHold(c)'
    BY <1>2, <1>3, <1>4, <1>5, <2>3, <2>6 DEF DeltasHold, Holds
  <2> QED BY <2>7, <2>8
<1> QED
  BY <1>6, <1>7

LEMMA ClientsHoldNext ==
  ASSUME TypeOK, EventsFit, ScansFit, ProjFits, DeltasFit, ViewsFit, ClientsHold, [Next]_vars
  PROVE  ClientsHold'
<1> SUFFICES ASSUME NEW c \in Clients
             PROVE  ViewHolds(c)' /\ ScanHolds(c)' /\ DeltasHold(c)'
  BY DEF ClientsHold
<1>1. ViewHolds(c) /\ ScanHolds(c) /\ DeltasHold(c)
  BY DEF ClientsHold
<1>2. ScanHolds(c)'
  <2>1. conn'[c].pc = "seq" =>
          \A s \in Seats : (\E u \in conn'[c].unsure : u[1] = s) \/ conn'[c].scan[s] = bits'[s] \/ Writing(s)'
    BY <1>1, ScanHoldsNext
  <2> QED BY <2>1 DEF ScanHolds
<1>3. CASE GapRing(c)
  BY <1>1, <1>2, <1>3, GapRingClientHolds
<1>4. CASE SnapSeq(c)
  BY <1>1, <1>2, <1>4, SnapSeqClientHolds
<1>5. CASE Deliver(c)
  BY <1>1, <1>2, <1>5, DeliverClientHolds
<1>6. CASE ~GapRing(c) /\ ~SnapSeq(c) /\ ~Deliver(c)
  BY <1>1, <1>2, <1>6, KeptViewHolds, KeptDeltasHold
<1> QED
  BY <1>3, <1>4, <1>5, <1>6

-----------------------------------------------------------------------------
(* The buffers.                                                            *)

\* A buffer that overflowed stays so until the connection closes.
LEMMA MissedStays ==
  ASSUME TypeOK, ScansFit, DeltasFit, ViewsFit, [Next]_vars, NEW c \in Clients, ~Serve(c), ~Disconnect(c),
         conn[c].pc # "off", ~conn'[c].missed
  PROVE  ~conn[c].missed /\ ~(Abandon /\ proj.pc = "push")
<1>1. ASSUME NEW d \in Clients, Serve(d) \/ Disconnect(d) PROVE conn'[c] = conn[c]
  <2>1. c # d
    BY <1>1
  <2> QED BY <1>1, <2>1, HubShifts DEF Shifted, Others
<1>2. ASSUME NEW e \in proj.batch, IncrSeq(e) PROVE conn'[c].missed = conn[c].missed
  <2>1. e.seat \in Seats /\ conn' = Tear(e.seat)
    BY <1>2, CurrentTyped DEF IncrSeq
  <2> QED BY <2>1, TearEffect DEF SameBuffer
<1>3. ASSUME NEW e \in proj.batch, PushDelta(e) PROVE conn'[c].missed = conn[c].missed
  <2>1. PICK d \in Delta : conn' = FanOut(d)
    BY <1>3, PushDeltaEffect
  <2> QED BY <2>1, FanOutEffect
<1>4. ASSUME Abandon PROVE ~conn[c].missed /\ ~(proj.pc = "push")
  <2>1. conn'[c].missed = (conn[c].pc # "off" /\ (conn[c].missed \/ proj.pc = "push"))
    BY <1>4, AbandonEffect, SilenceEffect
  <2> QED BY <2>1
<1>5. ASSUME ListBatch \/ EnsureScan \/ EnsureSeed \/ \E e : WriteByte(e) \/ MarkProcessed(e) \/ LoseMark(e)
      PROVE  conn' = conn
  BY <1>5, ProjFrame
<1>6. ASSUME HubSubscribed \/ UNCHANGED vars \/ \E r \in Seats, to \in State : ChangeSeat(r, to) PROVE conn' = conn
  BY <1>6 DEF HubSubscribed, ChangeSeat, feedVars, vars
<1>7. CASE ~Abandon
  BY <1>1, <1>2, <1>3, <1>5, <1>6, <1>7 DEF Next, Project, Handle
<1> QED
  BY <1>4, <1>7

\* While a push is due the projector does nothing else.
LEMMA PushStays ==
  ASSUME [Next]_vars, proj.pc = "push", ~Abandon, \A e \in proj.batch : ~PushDelta(e)
  PROVE  proj' = proj /\ seq' = seq
<1>1. ~ListBatch /\ ~EnsureScan /\ ~EnsureSeed /\ \A e \in proj.batch : ~Handle(e)
  BY DEF ListBatch, EnsureScan, EnsureSeed, Handle, WriteByte, IncrSeq, MarkProcessed, LoseMark
<1>2. ASSUME NEW c \in Clients, Serve(c) \/ Disconnect(c) PROVE proj' = proj /\ seq' = seq
  BY <1>2, HubFrame
<1>3. ASSUME HubSubscribed \/ UNCHANGED vars \/ \E r \in Seats, to \in State : ChangeSeat(r, to)
      PROVE  proj' = proj /\ seq' = seq
  BY <1>3 DEF HubSubscribed, ChangeSeat, redisVars, vars
<1> QED
  BY <1>1, <1>2, <1>3 DEF Next, Project

\* A covered client stays covered by the steps of the others: FanOut sends the delta or
\* the buffer overflows.
LEMMA CoveredKept ==
  ASSUME TypeOK, ScansFit, ProjFits, DeltasFit, ViewsFit, [Next]_vars, NEW c \in Clients, ~Serve(c), ~Disconnect(c),
         conn[c].pc # "off", ~conn'[c].missed, NEW n \in Nat, Covered(c, n), NEW k \in n + 1 .. seq'
  PROVE  (\E d \in Sent(c)' : d.seq = k) \/ (k = seq' /\ proj'.pc = "push")
<1>1. seq \in Nat /\ seq' \in Nat /\ k \in Nat
  BY SeqGrows
<1>2. ~conn[c].missed /\ ~(Abandon /\ proj.pc = "push")
  BY MissedStays
<1>3. CASE \A e \in proj.batch : ~PushDelta(e) /\ ~IncrSeq(e)
  <2>1. seq' = seq
    BY <1>3, SeqGrows
  <2>2. conn'[c].send = conn[c].send
    BY <1>3, OthersKeepBuffer DEF Serve
  <2>3. Sent(c)' = Sent(c)
    BY <2>2 DEF Sent
  <2>4. proj.pc = "push" => proj' = proj
    BY <1>2, <1>3, PushStays
  <2> QED BY <2>1, <2>3, <2>4 DEF Covered
<1>4. ASSUME NEW e \in proj.batch, IncrSeq(e)
      PROVE  (\E d \in Sent(c)' : d.seq = k) \/ (k = seq' /\ proj'.pc = "push")
  <2>1. seq' = seq + 1 /\ proj.pc = "incr" /\ proj'.pc = "push" /\ e.seat \in Seats /\ conn' = Tear(e.seat)
    BY <1>4, IncrSeqEffect, CurrentTyped DEF DeltasFit, IncrSeq
  <2>2. conn'[c].send = conn[c].send
    BY <2>1, TearEffect DEF SameBuffer
  <2>3. Sent(c)' = Sent(c)
    BY <2>2 DEF Sent
  <2>4. k = seq' \/ k \in n + 1 .. seq
    BY <1>1, <2>1
  <2> QED BY <2>1, <2>3, <2>4 DEF Covered
<1>5. ASSUME NEW e \in proj.batch, PushDelta(e)
      PROVE  \E d \in Sent(c)' : d.seq = k
  <2>1. PICK d \in Delta : d.seq = seq /\ conn' = FanOut(d)
    BY <1>5, PushDeltaEffect
  <2>2. seq' = seq
    BY <1>5, ProjFrame
  <2>3. conn'[c].send = Append(conn[c].send, d)
    BY <2>1, FanOutEffect
  <2>4. Sent(c)' = Sent(c) \cup {d}
    BY <2>3, Sending
  <2> QED BY <2>1, <2>2, <2>4 DEF Covered
<1> QED
  BY <1>3, <1>4, <1>5

LEMMA BuffersFitNext ==
  ASSUME TypeOK, ScansFit, ProjFits, DeltasFit, ViewsFit, BuffersFit, [Next]_vars
  PROVE  BuffersFit'
<1> SUFFICES ASSUME NEW c \in Clients, ~conn'[c].missed
             PROVE  /\ conn'[c].pc = "live" => Covered(c, view[c].seq)'
                    /\ conn'[c].pc = "ring" => Covered(c, conn[c].upTo)'
  BY DEF BuffersFit
<1>1. /\ seq \in Nat /\ seq' \in Nat /\ view[c].seq \in Nat /\ conn[c].upTo \in Nat
      /\ conn[c].pc = "live" \/ conn[c].pc = "ring" \/ conn[c].pc \notin {"live", "ring"}
  BY SeqGrows, FieldTypes
<1>2. CASE Connect(c) \/ SnapBits(c) \/ Disconnect(c)
  BY <1>2, ConnectEffect, SnapBitsEffect, ClosedEffect DEF Disconnect
<1>3. CASE SnapSeed(c)
  <2>1. conn[c].scan \in Bits
    BY <1>3 DEF SnapSeed, ScansFit
  <2> QED BY <1>3, <2>1, SnapSeedEffect
<1>4. CASE GapSeq(c)
  <2>1. /\ conn'[c].upTo = seq /\ seq' = seq /\ view' = view
        /\ (view[c].seq >= seq /\ conn'[c].pc = "live") \/ (view[c].seq < seq /\ conn'[c].pc = "ring")
    BY <1>4, GapSeqEffect DEF GapSeq, redisVars
  <2>2. \A n \in Nat : n >= seq => n + 1 .. seq = {}
    BY <1>1
  <2>3. conn'[c].upTo + 1 .. seq' = {}
    BY <1>1, <2>1, <2>2
  <2>4. conn'[c].pc = "live" => view'[c].seq + 1 .. seq' = {}
    BY <1>1, <2>1, <2>2
  <2> QED BY <2>3, <2>4 DEF Covered
<1>5. CASE SnapSeq(c)
  <2>1. conn[c].scan \in Bits
    BY <1>5 DEF SnapSeq, ScansFit
  <2>2. conn'[c].pc = "live" /\ view'[c].seq = seq /\ seq' = seq
    BY <1>5, <2>1, SnapSeqEffect DEF SnapSeq, redisVars
  <2>3. view'[c].seq + 1 .. seq' = {}
    BY <1>1, <2>2
  <2> QED BY <2>2, <2>3 DEF Covered
<1>6. CASE GapRing(c)
  <2>1. conn[c].pc = "ring" /\ view[c].bits \in Bits /\ conn[c].upTo <= seq /\ Len(moved) = seq
    BY <1>6, FieldTypes DEF GapRing, ViewsFit, DeltasFit
  <2>2. /\ SameBuffer(c)
        /\ conn'[c].pc = "bits" \/ (conn'[c].pc = "live" /\ view'[c].seq = conn[c].upTo)
    BY <1>6, <2>1, GapRingEffect
  <2>3. UNCHANGED <<seq, proj>>
    BY <1>6, HubFrame DEF Serve
  <2>4. Sent(c)' = Sent(c) /\ ~conn[c].missed
    BY <2>2 DEF SameBuffer, Sent
  <2>5. Covered(c, conn[c].upTo)
    BY <2>1, <2>4 DEF BuffersFit
  <2> QED BY <2>2, <2>3, <2>4, <2>5 DEF Covered
<1>7. CASE Deliver(c)
  <2>1. conn[c].pc = "live" /\ view[c].bits \in Bits
    BY <1>7, FieldTypes DEF Deliver, ViewsFit
  <2>2. CASE conn'[c].pc = "off"
    BY <2>2
  <2>3. CASE conn'[c].pc # "off"
    <3>1. PICK d \in Delta :
             /\ conn[c].send # <<>> /\ d = conn[c].send[1] /\ conn'[c].pc = "live"
             /\ conn'[c].missed = conn[c].missed /\ conn'[c].send = Tail(conn[c].send)
             /\ (d.seq <= view[c].seq /\ view' = view) \/ (d.seq = view[c].seq + 1 /\ view' = Applies(c, d))
      BY <1>7, <2>1, <2>3, DeliverEffect
    <3>2. Sent(c) = Sent(c)' \cup {d} /\ d.seq \in Nat
      BY <3>1, Sending DEF Delta
    <3>3. view'[c].seq \in Nat /\ view'[c].seq >= view[c].seq /\ view'[c].seq >= d.seq
      <4>1. view' = Applies(c, d) => view'[c].seq = d.seq
        BY <2>1, AppliesEffect
      <4> QED BY <1>1, <3>1, <3>2, <4>1
    <3>4. UNCHANGED <<seq, proj>>
      BY <1>7, HubFrame DEF Serve
    <3>5. Covered(c, view[c].seq)
      BY <2>1, <3>1 DEF BuffersFit
    <3>6. ASSUME NEW k \in view'[c].seq + 1 .. seq
          PROVE  (\E x \in Sent(c)' : x.seq = k) \/ (k = seq /\ proj.pc = "push")
      <4>1. k \in view[c].seq + 1 .. seq /\ k # d.seq
        BY <1>1, <3>2, <3>3
      <4> QED BY <3>2, <3>5, <4>1 DEF Covered
    <3> QED BY <3>1, <3>4, <3>6 DEF Covered
  <2> QED BY <2>2, <2>3
<1>8. CASE ~Serve(c) /\ ~Disconnect(c)
  <2>1. KeepsPlace(c) /\ KeepsView(c)
    BY <1>8, OthersKeepPlace, OthersKeepView DEF Serve
  <2>2. CASE conn'[c].pc = "live"
    <3>1. ~conn[c].missed /\ conn[c].pc = "live"
      BY <1>8, <2>1, <2>2, MissedStays DEF KeepsPlace
    <3>2. Covered(c, view[c].seq)
      BY <3>1 DEF BuffersFit
    <3>3. \A k \in view[c].seq + 1 .. seq' : (\E d \in Sent(c)' : d.seq = k) \/ (k = seq' /\ proj'.pc = "push")
      BY <1>1, <1>8, <3>1, <3>2, CoveredKept
    <3> QED BY <2>1, <2>2, <3>3 DEF Covered, KeepsView
  <2>3. CASE conn'[c].pc = "ring"
    <3>1. ~conn[c].missed /\ conn[c].pc = "ring"
      BY <1>8, <2>1, <2>3, MissedStays DEF KeepsPlace
    <3>2. Covered(c, conn[c].upTo)
      BY <3>1 DEF BuffersFit
    <3>3. \A k \in conn[c].upTo + 1 .. seq' : (\E d \in Sent(c)' : d.seq = k) \/ (k = seq' /\ proj'.pc = "push")
      BY <1>1, <1>8, <3>1, <3>2, CoveredKept
    <3> QED BY <2>1, <2>3, <3>3 DEF Covered, KeepsPlace
  <2> QED BY <2>2, <2>3
<1> QED
  BY <1>2, <1>3, <1>4, <1>5, <1>6, <1>7, <1>8 DEF Serve

-----------------------------------------------------------------------------
(* The theorems.                                                           *)

LEMMA Starts ==
  ASSUME Init
  PROVE  IInv
<1>1. TypeOK
  BY TypeInit
<1>2. /\ proj = Idle /\ Idle.pc = "idle" /\ Idle.batch = {} /\ todo = {} /\ bits = NoBits /\ seq = 0
      /\ ring = <<>> /\ moved = <<>>
  BY DEF Init, Idle
<1>3. \A c \in Clients : /\ conn[c].pc = "off" /\ conn[c].send = <<>> /\ ~conn[c].missed
                         /\ view[c].bits = NoBits /\ view[c].seq = 0
  BY DEF Init, Off, Blank
<1>4. EventsFit
  BY <1>2 DEF EventsFit, NewestShowsRow, OldestAreTaken
<1>5. BitsFollowRows
  BY <1>2 DEF BitsFollowRows
<1>6. ScansFit
  BY <1>2, <1>3 DEF ScansFit
<1>7. ProjFits
  BY <1>2 DEF ProjFits
<1>8. Deltas = {}
  <2>1. \A c \in Clients : Sent(c) = {}
    BY <1>3 DEF Sent
  <2>2. {ring[i] : i \in 1 .. Len(ring)} = {}
    BY <1>2
  <2> QED BY <2>1, <2>2 DEF Deltas
<1>9. DeltasFit
  <2>1. Len(ring) = 0 /\ Len(moved) = seq
    BY <1>2
  <2>2. 1 .. Len(ring) = {}
    BY <2>1
  <2> QED BY <1>2, <1>8, <2>1, <2>2 DEF DeltasFit
<1>10. ViewsFit
  BY <1>2, <1>3 DEF ViewsFit
<1>11. ClientsHold
  BY <1>3, <1>8 DEF ClientsHold, ViewHolds, ScanHolds, DeltasHold
<1>12. BuffersFit
  BY <1>3 DEF BuffersFit
<1> QED
  BY <1>1, <1>4, <1>5, <1>6, <1>7, <1>9, <1>10, <1>11, <1>12 DEF IInv

LEMMA Steps ==
  ASSUME IInv, [Next]_vars
  PROVE  IInv'
BY TypeNext, EventsFitNext, BitsFollowRowsNext, ScansFitNext, ProjFitsNext, DeltasFitNext, ViewsFitNext,
   ClientsHoldNext, BuffersFitNext DEF IInv

\* For any seats, clients, ring, buffers, batches and faults, whatever the projector,
\* the hub and the clients interleave: events, bitset, scans, deltas, views and
\* buffers fit together.
THEOREM Invariance == Spec => []IInv
<1>1. Init => IInv
  BY Starts
<1>2. IInv /\ [Next]_vars => IInv'
  BY Steps
<1> QED
  BY <1>1, <1>2, PTL DEF Spec

\* No ring outgrows ringCap and no send buffer its capacity, and nothing the feed
\* keeps leaves its type.
THEOREM FeedTypeCorrect == Spec => []TypeOK
<1>1. IInv => TypeOK
  BY DEF IInv
<1> QED
  BY <1>1, Invariance, PTL

\* RunOnce and EnsureBitset: whoever seeded the bitset and however often a batch was
\* abandoned, a seat whose events are all processed shows its row, unless a mark of
\* the seat was lost.
THEOREM BitsetFollowsRows == Spec => []BitsFollowRows
<1>1. IInv => BitsFollowRows
  BY DEF IInv
<1> QED
  BY <1>1, Invariance, PTL

\* ServeWS, GapFill and the client contract of wshub.go: outside the races BitsFollowRows
\* and unsure name, a client with the current number shows the bitset.
THEOREM CurrentClientShowsBitset == Spec => []ClientShowsBitset
<1>1. ASSUME IInv PROVE ClientShowsBitset
  <2> SUFFICES ASSUME NEW c \in Clients, NEW s \in Seats, view[c].bits # NoBits, view[c].seq = seq
               PROVE  \/ \E u \in view[c].unsure : u[1] = s
                      \/ proj.pc = "incr" /\ \E e \in proj.batch : Current(e) /\ e.seat = s
                      \/ view[c].bits[s] = bits[s]
    BY DEF ClientShowsBitset
  <2>1. ViewHolds(c) /\ seq \in Nat
    BY <1>1 DEF IInv, ClientsHold, TypeOK
  <2>2. ~Moved(s, seq)
    <3>1. seq + 1 .. seq = {}
      BY <2>1
    <3> QED BY <3>1 DEF Moved
  <2> QED BY <2>1, <2>2 DEF ViewHolds, Holds, Writing
<1> QED
  BY <1>1, Invariance, PTL

\* ServeWS subscribes before it builds the initial frame, so no delta falls between the
\* two: what a live client has not applied is in its buffer or about to be pushed.
THEOREM NoDeltaSlipsBetween == Spec => []NothingSlipsBetween
<1>1. ASSUME IInv PROVE NothingSlipsBetween
  <2> SUFFICES ASSUME NEW c \in Clients, conn[c].pc = "live", ~conn[c].missed, NEW k \in view[c].seq + 1 .. seq
               PROVE  \/ \E i \in 1 .. Len(conn[c].send) : conn[c].send[i].seq = k
                      \/ k = seq /\ proj.pc = "push"
    BY DEF NothingSlipsBetween
  <2>1. Covered(c, view[c].seq)
    BY <1>1 DEF IInv, BuffersFit
  <2> QED BY <2>1 DEF Covered, Sent
<1> QED
  BY <1>1, Invariance, PTL

\* The reconnect logic of wshub.go: no frame, snapshot or gap-fill takes a client back to
\* an older number, across any number of reconnections.
THEOREM ClientNeverGoesBack == Spec => [][\A c \in Clients : view[c].seq <= view'[c].seq]_vars
<1>1. ASSUME IInv, [Next]_vars, NEW c \in Clients PROVE view[c].seq <= view'[c].seq
  <2>1. TypeOK /\ ScansFit /\ DeltasFit /\ ViewsFit
    BY <1>1 DEF IInv
  <2>2. view[c].seq \in Nat /\ view[c].seq <= seq /\ seq \in Nat
    BY <2>1, FieldTypes DEF ViewsFit, TypeOK
  <2>3. CASE GapRing(c)
    <3>1. view[c].bits \in Bits /\ conn[c].upTo <= seq /\ Len(moved) = seq /\ view[c].seq < conn[c].upTo
          /\ conn[c].upTo \in Nat
      BY <2>1, <2>3, FieldTypes DEF GapRing, ViewsFit, DeltasFit
    <3>2. view'[c].seq = conn[c].upTo \/ view' = view
      BY <2>1, <2>3, <3>1, GapRingEffect
    <3> QED BY <2>2, <3>1, <3>2
  <2>4. CASE SnapSeq(c)
    <3>1. conn[c].scan \in Bits
      BY <2>1, <2>4 DEF SnapSeq, ScansFit
    <3> QED BY <2>1, <2>2, <2>4, <3>1, SnapSeqEffect
  <2>5. CASE Deliver(c)
    <3>1. view[c].bits \in Bits
      BY <2>1, <2>5, FieldTypes DEF Deliver, ViewsFit
    <3>2. CASE view' = view
      BY <2>2, <3>2
    <3>3. CASE view' # view
      <4>1. \E d \in Delta : d.seq = view[c].seq + 1 /\ view' = Applies(c, d)
        <5>1. view' = view \/ \E d \in Delta : d.seq = view[c].seq + 1 /\ view' = Applies(c, d)
          BY <2>1, <2>5, <3>1, DeliverEffect
        <5> QED BY <3>3, <5>1
      <4> PICK d \in Delta : d.seq = view[c].seq + 1 /\ view' = Applies(c, d)
        BY <4>1
      <4>2. view'[c].seq = view[c].seq + 1
        <5>1. view'[c].seq = d.seq
          BY <2>1, <3>1, AppliesEffect
        <5> QED BY <5>1
      <4> QED BY <2>2, <4>2
    <3> QED BY <3>2, <3>3
  <2>6. CASE ~GapRing(c) /\ ~SnapSeq(c) /\ ~Deliver(c)
    <3>1. KeepsView(c)
      BY <1>1, <2>1, <2>6, OthersKeepView
    <3> QED BY <2>2, <3>1 DEF KeepsView
  <2> QED BY <2>3, <2>4, <2>5, <2>6
<1>2. IInv /\ [Next]_vars => [\A c \in Clients : view[c].seq <= view'[c].seq]_vars
  BY <1>1
<1> QED
  BY <1>2, Invariance, PTL DEF Spec
=============================================================================
