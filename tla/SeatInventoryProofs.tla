------------------------ MODULE SeatInventoryProofs ------------------------
(***************************************************************************)
(* Proofs about SeatInventory for any set of seats, holds and callers and  *)
(* any time-to-live: its types, the inductive invariant IInv and the       *)
(* safety properties that follow from it.                                  *)
(***************************************************************************)
EXTENDS SeatInventory, TLAPS

USE SeatsAssumption, NoHoldAssumption, ReaperAssumption, TimesAssumption

-----------------------------------------------------------------------------
(* What the row operators return.                                          *)

\* Setting one column of a row to a value of its type gives a row.
LEMMA RowUpdates ==
  \A r \in Row :
    /\ \A x \in {"AVAILABLE", "HELD", "BOOKED", "PENDING_PAYMENT"} : [r EXCEPT !.status = x] \in Row
    /\ \A x \in Holds \cup {NoHold} : [r EXCEPT !.hold = x] \in Row
    /\ \A x \in Holds \cup {NoHold} : [r EXCEPT !.booking = x] \in Row
    /\ \A x \in 0 .. MaxTime : [r EXCEPT !.expires = x] \in Row
    /\ \A x \in Nat : [r EXCEPT !.fence = x] \in Row
  BY DEF Row

\* Acquiring writes the hold and its expiry and leaves the booking alone.
LEMMA HeldRowFields ==
  ASSUME NEW r \in Row, NEW h \in Holds, NEW t \in Nat, t + HoldTTL <= LastExpiry
  PROVE  /\ HeldRow(r, h, t) \in Row
         /\ HeldRow(r, h, t).status = "HELD" /\ HeldRow(r, h, t).hold = h
         /\ HeldRow(r, h, t).expires = t + HoldTTL
         /\ HeldRow(r, h, t).booking = r.booking
<1>1. [r EXCEPT !.status = "HELD"] \in Row
  BY RowUpdates
<1>2. [r EXCEPT !.status = "HELD", !.hold = h] \in Row
  BY <1>1, RowUpdates
<1>3. [r EXCEPT !.status = "HELD", !.hold = h, !.expires = t + HoldTTL] \in Row
  BY <1>2, RowUpdates, t + HoldTTL \in 0 .. MaxTime
<1>4. r.fence + 1 \in Nat
  BY DEF Row
<1>5. HeldRow(r, h, t) \in Row
  BY <1>3, <1>4, RowUpdates DEF HeldRow
<1>6. QED
  BY <1>5 DEF HeldRow, Row

\* Releasing clears the hold and leaves the booking alone.
LEMMA FreedRowFields ==
  ASSUME NEW r \in Row
  PROVE  /\ FreedRow(r) \in Row
         /\ FreedRow(r).status = "AVAILABLE" /\ FreedRow(r).hold = NoHold
         /\ FreedRow(r).booking = r.booking
<1>1. [r EXCEPT !.status = "AVAILABLE"] \in Row
  BY RowUpdates
<1>2. [r EXCEPT !.status = "AVAILABLE", !.hold = NoHold] \in Row
  BY <1>1, RowUpdates
<1>3. FreedRow(r) \in Row
  BY <1>2, RowUpdates, 0 \in 0 .. MaxTime DEF FreedRow
<1>4. QED
  BY <1>3 DEF FreedRow, Row

\* Extending keeps the hold and never shortens it.
LEMMA ExtendedRowFields ==
  ASSUME NEW r \in Row, NEW t \in 0 .. MaxTime
  PROVE  /\ ExtendedRow(r, t) \in Row
         /\ ExtendedRow(r, t).status = "PENDING_PAYMENT" /\ ExtendedRow(r, t).hold = r.hold
         /\ ExtendedRow(r, t).booking = r.booking
         /\ ExtendedRow(r, t).expires = IF r.expires > t THEN r.expires ELSE t
<1>1. r.expires \in 0 .. MaxTime
  BY DEF Row
<1>2. ExtendedRow(r, t) \in Row
  BY <1>1, RowUpdates DEF ExtendedRow, Row
<1>3. QED
  BY <1>2 DEF ExtendedRow, Row

\* Confirming writes the booking and clears the hold.
LEMMA BookedRowFields ==
  ASSUME NEW r \in Row, NEW h \in Holds
  PROVE  /\ BookedRow(r, h) \in Row
         /\ BookedRow(r, h).status = "BOOKED" /\ BookedRow(r, h).hold = NoHold
         /\ BookedRow(r, h).booking = h
<1>1. [r EXCEPT !.status = "BOOKED", !.booking = h] \in Row
  BY RowUpdates
<1>2. [r EXCEPT !.status = "BOOKED", !.booking = h, !.hold = NoHold] \in Row
  BY <1>1, RowUpdates
<1>3. BookedRow(r, h) \in Row
  BY <1>2, RowUpdates, 0 \in 0 .. MaxTime DEF BookedRow
<1>4. QED
  BY <1>3 DEF BookedRow, Row

\* Setting one field of an invocation to a value of its type gives an invocation.
LEMMA InvocationUpdates ==
  \A i \in Invocation :
    /\ i.want \subseteq Seats /\ i.todo \subseteq Seats /\ i.keys \subseteq Seats /\ i.at \in 0 .. MaxTime
    /\ \A x \in {"idle", "redis", "cas", "held", "failing"} : [i EXCEPT !.pc = x] \in Invocation
    /\ \A x \in SUBSET Seats : /\ [i EXCEPT !.want = x] \in Invocation
                               /\ [i EXCEPT !.todo = x] \in Invocation
                               /\ [i EXCEPT !.keys = x] \in Invocation
    /\ \A x \in 0 .. MaxTime : [i EXCEPT !.at = x] \in Invocation
  BY DEF Invocation

\* The same for a call.
LEMMA CallUpdates ==
  \A c \in Call :
    /\ c.at \in 0 .. MaxTime
    /\ c.seats \subseteq Seats /\ c.todo \subseteq Seats /\ c.hold \in Holds \cup {NoHold}
    /\ \A x \in {"release", "extend", "extending", "fences", "begin", "confirm"} :
         [c EXCEPT !.step = x] \in Call
    /\ \A x \in Holds : [c EXCEPT !.hold = x] \in Call
    /\ \A x \in SUBSET Seats : [c EXCEPT !.seats = x] \in Call /\ [c EXCEPT !.todo = x] \in Call
    /\ \A x \in [Seats -> Nat] : [c EXCEPT !.fence = x] \in Call
    /\ \A x \in 0 .. MaxTime : [c EXCEPT !.at = x] \in Call
  BY DEF Call

-----------------------------------------------------------------------------
(* Types.                                                                  *)

\* The initial state has the declared types.
LEMMA InitTypeOK == Init => TypeOK
  BY DEF Init, TypeOK, RowsWellFormed, Row, Invocation, Call, Event, Callers, Live, IdleCall

\* Every operation preserves the types and the CHECK constraints of event_seats.
LEMMA NextTypeOK == TypeOK /\ [Next]_vars => TypeOK'
<1> SUFFICES ASSUME TypeOK, [Next]_vars PROVE TypeOK'
  OBVIOUS
<1>now. now \in 0 .. MaxTime
  BY DEF TypeOK
<1>seats. seats \in [Seats -> Row]
  BY DEF TypeOK
<1>wf. RowsWellFormed
  BY DEF TypeOK
<1>redis. redis \in [Seats -> Holds \cup {NoHold}]
  BY DEF TypeOK
<1>acq. acq \in [Holds -> Invocation]
  BY DEF TypeOK
<1>call. call \in [Callers -> Call]
  BY DEF TypeOK
<1>outbox. outbox \in [Seats -> Event]
  BY DEF TypeOK
<1>idle. IdleCall \in Call
  BY DEF IdleCall, Call
<1>new. \A h \in Holds, S \in SUBSET Seats, step \in {"release", "extend", "fences"} :
         NewCall(step, h, S) \in Call
  BY <1>idle DEF NewCall, Call, IdleCall
<1>0. CASE UNCHANGED vars
  BY <1>0 DEF vars, TypeOK, RowsWellFormed
<1>1. ASSUME NEW h \in Holds, NEW S \in SUBSET Seats, RequestHold(h, S) PROVE TypeOK'
  <2>1. acq' \in [Holds -> Invocation]
    <3>1. [acq[h] EXCEPT !.pc = "redis"] \in Invocation
      BY <1>acq, InvocationUpdates
    <3>2. [acq[h] EXCEPT !.pc = "redis", !.want = S] \in Invocation
      BY <3>1, InvocationUpdates
    <3>3. [acq[h] EXCEPT !.pc = "redis", !.want = S, !.todo = S] \in Invocation
      BY <3>2, InvocationUpdates
    <3>4. QED
      BY <1>1, <1>acq, <3>3 DEF RequestHold
  <2>2. QED
    BY <1>1, <2>1 DEF RequestHold, TypeOK, RowsWellFormed
<1>2. ASSUME NEW h \in Holds, NEW s \in Seats, TakeKey(h, s) PROVE TypeOK'
  <2>1. redis' \in [Seats -> Holds \cup {NoHold}]
    BY <1>2, <1>redis DEF TakeKey
  <2>2. acq' \in [Holds -> Invocation]
    <3>1. [acq[h] EXCEPT !.todo = @ \ {s}] \in Invocation
      BY <1>acq, InvocationUpdates
    <3>2. [acq[h] EXCEPT !.todo = @ \ {s}, !.keys = @ \cup {s}] \in Invocation
      BY <3>1, <1>acq, InvocationUpdates
    <3>3. QED
      BY <1>2, <1>acq, <3>2 DEF TakeKey
  <2>3. QED
    BY <1>2, <2>1, <2>2 DEF TakeKey, TypeOK, RowsWellFormed
<1>3. ASSUME NEW h \in Holds, NEW s \in Seats, LoseKey(h, s) PROVE TypeOK'
  <2>1. acq' \in [Holds -> Invocation]
    BY <1>3, <1>acq DEF LoseKey, Invocation
  <2>2. QED
    BY <1>3, <2>1 DEF LoseKey, TypeOK, RowsWellFormed
<1>4. ASSUME NEW h \in Holds, NEW s \in Seats, DegradeToDB(h, s) PROVE TypeOK'
  <2>1. redis' \in [Seats -> Holds \cup {NoHold}]
    BY <1>4, <1>redis DEF DegradeToDB
  <2>2. acq' \in [Holds -> Invocation]
    BY <1>4, <1>acq DEF DegradeToDB, Invocation
  <2>3. QED
    BY <1>4, <2>1, <2>2 DEF DegradeToDB, TypeOK, RowsWellFormed
<1>5. ASSUME NEW h \in Holds, NEW s \in Seats, ReturnKey(h, s) PROVE TypeOK'
  <2>1. redis' \in [Seats -> Holds \cup {NoHold}]
    BY <1>5, <1>redis DEF ReturnKey, TryDelete, CompareAndDelete
  <2>2. acq' \in [Holds -> Invocation]
    BY <1>5, <1>acq DEF ReturnKey, Invocation
  <2>3. QED
    BY <1>5, <2>1, <2>2 DEF ReturnKey, TypeOK, RowsWellFormed
<1>6. ASSUME NEW h \in Holds, BeginAcquire(h) PROVE TypeOK'
  <2>1. acq' \in [Holds -> Invocation]
    BY <1>6, <1>acq, <1>now DEF BeginAcquire, Invocation
  <2>2. QED
    BY <1>6, <2>1 DEF BeginAcquire, TypeOK, RowsWellFormed
<1>7. ASSUME NEW h \in Holds, CommitAcquire(h) PROVE TypeOK'
  <2>0. ASSUME NEW s \in Seats
        PROVE  LET r == HeldRow(seats[s], h, acq[h].at)
               IN  r \in Row /\ r.status = "HELD" /\ r.hold = h /\ r.booking = seats[s].booking
    <3>0. acq[h].at \in 0 .. MaxTime
      BY <1>acq, InvocationUpdates
    <3>1. acq[h].at \in Nat /\ acq[h].at + HoldTTL <= LastExpiry
      BY <1>7, <3>0 DEF CommitAcquire
    <3>2. seats[s] \in Row
      BY <1>seats
    <3>3. QED
      BY ONLY <3>1, <3>2, h \in Holds, HeldRowFields
  <2>1. seats' \in [Seats -> Row]
    BY <1>7, <1>seats, <2>0 DEF CommitAcquire
  <2>2. RowsWellFormed'
    BY <1>7, <1>wf, <1>seats, <2>0 DEF CommitAcquire, Acquirable, RowsWellFormed, Live
  <2>3. outbox' \in [Seats -> Event]
    BY <1>7, <1>outbox DEF CommitAcquire, Acquirable, HeldRow, Publish, Event
  <2>4. acq' \in [Holds -> Invocation]
    <3>1. [acq[h] EXCEPT !.pc = "held"] \in Invocation /\ [acq[h] EXCEPT !.pc = "failing"] \in Invocation
      BY <1>acq, InvocationUpdates
    <3>2. [acq[h] EXCEPT !.pc = "held", !.keys = {}] \in Invocation
      BY <3>1, InvocationUpdates
    <3>3. /\ [acq[h] EXCEPT !.pc = "held", !.keys = {}, !.at = 0] \in Invocation
          /\ [acq[h] EXCEPT !.pc = "failing", !.at = 0] \in Invocation
      BY <3>1, <3>2, InvocationUpdates, 0 \in 0 .. MaxTime
    <3>4. QED
      BY <1>7, <1>acq, <3>3 DEF CommitAcquire
  <2>5. QED
    BY <1>7, <2>1, <2>2, <2>3, <2>4 DEF CommitAcquire, TypeOK
<1>8. ASSUME NEW h \in Holds, RollBackAcquire(h) PROVE TypeOK'
  <2>1. acq' \in [Holds -> Invocation]
    <3>1. [acq[h] EXCEPT !.pc = "failing"] \in Invocation
      BY <1>acq, InvocationUpdates
    <3>2. [acq[h] EXCEPT !.pc = "failing", !.at = 0] \in Invocation
      BY <3>1, InvocationUpdates, 0 \in 0 .. MaxTime
    <3>3. QED
      BY <1>8, <1>acq, <3>2 DEF RollBackAcquire
  <2>2. QED
    BY <1>8, <2>1 DEF RollBackAcquire, TypeOK, RowsWellFormed
<1>9. ASSUME NEW h \in Holds, CrashAcquire(h) PROVE TypeOK'
  <2>1. acq' \in [Holds -> Invocation]
    <3>1. [acq[h] EXCEPT !.pc = "failing"] \in Invocation
      BY <1>acq, InvocationUpdates
    <3>2. [acq[h] EXCEPT !.pc = "failing", !.todo = {}] \in Invocation
      BY <3>1, InvocationUpdates
    <3>3. [acq[h] EXCEPT !.pc = "failing", !.todo = {}, !.keys = {}] \in Invocation
      BY <3>2, InvocationUpdates
    <3>4. [acq[h] EXCEPT !.pc = "failing", !.todo = {}, !.keys = {}, !.at = 0] \in Invocation
      BY <3>3, InvocationUpdates, 0 \in 0 .. MaxTime
    <3>5. QED
      BY <1>9, <1>acq, <3>4 DEF CrashAcquire
  <2>2. QED
    BY <1>9, <2>1 DEF CrashAcquire, TypeOK, RowsWellFormed
<1>10. ASSUME NEW h \in Holds, NEW w \in Workers, NEW step \in {"release", "extend", "fences"},
              StartCall(w, h, step)
       PROVE TypeOK'
  <2>1. call' \in [Callers -> Call]
    <3>1. SeatsOf(h) \subseteq Seats /\ acq[h].want \subseteq Seats
      BY <1>acq, InvocationUpdates DEF SeatsOf
    <3>2. PICK S \in SUBSET Seats : call' = [call EXCEPT ![w] = NewCall(step, h, S)]
      BY <1>10, <3>1 DEF StartCall
    <3>3. QED
      BY <3>2, <1>call, <1>new DEF Callers
  <2>2. QED
    BY <1>10, <2>1 DEF StartCall, TypeOK, RowsWellFormed
<1>11. ASSUME NEW h \in Holds, ReaperVisit(h) PROVE TypeOK'
  <2>1. call' \in [Callers -> Call]
    <3>1. SeatsOf(h) \subseteq Seats
      BY DEF SeatsOf
    <3>2. QED
      BY <1>11, <3>1, <1>call, <1>new DEF ReaperVisit, Callers
  <2>2. QED
    BY <1>11, <2>1 DEF ReaperVisit, TypeOK, RowsWellFormed
<1>12. ASSUME NEW w \in Callers, NEW s \in Seats, DropKey(w, s) PROVE TypeOK'
  <2>1. redis' \in [Seats -> Holds \cup {NoHold}]
    BY <1>12, <1>redis, <1>call DEF DropKey, TryDelete, CompareAndDelete, Call
  <2>2. call' \in [Callers -> Call]
    BY <1>12, <1>call DEF DropKey, Call
  <2>3. QED
    BY <1>12, <2>1, <2>2 DEF DropKey, TypeOK, RowsWellFormed
<1>13. ASSUME NEW w \in Callers, ReleaseHold(w) PROVE TypeOK'
  <2>1. seats' \in [Seats -> Row]
    BY <1>13, <1>seats, FreedRowFields DEF ReleaseHold
  <2>2. RowsWellFormed'
    BY <1>13, <1>wf, <1>seats, FreedRowFields DEF ReleaseHold, Releasable, RowsWellFormed, Live
  <2>3. outbox' \in [Seats -> Event]
    BY <1>13, <1>outbox, <1>call DEF ReleaseHold, Releasable, FreedRow, Publish, Event, Call
  <2>4. call' \in [Callers -> Call]
    BY <1>13, <1>call, <1>idle DEF ReleaseHold
  <2>5. QED
    BY <1>13, <2>1, <2>2, <2>3, <2>4 DEF ReleaseHold, TypeOK
<1>14. ASSUME NEW w \in Callers, NEW x \in Extensions, ExtendHold(w, x) PROVE TypeOK'
  <2>0. ASSUME NEW s \in Seats
        PROVE  LET r == ExtendedRow(seats[s], call[w].at + x)
               IN  /\ r \in Row /\ r.status = "PENDING_PAYMENT"
                   /\ r.hold = seats[s].hold /\ r.booking = seats[s].booking
    <3>1. call[w].at \in 0 .. MaxTime
      BY <1>call, CallUpdates
    <3>2. call[w].at + x \in 0 .. MaxTime
      BY <1>14, <3>1 DEF ExtendHold
    <3>3. seats[s] \in Row
      BY <1>seats
    <3>4. QED
      BY ONLY <3>2, <3>3, ExtendedRowFields
  <2>1. seats' \in [Seats -> Row]
    BY <1>14, <1>seats, <2>0 DEF ExtendHold
  <2>2. RowsWellFormed'
    BY <1>14, <1>wf, <1>seats, <2>0 DEF ExtendHold, Extendable, Releasable, RowsWellFormed, Live
  <2>3. call' \in [Callers -> Call]
    BY <1>14, <1>call, <1>idle DEF ExtendHold
  <2>4. QED
    BY <1>14, <2>1, <2>2, <2>3 DEF ExtendHold, TypeOK
<1>15. ASSUME NEW w \in Callers, ReadFences(w) PROVE TypeOK'
  <2>1. call' \in [Callers -> Call]
    <3> DEFINE f == [s \in Seats |-> IF s \in SeatsOf(call[w].hold) THEN seats[s].fence ELSE 0]
    <3>1. f \in [Seats -> Nat]
      BY <1>seats DEF Row
    <3>2. [call[w] EXCEPT !.step = "begin"] \in Call
      BY <1>call, CallUpdates
    <3>3. [call[w] EXCEPT !.step = "begin", !.fence = f] \in Call
      BY <3>1, <3>2, CallUpdates
    <3>4. QED
      BY <1>15, <1>call, <3>3 DEF ReadFences
  <2>2. QED
    BY <1>15, <2>1 DEF ReadFences, TypeOK, RowsWellFormed
<1>16. ASSUME NEW w \in Callers, BeginCall(w) PROVE TypeOK'
  <2>1. call' \in [Callers -> Call]
    <3>1. /\ [call[w] EXCEPT !.step = "confirm"] \in Call
          /\ [call[w] EXCEPT !.step = "extending"] \in Call
      BY <1>call, CallUpdates
    <3>2. /\ [call[w] EXCEPT !.step = "confirm", !.at = now] \in Call
          /\ [call[w] EXCEPT !.step = "extending", !.at = now] \in Call
      BY <3>1, <1>now, CallUpdates
    <3>3. QED
      BY <1>16, <1>call, <3>2 DEF BeginCall
  <2>2. QED
    BY <1>16, <2>1 DEF BeginCall, TypeOK, RowsWellFormed
<1>17. ASSUME NEW w \in Callers, ConfirmSeats(w) PROVE TypeOK'
  <2>h. \A s \in Confirmable(call[w]) : call[w].hold \in Holds
    BY <1>wf, <1>call, CallUpdates DEF Confirmable, Extendable, Releasable, RowsWellFormed
  <2>0. \A s \in Confirmable(call[w]) :
          LET r == BookedRow(seats[s], call[w].hold)
          IN  r \in Row /\ r.status = "BOOKED" /\ r.hold = NoHold /\ r.booking \in Holds
    <3>1. Confirmable(call[w]) \subseteq Seats
      BY <1>call, CallUpdates DEF Confirmable, Extendable, Releasable
    <3>2. QED
      BY <2>h, <3>1, <1>seats, BookedRowFields
  <2>1. seats' \in [Seats -> Row]
    BY <2>0, <1>17, <1>seats DEF ConfirmSeats
  <2>2. RowsWellFormed'
    BY <2>0, <1>17, <1>wf, <1>seats DEF ConfirmSeats, RowsWellFormed, Live
  <2>3. outbox' \in [Seats -> Event]
    BY <1>17, <1>outbox, <1>call DEF ConfirmSeats, Confirmable, Releasable, BookedRow, Publish, Event, Call
  <2>4. call' \in [Callers -> Call]
    BY <1>17, <1>call, <1>idle DEF ConfirmSeats
  <2>5. QED
    BY <1>17, <2>1, <2>2, <2>3, <2>4 DEF ConfirmSeats, TypeOK
<1>18. ASSUME NEW w \in Callers, AbandonCall(w) PROVE TypeOK'
  <2>1. call' \in [Callers -> Call]
    BY <1>18, <1>call, <1>idle DEF AbandonCall
  <2>2. QED
    BY <1>18, <2>1 DEF AbandonCall, TypeOK, RowsWellFormed
<1>19. ASSUME NEW s \in Seats, RedisForgets(s) PROVE TypeOK'
  <2>1. redis' \in [Seats -> Holds \cup {NoHold}]
    BY <1>19, <1>redis DEF RedisForgets
  <2>2. QED
    BY <1>19, <2>1 DEF RedisForgets, TypeOK, RowsWellFormed
<1>20. CASE ReaperScan
  BY <1>20, <1>now DEF ReaperScan, TypeOK, RowsWellFormed, ExpiredHolds
<1>21. CASE ReaperCrash
  <2>1. call' \in [Callers -> Call]
    BY <1>21, <1>call, <1>idle DEF ReaperCrash, Callers
  <2>2. QED
    BY <1>21, <2>1 DEF ReaperCrash, TypeOK, RowsWellFormed
<1>22. CASE Tick
  BY <1>22, <1>now DEF Tick, TypeOK, RowsWellFormed
<1>23. QED
  BY <1>0, <1>1, <1>2, <1>3, <1>4, <1>5, <1>6, <1>7, <1>8, <1>9, <1>10, <1>11, <1>12, <1>13, <1>14,
     <1>15, <1>16, <1>17, <1>18, <1>19, <1>20, <1>21, <1>22 DEF Next

\* Type correctness: rows, Redis keys, invocations and calls keep their types, a
\* BOOKED row always has a booking and a held row a hold (the CHECK constraints).
THEOREM TypeCorrect == Spec => []TypeOK
  BY InitTypeOK, NextTypeOK, PTL DEF Spec

-----------------------------------------------------------------------------
(* The inductive invariant.                                                *)

\* Nothing is held, called or scanned in the initial state.
LEMMA InitIInv == Init => IInv
<1> SUFFICES ASSUME Init PROVE IInv
  OBVIOUS
<1>1. TypeOK
  BY InitTypeOK
<1>2. \A h \in Holds : SeatsOf(h) = {}
  BY DEF Init, SeatsOf
<1>3. RowsAreGranted /\ BookingIsWhole
  BY DEF Init, RowsAreGranted, BookingIsWhole
<1>4. HoldsLapseWhole /\ BeginsArePast
  BY DEF Init, HoldsLapseWhole, BeginsArePast, IdleCall
<1>5. CallsCoverHolds /\ ReaperSeesLapsed
  BY DEF Init, CallsCoverHolds, CoversHold, ReaperSeesLapsed, IdleCall, Callers
<1>6. QED
  BY <1>1, <1>3, <1>4, <1>5 DEF IInv

\* A step of AcquireHold that touches no row keeps the invariant if it takes no
\* decision back.
LEMMA AcquireFrame ==
  ASSUME IInv, TypeOK', UNCHANGED <<now, seats, call, scan>>,
         \A g \in Holds : /\ acq'[g].want = acq[g].want
                          /\ acq[g].pc = "idle" <=> acq'[g].pc = "idle"
                          /\ Decided(g) => Decided(g)'
                          /\ acq'[g].at <= now
  PROVE  IInv'
<1>0. \A h : SeatsOf(h)' = SeatsOf(h)
  BY DEF SeatsOf
<1>1. RowsAreGranted'
  BY DEF IInv, RowsAreGranted
<1>2. HoldsLapseWhole' /\ BookingIsWhole' /\ BeginsArePast'
  BY DEF IInv, HoldsLapseWhole, BookingIsWhole, BeginsArePast
<1>3. CallsCoverHolds'
  <2> SUFFICES ASSUME NEW w \in Callers PROVE CoversHold(call[w])'
    BY DEF CallsCoverHolds
  <2>1. CoversHold(call[w])
    BY DEF IInv, CallsCoverHolds
  <2>2. QED
    BY <1>0, <2>1 DEF CoversHold
<1>4. \A h \in Holds : Lapsed(h) => Lapsed(h)'
  BY <1>0 DEF Lapsed, SeatsOf
<1>5. ReaperSeesLapsed'
  <2>1. scan \subseteq Holds
    BY DEF IInv, TypeOK
  <2>2. call[Reaper].step # "none" => call[Reaper].hold \in Holds
    BY DEF IInv, CallsCoverHolds, CoversHold, Callers
  <2>3. QED
    BY <1>4, <2>1, <2>2 DEF IInv, ReaperSeesLapsed
<1>6. QED
  BY <1>1, <1>2, <1>3, <1>5 DEF IInv

\* A step of one caller that touches no row keeps the invariant if the call still
\* covers its hold and the reaper still sees only lapsed holds.
LEMMA CallFrame ==
  ASSUME IInv, TypeOK', UNCHANGED <<now, seats, acq>>,
         NEW w \in Callers, NEW c, call' = [call EXCEPT ![w] = c] \/ call' = call,
         CoversHold(c), c.at <= now, ReaperSeesLapsed'
  PROVE  IInv'
<1>0. \A h : SeatsOf(h)' = SeatsOf(h)
  BY DEF SeatsOf
<1>1. \A v \in Callers : call'[v] = call[v] \/ call'[v] = c
  BY DEF IInv, TypeOK
<1>2. RowsAreGranted' /\ HoldsLapseWhole' /\ BookingIsWhole'
  <2>1. RowsAreGranted'
    BY DEF IInv, RowsAreGranted, Decided
  <2>2. HoldsLapseWhole'
    BY DEF IInv, HoldsLapseWhole
  <2>3. BookingIsWhole'
    BY DEF IInv, BookingIsWhole
  <2>4. QED
    BY <2>1, <2>2, <2>3
<1>3. BeginsArePast'
  BY <1>1 DEF IInv, BeginsArePast
<1>4. CallsCoverHolds'
  <2> SUFFICES ASSUME NEW v \in Callers PROVE CoversHold(call[v])'
    BY DEF CallsCoverHolds
  <2>1. CoversHold(call'[v])
    BY <1>1 DEF IInv, CallsCoverHolds
  <2>2. QED
    BY <1>0, <2>1 DEF CoversHold, Decided
<1>5. QED
  BY <1>2, <1>3, <1>4 DEF IInv

\* When the rows of a decided hold only leave it, or keep their expiry, calls
\* that go on still cover their holds and what has lapsed stays so.
LEMMA ShrinkingHolds ==
  ASSUME IInv, now' = now,
         \A h \in Holds : Decided(h) => /\ Decided(h)' /\ acq'[h].want = acq[h].want
                                        /\ SeatsOf(h)' \subseteq SeatsOf(h)
                                        /\ \A s \in SeatsOf(h)' : seats'[s].expires = seats[s].expires,
         \A w \in Callers : call'[w] = call[w] \/ call'[w] = IdleCall,
         scan' \subseteq scan
  PROVE  CallsCoverHolds' /\ ReaperSeesLapsed' /\ \A w \in Callers : call'[w].at <= now'
<1>1. CallsCoverHolds'
  <2> SUFFICES ASSUME NEW w \in Callers PROVE CoversHold(call[w])'
    BY DEF CallsCoverHolds
  <2>1. CASE call'[w] = IdleCall
    BY <2>1 DEF CoversHold, IdleCall
  <2>2. CASE call'[w] = call[w]
    <3>1. CoversHold(call[w])
      BY DEF IInv, CallsCoverHolds
    <3>2. QED
      BY <2>2, <3>1 DEF CoversHold
  <2>3. QED
    BY <2>1, <2>2
<1>2. \A h \in Holds : Lapsed(h) => Lapsed(h)'
  BY DEF Lapsed
<1>3. ReaperSeesLapsed'
  <2>1. scan \subseteq Holds
    BY DEF IInv, TypeOK
  <2>2. call[Reaper].step # "none" => call[Reaper].hold \in Holds
    BY DEF IInv, CallsCoverHolds, CoversHold, Callers
  <2>3. call'[Reaper] = call[Reaper] \/ call'[Reaper] = IdleCall
    BY DEF Callers
  <2>4. QED
    BY <1>2, <2>1, <2>2, <2>3 DEF IInv, ReaperSeesLapsed, IdleCall
<1>4. \A w \in Callers : call'[w].at <= now'
  BY DEF IInv, BeginsArePast, IdleCall, TypeOK
<1>5. QED
  BY <1>1, <1>3, <1>4

\* Before the decision a hold owns no row.
LEMMA UndecidedOwnsNothing ==
  ASSUME IInv, NEW h \in Holds, ~Decided(h)
  PROVE  SeatsOf(h) = {} /\ \A s \in Seats : seats[s].hold # h /\ seats[s].booking # h
  BY DEF IInv, RowsAreGranted, SeatsOf

\* AcquireHold commits: its seats were free or held by holds that had lapsed as a
\* whole, so nothing but the new hold gains a seat.
LEMMA CommitKeepsIInv ==
  ASSUME IInv, TypeOK', NEW h \in Holds, CommitAcquire(h)
  PROVE  IInv'
<1>seats. seats \in [Seats -> Row] /\ RowsWellFormed
  BY DEF IInv, TypeOK
<1>acq. acq \in [Holds -> Invocation] /\ acq[h] \in Invocation /\ acq[h].want \subseteq Seats
  BY DEF IInv, TypeOK, Invocation
<1>now. now \in Nat /\ now' = now /\ scan' = scan /\ call' = call
  BY DEF IInv, TypeOK, CommitAcquire
<1>at. acq[h].at \in Nat /\ acq[h].at <= now
  <2>1. acq[h].at \in 0 .. MaxTime
    BY <1>acq, InvocationUpdates
  <2>2. QED
    BY <2>1 DEF IInv, BeginsArePast
<1>h. ~Decided(h) /\ acq[h].want # {}
  <2>1. acq[h].pc = "cas"
    BY DEF CommitAcquire
  <2>2. QED
    BY <2>1 DEF Decided, IInv, RowsAreGranted
<1>own. SeatsOf(h) = {} /\ \A s \in Seats : seats[s].hold # h /\ seats[s].booking # h
  BY <1>h, UndecidedOwnsNothing
<1>1. \A s \in Seats \ acq[h].want : seats'[s] = seats[s]
  BY <1>acq DEF CommitAcquire
<1>2. ASSUME NEW s \in acq[h].want
      PROVE  /\ seats'[s].hold = h /\ seats'[s].expires = acq[h].at + HoldTTL
             /\ seats'[s].booking = seats[s].booking
  <2>1. acq[h].at + HoldTTL <= LastExpiry /\ seats'[s] = HeldRow(seats[s], h, acq[h].at)
    BY <1>acq DEF CommitAcquire
  <2>2. seats[s] \in Row
    BY <1>seats, <1>acq
  <2>3. QED
    BY ONLY <2>1, <2>2, <1>at, h \in Holds, HeldRowFields
<1>3. \A s \in acq[h].want : seats[s].hold # NoHold => seats[s].expires < now
  BY <1>at, <1>seats, <1>acq, <1>now DEF CommitAcquire, Acquirable, RowsWellFormed, Row, Live
<1>4. \A g \in Holds : acq'[g].want = acq[g].want
  BY <1>acq DEF CommitAcquire, Invocation
<1>5. Decided(h)'
  BY <1>acq DEF CommitAcquire, Invocation, Decided
<1>6. \A g \in Holds \ {h} : acq'[g] = acq[g]
  BY <1>acq DEF CommitAcquire
<1>7. \A g \in Holds \ {h}, s \in Seats :
         seats'[s].hold = g => seats'[s] = seats[s] /\ s \notin acq[h].want
  BY <1>1, <1>2
<1>8. \A s \in Seats : seats'[s].booking = seats[s].booking
  BY <1>1, <1>2
<1>9. RowsAreGranted'
  <2> SUFFICES ASSUME NEW g \in Holds
               PROVE  /\ acq'[g].pc = "idle" <=> acq'[g].want = {}
                      /\ \A s \in Seats : seats'[s].hold = g \/ seats'[s].booking = g
                                           => Decided(g)' /\ s \in acq'[g].want \cap Sellable
    BY DEF RowsAreGranted
  <2>1. CASE g = h
    <3>1. acq[h].want \subseteq Sellable
      BY DEF CommitAcquire, Acquirable
    <3>2. QED
      BY <3>1, <2>1, <1>h, <1>own, <1>1, <1>4, <1>5, <1>8 DEF Decided
  <2>2. CASE g # h
    BY <2>2, <1>6, <1>7, <1>8 DEF IInv, RowsAreGranted, Decided
  <2>3. QED
    BY <2>1, <2>2
<1>10. HoldsLapseWhole'
  <2> SUFFICES ASSUME NEW g \in Holds, NEW s \in acq[g].want, NEW t \in acq[g].want, seats'[s].hold = g
               PROVE  IF seats'[t].hold = g THEN seats'[t].expires = seats'[s].expires
                                            ELSE seats'[s].expires < now
    BY <1>4, <1>now DEF HoldsLapseWhole
  <2>0. s \in Seats /\ t \in Seats
    BY <1>acq, InvocationUpdates
  <2>1. CASE g = h
    BY <2>1, <1>2
  <2>2. CASE g # h
    <3>1. seats'[s] = seats[s]
      BY <2>0, <2>2, <1>7
    <3>2. IF seats[t].hold = g THEN seats[t].expires = seats[s].expires ELSE seats[s].expires < now
      BY <3>1 DEF IInv, HoldsLapseWhole
    <3>3. CASE t \in acq[h].want
      BY <3>1, <3>2, <3>3, <2>2, <1>2, <1>3, NoHoldAssumption
    <3>4. CASE t \notin acq[h].want
      BY <3>1, <3>2, <3>4, <2>0, <1>1
    <3>5. QED
      BY <3>3, <3>4
  <2>3. QED
    BY <2>1, <2>2
<1>11. BookingIsWhole'
  <2>1. \A g \in Holds : {s \in Seats : seats'[s].booking = g} = {s \in Seats : seats[s].booking = g}
    BY <1>8
  <2>2. QED
    BY <2>1, <1>4 DEF IInv, BookingIsWhole
<1>12. CallsCoverHolds' /\ ReaperSeesLapsed' /\ \A w \in Callers : call'[w].at <= now'
  <2>1. ASSUME NEW g \in Holds, Decided(g)
        PROVE  /\ Decided(g)' /\ acq'[g].want = acq[g].want
               /\ SeatsOf(g)' \subseteq SeatsOf(g)
               /\ \A s \in SeatsOf(g)' : seats'[s].expires = seats[s].expires
    BY <2>1, <1>h, <1>4, <1>6, <1>7 DEF Decided, SeatsOf
  <2>2. QED
    BY <2>1, <1>now, ShrinkingHolds
<1>13. BeginsArePast'
  <2>1. acq'[h].at = 0
    BY <1>acq DEF CommitAcquire, Invocation
  <2>2. QED
    BY <2>1, <1>6, <1>12, <1>now DEF IInv, BeginsArePast
<1>14. QED
  BY <1>9, <1>10, <1>11, <1>12, <1>13 DEF IInv

\* ReleaseHold frees everything its hold still has: the call covers the hold.
LEMMA ReleaseKeepsIInv ==
  ASSUME IInv, TypeOK', NEW w \in Callers, ReleaseHold(w)
  PROVE  IInv'
<1> DEFINE g == call[w].hold
<1>seats. seats \in [Seats -> Row] /\ RowsWellFormed
  BY DEF IInv, TypeOK
<1>same. now' = now /\ acq' = acq /\ scan' = scan /\ call' = [call EXCEPT ![w] = IdleCall]
  BY DEF ReleaseHold
<1>cov. g \in Holds /\ SeatsOf(g) \subseteq call[w].seats /\ call[w].seats \subseteq Seats
  <2>1. call[w].step # "none" /\ CoversHold(call[w])
    BY DEF ReleaseHold, IInv, CallsCoverHolds
  <2>2. call[w].seats \subseteq Seats
    BY CallUpdates DEF IInv, TypeOK
  <2>3. QED
    BY <2>1, <2>2 DEF CoversHold
<1>1. Releasable(call[w].seats, g) = SeatsOf(g)
  BY <1>cov, <1>seats, NoHoldAssumption DEF Releasable, SeatsOf, RowsWellFormed
<1>2. \A s \in Seats \ SeatsOf(g) : seats'[s] = seats[s]
  BY <1>1 DEF ReleaseHold
<1>3. \A s \in SeatsOf(g) : seats'[s].hold = NoHold /\ seats'[s].booking = seats[s].booking
  BY <1>1, <1>seats, FreedRowFields DEF ReleaseHold, SeatsOf
<1>4. \A s \in Seats : seats'[s].booking = seats[s].booking
  BY <1>2, <1>3
<1>5. \A h \in Holds, s \in Seats : seats'[s].hold = h => seats'[s] = seats[s] /\ h # g
  BY <1>2, <1>3, NoHoldAssumption DEF SeatsOf
<1>6. RowsAreGranted'
  BY <1>same, <1>4, <1>5 DEF IInv, RowsAreGranted, Decided
<1>7. HoldsLapseWhole'
  <2> SUFFICES ASSUME NEW h \in Holds, NEW s \in acq[h].want, NEW t \in acq[h].want, seats'[s].hold = h
               PROVE  IF seats'[t].hold = h THEN seats'[t].expires = seats'[s].expires
                                            ELSE seats'[s].expires < now
    BY <1>same DEF HoldsLapseWhole
  <2>1. s \in Seats /\ t \in Seats
    BY InvocationUpdates DEF IInv, TypeOK
  <2>2. seats'[s] = seats[s] /\ h # g
    BY <1>5, <2>1
  <2>3. seats'[t].hold = h <=> seats[t].hold = h
    BY <1>2, <1>3, <1>5, <2>1, <2>2 DEF SeatsOf
  <2>4. seats'[t].hold = h => seats'[t] = seats[t]
    BY <1>5, <2>1
  <2>5. QED
    BY <2>2, <2>3, <2>4 DEF IInv, HoldsLapseWhole
<1>8. BookingIsWhole'
  <2>1. \A h \in Holds : {s \in Seats : seats'[s].booking = h} = {s \in Seats : seats[s].booking = h}
    BY <1>4
  <2>2. QED
    BY <2>1, <1>same DEF IInv, BookingIsWhole
<1>9. CallsCoverHolds' /\ ReaperSeesLapsed' /\ \A v \in Callers : call'[v].at <= now'
  <2>1. \A h \in Holds : /\ SeatsOf(h)' \subseteq SeatsOf(h)
                         /\ \A s \in SeatsOf(h)' : seats'[s].expires = seats[s].expires
    BY <1>5 DEF SeatsOf
  <2>2. \A v \in Callers : call'[v] = call[v] \/ call'[v] = IdleCall
    BY <1>same DEF IInv, TypeOK
  <2>3. \A h \in Holds : Decided(h) => Decided(h)' /\ acq'[h].want = acq[h].want
    BY <1>same DEF Decided
  <2>4. QED
    BY <2>1, <2>2, <2>3, <1>same, ShrinkingHolds
<1>10. BeginsArePast'
  BY <1>same, <1>9 DEF IInv, BeginsArePast
<1>11. QED
  BY <1>6, <1>7, <1>8, <1>9, <1>10 DEF IInv

\* ConfirmSeats books exactly the seats that were requested: had the list it was
\* given been shorter, the hold would have lapsed before the transaction began.
LEMMA ConfirmKeepsIInv ==
  ASSUME IInv, TypeOK', NEW w \in Callers, ConfirmSeats(w)
  PROVE  IInv'
<1> DEFINE g == call[w].hold
           S == call[w].seats
<1>seats. seats \in [Seats -> Row] /\ RowsWellFormed
  BY DEF IInv, TypeOK
<1>same. now' = now /\ acq' = acq /\ scan' = scan /\ call' = [call EXCEPT ![w] = IdleCall]
  BY DEF ConfirmSeats
<1>cov. /\ g \in Holds /\ Decided(g) /\ S # {} /\ SeatsOf(g) \subseteq S /\ S \subseteq acq[g].want
        /\ S # acq[g].want => \A s \in SeatsOf(g) : seats[s].expires < call[w].at
  <2>1. call[w].step = "confirm" /\ CoversHold(call[w])
    BY DEF ConfirmSeats, IInv, CallsCoverHolds
  <2>2. QED
    BY <2>1 DEF CoversHold
<1>sub. S \subseteq Seats /\ call[w].at \in Nat
  <2>1. call[w] \in Call
    BY DEF IInv, TypeOK
  <2>2. S \subseteq Seats /\ call[w].at \in 0 .. MaxTime
    BY <2>1, CallUpdates
  <2>3. QED
    BY <2>2
<1>1. \A s \in S : /\ seats[s].hold = g /\ seats[s].status \in Live
                   /\ seats[s].expires \in Nat /\ seats[s].expires > call[w].at
  <2>1. \A s \in S : seats[s].hold = g /\ seats[s].status \in Live /\ seats[s].expires > call[w].at
    BY DEF ConfirmSeats, Confirmable, Extendable, Releasable
  <2>2. \A s \in S : seats[s].expires \in 0 .. MaxTime
    BY <1>seats, <1>sub DEF Row
  <2>3. QED
    BY <2>1, <2>2
<1>2. S = SeatsOf(g)
  BY <1>1, <1>cov, <1>sub DEF SeatsOf
<1>3. S = acq[g].want
  BY <1>1, <1>2, <1>cov, <1>sub
<1>4. \A s \in Seats \ S : seats'[s] = seats[s]
  BY DEF ConfirmSeats
<1>5. \A s \in S : seats'[s].hold = NoHold /\ seats'[s].booking = g
  BY <1>seats, <1>sub, <1>cov, BookedRowFields DEF ConfirmSeats
<1>6. \A s \in S : seats[s].booking = NoHold
  BY <1>1, <1>sub, <1>seats DEF RowsWellFormed, Row, Live
<1>7. \A h \in Holds, s \in Seats : seats'[s].hold = h => seats'[s] = seats[s] /\ h # g
  BY <1>2, <1>4, <1>5, NoHoldAssumption DEF SeatsOf
<1>8. RowsAreGranted'
  <2> SUFFICES ASSUME NEW h \in Holds, NEW s \in Seats, seats'[s].hold = h \/ seats'[s].booking = h
               PROVE  Decided(h) /\ s \in acq[h].want \cap Sellable
    BY <1>same DEF RowsAreGranted, IInv, Decided
  <2>1. \A f \in Holds : seats[s].hold = f \/ seats[s].booking = f
               => Decided(f) /\ s \in acq[f].want \cap Sellable
    BY DEF IInv, RowsAreGranted
  <2>2. CASE s \in S
    <3>1. seats[s].hold = g /\ h = g
      BY <2>2, <1>1, <1>5, NoHoldAssumption
    <3>2. QED
      BY <3>1, <2>1
  <2>3. CASE s \notin S
    BY <2>3, <2>1, <1>4
  <2>4. QED
    BY <2>2, <2>3
<1>9. HoldsLapseWhole'
  <2> SUFFICES ASSUME NEW h \in Holds, NEW s \in acq[h].want, NEW t \in acq[h].want, seats'[s].hold = h
               PROVE  IF seats'[t].hold = h THEN seats'[t].expires = seats'[s].expires
                                            ELSE seats'[s].expires < now
    BY <1>same DEF HoldsLapseWhole
  <2>1. s \in Seats /\ t \in Seats
    BY InvocationUpdates DEF IInv, TypeOK
  <2>2. seats'[s] = seats[s] /\ h # g
    BY <1>7, <2>1
  <2>3. seats'[t].hold = h <=> seats[t].hold = h
    BY <1>2, <1>4, <1>5, <1>7, <2>1, <2>2 DEF SeatsOf
  <2>4. seats'[t].hold = h => seats'[t] = seats[t]
    BY <1>7, <2>1
  <2>5. QED
    BY <2>2, <2>3, <2>4 DEF IInv, HoldsLapseWhole
<1>10. BookingIsWhole'
  <2> SUFFICES ASSUME NEW h \in Holds
               PROVE  {s \in Seats : seats'[s].booking = h} \in {{}, acq[h].want}
    BY <1>same DEF BookingIsWhole
  <2>1. {s \in Seats : seats[s].booking = h} \in {{}, acq[h].want}
    BY DEF IInv, BookingIsWhole
  <2>2. CASE h # g
    <3>1. \A s \in Seats : seats'[s].booking = h <=> seats[s].booking = h
      BY <2>2, <1>4, <1>5, <1>6, NoHoldAssumption
    <3>2. QED
      BY <2>1, <3>1
  <2>3. CASE h = g
    <3>1. \A s \in Seats : seats[s].booking = g => s \in S
      BY <1>3, <1>cov DEF IInv, RowsAreGranted
    <3>2. {s \in Seats : seats'[s].booking = g} = S
      BY <3>1, <1>4, <1>5, <1>sub
    <3>3. QED
      BY <2>3, <3>2, <1>3
  <2>4. QED
    BY <2>2, <2>3
<1>11. CallsCoverHolds' /\ ReaperSeesLapsed' /\ \A v \in Callers : call'[v].at <= now'
  <2>1. \A h \in Holds : /\ SeatsOf(h)' \subseteq SeatsOf(h)
                         /\ \A s \in SeatsOf(h)' : seats'[s].expires = seats[s].expires
    BY <1>7 DEF SeatsOf
  <2>2. \A v \in Callers : call'[v] = call[v] \/ call'[v] = IdleCall
    BY <1>same DEF IInv, TypeOK
  <2>3. \A h \in Holds : Decided(h) => Decided(h)' /\ acq'[h].want = acq[h].want
    BY <1>same DEF Decided
  <2>4. QED
    BY <2>1, <2>2, <2>3, <1>same, ShrinkingHolds
<1>12. BeginsArePast'
  BY <1>same, <1>11 DEF IInv, BeginsArePast
<1>13. QED
  BY <1>8, <1>9, <1>10, <1>11, <1>12 DEF IInv

\* ExtendHold prolongs its hold as a whole or not at all, provided its statement
\* commits before the clock moves on.
LEMMA ExtendKeepsIInv ==
  ASSUME ~SlowExtends, IInv, TypeOK', NEW w \in Callers, NEW x \in Extensions, ExtendHold(w, x)
  PROVE  IInv'
<1> DEFINE g == call[w].hold
           E == Extendable(call[w])
           T == call[w].at + x
<1>seats. seats \in [Seats -> Row] /\ RowsWellFormed
  BY DEF IInv, TypeOK
<1>same. /\ now' = now /\ acq' = acq /\ scan' = scan /\ call' = [call EXCEPT ![w] = IdleCall]
         /\ call[w].at = now
  BY DEF ExtendHold
<1>now. now \in 0 .. MaxTime /\ T \in 0 .. MaxTime /\ x \in Nat /\ T = now + x
  <2>1. now \in 0 .. MaxTime
    BY DEF IInv, TypeOK
  <2>2. T <= LastExpiry
    BY DEF ExtendHold
  <2>3. QED
    BY <2>1, <2>2, <1>same
<1>cov. /\ g \in Holds /\ Decided(g) /\ SeatsOf(g) \subseteq call[w].seats
        /\ call[w].seats \subseteq Seats
  <2>1. call[w].step # "none" /\ CoversHold(call[w])
    BY DEF ExtendHold, IInv, CallsCoverHolds
  <2>2. call[w].seats \subseteq Seats
    BY CallUpdates DEF IInv, TypeOK
  <2>3. QED
    BY <2>1, <2>2 DEF CoversHold
<1>exp. \A s \in Seats : seats[s].expires \in 0 .. MaxTime
  BY <1>seats DEF Row
<1>1. \A s \in Seats \ E : seats'[s] = seats[s]
  BY DEF ExtendHold
<1>2. ASSUME NEW s \in E
      PROVE  /\ s \in Seats /\ seats[s].hold = g /\ seats[s].expires > now
             /\ seats'[s].hold = g /\ seats'[s].booking = seats[s].booking
             /\ seats'[s].expires = IF seats[s].expires > T THEN seats[s].expires ELSE T
  <2>1. s \in Seats /\ seats[s].hold = g /\ seats[s].expires > now
    BY <1>cov, <1>same DEF Extendable, Releasable
  <2>2. seats[s] \in Row
    BY <1>seats, <2>1
  <2>3. seats'[s] = ExtendedRow(seats[s], T)
    BY <2>1 DEF ExtendHold
  <2>4. QED
    BY ONLY <2>1, <2>2, <2>3, <1>now, ExtendedRowFields
<1>3. \A s \in Seats : seats'[s].hold = seats[s].hold /\ seats'[s].booking = seats[s].booking
  BY <1>1, <1>2
<1>4. \A h : SeatsOf(h)' = SeatsOf(h)
  BY <1>3 DEF SeatsOf
<1>5. \A s \in Seats : seats[s].hold # g => seats'[s] = seats[s]
  BY <1>1, <1>2
\* A hold of which one seat can be extended has all its seats, with one expiry.
<1>6. ASSUME NEW s \in acq[g].want, NEW t \in acq[g].want, s \in E
      PROVE  t \in E /\ seats[t].expires = seats[s].expires
  <2>1. s \in Seats /\ t \in Seats
    BY <1>cov, InvocationUpdates DEF IInv, TypeOK
  <2>2. seats[s].hold = g /\ seats[s].expires > now
    BY <1>2, <1>6
  <2>3. ~(seats[s].expires < now)
    BY <2>1, <2>2, <1>exp, <1>now
  <2>4. seats[t].hold = g /\ seats[t].expires = seats[s].expires
    BY <2>2, <2>3, <1>cov DEF IInv, HoldsLapseWhole
  <2>5. t \in SeatsOf(g) /\ seats[t].status \in Live
    BY <2>1, <2>4, <1>seats, <1>cov, NoHoldAssumption DEF SeatsOf, RowsWellFormed
  <2>6. QED
    BY <2>2, <2>4, <2>5, <1>cov, <1>same DEF Extendable, Releasable
<1>7. RowsAreGranted'
  BY <1>same, <1>3 DEF IInv, RowsAreGranted, Decided
<1>8. HoldsLapseWhole'
  <2> SUFFICES ASSUME NEW h \in Holds, NEW s \in acq[h].want, NEW t \in acq[h].want, seats'[s].hold = h
               PROVE  IF seats'[t].hold = h THEN seats'[t].expires = seats'[s].expires
                                            ELSE seats'[s].expires < now
    BY <1>same DEF HoldsLapseWhole
  <2>0. s \in Seats /\ t \in Seats
    BY InvocationUpdates DEF IInv, TypeOK
  <2>1. IF seats[t].hold = h THEN seats[t].expires = seats[s].expires ELSE seats[s].expires < now
    BY <2>0, <1>3 DEF IInv, HoldsLapseWhole
  <2>2. CASE h # g
    BY <2>0, <2>1, <2>2, <1>3, <1>5
  <2>3. CASE h = g
    <3>1. CASE s \in E
      BY <3>1, <2>0, <2>3, <1>2, <1>6
    <3>2. CASE s \notin E
      <4>1. t \notin E
        BY <3>2, <2>3, <1>6
      <4>2. QED
        BY <4>1, <3>2, <2>0, <2>1, <1>1
    <3>3. QED
      BY <3>1, <3>2
  <2>4. QED
    BY <2>2, <2>3
<1>9. BookingIsWhole'
  <2>1. \A h \in Holds : {s \in Seats : seats'[s].booking = h} = {s \in Seats : seats[s].booking = h}
    BY <1>3
  <2>2. QED
    BY <2>1, <1>same DEF IInv, BookingIsWhole
<1>10. BeginsArePast'
  <2>1. \A v \in Callers : call'[v] = call[v] \/ call'[v].at = 0
    BY <1>same DEF IInv, TypeOK, IdleCall
  <2>2. QED
    BY <2>1, <1>same, <1>now DEF IInv, BeginsArePast
\* Rows that were extended had not lapsed, so no fact about lapsed rows is disturbed.
<1>11. CallsCoverHolds'
  <2> SUFFICES ASSUME NEW v \in Callers PROVE CoversHold(call[v])'
    BY DEF CallsCoverHolds
  <2>1. CASE call'[v] = IdleCall
    BY <2>1 DEF CoversHold, IdleCall
  <2>2. CASE call'[v] = call[v]
    <3>1. CoversHold(call[v])
      BY DEF IInv, CallsCoverHolds
    <3>2. call[v].at \in 0 .. MaxTime /\ call[v].at <= now
      <4>1. call[v].at \in 0 .. MaxTime
        BY CallUpdates DEF IInv, TypeOK
      <4>2. QED
        BY <4>1 DEF IInv, BeginsArePast
    <3>3. ASSUME NEW s \in E PROVE ~(seats[s].expires < call[v].at)
      <4>1. seats[s].expires > now /\ seats[s].expires \in 0 .. MaxTime
        BY <1>2, <1>exp
      <4>2. QED
        BY ONLY <4>1, <3>2, <1>now, TimesAssumption
    <3>4. \A s \in SeatsOf(call[v].hold) : seats[s].expires < call[v].at => seats'[s].expires < call[v].at
      BY <3>3, <1>1 DEF SeatsOf
    <3>5. QED
      BY <2>2, <3>1, <3>4, <1>4, <1>same DEF CoversHold, Decided
  <2>3. QED
    BY <2>1, <2>2, <1>same DEF IInv, TypeOK
<1>12. \A h \in Holds : Lapsed(h) => Lapsed(h)'
  <2>1. \A s \in Seats : seats[s].expires < now => s \notin E
    BY <1>2, <1>exp, <1>now
  <2>2. QED
    BY <2>1, <1>1, <1>4, <1>same DEF Lapsed, Decided, SeatsOf
<1>13. ReaperSeesLapsed'
  <2>1. scan \subseteq Holds
    BY DEF IInv, TypeOK
  <2>2. call[Reaper].step # "none" => call[Reaper].hold \in Holds
    BY DEF IInv, CallsCoverHolds, CoversHold, Callers
  <2>3. call'[Reaper] = call[Reaper] \/ call'[Reaper].step = "none"
    BY <1>same DEF Callers, IInv, TypeOK, IdleCall
  <2>4. QED
    BY <1>12, <1>same, <2>1, <2>2, <2>3 DEF IInv, ReaperSeesLapsed
<1>14. QED
  BY <1>7, <1>8, <1>9, <1>10, <1>11, <1>13 DEF IInv

\* A new AcquireHold invocation has not decided: nothing refers to it yet.
LEMMA RequestKeepsIInv ==
  ASSUME IInv, TypeOK', NEW h \in Holds, NEW S \in SUBSET Seats, RequestHold(h, S)
  PROVE  IInv'
<1>same. UNCHANGED <<now, seats, call, scan>> /\ S # {}
  BY DEF RequestHold, Requests
<1>acq. acq \in [Holds -> Invocation] /\ acq[h] \in Invocation
  BY DEF IInv, TypeOK
<1>1. \A g \in Holds \ {h} : acq'[g] = acq[g]
  BY <1>acq DEF RequestHold
<1>2. acq'[h].pc = "redis" /\ acq'[h].want = S /\ acq'[h].at = acq[h].at
  BY <1>acq DEF RequestHold, Invocation
<1>3. ~Decided(h)
  BY DEF RequestHold, Decided
<1>4. SeatsOf(h) = {} /\ \A s \in Seats : seats[s].hold # h /\ seats[s].booking # h
  BY <1>3, UndecidedOwnsNothing
<1>5. RowsAreGranted'
  BY <1>same, <1>1, <1>2, <1>4 DEF IInv, RowsAreGranted, Decided
<1>6. HoldsLapseWhole'
  <2> SUFFICES ASSUME NEW g \in Holds, NEW s \in acq'[g].want, NEW t \in acq'[g].want, seats[s].hold = g
               PROVE  IF seats[t].hold = g THEN seats[t].expires = seats[s].expires
                                           ELSE seats[s].expires < now
    BY <1>same DEF HoldsLapseWhole
  <2>1. g # h
    BY <1>2, <1>4
  <2>2. QED
    BY <2>1, <1>1 DEF IInv, HoldsLapseWhole
<1>7. BookingIsWhole'
  <2> SUFFICES ASSUME NEW g \in Holds
               PROVE  {s \in Seats : seats[s].booking = g} \in {{}, acq'[g].want}
    BY <1>same DEF BookingIsWhole
  <2>1. CASE g = h
    BY <2>1, <1>4
  <2>2. CASE g # h
    BY <2>2, <1>1 DEF IInv, BookingIsWhole
  <2>3. QED
    BY <2>1, <2>2
<1>8. CallsCoverHolds' /\ ReaperSeesLapsed' /\ \A w \in Callers : call'[w].at <= now'
  <2>1. \A g \in Holds : Decided(g) => /\ Decided(g)' /\ acq'[g].want = acq[g].want
                                       /\ SeatsOf(g)' = SeatsOf(g)
    BY <1>same, <1>1, <1>3 DEF Decided, SeatsOf
  <2>2. QED
    BY <2>1, <1>same, ShrinkingHolds
<1>9. BeginsArePast'
  BY <1>1, <1>2, <1>8, <1>same DEF IInv, BeginsArePast
<1>10. QED
  BY <1>5, <1>6, <1>7, <1>8, <1>9 DEF IInv

\* Time only makes more holds lapse.
LEMMA TickKeepsIInv ==
  ASSUME IInv, TypeOK', Tick
  PROVE  IInv'
<1>same. UNCHANGED <<seats, call, scan, acq>> /\ now' = now + 1
  BY DEF Tick
<1>now. now \in 0 .. MaxTime /\ \A s \in Seats : seats[s].expires \in 0 .. MaxTime
  BY DEF IInv, TypeOK, Row
<1>later. \A s \in Seats : seats[s].expires < now => seats[s].expires < now'
  BY <1>same, <1>now
<1>1. RowsAreGranted' /\ BookingIsWhole'
  BY <1>same DEF IInv, RowsAreGranted, BookingIsWhole, Decided
<1>2. HoldsLapseWhole'
  <2> SUFFICES ASSUME NEW h \in Holds, NEW s \in acq[h].want, NEW t \in acq[h].want, seats[s].hold = h
               PROVE  IF seats[t].hold = h THEN seats[t].expires = seats[s].expires
                                           ELSE seats[s].expires < now'
    BY <1>same DEF HoldsLapseWhole
  <2>1. s \in Seats
    BY InvocationUpdates DEF IInv, TypeOK
  <2>2. IF seats[t].hold = h THEN seats[t].expires = seats[s].expires ELSE seats[s].expires < now
    BY DEF IInv, HoldsLapseWhole
  <2>3. QED
    BY <2>1, <2>2, <1>later
<1>3. BeginsArePast'
  <2>1. /\ \A h \in Holds : acq[h].at \in 0 .. MaxTime
        /\ \A w \in Callers : call[w].at \in 0 .. MaxTime
    BY InvocationUpdates, CallUpdates DEF IInv, TypeOK
  <2>2. QED
    BY <2>1, <1>same, <1>now DEF IInv, BeginsArePast
<1>4. CallsCoverHolds'
  <2>1. \A w \in Callers : CoversHold(call[w]) => CoversHold(call[w])'
    BY <1>same DEF CoversHold, Decided, SeatsOf
  <2>2. QED
    BY <2>1 DEF IInv, CallsCoverHolds
<1>5. ReaperSeesLapsed'
  <2>1. \A h : Lapsed(h) => Lapsed(h)'
    BY <1>same, <1>later DEF Lapsed, Decided, SeatsOf
  <2>2. QED
    BY <2>1, <1>same DEF IInv, ReaperSeesLapsed
<1>6. QED
  BY <1>1, <1>2, <1>3, <1>4, <1>5 DEF IInv

\* IInv is inductive when an extension's now() is the time it commits.
LEMMA NextIInv ==
  ASSUME ~SlowExtends
  PROVE  IInv /\ [Next]_vars => IInv'
<1> SUFFICES ASSUME IInv, [Next]_vars PROVE IInv'
  OBVIOUS
<1>types. TypeOK'
  BY NextTypeOK DEF IInv
<1>acq. acq \in [Holds -> Invocation] /\ \A h \in Holds : acq[h] \in Invocation /\ acq[h].at <= now
  BY DEF IInv, TypeOK, BeginsArePast
<1>now. now \in 0 .. MaxTime /\ 0 <= now
  BY DEF IInv, TypeOK
<1>call. call \in [Callers -> Call] /\ \A w \in Callers : CoversHold(call[w]) /\ call[w].at <= now
  BY DEF IInv, TypeOK, CallsCoverHolds, BeginsArePast
<1>reaper. Reaper \in Callers /\ Workers \subseteq Callers /\ ReaperSeesLapsed
  BY DEF Callers, IInv
<1>idle. CoversHold(IdleCall) /\ IdleCall.at <= now /\ IdleCall.step = "none"
  BY <1>now DEF CoversHold, IdleCall
<1>own. \A h \in Holds : SeatsOf(h) \subseteq acq[h].want
  BY DEF IInv, RowsAreGranted, SeatsOf
<1>0. CASE UNCHANGED vars
  BY <1>0, <1>types, <1>acq, AcquireFrame DEF vars, Decided
<1>1. ASSUME NEW h \in Holds, NEW S \in SUBSET Seats, RequestHold(h, S) PROVE IInv'
  BY <1>1, <1>types, RequestKeepsIInv
<1>2. ASSUME NEW h \in Holds, NEW s \in Seats, TakeKey(h, s) \/ DegradeToDB(h, s) PROVE IInv'
  <2>1. UNCHANGED <<now, seats, call, scan>> /\ acq[h].pc = "redis"
    BY <1>2 DEF TakeKey, DegradeToDB
  <2>2. \A g \in Holds : /\ acq'[g].want = acq[g].want /\ acq'[g].pc = acq[g].pc
                         /\ acq'[g].at = acq[g].at
    BY <1>2, <1>acq DEF TakeKey, DegradeToDB, Invocation
  <2>3. QED
    BY <2>1, <2>2, <1>acq, <1>types, AcquireFrame DEF Decided
<1>3. ASSUME NEW h \in Holds, NEW s \in Seats, LoseKey(h, s) PROVE IInv'
  <2>1. UNCHANGED <<now, seats, call, scan>> /\ acq[h].pc = "redis"
    BY <1>3 DEF LoseKey
  <2>2. \A g \in Holds : /\ acq'[g].want = acq[g].want /\ acq'[g].at = acq[g].at
                         /\ acq'[g].pc = IF g = h THEN "failing" ELSE acq[g].pc
    BY <1>3, <1>acq DEF LoseKey, Invocation
  <2>3. QED
    BY <2>1, <2>2, <1>acq, <1>types, AcquireFrame DEF Decided
<1>4. ASSUME NEW h \in Holds, NEW s \in Seats, ReturnKey(h, s) PROVE IInv'
  <2>1. UNCHANGED <<now, seats, call, scan>>
    BY <1>4 DEF ReturnKey
  <2>2. \A g \in Holds : /\ acq'[g].want = acq[g].want /\ acq'[g].at = acq[g].at
                         /\ acq'[g].pc = acq[g].pc
    BY <1>4, <1>acq DEF ReturnKey, Invocation
  <2>3. QED
    BY <2>1, <2>2, <1>acq, <1>types, AcquireFrame DEF Decided
<1>5. ASSUME NEW h \in Holds, BeginAcquire(h) PROVE IInv'
  <2>1. UNCHANGED <<now, seats, call, scan>> /\ acq[h].pc = "redis"
    BY <1>5 DEF BeginAcquire
  <2>2. \A g \in Holds : /\ acq'[g].want = acq[g].want
                         /\ acq'[g].at = IF g = h THEN now ELSE acq[g].at
                         /\ acq'[g].pc = IF g = h THEN "cas" ELSE acq[g].pc
    BY <1>5, <1>acq DEF BeginAcquire, Invocation
  <2>3. QED
    BY <2>1, <2>2, <1>acq, <1>now, <1>types, AcquireFrame DEF Decided
<1>6. ASSUME NEW h \in Holds, CommitAcquire(h) PROVE IInv'
  BY <1>6, <1>types, CommitKeepsIInv
<1>7. ASSUME NEW h \in Holds, RollBackAcquire(h) \/ CrashAcquire(h) PROVE IInv'
  <2>1. UNCHANGED <<now, seats, call, scan>> /\ acq[h].pc # "idle"
    BY <1>7 DEF RollBackAcquire, CrashAcquire
  <2>2. \A g \in Holds : /\ acq'[g].want = acq[g].want
                         /\ acq'[g].at = IF g = h THEN 0 ELSE acq[g].at
                         /\ acq'[g].pc = IF g = h THEN "failing" ELSE acq[g].pc
    <3>1. CASE RollBackAcquire(h)
      BY <3>1, <1>acq DEF RollBackAcquire, Invocation
    <3>2. CASE CrashAcquire(h)
      BY <3>2, <1>acq DEF CrashAcquire, Invocation
    <3>3. QED
      BY <1>7, <3>1, <3>2
  <2>3. QED
    BY <2>1, <2>2, <1>acq, <1>now, <1>types, AcquireFrame DEF Decided
<1>8. ASSUME NEW h \in Holds, NEW w \in Workers, NEW step \in {"release", "extend", "fences"},
             StartCall(w, h, step)
      PROVE IInv'
  <2>1. PICK S \in {SeatsOf(h), acq[h].want} \ {{}} : call' = [call EXCEPT ![w] = NewCall(step, h, S)]
    BY <1>8 DEF StartCall
  <2>2. UNCHANGED <<now, seats, acq, scan>> /\ Decided(h)
    BY <1>8 DEF StartCall, Decided
  <2>3. CoversHold(NewCall(step, h, S)) /\ NewCall(step, h, S).at <= now
    BY <2>2, <1>own, <1>now DEF CoversHold, NewCall, IdleCall
  <2>4. ReaperSeesLapsed'
    BY <2>1, <2>2, <1>call, <1>reaper, ReaperAssumption DEF ReaperSeesLapsed, Lapsed, Decided, SeatsOf
  <2>5. QED
    BY <2>1, <2>2, <2>3, <2>4, <1>types, <1>reaper, CallFrame
<1>9. ASSUME NEW h \in Holds, ReaperVisit(h) PROVE IInv'
  <2> DEFINE c == NewCall("release", h, SeatsOf(h))
  <2>1. UNCHANGED <<now, seats, acq>> /\ scan' \subseteq scan /\ Lapsed(h) /\ Decided(h)
    BY <1>9, <1>reaper DEF ReaperVisit, ReaperSeesLapsed, Lapsed
  <2>2. \A g : Lapsed(g)' <=> Lapsed(g)
    BY <2>1 DEF Lapsed, Decided, SeatsOf
  <2>3. CASE SeatsOf(h) = {}
    <3>1. call' = call
      BY <1>9, <2>3 DEF ReaperVisit
    <3>2. ReaperSeesLapsed'
      BY <3>1, <2>1, <2>2, <1>reaper DEF ReaperSeesLapsed
    <3>3. QED
      BY <3>1, <3>2, <2>1, <1>types, <1>idle, <1>reaper, CallFrame
  <2>4. CASE SeatsOf(h) # {}
    <3>1. call' = [call EXCEPT ![Reaper] = c]
      BY <1>9, <2>4 DEF ReaperVisit
    <3>2. CoversHold(c) /\ c.at <= now /\ c.hold = h /\ c.step = "release"
      BY <2>1, <2>4, <1>own, <1>now DEF CoversHold, NewCall, IdleCall
    <3>3. ReaperSeesLapsed'
      BY <3>1, <3>2, <2>1, <2>2, <1>call, <1>reaper DEF ReaperSeesLapsed
    <3>4. QED
      BY <3>1, <3>2, <3>3, <2>1, <1>types, <1>reaper, CallFrame
  <2>5. QED
    BY <2>3, <2>4
<1>10. ASSUME NEW w \in Callers, NEW s \in Seats, DropKey(w, s) PROVE IInv'
  <2> DEFINE c == [call[w] EXCEPT !.todo = @ \ {s}]
  <2>1. UNCHANGED <<now, seats, acq, scan>> /\ call' = [call EXCEPT ![w] = c]
    BY <1>10 DEF DropKey
  <2>2. c.step = call[w].step /\ c.hold = call[w].hold /\ c.seats = call[w].seats /\ c.at = call[w].at
    BY <1>call DEF Call
  <2>3. CoversHold(c) /\ c.at <= now
    BY <2>2, <1>call DEF CoversHold
  <2>4. ReaperSeesLapsed'
    <3>1. call'[Reaper].step = call[Reaper].step /\ call'[Reaper].hold = call[Reaper].hold
      BY <2>1, <2>2, <1>call, <1>reaper
    <3>2. QED
      BY <3>1, <2>1, <1>reaper DEF ReaperSeesLapsed, Lapsed, Decided, SeatsOf
  <2>5. QED
    BY <2>1, <2>3, <2>4, <1>types, CallFrame
<1>11. ASSUME NEW w \in Callers, NEW x \in Extensions, ExtendHold(w, x) PROVE IInv'
  BY <1>11, <1>types, ExtendKeepsIInv
<1>12. ASSUME NEW w \in Callers, ReleaseHold(w) PROVE IInv'
  BY <1>12, <1>types, ReleaseKeepsIInv
<1>13. ASSUME NEW w \in Callers, ReadFences(w) PROVE IInv'
  <2> DEFINE c == call'[w]
  <2>1. UNCHANGED <<now, seats, acq, scan>> /\ call' = [call EXCEPT ![w] = c] /\ w # Reaper
    BY <1>13, <1>call, <1>reaper DEF ReadFences, ReaperSeesLapsed
  <2>2. /\ c.step = "begin" /\ call[w].step = "fences"
        /\ c.hold = call[w].hold /\ c.seats = call[w].seats /\ c.at = call[w].at
    BY <1>13, <1>call DEF ReadFences, Call
  <2>3. CoversHold(c) /\ c.at <= now
    BY <2>2, <1>call DEF CoversHold
  <2>4. ReaperSeesLapsed'
    BY <2>1, <1>call, <1>reaper DEF ReaperSeesLapsed, Lapsed, Decided, SeatsOf
  <2>5. QED
    BY <2>1, <2>3, <2>4, <1>types, CallFrame
<1>14. ASSUME NEW w \in Callers, BeginCall(w) PROVE IInv'
  <2> DEFINE c == call'[w]
  <2>1. UNCHANGED <<now, seats, acq, scan>> /\ call' = [call EXCEPT ![w] = c] /\ w # Reaper
    BY <1>14, <1>call, <1>reaper DEF BeginCall, ReaperSeesLapsed
  <2>2. /\ call[w].step # "none" /\ c.step # "none"
        /\ c.hold = call[w].hold /\ c.seats = call[w].seats /\ c.at = now
    BY <1>14, <1>call DEF BeginCall, Call
  \* If a requested seat is missing from the list, the hold has lost it and lapsed.
  <2>3. c.seats # acq[c.hold].want => \A s \in SeatsOf(c.hold) : seats[s].expires < now
    <3> SUFFICES ASSUME c.seats # acq[c.hold].want, NEW s \in SeatsOf(c.hold) PROVE seats[s].expires < now
      OBVIOUS
    <3>1. /\ c.hold \in Holds /\ SeatsOf(c.hold) \subseteq c.seats /\ c.seats \subseteq acq[c.hold].want
      BY <2>2, <1>call DEF CoversHold
    <3>2. PICK t \in acq[c.hold].want : t \notin c.seats
      BY <3>1
    <3>3. t \in Seats /\ seats[t].hold # c.hold /\ s \in acq[c.hold].want /\ seats[s].hold = c.hold
      BY <3>1, <3>2, <1>acq, InvocationUpdates DEF SeatsOf
    <3>4. QED
      BY <3>1, <3>3 DEF IInv, HoldsLapseWhole
  <2>4. CoversHold(c) /\ c.at <= now
    BY <2>2, <2>3, <1>call, <1>now DEF CoversHold
  <2>5. ReaperSeesLapsed'
    BY <2>1, <1>call, <1>reaper DEF ReaperSeesLapsed, Lapsed, Decided, SeatsOf
  <2>6. QED
    BY <2>1, <2>4, <2>5, <1>types, CallFrame
<1>15. ASSUME NEW w \in Callers, ConfirmSeats(w) PROVE IInv'
  BY <1>15, <1>types, ConfirmKeepsIInv
<1>16. ASSUME NEW w \in Callers, AbandonCall(w) PROVE IInv'
  <2>1. UNCHANGED <<now, seats, acq, scan>> /\ call' = [call EXCEPT ![w] = IdleCall]
    BY <1>16 DEF AbandonCall
  <2>2. ReaperSeesLapsed'
    BY <2>1, <1>call, <1>idle, <1>reaper DEF ReaperSeesLapsed, Lapsed, Decided, SeatsOf
  <2>3. QED
    BY <2>1, <2>2, <1>types, <1>idle, CallFrame
<1>17. ASSUME NEW s \in Seats, RedisForgets(s) PROVE IInv'
  BY <1>17, <1>types, <1>acq, AcquireFrame DEF RedisForgets, Decided
<1>18. CASE ReaperScan
  <2>1. UNCHANGED <<now, seats, acq, call>> /\ scan' = ExpiredHolds /\ call[Reaper].step = "none"
    BY <1>18 DEF ReaperScan
  \* A hold with one lapsed seat has lapsed as a whole.
  <2>2. ASSUME NEW h \in ExpiredHolds PROVE Lapsed(h)
    <3>1. h \in Holds
      BY DEF ExpiredHolds
    <3>2. PICK t \in SeatsOf(h) : seats[t].expires < now
      BY DEF ExpiredHolds, SeatsOf
    <3>3. Decided(h) /\ SeatsOf(h) \subseteq acq[h].want
      BY <3>1, <3>2, <1>own DEF SeatsOf, IInv, RowsAreGranted
    <3>4. \A s \in SeatsOf(h) : seats[s].expires < now
      BY <3>1, <3>2, <3>3 DEF SeatsOf, IInv, HoldsLapseWhole
    <3>5. QED
      BY <3>3, <3>4 DEF Lapsed
  <2>3. ReaperSeesLapsed'
    BY <2>1, <2>2 DEF ReaperSeesLapsed, Lapsed, Decided, SeatsOf
  <2>4. QED
    BY <2>1, <2>3, <1>types, <1>idle, <1>reaper, CallFrame
<1>19. CASE ReaperCrash
  <2>1. UNCHANGED <<now, seats, acq>> /\ scan' = {} /\ call' = [call EXCEPT ![Reaper] = IdleCall]
    BY <1>19 DEF ReaperCrash
  <2>2. ReaperSeesLapsed'
    BY <2>1, <1>call, <1>idle, <1>reaper DEF ReaperSeesLapsed
  <2>3. QED
    BY <2>1, <2>2, <1>types, <1>idle, <1>reaper, CallFrame
<1>20. CASE Tick
  BY <1>20, <1>types, TickKeepsIInv
<1>21. QED
  BY <1>0, <1>1, <1>2, <1>3, <1>4, <1>5, <1>6, <1>7, <1>8, <1>9, <1>10, <1>11, <1>12, <1>13, <1>14,
     <1>15, <1>16, <1>17, <1>18, <1>19, <1>20 DEF Next

-----------------------------------------------------------------------------
(* Safety.                                                                 *)

\* The inductive invariant holds, so a seat belongs only to a request that asked
\* for it and won it, the seats of a hold lapse together, what a call read for its
\* hold covers what the hold has, and the reaper is never after a live hold.
THEOREM InvariantHolds == ~SlowExtends => (Spec => []IInv)
<1> SUFFICES ASSUME ~SlowExtends PROVE Spec => []IInv
  OBVIOUS
<1>1. Init => IInv
  BY InitIInv
<1>2. IInv /\ [Next]_vars => IInv'
  BY NextIInv
<1>3. QED
  BY <1>1, <1>2, PTL DEF Spec

\* A hold whose clock has not run out covers all the seats its buyer asked for,
\* with one expiry: AcquireHold is all-or-nothing and stays so.
THEOREM LiveHoldsAreWhole == ~SlowExtends => (Spec => []LiveHoldIsWhole)
<1> SUFFICES ASSUME ~SlowExtends PROVE Spec => []LiveHoldIsWhole
  OBVIOUS
<1>1. IInv => LiveHoldIsWhole
  <2> SUFFICES ASSUME IInv, NEW h \in Holds, NEW s \in acq[h].want, NEW t \in acq[h].want,
                      seats[s].hold = h, seats[s].expires >= now
               PROVE  seats[t].hold = h /\ seats[t].expires = seats[s].expires
    BY DEF LiveHoldIsWhole
  <2>1. s \in Seats
    BY InvocationUpdates DEF IInv, TypeOK
  <2>2. seats[s].expires \in 0 .. MaxTime /\ now \in 0 .. MaxTime
    BY <2>1 DEF IInv, TypeOK, Row
  <2>3. ~(seats[s].expires < now)
    BY <2>2
  <2>4. QED
    BY <2>3 DEF IInv, HoldsLapseWhole
<1>2. Spec => []IInv
  BY InvariantHolds
<1>3. QED
  BY <1>1, <1>2, PTL

\* A booking is the whole set of seats its buyer asked AcquireHold for.
THEOREM BookingsAreWhole == ~SlowExtends => (Spec => []BookingIsWhole)
<1> SUFFICES ASSUME ~SlowExtends PROVE Spec => []BookingIsWhole
  OBVIOUS
<1>1. IInv => BookingIsWhole
  BY DEF IInv
<1>2. Spec => []IInv
  BY InvariantHolds
<1>3. QED
  BY <1>1, <1>2, PTL

\* The outbox never leaves a free seat announced as taken, whatever the timing: a
\* row becomes free only in a release that announces it in the same transaction.
THEOREM FreeSeatsAreAnnounced == Spec => []FreeSeatIsAnnounced
<1> DEFINE Inv == TypeOK /\ FreeSeatIsAnnounced
<1>1. Init => Inv
  BY InitTypeOK DEF Init, FreeSeatIsAnnounced
<1>2. Inv /\ [Next]_vars => Inv'
  <2> SUFFICES ASSUME TypeOK, FreeSeatIsAnnounced, [Next]_vars PROVE FreeSeatIsAnnounced'
    BY NextTypeOK
  <2>seats. seats \in [Seats -> Row]
    BY DEF TypeOK
  <2>0. CASE UNCHANGED <<seats, outbox>>
    BY <2>0 DEF FreeSeatIsAnnounced
  <2>1. ASSUME NEW h \in Holds, CommitAcquire(h) PROVE FreeSeatIsAnnounced'
    <3>1. \A s \in Seats : s \in acq[h].want => seats'[s] = HeldRow(seats[s], h, acq[h].at)
      BY <2>1 DEF CommitAcquire
    <3>2. \A s \in Seats, t \in {acq[h].at} : HeldRow(seats[s], h, t).status = "HELD"
      BY <2>seats DEF HeldRow, Row
    <3>3. \A s \in Seats : s \in acq[h].want => seats'[s].status = "HELD"
      BY <3>1, <3>2
    <3>4. \A s \in Seats : s \notin acq[h].want => seats'[s] = seats[s] /\ outbox'[s] = outbox[s]
      BY <2>1 DEF CommitAcquire, Publish
    <3>5. QED
      BY <3>3, <3>4 DEF FreeSeatIsAnnounced
  <2>2. ASSUME NEW w \in Callers, ReleaseHold(w) PROVE FreeSeatIsAnnounced'
    <3> DEFINE gone == Releasable(call[w].seats, call[w].hold)
    <3>1. gone \subseteq call[w].seats
      BY DEF Releasable
    <3>2. \A s \in Seats : s \notin gone => seats'[s] = seats[s]
      BY <2>2 DEF ReleaseHold
    <3>3. CASE gone = {}
      BY <3>2, <3>3, <2>2 DEF ReleaseHold, FreeSeatIsAnnounced
    <3>4. CASE gone # {}
      <4>1. outbox' = Publish("seat.released", call[w].seats, call[w].hold)
        BY <3>4, <2>2 DEF ReleaseHold
      <4>2. \A s \in Seats : /\ s \in call[w].seats => outbox'[s].type = "seat.released"
                             /\ s \notin call[w].seats => outbox'[s] = outbox[s]
        BY <4>1 DEF Publish
      <4>3. QED
        BY <4>2, <3>1, <3>2 DEF FreeSeatIsAnnounced
    <3>5. QED
      BY <3>3, <3>4
  <2>3. ASSUME NEW w \in Callers, NEW x \in Extensions, ExtendHold(w, x) PROVE FreeSeatIsAnnounced'
    <3>1. \A s \in Seats : seats'[s] = seats[s] \/ seats'[s] = ExtendedRow(seats[s], call[w].at + x)
      BY <2>3 DEF ExtendHold
    <3>2. \A r \in Row : \A t : ExtendedRow(r, t).status = "PENDING_PAYMENT"
      BY DEF ExtendedRow, Row
    <3>3. \A s \in Seats : seats'[s] = seats[s] \/ seats'[s].status = "PENDING_PAYMENT"
      BY <3>1, <3>2, <2>seats
    <3>4. outbox' = outbox
      BY <2>3 DEF ExtendHold
    <3>5. QED
      BY <3>3, <3>4 DEF FreeSeatIsAnnounced
  <2>4. ASSUME NEW w \in Callers, ConfirmSeats(w) PROVE FreeSeatIsAnnounced'
    <3>1. \A s \in Seats : s \in call[w].seats => seats'[s] = BookedRow(seats[s], call[w].hold)
      BY <2>4 DEF ConfirmSeats
    <3>2. \A s \in Seats, h \in {call[w].hold} : BookedRow(seats[s], h).status = "BOOKED"
      BY <2>seats DEF BookedRow, Row
    <3>3. \A s \in Seats : s \in call[w].seats => seats'[s].status = "BOOKED"
      BY <3>1, <3>2
    <3>4. \A s \in Seats : s \notin call[w].seats => seats'[s] = seats[s] /\ outbox'[s] = outbox[s]
      BY <2>4 DEF ConfirmSeats, Publish
    <3>5. QED
      BY <3>3, <3>4 DEF FreeSeatIsAnnounced
  <2>5. QED
    BY <2>0, <2>1, <2>2, <2>3, <2>4 DEF Next, vars, RequestHold, TakeKey, LoseKey, DegradeToDB,
       ReturnKey, BeginAcquire, RollBackAcquire, CrashAcquire, StartCall, ReaperVisit, DropKey,
       ReadFences, BeginCall, AbandonCall, RedisForgets, ReaperScan, ReaperCrash, Tick
<1>3. QED
  BY <1>1, <1>2, PTL DEF Spec

\* Before it lapses a hold is ended only by its own owner's release or confirm:
\* the reaper is after lapsed holds only, and AcquireHold takes no live seat.
THEOREM LiveHoldsAreUndisturbed == ~SlowExtends => (Spec => LiveHoldUndisturbed)
<1> SUFFICES ASSUME ~SlowExtends PROVE Spec => LiveHoldUndisturbed
  OBVIOUS
<1>1. IInv /\ [Next]_vars => [\A s \in Seats : LiveHoldEnds(s) => OwnerEnds(seats[s].hold)]_vars
  <2> SUFFICES ASSUME IInv, Next, NEW s \in Seats, LiveHoldEnds(s) PROVE OwnerEnds(seats[s].hold)
    OBVIOUS
  <2> DEFINE h == seats[s].hold
  <2>ends. h # NoHold /\ seats[s].expires >= now /\ seats'[s].hold # h
    BY DEF LiveHoldEnds
  <2>seats. seats[s] \in Row /\ seats[s].expires \in 0 .. MaxTime /\ now \in 0 .. MaxTime /\ h \in Holds
    BY <2>ends DEF IInv, TypeOK, Row
  <2>live. seats[s].status \in Live /\ seats[s].status # "AVAILABLE" /\ ~(seats[s].expires < now)
    BY <2>seats, <2>ends DEF IInv, TypeOK, RowsWellFormed, Live
  <2>call. call \in [Callers -> Call] /\ IdleCall.step = "none"
    BY DEF IInv, TypeOK, IdleCall
  <2>0. CASE UNCHANGED seats
    BY <2>0, <2>ends
  <2>1. ASSUME NEW g \in Holds, CommitAcquire(g) PROVE FALSE
    <3>1. s \in acq[g].want
      BY <2>1, <2>ends DEF CommitAcquire
    <3>2. seats[s].expires < acq[g].at
      BY <3>1, <2>1, <2>live DEF CommitAcquire, Acquirable
    <3>3. acq[g].at \in 0 .. MaxTime
      BY InvocationUpdates DEF IInv, TypeOK
    <3>4. acq[g].at <= now
      BY DEF IInv, BeginsArePast
    <3>5. QED
      BY <3>2, <3>3, <3>4, <2>seats, <2>live
  <2>2. ASSUME NEW w \in Callers, ReleaseHold(w) PROVE OwnerEnds(h)
    <3>1. call[w].hold = h /\ call[w].step = "release" /\ call'[w] = IdleCall
      BY <2>2, <2>call, <2>ends DEF ReleaseHold, Releasable
    <3>2. w # Reaper
      <4> SUFFICES ASSUME w = Reaper PROVE FALSE
        OBVIOUS
      <4>1. Lapsed(h)
        BY <3>1 DEF IInv, ReaperSeesLapsed
      <4>2. QED
        BY <4>1, <2>live DEF Lapsed, SeatsOf
    <3>3. QED
      BY <3>1, <3>2, <2>call DEF Callers, OwnerEnds
  <2>3. ASSUME NEW w \in Callers, NEW x \in Extensions, ExtendHold(w, x) PROVE FALSE
    <3>1. seats'[s] = seats[s] \/ seats'[s] = ExtendedRow(seats[s], call[w].at + x)
      BY <2>3 DEF ExtendHold
    <3>2. \A t : ExtendedRow(seats[s], t).hold = h
      BY <2>seats DEF ExtendedRow, Row
    <3>3. QED
      BY <3>1, <3>2, <2>ends
  <2>4. ASSUME NEW w \in Callers, ConfirmSeats(w) PROVE OwnerEnds(h)
    <3>1. call[w].hold = h /\ call[w].step = "confirm" /\ call'[w] = IdleCall
      BY <2>4, <2>call, <2>ends DEF ConfirmSeats, Confirmable, Extendable, Releasable
    <3>2. w # Reaper
      BY <3>1 DEF IInv, ReaperSeesLapsed
    <3>3. QED
      BY <3>1, <3>2, <2>call DEF Callers, OwnerEnds
  <2>5. QED
    BY <2>0, <2>1, <2>2, <2>3, <2>4 DEF Next, RequestHold, TakeKey, LoseKey, DegradeToDB,
       ReturnKey, BeginAcquire, RollBackAcquire, CrashAcquire, StartCall, ReaperVisit, DropKey,
       ReadFences, BeginCall, AbandonCall, RedisForgets, ReaperScan, ReaperCrash, Tick
<1>2. Spec => []IInv
  BY InvariantHolds
<1>3. QED
  BY <1>1, <1>2, PTL DEF Spec, LiveHoldUndisturbed

-----------------------------------------------------------------------------
(* Refinement: the inventory implements SeatSale.                          *)

\* A confirm is a sale of everything the buyer asked for.
LEMMA ConfirmIsSale ==
  ASSUME IInv, NEW w \in Callers, ConfirmSeats(w)
  PROVE  LET g == call[w].hold
         IN  /\ g \in Holds /\ call[w].seats = acq[g].want
             /\ acq[g].want # {} /\ acq[g].want \subseteq Seats \cap Sellable
             /\ \A s \in acq[g].want : /\ seats[s].booking = NoHold
                                       /\ seats'[s].booking = g
             /\ \A s \in Seats \ acq[g].want : seats'[s] = seats[s]
<1> DEFINE g == call[w].hold
           S == call[w].seats
<1>seats. seats \in [Seats -> Row] /\ RowsWellFormed
  BY DEF IInv, TypeOK
<1>cov. /\ g \in Holds /\ S # {} /\ SeatsOf(g) \subseteq S /\ S \subseteq acq[g].want
        /\ S # acq[g].want => \A s \in SeatsOf(g) : seats[s].expires < call[w].at
  <2>1. call[w].step = "confirm" /\ CoversHold(call[w])
    BY DEF ConfirmSeats, IInv, CallsCoverHolds
  <2>2. QED
    BY <2>1 DEF CoversHold
<1>sub. S \subseteq Seats /\ call[w].at \in 0 .. MaxTime
  BY CallUpdates DEF IInv, TypeOK
<1>1. \A s \in S : seats[s].hold = g /\ seats[s].status \in Live /\ seats[s].expires > call[w].at
  BY DEF ConfirmSeats, Confirmable, Extendable, Releasable
<1>2. \A s \in S : seats[s].expires \in 0 .. MaxTime
  BY <1>seats, <1>sub DEF Row
<1>3. \A s \in S : ~(seats[s].expires < call[w].at)
  BY <1>1, <1>2, <1>sub
<1>4. S = acq[g].want
  BY <1>1, <1>3, <1>cov, <1>sub DEF SeatsOf
<1>5. \A s \in S : s \in Sellable
  BY <1>1, <1>cov, <1>sub DEF IInv, RowsAreGranted
<1>6. \A s \in S : seats[s].booking = NoHold
  BY <1>1, <1>sub, <1>seats DEF RowsWellFormed, Row, Live
<1>7. \A s \in S : seats'[s].booking = g
  BY <1>seats, <1>sub, <1>cov, BookedRowFields DEF ConfirmSeats
<1>8. \A s \in Seats \ S : seats'[s] = seats[s]
  BY DEF ConfirmSeats
<1>9. QED
  BY <1>4, <1>5, <1>6, <1>7, <1>8, <1>cov, <1>sub

\* Every other step leaves the bookings alone, and only RequestHold changes what
\* a buyer wants.
LEMMA OtherStepsSellNothing ==
  ASSUME TypeOK, [Next]_vars
  PROVE  \/ /\ \A s \in Seats : seats'[s].booking = seats[s].booking
            /\ \/ \A h \in Holds : acq'[h].want = acq[h].want
               \/ \E h \in Holds, S \in SUBSET Seats : RequestHold(h, S)
         \/ /\ acq' = acq
            /\ \E w \in Callers : ConfirmSeats(w)
<1> DEFINE Kept  == \A s \in Seats : seats'[s].booking = seats[s].booking
           Wants == \A h \in Holds : acq'[h].want = acq[h].want
<1>seats. seats \in [Seats -> Row]
  BY DEF TypeOK
<1>acq. acq \in [Holds -> Invocation]
  BY DEF TypeOK
<1>0. CASE UNCHANGED <<seats, acq>>
  BY <1>0
<1>1. ASSUME NEW h \in Holds, NEW S \in SUBSET Seats, RequestHold(h, S) PROVE Kept
  BY <1>1 DEF RequestHold
<1>2. ASSUME NEW h \in Holds, NEW s \in Seats,
              TakeKey(h, s) \/ LoseKey(h, s) \/ DegradeToDB(h, s) \/ ReturnKey(h, s)
      PROVE  Kept /\ Wants
  BY <1>2, <1>acq DEF TakeKey, LoseKey, DegradeToDB, ReturnKey, Invocation
<1>3. ASSUME NEW h \in Holds, BeginAcquire(h) \/ RollBackAcquire(h)
      PROVE  Kept /\ Wants
  BY <1>3, <1>acq DEF BeginAcquire, RollBackAcquire, Invocation
<1>4. ASSUME NEW h \in Holds, CrashAcquire(h) PROVE Kept /\ Wants
  BY <1>4, <1>acq DEF CrashAcquire, Invocation
<1>5. ASSUME NEW h \in Holds, CommitAcquire(h) PROVE Kept /\ Wants
  <2>1. Wants
    BY <1>5, <1>acq DEF CommitAcquire, Invocation
  <2>2. \A s \in Seats, t \in {acq[h].at} : HeldRow(seats[s], h, t).booking = seats[s].booking
    BY <1>seats DEF HeldRow, Row
  <2>3. \A s \in Seats : seats'[s] = seats[s] \/ seats'[s] = HeldRow(seats[s], h, acq[h].at)
    BY <1>5 DEF CommitAcquire
  <2>4. QED
    BY <2>1, <2>2, <2>3
<1>6. ASSUME NEW w \in Callers, ReleaseHold(w) PROVE Kept /\ acq' = acq
  <2>1. \A s \in Seats : seats'[s] = seats[s] \/ seats'[s] = FreedRow(seats[s])
    BY <1>6 DEF ReleaseHold
  <2>2. \A s \in Seats : FreedRow(seats[s]).booking = seats[s].booking
    BY <1>seats DEF FreedRow, Row
  <2>3. QED
    BY <2>1, <2>2, <1>6 DEF ReleaseHold
<1>7. ASSUME NEW w \in Callers, NEW x \in Extensions, ExtendHold(w, x) PROVE Kept /\ acq' = acq
  <2>1. \A s \in Seats : seats'[s] = seats[s] \/ seats'[s] = ExtendedRow(seats[s], call[w].at + x)
    BY <1>7 DEF ExtendHold
  <2>2. \A s \in Seats, t \in {call[w].at + x} : ExtendedRow(seats[s], t).booking = seats[s].booking
    BY <1>seats DEF ExtendedRow, Row
  <2>3. QED
    BY <2>1, <2>2, <1>7 DEF ExtendHold
<1>8. ASSUME NEW w \in Callers, ConfirmSeats(w) PROVE acq' = acq
  BY <1>8 DEF ConfirmSeats
<1>9. QED
  BY <1>0, <1>1, <1>2, <1>3, <1>4, <1>5, <1>6, <1>7, <1>8 DEF Next, vars, StartCall, ReaperVisit,
     DropKey, ReadFences, BeginCall, AbandonCall, RedisForgets, ReaperScan, ReaperCrash, Tick

\* Sales are whole, final and exclusive: every confirm is a Sell of exactly the
\* seats asked for, every new request an Ask, and every other step a stutter.
THEOREM InventoryImplementsSeatSale == ~SlowExtends => (Spec => ImplementsSeatSale)
<1> SUFFICES ASSUME ~SlowExtends PROVE Spec => ImplementsSeatSale
  OBVIOUS
<1> DEFINE wanted == [h \in Holds |-> acq[h].want]
           sold   == [h \in Holds |-> {s \in Seats : seats[s].booking = h}]
<1>1. Init => Sale!Init
  BY DEF Init, Sale!Init
<1>2. IInv /\ [Next]_vars => [Sale!Next]_Sale!vars
  <2> SUFFICES ASSUME IInv, [Next]_vars PROVE Sale!Next \/ UNCHANGED Sale!vars
    OBVIOUS
  <2>acq. acq \in [Holds -> Invocation]
    BY DEF IInv, TypeOK
  <2>1. CASE \E w \in Callers : ConfirmSeats(w) /\ acq' = acq
    <3>1. PICK w \in Callers : ConfirmSeats(w) /\ acq' = acq
      BY <2>1
    <3>2. PICK g \in Holds :
             /\ acq[g].want # {} /\ acq[g].want \subseteq Seats \cap Sellable
             /\ \A s \in acq[g].want : seats[s].booking = NoHold /\ seats'[s].booking = g
             /\ \A s \in Seats \ acq[g].want : seats'[s] = seats[s]
      BY <3>1, ConfirmIsSale
    <3>3. wanted[g] = acq[g].want /\ wanted' = wanted
      BY <3>1, <3>2
    <3>4. sold[g] = {}
      <4>1. sold[g] \in {{}, acq[g].want}
        BY <3>2 DEF IInv, BookingIsWhole
      <4>2. QED
        BY <4>1, <3>2, NoHoldAssumption
    <3>5. \A h \in Holds : sold[h] \cap wanted[g] = {}
      BY <3>2, NoHoldAssumption
    <3>6. sold' = [sold EXCEPT ![g] = wanted[g]]
      <4>1. \A h \in Holds \ {g} :
              {s \in Seats : seats'[s].booking = h} = {s \in Seats : seats[s].booking = h}
        BY <3>2, NoHoldAssumption
      <4>2. {s \in Seats : seats'[s].booking = g} = acq[g].want
        <5>1. \A s \in Seats : seats[s].booking # g
          BY <3>2, <3>4
        <5>2. \A s \in Seats : seats'[s].booking = g <=> s \in acq[g].want
          BY <5>1, <3>2
        <5>3. QED
          BY <5>2, <3>2
      <4>3. QED
        BY <4>1, <4>2, <3>2
    <3>7. Sale!Sell(g)
      BY <3>2, <3>3, <3>4, <3>5, <3>6 DEF Sale!Sell
    <3>8. QED
      BY <3>7 DEF Sale!Next
  <2>2. CASE /\ \A s \in Seats : seats'[s].booking = seats[s].booking
             /\ \E h \in Holds, S \in SUBSET Seats : RequestHold(h, S)
    <3>1. PICK h \in Holds, S \in SUBSET Seats : RequestHold(h, S)
      BY <2>2
    <3>2. S # {} /\ acq[h].want = {}
      <4>1. S # {} /\ acq[h].pc = "idle"
        BY <3>1 DEF RequestHold, Requests
      <4>2. QED
        BY <4>1 DEF IInv, RowsAreGranted
    <3>3. \A g \in Holds : acq'[g].want = IF g = h THEN S ELSE acq[g].want
      BY <3>1, <2>acq DEF RequestHold, Invocation
    <3>4. wanted' = [wanted EXCEPT ![h] = S] /\ wanted[h] = {}
      BY <3>2, <3>3
    <3>5. sold' = sold
      BY <2>2
    <3>6. Sale!Ask(h, S)
      BY <3>4, <3>5 DEF Sale!Ask
    <3>7. QED
      BY <3>2, <3>6 DEF Sale!Next
  <2>3. CASE /\ \A s \in Seats : seats'[s].booking = seats[s].booking
             /\ \A h \in Holds : acq'[h].want = acq[h].want
    BY <2>3 DEF Sale!vars
  <2>4. QED
    BY <2>1, <2>2, <2>3, OtherStepsSellNothing DEF IInv
<1>3. Spec => []IInv
  BY InvariantHolds
<1>4. QED
  BY <1>1, <1>2, <1>3, PTL DEF Spec, ImplementsSeatSale, Sale!Spec

-----------------------------------------------------------------------------
(* Redis.                                                                  *)

\* No caller deletes or overwrites another hold's key: SET NX and the
\* compare-and-delete only ever touch the caller's own.
THEOREM ForeignKeysAreUntouched == Spec => ForeignKeyUntouched
<1>1. TypeOK /\ [Next]_vars
        => [\A s \in Seats : KeyLost(s) => UNCHANGED <<acq, call>> \/ LostOnBehalfOf(redis[s])]_vars
  <2> SUFFICES ASSUME TypeOK, Next, NEW s \in Seats, KeyLost(s)
               PROVE  UNCHANGED <<acq, call>> \/ LostOnBehalfOf(redis[s])
    OBVIOUS
  <2>lost. redis[s] # NoHold /\ redis'[s] # redis[s]
    BY DEF KeyLost
  <2>redis. redis \in [Seats -> Holds \cup {NoHold}] /\ redis[s] \in Holds
    BY <2>lost DEF TypeOK
  <2>acq. acq \in [Holds -> Invocation]
    BY DEF TypeOK
  <2>call. call \in [Callers -> Call]
    BY DEF TypeOK
  <2>0. CASE UNCHANGED redis
    BY <2>0, <2>lost
  <2>1. ASSUME NEW h \in Holds, NEW t \in Seats, TakeKey(h, t) \/ DegradeToDB(h, t) PROVE FALSE
    BY <2>1, <2>lost, <2>redis DEF TakeKey, DegradeToDB
  <2>2. ASSUME NEW h \in Holds, NEW t \in Seats, ReturnKey(h, t) PROVE LostOnBehalfOf(redis[s])
    <3>1. t = s /\ redis[s] = h
      BY <2>2, <2>lost, <2>redis DEF ReturnKey, TryDelete, CompareAndDelete
    <3>2. t \in acq[h].keys /\ acq'[h].keys = acq[h].keys \ {t}
      BY <2>2, <2>acq DEF ReturnKey, Least, Invocation
    <3>3. acq'[h] # acq[h]
      BY <3>2
    <3>4. QED
      BY <3>1, <3>3 DEF LostOnBehalfOf
  <2>3. ASSUME NEW w \in Callers, NEW t \in Seats, DropKey(w, t) PROVE LostOnBehalfOf(redis[s])
    <3>1. t = s /\ redis[s] = call[w].hold
      BY <2>3, <2>lost, <2>redis DEF DropKey, TryDelete, CompareAndDelete
    <3>2. t \in call[w].todo /\ call'[w].todo = call[w].todo \ {t}
      BY <2>3, <2>call DEF DropKey, Least, Call
    <3>3. call'[w] # call[w]
      BY <3>2
    <3>4. QED
      BY <3>1, <3>3 DEF LostOnBehalfOf
  <2>4. ASSUME NEW t \in Seats, RedisForgets(t) PROVE UNCHANGED <<acq, call>>
    BY <2>4 DEF RedisForgets
  <2>5. QED
    BY <2>0, <2>1, <2>2, <2>3, <2>4 DEF Next, RequestHold, LoseKey, BeginAcquire, CommitAcquire,
       RollBackAcquire, CrashAcquire, StartCall, ReaperVisit, ExtendHold, ReleaseHold, ReadFences,
       BeginCall, ConfirmSeats, AbandonCall, ReaperScan, ReaperCrash, Tick
<1>2. QED
  BY <1>1, TypeCorrect, PTL DEF Spec, ForeignKeyUntouched
=============================================================================
