-------------------------- MODULE OrderSagaProofs --------------------------
(***************************************************************************)
(* Theorems about OrderSaga, for every number of orders and holds, any     *)
(* overlap of the runs, failing statements, crashes and separate providers.*)
(* The last part is about runs that take turns: when at most one works on  *)
(* an order at a time, statements do not fail and there is one payment     *)
(* provider, statuses tell the truth, whoever crashes; without crashes no  *)
(* captured payment is unaccounted for, and the saga implements Checkout.  *)
(***************************************************************************)
EXTENDS OrderSaga, FiniteSetTheorems, TLAPS

\* What no step undoes: orders stay created, captures stay captured.
Grows ==
  /\ \A o \in Orders : Created(o) => Created(o)'
  /\ \A k \in Keys : Captured(k) => Captured(k)'

\* A step of runner r touches the memory of r only.
Moves(r) ==
  /\ run' = [q \in Runners |-> run'[q]]
  /\ \A q \in Runners \ {r} : run'[q] = run[q]

RowsInv == RowsFit /\ PaymentsFit /\ DeliveriesArePaid

-----------------------------------------------------------------------------
(* The memory of the runners.                                              *)

\* Growing rows do not disturb what a runner remembers.
LEMMA OthersFit ==
  ASSUME RunsFit, RowsFit, Grows, NEW q \in Runners, run'[q] = run[q]
  PROVE  RunFits(q, run[q])'
<1>1. RunFits(q, run[q])
  BY DEF RunsFit
<1>2. run[q] \in Run
  BY <1>1 DEF RunFits
<1>3. run[q].order # None => run[q].order \in Orders /\ Created(run[q].order)'
  BY <1>1, <1>2 DEF RunFits, Grows, Run
<1>4. ASSUME NEW j \in run[q].todo
      PROVE  Created(j.order)' /\ (q = Reconciler => j.hold \in Holds)
  <2>1. j \in Job /\ j.order \in Orders
    BY <1>2 DEF Run, Job
  <2> QED
    BY <1>1, <2>1 DEF RunFits, Grows
<1>5. run[q].pay.status = "CAPTURED" \/ run[q].pc = "settle" => Captured(<<run[q].order, run[q].hold>>)'
  <2> SUFFICES ASSUME run[q].pay.status = "CAPTURED" \/ run[q].pc = "settle"
               PROVE  Captured(<<run[q].order, run[q].hold>>)'
    OBVIOUS
  <2>1. Captured(<<run[q].order, run[q].hold>>)
    BY <1>1 DEF RunFits
  <2>2. <<run[q].order, run[q].hold>> \in Keys
    BY <2>1 DEF Captured, RowsFit
  <2> QED
    BY <2>1, <2>2 DEF Grows
<1> QED
  BY <1>1, <1>3, <1>4, <1>5 DEF RunFits

\* It is enough to look at the runner that moves.
LEMMA RunnerMoves ==
  ASSUME RunsFit, RowsFit, Grows, NEW r \in Runners, Moves(r),
         RunFits(r, run[r])',
         run[r].pc # "idle" \/ r \notin Orders \/ Created(r)'
  PROVE  RunsFit'
<1>1. \A q \in Runners : RunFits(q, run[q])'
  <2> TAKE q \in Runners
  <2>1. CASE q = r
    BY <2>1
  <2>2. CASE q # r
    BY <2>2, OthersFit DEF Moves
  <2> QED
    BY <2>1, <2>2
<1>2. ASSUME NEW o \in Orders, ~Created(o)'
      PROVE  run'[o].pc = "idle"
  <2>1. o \in Runners /\ ~Created(o) /\ run[o].pc = "idle"
    BY <1>2 DEF Grows, Runners, RunsFit
  <2> QED
    BY <1>2, <2>1 DEF Moves
<1> QED
  BY <1>1, <1>2 DEF RunsFit, Moves

\* A runner that goes on.
LEMMA GotoFits ==
  ASSUME RunsFit, RowsFit, Grows, NEW r \in Runners, NEW pc, Goto(r, pc),
         run[r].pc # "idle",
         pc \in {"authorize", "extend", "fail", "insert payment", "settle", "decline"} \cup Late,
         pc \in WithHold => run[r].hold \in Holds,
         pc \in WithNew => run[r].new \in Holds,
         pc \in Late <=> run[r].pay.status = "CAPTURED",
         pc = "settle" => Captured(Key(r))
  PROVE  RunsFit'
<1>1. RunFits(r, run[r]) /\ run[r] \in Run
  BY DEF RunsFit, RunFits
<1>2. run' = [run EXCEPT ![r] = [run[r] EXCEPT !.pc = pc]]
  BY DEF Goto
<1>3. Moves(r) /\ run'[r] = [run[r] EXCEPT !.pc = pc]
  BY <1>2 DEF Moves, RunsFit
<1>4. run'[r] \in Run /\ run'[r].pc = pc /\ pc # "idle"
  BY <1>1, <1>3 DEF Run, Late
<1>5. /\ run'[r].order = run[r].order /\ run'[r].hold = run[r].hold /\ run'[r].new = run[r].new
      /\ run'[r].pay = run[r].pay /\ run'[r].todo = run[r].todo
  BY <1>1, <1>3 DEF Run
<1>6. run[r].order \in Orders /\ Created(run[r].order)'
  BY <1>1, <1>5 DEF RunFits, Run, Grows
<1>7. ASSUME NEW j \in run[r].todo
      PROVE  Created(j.order)' /\ (r = Reconciler => j.hold \in Holds)
  BY <1>1, <1>7 DEF RunFits, Run, Job, Grows
<1>8. run[r].pay.status = "CAPTURED" \/ pc = "settle" => Captured(<<run[r].order, run[r].hold>>)'
  <2> SUFFICES ASSUME run[r].pay.status = "CAPTURED" \/ pc = "settle"
               PROVE  Captured(<<run[r].order, run[r].hold>>)'
    OBVIOUS
  <2>1. Captured(<<run[r].order, run[r].hold>>)
    BY <1>1 DEF RunFits, Key
  <2>2. <<run[r].order, run[r].hold>> \in Keys
    BY <2>1 DEF Captured, RowsFit
  <2> QED
    BY <1>5, <2>1, <2>2 DEF Grows
<1>9. RunFits(r, run[r])'
  BY <1>1, <1>4, <1>5, <1>6, <1>7, <1>8, NamesAssumption DEF RunFits
<1> QED
  BY <1>3, <1>9, RunnerMoves

\* A runner that is done with its order.
LEMMA FinishFits ==
  ASSUME RunsFit, RowsFit, Grows, NEW r \in Runners, run[r].pc # "idle",
         NEW left \in SUBSET run[r].todo, run' = [run EXCEPT ![r] = [IdleRun EXCEPT !.todo = left]]
  PROVE  RunsFit'
<1> DEFINE x == [pc |-> "idle", order |-> None, hold |-> None, pay |-> NoPayment, got |-> FALSE,
                 new |-> None, todo |-> left]
<1>1. RunFits(r, run[r]) /\ run[r] \in Run
  BY DEF RunsFit, RunFits
<1>2. Moves(r) /\ run'[r] = [IdleRun EXCEPT !.todo = left]
  BY Zenon DEF Moves, RunsFit
<1>3. left \subseteq Job
  BY <1>1 DEF Run
<1>4. run'[r] = x
  BY <1>2 DEF IdleRun
<1>5. run'[r] \in Run
  <2>1. NoPayment \in PaymentRow
    BY DEF NoPayment, PaymentRow
  <2>2. x \in Run
    BY <1>3, <2>1 DEF Run
  <2> QED
    BY <1>4, <2>2
<1>6. ASSUME NEW j \in left
      PROVE  Created(j.order)' /\ (r = Reconciler => j.hold \in Holds)
  BY <1>1, <1>3, <1>6 DEF RunFits, Job, Grows
<1>7. /\ run'[r].pc = "idle" /\ run'[r].order = None /\ run'[r].pay.status = "none"
      /\ run'[r].todo = left
  BY <1>4 DEF NoPayment
<1>8. r \in Orders => left = {}
  BY <1>1 DEF RunFits
<1>9. RunFits(r, run[r])'
  BY <1>5, <1>6, <1>7, <1>8 DEF RunFits, WithHold, WithNew, Late
<1> QED
  BY <1>2, <1>9, RunnerMoves

\* What is known of a runner that is at work.
LEMMA AtWork ==
  ASSUME RunsFit, NEW r \in Runners, run[r].pc # "idle"
  PROVE  /\ run[r] \in Run
         /\ run[r].order \in Orders /\ Created(run[r].order)
         /\ run[r].pc \in WithHold => run[r].hold \in Holds /\ Key(r) \in Keys
         /\ run[r].pc \in WithNew => run[r].new \in Holds
         /\ run[r].pc \in Late => run[r].pay.status = "CAPTURED" /\ Paid(run[r].order)
         /\ run[r].pay.status = "CAPTURED" => run[r].pc \in Late \cup {"record"}
         /\ run[r].pay.status = "CAPTURED" \/ run[r].pc = "settle" => Captured(Key(r))
<1>1. RunFits(r, run[r])
  BY DEF RunsFit
<1>2. run[r] \in Run /\ run[r].order \in Orders
  BY <1>1 DEF RunFits, Run
<1>3. run[r].pc \in WithHold => run[r].hold \in Holds
  BY <1>1 DEF RunFits
<1>4. Late \subseteq WithHold
  BY DEF WithHold
<1>5. run[r].pc \in Late => Paid(run[r].order)
  BY <1>1, <1>3, <1>4 DEF RunFits, Paid
<1> QED
  BY <1>1, <1>2, <1>3, <1>5 DEF RunFits, Key, Keys

-----------------------------------------------------------------------------
(* The rows.                                                               *)

LEMMA SameRows ==
  ASSUME RowsInv, UNCHANGED rows, crashes' \in 0..MaxCrashes
  PROVE  RowsInv' /\ Grows
BY DEF RowsInv, rows, RowsFit, PaymentsFit, DeliveriesArePaid, Grows, Created, Captured, Paid

\* An order's status, and the hold of a reallocated order.
LEMMA OrderChanges ==
  ASSUME RowsInv, NEW o \in Orders, Created(o), NEW row \in OrderRow,
         row.status # "none", row.hold # None,
         order' = [order EXCEPT ![o] = row] \/ order' = order,
         UNCHANGED <<payment, refundRow, hold, captured, returned, crashes>>
  PROVE  RowsInv' /\ Grows
<1>1. order' \in [Orders -> OrderRow]
  BY DEF RowsInv, RowsFit
<1>2. \A p \in Orders : order'[p] = order[p] \/ (p = o /\ order'[p] = row)
  BY DEF RowsInv, RowsFit
<1>3. RowsFit'
  BY <1>1, <1>2 DEF RowsInv, RowsFit
<1>4. Grows
  BY <1>2 DEF Grows, Created, Captured
<1>5. PaymentsFit'
  BY <1>4 DEF RowsInv, PaymentsFit, Grows, Captured
<1>6. DeliveriesArePaid'
  BY DEF RowsInv, DeliveriesArePaid, Paid, Captured
<1> QED
  BY <1>3, <1>4, <1>5, <1>6 DEF RowsInv

LEMMA StatusChanges ==
  ASSUME RowsInv, NEW o \in Orders, Created(o), NEW status \in Statuses \ {"none"},
         SetStatus(o, status),
         UNCHANGED <<payment, refundRow, hold, captured, returned, crashes>>
  PROVE  RowsInv' /\ Grows
<1>1. PICK row : row = [order[o] EXCEPT !.status = status]
  OBVIOUS
<1>2. order[o] \in OrderRow /\ order[o].hold # None
  BY DEF RowsInv, RowsFit, Created
<1>3. row \in OrderRow /\ row.status # "none" /\ row.hold # None
  BY <1>1, <1>2 DEF OrderRow
<1>4. order' = [order EXCEPT ![o] = row] \/ order' = order
  BY <1>1 DEF SetStatus
<1> QED
  BY <1>3, <1>4, OrderChanges

LEMMA PaymentChanges ==
  ASSUME RowsInv, NEW o \in Orders, NEW h \in Holds, Created(o), NEW row \in PaymentRow,
         row.status = "CAPTURED" => Captured(<<o, h>>),
         payment' = [payment EXCEPT ![<<o, h>>] = row] \/ payment' = payment,
         UNCHANGED <<order, refundRow, hold, captured, returned, crashes>>
  PROVE  RowsInv' /\ Grows
<1>1. payment' \in [Keys -> PaymentRow]
  BY DEF RowsInv, RowsFit
<1>2. \A k \in Keys : payment'[k] = payment[k] \/ (k = <<o, h>> /\ payment'[k] = row)
  BY DEF RowsInv, RowsFit
<1>3. RowsFit'
  BY <1>1 DEF RowsInv, RowsFit
<1>4. Grows
  BY DEF Grows, Created, Captured
<1>5. PaymentsFit'
  <2> SUFFICES ASSUME NEW p \in Orders, NEW g \in Holds
               PROVE  /\ payment'[<<p, g>>].status # "none" => Created(p)'
                      /\ payment'[<<p, g>>].status = "CAPTURED" => Captured(<<p, g>>)'
    BY DEF PaymentsFit
  <2>1. <<p, g>> \in Keys
    BY DEF Keys
  <2>2. CASE payment'[<<p, g>>] = payment[<<p, g>>]
    BY <1>4, <2>1, <2>2 DEF RowsInv, PaymentsFit, Grows
  <2>3. CASE <<p, g>> = <<o, h>> /\ payment'[<<p, g>>] = row
    BY <1>4, <2>1, <2>3 DEF Grows
  <2> QED
    BY <1>2, <2>1, <2>2, <2>3
<1>6. DeliveriesArePaid'
  BY DEF RowsInv, DeliveriesArePaid, Paid, Captured
<1> QED
  BY <1>3, <1>4, <1>5, <1>6 DEF RowsInv

LEMMA HoldChanges ==
  ASSUME RowsInv, NEW h \in Holds, NEW row \in HoldRows,
         row.rows = "BOOKED" /\ row.order \in Orders => Paid(row.order),
         hold' = [hold EXCEPT ![h] = row] \/ hold' = hold,
         UNCHANGED <<order, payment, refundRow, captured, returned, crashes>>
  PROVE  RowsInv' /\ Grows
<1>1. hold' \in [Holds -> HoldRows]
  BY DEF RowsInv, RowsFit
<1>2. \A g \in Holds : hold'[g] = hold[g] \/ (g = h /\ hold'[g] = row)
  BY DEF RowsInv, RowsFit
<1>3. RowsFit'
  BY <1>1 DEF RowsInv, RowsFit
<1>4. Grows
  BY DEF Grows, Created, Captured
<1>5. PaymentsFit'
  BY DEF RowsInv, PaymentsFit, Created, Captured
<1>6. \A o \in Orders : Paid(o)' <=> Paid(o)
  BY DEF Paid, Captured
<1>7. DeliveriesArePaid'
  BY <1>2, <1>6 DEF RowsInv, DeliveriesArePaid
<1> QED
  BY <1>3, <1>4, <1>5, <1>7 DEF RowsInv

-----------------------------------------------------------------------------
(* The steps of a run.                                                     *)

LEMMA InvParts == IInv <=> RowsInv /\ RunsFit
BY DEF IInv, RowsInv

\* Statements that set an order's status.
LEMMA StatusSteps ==
  ASSUME IInv, NEW r \in Runners,
         \/ Authorize(r) \/ Fail(r) \/ Confirming(r)
         \/ Confirmed(r) \/ Ticketed(r) \/ Compensated(r)
  PROVE  IInv'
<1>1. run[r].pc # "idle"
  BY DEF Authorize, Fail, Confirming, Confirmed, Ticketed, Compensated
<1>2. RowsInv /\ RunsFit /\ RowsFit
  BY InvParts DEF RowsInv
<1>3. PICK o \in Orders : o = run[r].order /\ Created(o)
  BY <1>1, <1>2, AtWork
<1>4. UNCHANGED <<payment, refundRow, hold, captured, returned, crashes>>
  BY DEF Authorize, Fail, Confirming, Confirmed, Ticketed, Compensated
<1>5. PICK status \in Statuses \ {"none"} : SetStatus(o, status)
  BY <1>3 DEF Authorize, Fail, Confirming, Confirmed, Ticketed, Compensated, SetStatus,
              Statuses, Resumable
<1>6. RowsInv' /\ Grows
  BY <1>2, <1>3, <1>4, <1>5, StatusChanges
<1>7. CASE Authorize(r)
  <2>1. run[r].pc = "authorize" /\ Goto(r, "extend")
    BY <1>7 DEF Authorize
  <2>2. run[r].hold \in Holds /\ run[r].pay.status # "CAPTURED"
    BY <1>2, <2>1, AtWork DEF WithHold, Late
  <2>3. RunsFit'
    BY <1>2, <1>6, <2>1, <2>2, GotoFits DEF Late, WithNew
  <2> QED
    BY <1>6, <2>3 DEF IInv, RowsInv
<1>8. CASE Fail(r) \/ Ticketed(r) \/ Compensated(r)
  <2>1. Finish(r)
    BY <1>8 DEF Fail, Ticketed, Compensated
  <2>2. PICK left : left = run[r].todo
    OBVIOUS
  <2>3. RunsFit'
    BY <1>1, <1>2, <1>6, <2>1, <2>2, FinishFits DEF Finish
  <2> QED
    BY <1>6, <2>3 DEF IInv, RowsInv
<1>9. CASE Confirming(r)
  <2>1. run[r].pc = "confirming" /\ Goto(r, "confirm")
    BY <1>9 DEF Confirming
  <2>2. run[r].hold \in Holds /\ run[r].pay.status = "CAPTURED"
    BY <1>2, <2>1, AtWork DEF WithHold, Late
  <2>3. RunsFit'
    BY <1>2, <1>6, <2>1, <2>2, GotoFits DEF Late, WithNew
  <2> QED
    BY <1>6, <2>3 DEF IInv, RowsInv
<1>10. CASE Confirmed(r)
  <2>1. run[r].pc = "confirmed" /\ Goto(r, "ticketed")
    BY <1>10 DEF Confirmed
  <2>2. run[r].hold \in Holds /\ run[r].pay.status = "CAPTURED"
    BY <1>2, <2>1, AtWork DEF WithHold, Late
  <2>3. RunsFit'
    BY <1>2, <1>6, <2>1, <2>2, GotoFits DEF Late, WithNew
  <2> QED
    BY <1>6, <2>3 DEF IInv, RowsInv
<1> QED
  BY <1>7, <1>8, <1>9, <1>10

\* Statements and calls about seats that go on to another step.
LEMMA SeatSteps ==
  ASSUME IInv, NEW r \in Runners,
         Extend(r) \/ Confirm(r) \/ ConfirmNew(r) \/ ReleaseNew(r)
  PROVE  IInv'
<1>1. run[r].pc # "idle"
  BY DEF Extend, Confirm, ConfirmNew, ReleaseNew
<1>2. RowsInv /\ RunsFit /\ RowsFit
  BY InvParts DEF RowsInv
<1>3. PICK o \in Orders : o = run[r].order
  BY <1>1, <1>2, AtWork
<1>4. UNCHANGED <<order, payment, refundRow, captured, returned, crashes>>
  BY DEF Extend, Confirm, ConfirmNew, ReleaseNew
<1>5. CASE Extend(r)
  <2>1. run[r].pc = "extend" /\ (Goto(r, "insert payment") \/ Goto(r, "fail"))
    BY <1>5 DEF Extend
  <2>2. run[r].hold \in Holds /\ run[r].pay.status # "CAPTURED"
    BY <1>2, <2>1, AtWork DEF WithHold, Late
  <2>3. PICK h \in Holds : h = run[r].hold
    BY <2>2
  <2>4. PICK row : row = [hold[h] EXCEPT !.rows = "PENDING_PAYMENT"]
    OBVIOUS
  <2>5. row \in HoldRows /\ row.rows = "PENDING_PAYMENT"
    BY <1>2, <2>4 DEF RowsFit, HoldRows
  <2>6. hold' = [hold EXCEPT ![h] = row] \/ hold' = hold
    BY <1>5, <2>3, <2>4 DEF Extend
  <2>7. RowsInv' /\ Grows
    BY <1>2, <1>4, <2>5, <2>6, HoldChanges
  <2>8. RunsFit'
    BY <1>2, <2>1, <2>2, <2>7, GotoFits DEF Late, WithNew, WithHold
  <2> QED
    BY <2>7, <2>8 DEF IInv, RowsInv
<1>6. ASSUME Confirm(r) \/ ConfirmNew(r)
      PROVE  IInv'
  <2>1. /\ run[r].pc \in {"confirm", "confirm new"} /\ run[r].pc \in Late
        /\ run[r].pc = "confirm new" => run[r].pc \in WithNew
    BY <1>6 DEF Confirm, ConfirmNew, Late, WithNew
  <2>2. run[r].hold \in Holds /\ run[r].pay.status = "CAPTURED" /\ Paid(o)
    BY <1>2, <1>3, <2>1, AtWork DEF WithHold, Late
  <2>3. PICK h \in Holds : \/ run[r].pc = "confirm" /\ h = run[r].hold
                           \/ run[r].pc = "confirm new" /\ h = run[r].new
    BY <1>1, <1>2, <2>1, <2>2, AtWork
  <2>4. PICK row : row = [hold[h] EXCEPT !.rows = "BOOKED", !.order = o]
    OBVIOUS
  <2>5. row \in HoldRows /\ row.order = o
    BY <1>2, <2>4 DEF RowsFit, HoldRows
  <2>6. hold' = [hold EXCEPT ![h] = row] \/ hold' = hold
    <3>1. CASE Confirm(r)
      BY <1>3, <2>3, <2>4, <3>1 DEF Confirm, Book
    <3>2. CASE ConfirmNew(r)
      BY <1>3, <2>3, <2>4, <3>2 DEF ConfirmNew, Book
    <3> QED
      BY <1>6, <3>1, <3>2
  <2>7. RowsInv' /\ Grows
    BY <1>2, <1>4, <2>2, <2>5, <2>6, HoldChanges
  <2>8. PICK pc \in {"confirmed", "reallocate", "switch", "release new"} :
          Goto(r, pc) /\ (pc \in WithNew => run[r].pc = "confirm new")
    BY <1>6 DEF Confirm, ConfirmNew, Book, WithNew
  <2>9. pc \in WithNew => run[r].new \in Holds
    BY <1>1, <1>2, <2>1, <2>8, AtWork
  <2>10. RunsFit'
    BY <1>1, <1>2, <2>2, <2>7, <2>8, <2>9, GotoFits DEF Late
  <2> QED
    BY <2>7, <2>10 DEF IInv, RowsInv
<1>7. CASE ReleaseNew(r)
  <2>1. run[r].pc = "release new" /\ Goto(r, "refund")
    BY <1>7 DEF ReleaseNew
  <2>2. run[r].hold \in Holds /\ run[r].new \in Holds /\ run[r].pay.status = "CAPTURED"
    BY <1>2, <2>1, AtWork DEF WithHold, WithNew, Late
  <2>3. PICK h \in Holds : h = run[r].new
    BY <2>2
  <2>4. PICK row : row = [hold[h] EXCEPT !.rows = "released", !.lapsed = FALSE]
    OBVIOUS
  <2>5. row \in HoldRows /\ row.rows = "released"
    BY <1>2, <2>4 DEF RowsFit, HoldRows
  <2>6. hold' = [hold EXCEPT ![h] = row] \/ hold' = hold
    BY <1>7, <2>3, <2>4 DEF ReleaseNew
  <2>7. RowsInv' /\ Grows
    BY <1>2, <1>4, <2>5, <2>6, HoldChanges
  <2>8. RunsFit'
    BY <1>2, <2>1, <2>2, <2>7, GotoFits DEF Late, WithNew
  <2> QED
    BY <2>7, <2>8 DEF IInv, RowsInv
<1> QED
  BY <1>5, <1>6, <1>7

\* BestAvailable gives the run another hold or sends it to the refund.
LEMMA ReallocateStep ==
  ASSUME IInv, NEW r \in Runners, Reallocate(r)
  PROVE  IInv'
<1>1. run[r].pc = "reallocate" /\ run[r].pc # "idle"
  BY DEF Reallocate
<1>2. RowsInv /\ RunsFit /\ RowsFit
  BY InvParts DEF RowsInv
<1>3. run[r] \in Run /\ run[r].hold \in Holds /\ run[r].pay.status = "CAPTURED" /\ Captured(Key(r))
  BY <1>1, <1>2, AtWork DEF WithHold, Late
<1>4. PICK o \in Orders : o = run[r].order /\ Created(o)
  BY <1>1, <1>2, AtWork
<1>5. UNCHANGED <<order, payment, refundRow, captured, returned, crashes>>
  BY DEF Reallocate
<1>6. CASE hold' = hold /\ Goto(r, "refund")
  <2>1. PICK h \in Holds : h = run[r].hold
    BY <1>3
  <2>2. RowsInv' /\ Grows
    BY <1>2, <1>5, <1>6, SameRows DEF rows, RowsFit
  <2>3. RunsFit'
    BY <1>1, <1>2, <1>3, <1>6, <2>2, GotoFits DEF Late, WithNew
  <2> QED
    BY <2>2, <2>3 DEF IInv, RowsInv
<1>7. ASSUME NEW h \in Holds,
             hold' = [hold EXCEPT ![h].rows = "HELD", ![h].order = run[r].order],
             \/ run' = [run EXCEPT ![r].new = h, ![r].pc = "confirm new"]
             \/ Goto(r, "refund")
      PROVE  IInv'
  <2>1. PICK row : row = [hold[h] EXCEPT !.rows = "HELD", !.order = o]
    OBVIOUS
  <2>2. row \in HoldRows /\ row.rows = "HELD"
    BY <1>2, <2>1 DEF RowsFit, HoldRows
  <2>3. hold' = [hold EXCEPT ![h] = row]
    BY <1>2, <1>4, <1>7, <2>1 DEF RowsFit
  <2>4. RowsInv' /\ Grows
    BY <1>2, <1>5, <2>2, <2>3, HoldChanges
  <2>5. CASE Goto(r, "refund")
    <3>1. RunsFit'
      BY <1>1, <1>2, <1>3, <2>4, <2>5, GotoFits DEF Late, WithNew
    <3> QED
      BY <2>4, <3>1 DEF IInv, RowsInv
  <2>6. CASE run' = [run EXCEPT ![r].new = h, ![r].pc = "confirm new"]
    <3>1. Moves(r) /\ run'[r] = [run[r] EXCEPT !.new = h, !.pc = "confirm new"]
      BY <1>2, <2>6 DEF Moves, RunsFit
    <3>2. /\ run'[r] \in Run /\ run'[r].pc = "confirm new" /\ run'[r].new = h
          /\ run'[r].order = run[r].order /\ run'[r].hold = run[r].hold
          /\ run'[r].pay = run[r].pay /\ run'[r].todo = run[r].todo
      BY <1>3, <3>1 DEF Run
    <3>3. \A j \in run[r].todo : Created(j.order)' /\ (r = Reconciler => j.hold \in Holds)
      BY <1>2, <1>3, <2>4 DEF RunsFit, RunFits, Run, Job, Grows
    <3>4. Captured(<<run[r].order, run[r].hold>>)'
      BY <1>3, <1>5, <3>2 DEF Captured, Key
    <3>5. run[r].order # None /\ (r \in Orders => run[r].todo = {})
      BY <1>1, <1>2 DEF RunsFit, RunFits
    <3>6. Created(run[r].order)'
      BY <1>4, <2>4, <3>2 DEF Grows
    <3>7. RunFits(r, run[r])'
      BY <1>3, <3>2, <3>3, <3>4, <3>5, <3>6 DEF RunFits, Late, WithNew
    <3>8. RunsFit'
      BY <1>1, <1>2, <2>4, <3>1, <3>7, RunnerMoves
    <3> QED
      BY <2>4, <3>8 DEF IInv, RowsInv
  <2> QED
    BY <1>7, <2>5, <2>6
<1> QED
  BY <1>6, <1>7 DEF Reallocate

\* ReallocateOrder: the order takes the new hold's id.
LEMMA SwitchStep ==
  ASSUME IInv, NEW r \in Runners, Switch(r)
  PROVE  IInv'
<1>1. run[r].pc = "switch" /\ run[r].pc # "idle" /\ Goto(r, "confirmed")
  BY DEF Switch
<1>2. RowsInv /\ RunsFit /\ RowsFit
  BY InvParts DEF RowsInv
<1>3. run[r].hold \in Holds /\ run[r].new \in Holds /\ run[r].pay.status = "CAPTURED"
  BY <1>1, <1>2, AtWork DEF WithHold, WithNew, Late
<1>4. PICK o \in Orders : o = run[r].order /\ Created(o)
  BY <1>1, <1>2, AtWork
<1>5. PICK row : row = [order[o] EXCEPT !.hold = run[r].new]
  OBVIOUS
<1>6. row \in OrderRow /\ row.status # "none" /\ row.hold # None
  BY <1>2, <1>3, <1>4, <1>5, NamesAssumption DEF RowsFit, OrderRow, Created
<1>7. order' = [order EXCEPT ![o] = row] \/ order' = order
  BY <1>2, <1>4, <1>5 DEF Switch, RowsFit
<1>8. UNCHANGED <<payment, refundRow, hold, captured, returned, crashes>>
  BY DEF Switch
<1>9. RowsInv' /\ Grows
  BY <1>2, <1>4, <1>6, <1>7, <1>8, OrderChanges
<1>10. RunsFit'
  BY <1>1, <1>2, <1>3, <1>9, GotoFits DEF Late, WithNew
<1> QED
  BY <1>9, <1>10 DEF IInv, RowsInv

\* The refund and its row.
LEMMA RefundSteps ==
  ASSUME IInv, NEW r \in Runners, Refund(r) \/ InsertRefund(r)
  PROVE  IInv'
<1>1. run[r].pc \in {"refund", "insert refund"} /\ run[r].pc # "idle" /\ run[r].pc \in Late
  BY DEF Refund, InsertRefund, Late
<1>2. RowsInv /\ RunsFit /\ RowsFit
  BY InvParts DEF RowsInv
<1>3. run[r] \in Run /\ run[r].hold \in Holds /\ run[r].pay.status = "CAPTURED" /\ Key(r) \in Keys
  BY <1>1, <1>2, AtWork DEF WithHold
<1>4. PICK o \in Orders : o = run[r].order /\ Paid(o)
  BY <1>1, <1>2, AtWork
<1>5. UNCHANGED <<order, payment, hold, captured, crashes>>
  BY DEF Refund, InsertRefund
<1>6. Grows /\ (\A p \in Orders : Paid(p)' <=> Paid(p)) /\ PaymentsFit'
  BY <1>2, <1>5 DEF Grows, Created, Captured, Paid, RowsInv, PaymentsFit
<1>7. refundRow' \subseteq Keys
  BY <1>2, <1>3 DEF Refund, InsertRefund, RowsFit
<1>8. PICK ref \in BOOLEAN : ref = run[r].pay.ref
  BY <1>3 DEF Run, PaymentRow
<1>9. returned' = returned \/ returned' = [returned EXCEPT ![o][ref] = @ + 1]
  <2>1. CASE Refund(r)
    BY <1>4, <1>8, <2>1 DEF Refund
  <2>2. CASE InsertRefund(r)
    BY <2>2 DEF InsertRefund
  <2> QED
    BY <2>1, <2>2
<1>10. returned' \in [Orders -> [BOOLEAN -> Nat]]
  <2>1. returned[o] \in [BOOLEAN -> Nat] /\ returned[o][ref] + 1 \in Nat
    BY <1>2 DEF RowsFit
  <2>2. [returned[o] EXCEPT ![ref] = @ + 1] \in [BOOLEAN -> Nat]
    BY <2>1
  <2> QED
    BY <1>2, <1>9, <2>2 DEF RowsFit
<1>11. \A p \in Orders \ {o} : returned'[p] = returned[p]
  BY <1>2, <1>9 DEF RowsFit
<1>12. RowsFit'
  BY <1>2, <1>5, <1>7, <1>10 DEF RowsFit
<1>13. DeliveriesArePaid'
  BY <1>2, <1>4, <1>5, <1>6, <1>11 DEF RowsInv, DeliveriesArePaid
<1>14. PICK pc \in {"insert refund", "compensated"} : Goto(r, pc)
  BY DEF Refund, InsertRefund
<1>15. RunsFit'
  BY <1>1, <1>2, <1>3, <1>6, <1>14, GotoFits DEF Late, WithNew
<1> QED
  BY <1>6, <1>12, <1>13, <1>15 DEF IInv

\* A runner that goes on with its order and may remember something new.
LEMMA GoesOnFits ==
  ASSUME RunsFit, RowsFit, Grows, NEW r \in Runners, Moves(r),
         run[r].pc # "idle", run'[r] \in Run, run'[r].pc # "idle",
         run'[r].order = run[r].order, run'[r].todo = run[r].todo,
         run'[r].pc \in WithHold => run'[r].hold \in Holds,
         run'[r].pc \notin WithNew,
         run'[r].pc \in Late => run'[r].pay.status = "CAPTURED",
         run'[r].pay.status = "CAPTURED" => run'[r].pc \in Late \cup {"record"},
         run'[r].pay.status = "CAPTURED" \/ run'[r].pc = "settle" => Captured(Key(r))'
  PROVE  RunsFit'
<1>1. RunFits(r, run[r]) /\ run[r] \in Run
  BY DEF RunsFit, RunFits
<1>2. run[r].order \in Orders /\ run[r].order # None /\ Created(run[r].order)'
  BY <1>1 DEF RunFits, Run, Grows
<1>3. \A j \in run[r].todo : Created(j.order)' /\ (r = Reconciler => j.hold \in Holds)
  BY <1>1 DEF RunFits, Run, Job, Grows
<1>4. RunFits(r, run[r])'
  BY <1>1, <1>2, <1>3 DEF RunFits, Key
<1> QED
  BY <1>4, RunnerMoves

LEMMA BranchFits ==
  ASSUME RunsFit, RowsFit, Grows, NEW r \in Runners, NEW pay \in PaymentRow, Branch(r, pay),
         run[r].pc # "idle", run[r].hold \in Holds,
         pay.status = "CAPTURED" => Captured(<<run[r].order, run[r].hold>>),
         UNCHANGED captured
  PROVE  RunsFit'
<1>1. RunFits(r, run[r]) /\ run[r] \in Run
  BY DEF RunsFit, RunFits
<1>2. CASE Finish(r)
  <2>1. PICK left : left = run[r].todo
    OBVIOUS
  <2> QED
    BY <1>2, <2>1, FinishFits DEF Finish
<1>3. ASSUME NEW pc \in {"fail", "confirming"}, pc = "confirming" <=> pay.status = "CAPTURED",
             run' = [run EXCEPT ![r].pay = pay, ![r].got = FALSE, ![r].pc = pc]
      PROVE  RunsFit'
  <2>1. Moves(r) /\ run'[r] = [run[r] EXCEPT !.pay = pay, !.got = FALSE, !.pc = pc]
    BY <1>3 DEF Moves, RunsFit
  <2>2. /\ run'[r] \in Run /\ run'[r].pc = pc /\ run'[r].order = run[r].order
        /\ run'[r].hold = run[r].hold /\ run'[r].todo = run[r].todo /\ run'[r].pay = pay
    BY <1>1, <2>1 DEF Run
  <2>3. pay.status = "CAPTURED" => Captured(Key(r))'
    BY <2>2 DEF Captured, Key
  <2> QED
    BY <1>3, <2>1, <2>2, <2>3, GoesOnFits DEF Late, WithNew, WithHold
<1>4. CASE /\ pay.status = "FAILED"
           /\ run' = [run EXCEPT ![r].pay = pay, ![r].got = FALSE, ![r].pc = "fail"]
  BY <1>3, <1>4
<1>5. CASE /\ pay.status = "CAPTURED"
           /\ run' = [run EXCEPT ![r].pay = pay, ![r].got = FALSE, ![r].pc = "confirming"]
  BY <1>3, <1>5
<1> QED
  BY <1>2, <1>4, <1>5 DEF Branch

LEMMA InsertPaymentStep ==
  ASSUME IInv, NEW r \in Runners, InsertPayment(r)
  PROVE  IInv'
<1>1. run[r].pc = "insert payment" /\ run[r].pc # "idle" /\ run[r].pc \in WithHold
  BY DEF InsertPayment, WithHold
<1>2. RowsInv /\ RunsFit /\ RowsFit
  BY InvParts DEF RowsInv
<1>3. PICK o \in Orders, h \in Holds : o = run[r].order /\ h = run[r].hold /\ Created(o)
  BY <1>1, <1>2, AtWork
<1>4. Key(r) = <<o, h>> /\ <<o, h>> \in Keys /\ run[r] \in Run
  BY <1>1, <1>2, <1>3, AtWork DEF Key
<1>5. payment[<<o, h>>] \in PaymentRow
  BY <1>2, <1>4 DEF RowsFit
<1>6. PICK row : row = [payment[<<o, h>>] EXCEPT !.status = "PENDING"]
  OBVIOUS
<1>7. row \in PaymentRow /\ row.status = "PENDING"
  BY <1>5, <1>6 DEF PaymentRow
<1>8. payment' = [payment EXCEPT ![<<o, h>>] = row] \/ payment' = payment
  BY <1>2, <1>4, <1>6 DEF InsertPayment, RowsFit
<1>9. UNCHANGED <<order, refundRow, hold, captured, returned, crashes>>
  BY DEF InsertPayment
<1>10. RowsInv' /\ Grows
  BY <1>2, <1>3, <1>7, <1>8, <1>9, PaymentChanges
<1>11. PICK pay \in PaymentRow : pay = payment'[<<o, h>>]
  BY <1>4, <1>10 DEF RowsInv, RowsFit
<1>12. CASE pay.status = "PENDING" /\ run' = [run EXCEPT ![r].pay = pay, ![r].pc = "charge"]
  <2>1. Moves(r) /\ run'[r] = [run[r] EXCEPT !.pay = pay, !.pc = "charge"]
    BY <1>2, <1>12 DEF Moves, RunsFit
  <2>2. /\ run'[r] \in Run /\ run'[r].pc = "charge" /\ run'[r].order = run[r].order
        /\ run'[r].hold = run[r].hold /\ run'[r].todo = run[r].todo /\ run'[r].pay = pay
    BY <1>4, <2>1 DEF Run
  <2>3. RunsFit'
    BY <1>1, <1>2, <1>3, <1>10, <1>12, <2>1, <2>2, GoesOnFits DEF Late, WithNew
  <2> QED
    BY <1>10, <2>3 DEF IInv, RowsInv
<1>13. CASE Branch(r, payment[<<o, h>>])
  <2>1. PICK old \in PaymentRow : old = payment[<<o, h>>]
    BY <1>5
  <2>2. old.status = "CAPTURED" => Captured(<<o, h>>)
    BY <1>2, <2>1 DEF RowsInv, PaymentsFit
  <2>3. RunsFit'
    BY <1>1, <1>2, <1>3, <1>9, <1>10, <1>13, <2>1, <2>2, BranchFits
  <2> QED
    BY <1>10, <2>3 DEF IInv, RowsInv
<1> QED
  BY <1>4, <1>11, <1>12, <1>13 DEF InsertPayment

LEMMA ChargeStep ==
  ASSUME IInv, NEW r \in Runners, Charge(r)
  PROVE  IInv'
<1>1. run[r].pc = "charge" /\ run[r].pc # "idle" /\ run[r].pc \in WithHold
  BY DEF Charge, WithHold
<1>2. RowsInv /\ RunsFit /\ RowsFit
  BY InvParts DEF RowsInv
<1>3. PICK o \in Orders, h \in Holds : o = run[r].order /\ h = run[r].hold /\ Created(o)
  BY <1>1, <1>2, AtWork
<1>4. Key(r) = <<o, h>> /\ <<o, h>> \in Keys /\ run[r] \in Run
  BY <1>1, <1>2, <1>3, AtWork DEF Key
<1>5. PICK p \in Providers : p = ProviderOf(r)
  BY DEF ProviderOf, Providers, Runners
<1>6. PICK pay \in {"CAPTURED", "FAILED", "UNKNOWN"}, took \in BOOLEAN :
        /\ pay = "CAPTURED" => took
        /\ captured' = IF took THEN [captured EXCEPT ![p] = @ \cup {<<o, h>>}] ELSE captured
        /\ run' = [run EXCEPT ![r].pay.status = pay, ![r].got = took, ![r].pc = "record"]
  BY <1>4, <1>5 DEF Charge
<1>7. UNCHANGED <<order, payment, refundRow, hold, returned, crashes>>
  BY DEF Charge
<1>8. captured' \in [Providers -> SUBSET Keys]
  BY <1>2, <1>4, <1>6 DEF RowsFit
<1>9. Grows /\ (took => Captured(<<o, h>>)')
  BY <1>2, <1>4, <1>6, <1>7 DEF Grows, Created, Captured, RowsFit
<1>10. RowsFit'
  BY <1>2, <1>7, <1>8 DEF RowsFit
<1>11. PaymentsFit'
  BY <1>2, <1>7, <1>9 DEF RowsInv, PaymentsFit, Grows, Keys
<1>12. \A q \in Orders : Paid(q) => Paid(q)'
  BY <1>9 DEF Paid, Grows, Keys
<1>13. DeliveriesArePaid'
  BY <1>2, <1>7, <1>12 DEF RowsInv, DeliveriesArePaid
<1>14. PICK row : row = [run[r].pay EXCEPT !.status = pay]
  OBVIOUS
<1>15. row \in PaymentRow /\ row.status = pay
  BY <1>4, <1>14 DEF Run, PaymentRow
<1>16. Moves(r) /\ run'[r] = [run[r] EXCEPT !.pay = row, !.got = took, !.pc = "record"]
  BY <1>2, <1>6, <1>14 DEF Moves, RunsFit
<1>17. /\ run'[r] \in Run /\ run'[r].pc = "record" /\ run'[r].order = run[r].order
       /\ run'[r].hold = run[r].hold /\ run'[r].todo = run[r].todo /\ run'[r].pay = row
  BY <1>4, <1>15, <1>16 DEF Run
<1>18. row.status = "CAPTURED" => Captured(Key(r))'
  BY <1>3, <1>6, <1>9, <1>15, <1>17 DEF Key
<1>19. RunsFit'
  BY <1>1, <1>2, <1>3, <1>9, <1>16, <1>17, <1>18, GoesOnFits DEF Late, WithNew
<1> QED
  BY <1>10, <1>11, <1>13, <1>19 DEF IInv

\* Statements that set a payment's status: after the charge, and by the reconciler.
LEMMA PaymentSteps ==
  ASSUME IInv, NEW r \in Runners, Record(r) \/ Settle(r) \/ Decline(r)
  PROVE  IInv'
<1>1. run[r].pc \in {"record", "settle", "decline"} /\ run[r].pc # "idle" /\ run[r].pc \in WithHold
  BY DEF Record, Settle, Decline, WithHold
<1>2. RowsInv /\ RunsFit /\ RowsFit
  BY InvParts DEF RowsInv
<1>3. PICK o \in Orders, h \in Holds : o = run[r].order /\ h = run[r].hold /\ Created(o)
  BY <1>1, <1>2, AtWork
<1>4. Key(r) = <<o, h>> /\ run[r] \in Run
  BY <1>1, <1>2, <1>3, AtWork DEF Key
<1>5. PICK pay \in PaymentRow : pay = run[r].pay
  BY <1>4 DEF Run
<1>6. /\ run[r].got \in BOOLEAN /\ pay.ref \in BOOLEAN
      /\ pay.status \in {"none", "PENDING", "CAPTURED", "FAILED", "UNKNOWN"}
  BY <1>4, <1>5 DEF Run, PaymentRow
<1>7. pay.status = "CAPTURED" \/ run[r].pc = "settle" => Captured(<<o, h>>)
  BY <1>1, <1>2, <1>4, <1>5, AtWork
<1>8. PICK row \in PaymentRow :
        /\ row.status = "CAPTURED" => Captured(<<o, h>>)
        /\ payment' = [payment EXCEPT ![<<o, h>>] = row] \/ payment' = payment
  <2>1. CASE Record(r)
    <3>1. PICK row : row = [status |-> pay.status, ref |-> run[r].got]
      OBVIOUS
    <3>2. row \in PaymentRow /\ row.status = pay.status
      BY <1>6, <3>1 DEF PaymentRow
    <3> QED
      BY <1>4, <1>5, <1>7, <2>1, <3>1, <3>2 DEF Record, SetPayment
  <2>2. CASE Settle(r)
    <3>1. PICK row : row = [status |-> "CAPTURED", ref |-> pay.ref]
      OBVIOUS
    <3>2. row \in PaymentRow
      BY <1>6, <3>1 DEF PaymentRow
    <3> QED
      BY <1>4, <1>5, <1>7, <2>2, <3>1, <3>2 DEF Settle, SetPayment
  <2>3. CASE Decline(r)
    <3>1. PICK row : row = [status |-> "FAILED", ref |-> FALSE]
      OBVIOUS
    <3>2. row \in PaymentRow /\ row.status = "FAILED"
      BY <3>1 DEF PaymentRow
    <3> QED
      BY <1>4, <2>3, <3>1, <3>2 DEF Decline, SetPayment
  <2> QED
    BY <2>1, <2>2, <2>3
<1>9. UNCHANGED <<order, refundRow, hold, captured, returned, crashes>>
  BY DEF Record, Settle, Decline
<1>10. RowsInv' /\ Grows
  BY <1>2, <1>3, <1>8, <1>9, PaymentChanges
<1>11. CASE Record(r)
  <2>1. Branch(r, pay)
    BY <1>5, <1>11 DEF Record
  <2>2. RunsFit'
    BY <1>1, <1>2, <1>3, <1>7, <1>9, <1>10, <2>1, BranchFits
  <2> QED
    BY <1>10, <2>2 DEF IInv, RowsInv
<1>12. CASE Settle(r)
  <2>1. run' = [run EXCEPT ![r].pc = "start", ![r].hold = None, ![r].pay = NoPayment]
    BY <1>12 DEF Settle
  <2>2. Moves(r) /\ run'[r] = [run[r] EXCEPT !.pc = "start", !.hold = None, !.pay = NoPayment]
    BY <1>2, <2>1 DEF Moves, RunsFit
  <2>3. NoPayment \in PaymentRow /\ NoPayment.status = "none"
    BY DEF NoPayment, PaymentRow
  <2>4. /\ run'[r] \in Run /\ run'[r].pc = "start" /\ run'[r].order = run[r].order
        /\ run'[r].todo = run[r].todo /\ run'[r].pay.status = "none"
    BY <1>4, <2>2, <2>3 DEF Run
  <2>5. RunsFit'
    BY <1>1, <1>2, <1>10, <2>2, <2>4, GoesOnFits DEF Late, WithNew, WithHold
  <2> QED
    BY <1>10, <2>5 DEF IInv, RowsInv
<1>13. CASE Decline(r)
  <2>1. run[r].pc = "decline" /\ Goto(r, "fail")
    BY <1>13 DEF Decline
  <2>2. run[r].pay.status # "CAPTURED"
    BY <1>2, <2>1, AtWork DEF Late
  <2>3. RunsFit'
    BY <1>1, <1>2, <1>10, <2>1, <2>2, GotoFits DEF Late, WithNew, WithHold
  <2> QED
    BY <1>10, <2>3 DEF IInv, RowsInv
<1> QED
  BY <1>11, <1>12, <1>13

\* Steps that change no row: reading the order, asking the provider, crashing.
LEMMA ReadingSteps ==
  ASSUME IInv, NEW r \in Runners, Start(r) \/ Query(r) \/ Crash(r)
  PROVE  IInv'
<1>1. run[r].pc # "idle"
  BY DEF Start, Query, Crash
<1>2. RowsInv /\ RunsFit /\ RowsFit
  BY InvParts DEF RowsInv
<1>3. PICK o \in Orders : o = run[r].order /\ Created(o)
  BY <1>1, <1>2, AtWork
<1>4. run[r] \in Run
  BY <1>1, <1>2, AtWork
<1>5. UNCHANGED rows /\ crashes' \in 0..MaxCrashes
  <2>1. crashes \in 0..MaxCrashes /\ MaxCrashes \in Nat
    BY <1>2, BoundsAssumption DEF RowsFit
  <2> QED
    <3>1. CASE Start(r) \/ Query(r)
      BY <2>1, <3>1 DEF Start, Query
    <3>2. CASE Crash(r)
      BY <2>1, <3>2 DEF Crash
    <3> QED
      BY <3>1, <3>2
<1>6. RowsInv' /\ Grows
  BY <1>2, <1>5, SameRows
<1>7. CASE Finish(r)
  <2>1. PICK left : left = run[r].todo
    OBVIOUS
  <2>2. RunsFit'
    BY <1>1, <1>2, <1>6, <1>7, <2>1, FinishFits DEF Finish
  <2> QED
    BY <1>6, <2>2 DEF IInv, RowsInv
<1>8. CASE Crash(r)
  <2>1. PICK left \in {{}, run[r].todo} : run' = [run EXCEPT ![r] = [IdleRun EXCEPT !.todo = left]]
    BY <1>8 DEF Crash
  <2>2. left \in SUBSET run[r].todo
    OBVIOUS
  <2>3. RunsFit'
    BY <1>1, <1>2, <1>6, <2>1, <2>2, FinishFits
  <2> QED
    BY <1>6, <2>3 DEF IInv, RowsInv
<1>9. CASE Query(r)
  <2>1. /\ run[r].pc = "query"
        /\ \/ Goto(r, "decline")
           \/ Goto(r, "settle") /\ Key(r) \in captured[ProviderOf(r)]
    BY <1>9 DEF Query
  <2>2. run[r].hold \in Holds /\ run[r].pay.status # "CAPTURED"
    BY <1>1, <1>2, <2>1, AtWork DEF Late, WithHold
  <2>3. ProviderOf(r) \in Providers
    BY DEF ProviderOf, Providers, Runners
  <2>4. Goto(r, "decline") \/ (Goto(r, "settle") /\ Captured(Key(r)))
    BY <2>1, <2>3 DEF Captured
  <2>5. CASE Goto(r, "decline")
    BY <1>1, <1>2, <1>6, <2>2, <2>5, GotoFits DEF Late, WithNew, IInv, RowsInv
  <2>6. CASE Goto(r, "settle") /\ Captured(Key(r))
    BY <1>1, <1>2, <1>6, <2>2, <2>6, GotoFits DEF Late, WithNew, IInv, RowsInv
  <2> QED
    BY <2>4, <2>5, <2>6
<1>10. ASSUME Start(r), ~Finish(r)
       PROVE  IInv'
  <2>1. PICK h \in Holds : h = order[o].hold
    BY <1>2, <1>3 DEF RowsFit, OrderRow, Created
  <2>2. PICK pc \in {"authorize", "insert payment"} : run' = [run EXCEPT ![r].hold = h, ![r].pc = pc]
    BY <1>3, <1>10, <2>1 DEF Start
  <2>3. run[r].pay.status # "CAPTURED"
    BY <1>1, <1>2, <1>10, AtWork DEF Start, Late
  <2>4. Moves(r) /\ run'[r] = [run[r] EXCEPT !.hold = h, !.pc = pc]
    BY <1>2, <2>2 DEF Moves, RunsFit
  <2>5. /\ run'[r] \in Run /\ run'[r].pc = pc /\ run'[r].order = run[r].order
        /\ run'[r].todo = run[r].todo /\ run'[r].pay = run[r].pay /\ run'[r].hold = h
    BY <1>4, <2>4 DEF Run
  <2>6. RunsFit'
    BY <1>1, <1>2, <1>6, <2>3, <2>4, <2>5, GoesOnFits DEF Late, WithNew
  <2> QED
    BY <1>6, <2>6 DEF IInv, RowsInv
<1> QED
  BY <1>7, <1>8, <1>9, <1>10

LEMMA SweepStep ==
  ASSUME IInv, NEW r \in Runners, Sweep(r)
  PROVE  IInv'
<1>1. /\ r \in Sweepers /\ run[r].pc = "idle"
      /\ run' = [run EXCEPT ![r].todo = Stuck(r)]
      /\ UNCHANGED rows /\ crashes' = crashes
  BY DEF Sweep
<1>2. RowsInv /\ RunsFit /\ RowsFit
  BY InvParts DEF RowsInv
<1>3. RowsInv' /\ Grows
  BY <1>1, <1>2, SameRows DEF RowsFit
<1>4. RunFits(r, run[r]) /\ run[r] \in Run
  BY <1>2 DEF RunsFit, RunFits
<1>5. r \notin Orders
  BY <1>1, NamesAssumption DEF Sweepers
<1>6. ASSUME NEW j \in Stuck(r)
      PROVE  j \in Job /\ Created(j.order) /\ (r = Reconciler => j.hold \in Holds)
  <2>1. CASE r = Worker
    <3>1. PICK o \in Orders : /\ order[o].status \in Resumable
                            /\ j = [order |-> o, hold |-> None, ref |-> FALSE]
      BY <1>6, <2>1 DEF Stuck
    <3>2. j \in Job /\ j.order = o
      BY <3>1 DEF Job
    <3> QED
      BY <2>1, <3>1, <3>2, NamesAssumption DEF Resumable, Created
  <2>2. CASE r # Worker
    <3>1. PICK k \in Keys : /\ payment[k].status \in {"PENDING", "UNKNOWN"}
                            /\ j = [order |-> k[1], hold |-> k[2], ref |-> payment[k].ref]
      BY <1>6, <2>2 DEF Stuck
    <3>2. PICK o \in Orders, h \in Holds : k = <<o, h>>
      BY DEF Keys
    <3>3. payment[k] \in PaymentRow
      BY <1>2 DEF RowsFit
    <3>4. j \in Job /\ j.order = o /\ j.hold = h
      BY <3>1, <3>2, <3>3 DEF Job, PaymentRow
    <3>5. Created(o)
      BY <1>2, <3>1, <3>2 DEF RowsInv, PaymentsFit
    <3> QED
      BY <3>4, <3>5
  <2> QED
    BY <2>1, <2>2
<1>7. PICK jobs : jobs = Stuck(r) /\ jobs \subseteq Job
  BY <1>6
<1>8. Moves(r) /\ run'[r] = [run[r] EXCEPT !.todo = jobs]
  BY <1>1, <1>2, <1>7 DEF Moves, RunsFit
<1>9. /\ run'[r] \in Run /\ run'[r].pc = "idle" /\ run'[r].todo = jobs
      /\ run'[r].order = run[r].order /\ run'[r].hold = run[r].hold /\ run'[r].pay = run[r].pay
  <2>2. /\ run'[r].pc = "idle" /\ run'[r].todo = jobs /\ run'[r].order = run[r].order
        /\ run'[r].hold = run[r].hold /\ run'[r].pay = run[r].pay
    <3>1. run[r] \in Run /\ run[r].pc = "idle"
      BY <1>1, <1>4
    <3>2. run'[r] = [run[r] EXCEPT !.todo = jobs]
      BY <1>8
    <3> QED
      BY ONLY <3>1, <3>2 DEF Run
  <2>3. run'[r] \in Run
    BY <1>4, <1>7, <1>8 DEF Run
  <2> QED
    BY <2>2, <2>3
<1>10. run[r].order = None /\ run[r].pay.status # "CAPTURED"
  BY <1>1, <1>4 DEF RunFits, Late
<1>11. \A j \in jobs : Created(j.order)' /\ (r = Reconciler => j.hold \in Holds)
  BY <1>3, <1>6, <1>7 DEF Job, Grows
<1>12. RunFits(r, run[r])'
  BY <1>5, <1>9, <1>10, <1>11 DEF RunFits, Late, WithHold, WithNew
<1>13. RunsFit'
  BY <1>2, <1>3, <1>5, <1>8, <1>12, RunnerMoves
<1> QED
  BY <1>3, <1>13 DEF IInv, RowsInv

LEMMA VisitStep ==
  ASSUME IInv, NEW r \in Runners, Visit(r)
  PROVE  IInv'
<1>1. run[r].pc = "idle" /\ UNCHANGED rows /\ crashes' = crashes
  BY DEF Visit
<1>2. RowsInv /\ RunsFit /\ RowsFit
  BY InvParts DEF RowsInv
<1>3. RowsInv' /\ Grows
  BY <1>1, <1>2, SameRows DEF RowsFit
<1>4. RunFits(r, run[r]) /\ run[r] \in Run
  BY <1>2 DEF RunsFit, RunFits
<1>5. PICK j \in run[r].todo :
        run' = [run EXCEPT ![r].pc = IF r = Worker THEN "start" ELSE "query",
                           ![r].order = j.order, ![r].hold = j.hold, ![r].pay.ref = j.ref,
                           ![r].todo = @ \ {j}]
  BY DEF Visit
<1>6. /\ j \in Job /\ Created(j.order) /\ r \notin Orders
      /\ r = Reconciler => j.hold \in Holds
  BY <1>4 DEF RunFits, Run
<1>7. r = Worker \/ r = Reconciler
  BY <1>6 DEF Runners, Sweepers
<1>8. PICK pay : pay = [run[r].pay EXCEPT !.ref = j.ref]
  OBVIOUS
<1>9. pay \in PaymentRow /\ pay.status # "CAPTURED"
  BY <1>1, <1>4, <1>6, <1>8 DEF RunFits, Run, PaymentRow, Job, Late
<1>10. PICK pc \in {"start", "query"} : /\ pc = "query" => r # Worker
                                       /\ pc = IF r = Worker THEN "start" ELSE "query"
  OBVIOUS
<1>11. PICK todo : todo = run[r].todo \ {j} /\ todo \subseteq Job
  <2>1. run[r].todo \subseteq Job
    BY <1>4 DEF Run
  <2> QED
    BY <2>1
<1>20. /\ Moves(r)
        /\ run'[r] = [run[r] EXCEPT !.pc = pc, !.order = j.order, !.hold = j.hold, !.pay = pay,
                                    !.todo = todo]
  <2>1. run'[r] = [run[r] EXCEPT !.pc = IF r = Worker THEN "start" ELSE "query",
                                 !.order = j.order, !.hold = j.hold, !.pay.ref = j.ref,
                                 !.todo = @ \ {j}]
    BY <1>2, <1>5 DEF RunsFit
  <2>2. Moves(r)
    BY <1>2, <1>5 DEF Moves, RunsFit
  <2>3. [run[r] EXCEPT !.pc = IF r = Worker THEN "start" ELSE "query",
                       !.order = j.order, !.hold = j.hold, !.pay.ref = j.ref,
                       !.todo = @ \ {j}]
        = [run[r] EXCEPT !.pc = pc, !.order = j.order, !.hold = j.hold, !.pay = pay,
                         !.todo = todo]
    BY <1>4, <1>8, <1>10, <1>11 DEF Run
  <2> QED
    BY <2>1, <2>2, <2>3
<1>12. j.order \in Orders /\ j.hold \in Holds \cup {None}
  BY <1>6 DEF Job
<1>13. /\ run'[r] \in Run /\ run'[r].pc = pc /\ run'[r].todo = todo
       /\ run'[r].order = j.order /\ run'[r].hold = j.hold /\ run'[r].pay = pay
  BY <1>4, <1>9, <1>11, <1>12, <1>20 DEF Run
<1>14. \A i \in run[r].todo : Created(i.order)' /\ (r = Reconciler => i.hold \in Holds)
  BY <1>3, <1>4 DEF RunFits, Run, Job, Grows
<1>15. Created(j.order)' /\ j.order # None
  BY <1>3, <1>6, <1>12, NamesAssumption DEF Grows
<1>16. pc = "query" => j.hold \in Holds
  BY <1>6, <1>7, <1>10
<1>17. RunFits(r, run[r])'
  BY <1>6, <1>9, <1>11, <1>13, <1>14, <1>15, <1>16 DEF RunFits, Late, WithHold, WithNew
<1>18. RunsFit'
  BY <1>2, <1>3, <1>6, <1>20, <1>17, RunnerMoves
<1> QED
  BY <1>3, <1>18 DEF IInv, RowsInv

-----------------------------------------------------------------------------
(* Buyers and time, and the theorems.                                      *)

LEMMA CreateOrderStep ==
  ASSUME IInv, NEW o \in Orders, NEW h \in Holds, CreateOrder(o, h)
  PROVE  IInv'
<1>1. /\ order[o].status = "none"
      /\ order' = [order EXCEPT ![o] = [status |-> "PENDING", hold |-> h]]
      /\ run' = [run EXCEPT ![o].pc = "start", ![o].order = o]
      /\ UNCHANGED <<payment, refundRow, hold, captured, returned, crashes>>
  BY DEF CreateOrder
<1>2. RowsInv /\ RunsFit /\ RowsFit
  BY InvParts DEF RowsInv
<1>3. PICK row : row = [status |-> "PENDING", hold |-> h]
  OBVIOUS
<1>4. row \in OrderRow /\ row.status = "PENDING" /\ row.hold # None /\ o # None
  BY <1>3, NamesAssumption DEF OrderRow, Statuses, Resumable
<1>5. order' \in [Orders -> OrderRow] /\ order'[o] = row /\ \A p \in Orders \ {o} : order'[p] = order[p]
  BY <1>1, <1>2, <1>3, <1>4 DEF RowsFit
<1>6. Grows
  BY <1>1, <1>4, <1>5 DEF Grows, Created, Captured
<1>7. RowsFit'
  BY <1>1, <1>2, <1>4, <1>5 DEF RowsFit
<1>8. PaymentsFit'
  BY <1>1, <1>2, <1>6 DEF RowsInv, PaymentsFit, Grows, Captured
<1>9. DeliveriesArePaid'
  BY <1>1, <1>2 DEF RowsInv, DeliveriesArePaid, Paid, Captured
<1>10. o \in Runners /\ run[o].pc = "idle"
  BY <1>1, <1>2 DEF RunsFit, Created, Runners
<1>11. RunFits(o, run[o]) /\ run[o] \in Run
  BY <1>2, <1>10 DEF RunsFit, RunFits
<1>12. Moves(o) /\ run'[o] = [run[o] EXCEPT !.pc = "start", !.order = o]
  BY <1>1, <1>2, <1>10 DEF Moves, RunsFit
<1>13. /\ run'[o] \in Run /\ run'[o].pc = "start" /\ run'[o].order = o
       /\ run'[o].todo = run[o].todo /\ run'[o].pay = run[o].pay
  BY <1>11, <1>12 DEF Run
<1>14. run[o].todo = {} /\ run[o].pay.status # "CAPTURED"
  BY <1>10, <1>11 DEF RunFits, Late
<1>15. Created(o)'
  BY <1>4, <1>5 DEF Created
<1>16. RunFits(o, run[o])'
  BY <1>4, <1>13, <1>14, <1>15 DEF RunFits, Late, WithHold, WithNew
<1>17. RunsFit'
  BY <1>2, <1>6, <1>10, <1>12, <1>15, <1>16, RunnerMoves
<1> QED
  BY <1>7, <1>8, <1>9, <1>17 DEF IInv

LEMMA HoldSteps ==
  ASSUME IInv, NEW h \in Holds, AcquireHold(h) \/ Lapse(h) \/ LoseHold(h)
  PROVE  IInv'
<1>1. UNCHANGED <<order, payment, refundRow, captured, returned, run, crashes>>
  BY DEF AcquireHold, Lapse, LoseHold
<1>2. RowsInv /\ RunsFit /\ RowsFit
  BY InvParts DEF RowsInv
<1>3. hold[h] \in HoldRows
  BY <1>2 DEF RowsFit
<1>4. PICK row \in HoldRows : row.rows # "BOOKED" /\ hold' = [hold EXCEPT ![h] = row]
  <2>1. CASE AcquireHold(h)
    <3>1. PICK row : row = [hold[h] EXCEPT !.rows = "HELD"]
      OBVIOUS
    <3> QED
      BY <1>3, <2>1, <3>1 DEF AcquireHold, HoldRows
  <2>2. CASE Lapse(h)
    <3>1. PICK row : row = [hold[h] EXCEPT !.lapsed = TRUE]
      OBVIOUS
    <3> QED
      BY <1>3, <2>2, <3>1 DEF Lapse, HoldRows, Alive, Live
  <2>3. CASE LoseHold(h)
    <3>1. PICK row : row = [hold[h] EXCEPT !.rows = "released", !.lapsed = FALSE]
      OBVIOUS
    <3>2. row \in HoldRows /\ row.rows = "released"
      BY <1>3, <3>1 DEF HoldRows
    <3>3. hold' = [hold EXCEPT ![h] = row]
      BY <2>3, <3>1 DEF LoseHold
    <3> QED
      BY <3>2, <3>3
  <2> QED
    BY <2>1, <2>2, <2>3
<1>5. RowsInv'
  BY <1>1, <1>2, <1>4, HoldChanges
<1>6. RunsFit'
  BY <1>1, <1>2 DEF RunsFit, RunFits, Created, Captured
<1> QED
  BY <1>5, <1>6 DEF IInv, RowsInv

LEMMA InvInit == Init => IInv
<1> SUFFICES ASSUME Init PROVE IInv
  OBVIOUS
<1>1. /\ IdleRun.pc = "idle" /\ IdleRun.order = None /\ IdleRun.todo = {}
      /\ IdleRun.pay = NoPayment /\ NoPayment.status = "none" /\ NoPayment \in PaymentRow
  BY DEF IdleRun, NoPayment, PaymentRow
<1>2. IdleRun \in Run
  BY <1>1 DEF Run, IdleRun
<1>3. ASSUME NEW o \in Orders
      PROVE  order[o] \in OrderRow /\ order[o].status = "none" /\ order[o].hold = None
  BY DEF Init, OrderRow, Statuses
<1>4. ASSUME NEW h \in Holds
      PROVE  hold[h] \in HoldRows /\ hold[h].rows # "BOOKED"
  BY DEF Init, HoldRows
<1>5. RowsFit
  <2>1. order = [o \in Orders |-> order[o]] /\ hold = [h \in Holds |-> hold[h]]
    BY DEF Init
  <2>2. payment \in [Keys -> PaymentRow] /\ captured \in [Providers -> SUBSET Keys] /\ refundRow = {}
    BY <1>1 DEF Init
  <2>3. returned \in [Orders -> [BOOLEAN -> Nat]] /\ crashes \in 0..MaxCrashes
    BY BoundsAssumption DEF Init
  <2> QED
    BY <1>3, <1>4, <2>1, <2>2, <2>3 DEF RowsFit
<1>6. PaymentsFit
  BY <1>1 DEF Init, PaymentsFit, Keys
<1>7. RunsFit
  <2>1. \A r \in Runners : run[r] = IdleRun
    BY DEF Init
  <2>2. \A r \in Runners : RunFits(r, run[r])
    BY <1>1, <1>2, <2>1 DEF RunFits, Late, WithHold, WithNew
  <2> QED
    BY <1>1, <2>1, <2>2 DEF RunsFit, Init, Runners
<1>8. DeliveriesArePaid
  BY <1>4 DEF Init, DeliveriesArePaid
<1> QED
  BY <1>5, <1>6, <1>7, <1>8 DEF IInv

LEMMA InvNext == IInv /\ [Next]_vars => IInv'
<1> SUFFICES ASSUME IInv, [Next]_vars PROVE IInv'
  OBVIOUS
<1>1. CASE UNCHANGED vars
  BY <1>1 DEF vars, IInv, RowsFit, PaymentsFit, RunsFit, RunFits, DeliveriesArePaid, Created,
              Captured, Paid
<1>2. ASSUME NEW r \in Runners, RunStep(r)
      PROVE  IInv'
  BY <1>2, StatusSteps, SeatSteps, ReallocateStep, SwitchStep, RefundSteps, InsertPaymentStep,
     ChargeStep, PaymentSteps, ReadingSteps DEF RunStep
<1>3. ASSUME NEW r \in Runners, Crash(r) \/ Sweep(r) \/ Visit(r)
      PROVE  IInv'
  BY <1>3, ReadingSteps, SweepStep, VisitStep
<1>4. ASSUME NEW h \in Holds, AcquireHold(h) \/ Lapse(h) \/ LoseHold(h)
      PROVE  IInv'
  BY <1>4, HoldSteps
<1>5. ASSUME NEW o \in Orders, NEW h \in Holds, CreateOrder(o, h)
      PROVE  IInv'
  BY <1>5, CreateOrderStep
<1> QED
  BY <1>1, <1>2, <1>3, <1>4, <1>5 DEF Next

\* The inductive invariant: what each run remembers agrees with the rows, and
\* deliveries and refunds follow captures, however the runs of RunSaga interleave.
THEOREM SagaInvariant == Spec => []IInv
BY InvInit, InvNext, PTL DEF Spec

\* Rows and runs keep their types; a finished run leaves no order behind.
THEOREM SagaTypeCorrect == Spec => []TypeOK
<1>1. IInv => TypeOK
  <2> SUFFICES ASSUME IInv PROVE TypeOK
    OBVIOUS
  <2>1. \A r \in Runners : run[r] \in Run /\ ((run[r].pc = "idle") <=> (run[r].order = None))
    BY DEF IInv, RunsFit, RunFits
  <2>2. run \in [Runners -> Run]
    BY <2>1 DEF IInv, RunsFit
  <2> QED
    BY <2>1, <2>2 DEF IInv, RowsFit, TypeOK
<1> QED
  BY <1>1, SagaInvariant, PTL

LEMMA OneIsPositive ==
  ASSUME NEW a \in Nat, NEW b \in Nat, a + b > 0
  PROVE  a > 0 \/ b > 0
OBVIOUS

\* Confirm and compensate come after a capture on every path of RunSaga: an order
\* gets seats or a refund only when a provider has taken its money.
THEOREM NothingComesWithoutMoney == Spec => []NothingWithoutMoney
<1>1. IInv => NothingWithoutMoney
  <2> SUFFICES ASSUME IInv, NEW o \in Orders, SeatsOf(o) # {} \/ Returns(o) > 0
               PROVE  Charges(o) # {}
    BY DEF NothingWithoutMoney
  <2>1. returned[o][TRUE] \in Nat /\ returned[o][FALSE] \in Nat
    BY DEF IInv, RowsFit
  <2>2. Paid(o)
    <3>1. CASE SeatsOf(o) # {}
      BY <3>1 DEF SeatsOf, IInv, DeliveriesArePaid
    <3>2. CASE Returns(o) > 0
      <4>2. PICK a, b : a \in Nat /\ b \in Nat /\ a = returned[o][TRUE] /\ b = returned[o][FALSE]
        BY <2>1
      <4>3. a + b > 0
        BY <3>2, <4>2 DEF Returns
      <4>1. a > 0 \/ b > 0
        BY <4>2, <4>3, OneIsPositive
      <4> QED
        BY <4>1, <4>2 DEF IInv, DeliveriesArePaid
    <3> QED
      BY <3>1, <3>2
  <2>3. PICK h \in Holds, p \in Providers : <<o, h>> \in captured[p]
    BY <2>2 DEF Paid, Captured
  <2>4. <<p, <<o, h>>>> \in Charges(o)
    BY <2>3 DEF Charges, Keys
  <2> QED
    BY <2>4
<1> QED
  BY <1>1, SagaInvariant, PTL

-----------------------------------------------------------------------------
(* Runs that take turns: what the rows say of one order, and what the run  *)
(* that has the order does.                                                *)

Alone == OneProvider /\ Overlap = "none" /\ ~Flaky

View(o) ==
  [status   |-> order[o].status, hold |-> order[o].hold,
   pay      |-> [h \in Holds |-> payment[<<o, h>>].status],
   taken    |-> {h \in Holds : Captured(<<o, h>>)},
   seats    |-> SeatsOf(o), back |-> Returns(o),
   refunded |-> {h \in Holds : <<o, h>> \in refundRow}]

\* The steps that use the hold the order has, and those of the reconciler.
Current == {"authorize", "extend", "insert payment", "charge", "record", "confirming", "confirm",
            "reallocate", "confirm new", "switch", "release new", "refund", "insert refund",
            "compensated"}
Asking  == {"query", "settle", "decline"}

Untried(v) == \A h \in Holds : v.pay[h] = "none"

\* Nothing was tried before the order was authorized; a capture is followed by its
\* row and is never recorded as declined; a payment is for the order's hold or, once
\* other seats were found, has been captured; and the status tells the truth.
RowsTell(v) ==
  /\ v.status \in {"none", "PENDING"} => Untried(v)
  /\ \A h \in v.taken : v.pay[h] \notin {"none", "FAILED"}
  /\ \A h \in Holds : v.pay[h] # "none" => h = v.hold \/ h \in v.taken
  /\ v.status \in {"CONFIRMED", "TICKETED"} =>
       v.hold \in v.seats /\ \E h \in Holds : v.pay[h] = "CAPTURED"
  /\ v.status = "FAILED" => v.hold \notin v.taken
  /\ v.status = "COMPENSATED" => v.back > 0

\* What a run remembers is what the rows say.
RunTells(v, x) ==
  /\ x.pc = "authorize" => v.status = "PENDING"
  /\ x.pc \in (Current \ {"authorize"}) \cup {"confirmed"} =>
       v.status \in {"AUTHORIZING", "CONFIRMING"}
  /\ x.pc \in Current => x.hold = v.hold
  /\ x.pc \in {"authorize", "extend"} => Untried(v)
  /\ x.pc \in {"charge", "record"} => v.pay[x.hold] = "PENDING"
  /\ x.pc = "record" /\ x.pay.status = "FAILED" => x.hold \notin v.taken
  /\ x.pc \in Late => v.pay[x.hold] = "CAPTURED"
  /\ x.pc = "fail" => v.hold \notin v.taken
  /\ x.pc \in Asking => v.pay[x.hold] # "none"
  /\ x.pc = "decline" => x.hold \notin v.taken
  /\ x.pc \in {"confirmed", "ticketed"} => v.hold \in v.seats
  /\ x.pc = "switch" => x.new \in v.seats
  /\ x.pc \in {"insert refund", "compensated"} => v.back > 0

\* One run at a time, and a goroutine runs its own order only.
OneRun(o) ==
  /\ run[o].order \in {o, None}
  /\ \A r, q \in Runners : run[r].order = o /\ run[q].order = o => r = q

\* A listed order's goroutine is done, and a listed payment exists.
JobsTell(r) ==
  \A j \in run[r].todo :
    /\ run[j.order].pc = "idle"
    /\ r = Reconciler => payment[<<j.order, j.hold>>].status # "none"

OneCharger == \A p \in Providers \ {Server} : captured[p] = {}

TellInv ==
  /\ OneCharger
  /\ \A r \in Runners : JobsTell(r)
  /\ \A o \in Orders : OneRun(o) /\ RowsTell(View(o))
  /\ \A r \in Runners : run[r].order # None => RunTells(View(run[r].order), run[r])

\* Without crashes: an order that was moved to other seats has them and owes no
\* payment for them; seats and refunds are of a run that is about to say so, or of
\* an order whose status does; and what was captured is accounted for.
Moved(v) == v.taken \ {v.hold} # {}

RowsSettle(v, pcs) ==
  /\ Moved(v) => v.pay[v.hold] = "none" /\ v.hold \in v.seats
  /\ v.seats # {} => v.status \in {"CONFIRMED", "TICKETED"} \/ pcs \cap {"switch", "confirmed"} # {}
  /\ v.back > 0 => v.status = "COMPENSATED" \/ pcs \cap {"insert refund", "compensated"} # {}
  /\ v.status = "FAILED" => v.taken = {}
  /\ v.status = "COMPENSATED" => v.taken \subseteq v.refunded

RunSettles(v, x) ==
  /\ x.pc = "fail" => v.taken = {}
  /\ x.pc = "compensated" => x.hold \in v.refunded

At(o) == {run[r].pc : r \in {q \in Runners : run[q].order = o}}

SettleInv ==
  /\ \A o \in Orders : RowsSettle(View(o), At(o))
  /\ \A r \in Runners : run[r].order # None => RunSettles(View(run[r].order), run[r])

-----------------------------------------------------------------------------
(* How a step changes the rows of an order from v to w and what the run    *)
(* that has the order remembers from x to y.                               *)

Goes(x, y, pc) == y.pc = pc /\ y.hold = x.hold /\ y.pay = x.pay /\ y.new = x.new
Ends(y)        == y.pc = "idle"

Marks(v, w, status) == w = [v EXCEPT !.status = status]
Pays(v, w, h, status) == w = [v EXCEPT !.pay[h] = status]
Takes(v, w, h)   == w = [v EXCEPT !.taken = @ \cup {h}]
Books(v, w, h)   == w = [v EXCEPT !.seats = @ \cup {h}]
Renames(v, w, h) == w = [v EXCEPT !.hold = h]
GivesBack(v, w)  == w = [v EXCEPT !.back = @ + 1]
Notes(v, w, h)   == w = [v EXCEPT !.refunded = @ \cup {h}]

ReadsOn(v, x, w, y) ==
  /\ w = v
  /\ \/ x.pc = "start" /\ Ends(y)
     \/ x.pc = "start" /\ v.status = "PENDING" /\ y.pc = "authorize" /\ y.hold = v.hold
     \/ /\ x.pc = "start" /\ v.status \in {"AUTHORIZING", "CONFIRMING"}
        /\ y.pc = "insert payment" /\ y.hold = v.hold
     \/ x.pc = "extend" /\ (Goes(x, y, "insert payment") \/ Goes(x, y, "fail"))
     \/ /\ x.pc = "reallocate" /\ y.hold = x.hold /\ y.pay = x.pay
        /\ y.pc \in {"confirm new", "refund"}
     \/ x.pc = "release new" /\ Goes(x, y, "refund")
     \/ x.pc = "query" /\ x.hold \in v.taken /\ Goes(x, y, "settle")
     \/ x.pc = "query" /\ x.hold \notin v.taken /\ Goes(x, y, "decline")

MarksOn(v, x, w, y) ==
  \/ x.pc = "authorize"   /\ Marks(v, w, "AUTHORIZING") /\ Goes(x, y, "extend")
  \/ x.pc = "fail"        /\ Marks(v, w, "FAILED")      /\ Ends(y)
  \/ x.pc = "confirming"  /\ Marks(v, w, "CONFIRMING")  /\ Goes(x, y, "confirm")
  \/ x.pc = "confirmed"   /\ Marks(v, w, "CONFIRMED")   /\ Goes(x, y, "ticketed")
  \/ x.pc = "ticketed"    /\ Marks(v, w, "TICKETED")    /\ Ends(y)
  \/ x.pc = "compensated" /\ Marks(v, w, "COMPENSATED") /\ Ends(y)

BranchesOn(x, y, status) ==
  \/ status = "FAILED"   /\ y.pc = "fail"       /\ y.hold = x.hold
  \/ status = "CAPTURED" /\ y.pc = "confirming" /\ y.hold = x.hold
  \/ status = "UNKNOWN"  /\ Ends(y)

PaysOn(v, x, w, y) ==
  LET h == x.hold IN
  \/ /\ x.pc = "insert payment" /\ y.pc = "charge" /\ y.hold = h
     /\ \/ v.pay[h] = "none" /\ Pays(v, w, h, "PENDING")
        \/ v.pay[h] = "PENDING" /\ w = v
  \/ x.pc = "insert payment" /\ w = v /\ BranchesOn(x, y, v.pay[h])
  \/ /\ x.pc = "charge" /\ y.pc = "record" /\ y.hold = h
     /\ \/ Takes(v, w, h) /\ y.pay.status # "FAILED"
        \/ w = v /\ (y.pay.status = "FAILED" => h \notin v.taken)
  \/ x.pc = "record"  /\ Pays(v, w, h, x.pay.status) /\ BranchesOn(x, y, x.pay.status)
  \/ x.pc = "settle"  /\ Pays(v, w, h, "CAPTURED")   /\ y.pc = "start"
  \/ x.pc = "decline" /\ Pays(v, w, h, "FAILED")     /\ Goes(x, y, "fail")

DeliversOn(v, x, w, y) ==
  \/ x.pc = "confirm"       /\ Books(v, w, x.hold)  /\ Goes(x, y, "confirmed")
  \/ x.pc = "confirm"       /\ w = v                /\ Goes(x, y, "reallocate")
  \/ x.pc = "confirm new"   /\ Books(v, w, x.new)   /\ Goes(x, y, "switch")
  \/ x.pc = "confirm new"   /\ w = v                /\ Goes(x, y, "release new")
  \/ x.pc = "switch"        /\ Renames(v, w, x.new) /\ Goes(x, y, "confirmed")
  \/ x.pc = "refund"        /\ GivesBack(v, w)      /\ Goes(x, y, "insert refund")
  \/ x.pc = "insert refund" /\ Notes(v, w, x.hold)  /\ Goes(x, y, "compensated")

Effect(v, x, w, y) ==
  ReadsOn(v, x, w, y) \/ MarksOn(v, x, w, y) \/ PaysOn(v, x, w, y) \/ DeliversOn(v, x, w, y)

\* What OrderSaga's inductive invariant says of such a pair.
Views == [status   : Statuses, hold : Holds \cup {None},
          pay      : [Holds -> {"none", "PENDING", "CAPTURED", "FAILED", "UNKNOWN"}],
          taken    : SUBSET Holds, seats : SUBSET Holds, back : Nat, refunded : SUBSET Holds]

ViewFits(v) ==
  /\ v \in Views
  /\ v.status = "none" => Untried(v)
  /\ v.status = "none" <=> v.hold = None
  /\ \A h \in Holds : v.pay[h] = "CAPTURED" => h \in v.taken
  /\ v.seats # {} \/ v.back > 0 => v.taken # {}

MemoryFits(v, x) ==
  /\ x.pc \in WithHold => x.hold \in Holds
  /\ x.pc \in WithNew => x.new \in Holds
  /\ x.pc \in Late \/ x.pc = "settle" => x.hold \in v.taken

Knows(v, x) == ViewFits(v) /\ MemoryFits(v, x) /\ RowsTell(v) /\ RunTells(v, x)

\* A view with one field replaced.
LEMMA ViewFields ==
  ASSUME NEW v \in Views
  PROVE  /\ \A s : LET w == [v EXCEPT !.status = s] IN
              /\ w.status = s /\ w.hold = v.hold /\ w.pay = v.pay /\ w.taken = v.taken
              /\ w.seats = v.seats /\ w.back = v.back /\ w.refunded = v.refunded
         /\ \A h \in Holds : \A s : LET w == [v EXCEPT !.pay[h] = s] IN
              /\ w.status = v.status /\ w.hold = v.hold /\ w.taken = v.taken
              /\ w.seats = v.seats /\ w.back = v.back /\ w.refunded = v.refunded
              /\ w.pay[h] = s /\ \A g \in Holds \ {h} : w.pay[g] = v.pay[g]
BY DEF Views

LEMMA ReadsTell ==
  ASSUME NEW v, NEW x, NEW w, NEW y, Knows(v, x), ReadsOn(v, x, w, y)
  PROVE  RowsTell(w) /\ RunTells(w, y)
<1>1. w = v /\ RowsTell(v) /\ RunTells(v, x) /\ MemoryFits(v, x)
  BY DEF Knows, ReadsOn
<1>2. CASE x.pc = "start"
  BY <1>1, <1>2 DEF ReadsOn, RunTells, RowsTell, Ends, Current, Asking, Late
<1>3. CASE x.pc = "extend"
  <2>1. x.hold = v.hold /\ Untried(v) /\ v.status \in {"AUTHORIZING", "CONFIRMING"}
    BY <1>1, <1>3 DEF RunTells, Current
  <2>2. v.hold \notin v.taken
    BY <1>1, <2>1, <1>3 DEF MemoryFits, WithHold, Untried, RowsTell
  <2> QED
    BY <1>1, <1>3, <2>1, <2>2 DEF ReadsOn, RunTells, Goes, Current, Asking, Late
<1>4. CASE x.pc \in {"reallocate", "release new"}
  <2>1. /\ x.hold = v.hold /\ v.pay[x.hold] = "CAPTURED"
        /\ v.status \in {"AUTHORIZING", "CONFIRMING"}
    BY <1>1, <1>4 DEF RunTells, Current, Late
  <2> QED
    BY <1>1, <1>4, <2>1 DEF ReadsOn, RunTells, Goes, Current, Asking, Late
<1>5. CASE x.pc = "query"
  <2>1. v.pay[x.hold] # "none"
    BY <1>1, <1>5 DEF RunTells, Asking
  <2> QED
    BY <1>1, <1>5, <2>1 DEF ReadsOn, RunTells, Goes, Current, Asking, Late
<1> QED
  BY <1>1, <1>2, <1>3, <1>4, <1>5 DEF ReadsOn

LEMMA MarksTell ==
  ASSUME NEW v, NEW x, NEW w, NEW y, Knows(v, x), MarksOn(v, x, w, y)
  PROVE  RowsTell(w) /\ RunTells(w, y)
<1>1. v \in Views /\ RowsTell(v) /\ RunTells(v, x) /\ MemoryFits(v, x)
  BY DEF Knows, ViewFits
<1>2. PICK s : Marks(v, w, s)
  BY DEF MarksOn
<1>3. /\ w.status = s /\ w.hold = v.hold /\ w.pay = v.pay /\ w.taken = v.taken
      /\ w.seats = v.seats /\ w.back = v.back
  BY <1>1, <1>2, ViewFields DEF Marks
<1>4. CASE x.pc = "authorize" /\ s = "AUTHORIZING" /\ Goes(x, y, "extend")
  BY <1>1, <1>3, <1>4 DEF RunTells, RowsTell, Goes, Current, Asking, Late, Untried
<1>5. CASE x.pc = "fail" /\ s = "FAILED" /\ Ends(y)
  BY <1>1, <1>3, <1>5 DEF RunTells, RowsTell, Ends, Current, Asking, Late, Untried
<1>6. CASE x.pc = "confirming" /\ s = "CONFIRMING" /\ Goes(x, y, "confirm")
  BY <1>1, <1>3, <1>6 DEF RunTells, RowsTell, Goes, Current, Asking, Late, Untried
<1>7. CASE x.pc = "confirmed" /\ s = "CONFIRMED" /\ Goes(x, y, "ticketed")
  BY <1>1, <1>3, <1>7 DEF MemoryFits, WithHold, RunTells, RowsTell, Goes, Current, Asking, Late, Untried
<1>8. CASE x.pc = "ticketed" /\ s = "TICKETED" /\ Ends(y)
  BY <1>1, <1>3, <1>8 DEF MemoryFits, WithHold, RunTells, RowsTell, Ends, Current, Asking, Late, Untried
<1>9. CASE x.pc = "compensated" /\ s = "COMPENSATED" /\ Ends(y)
  BY <1>1, <1>3, <1>9 DEF RunTells, RowsTell, Ends, Current, Asking, Late, Untried
<1>10. \A t : Marks(v, w, t) => t = s
  BY <1>1, <1>3, ViewFields DEF Marks
<1> QED
  BY <1>4, <1>5, <1>6, <1>7, <1>8, <1>9, <1>10 DEF MarksOn

\* A payment of the order's hold, or one that was captured, changes.
LEMMA PaymentTells ==
  ASSUME NEW v \in Views, NEW h \in Holds, NEW s \in {"PENDING", "CAPTURED", "FAILED", "UNKNOWN"},
         NEW w, Pays(v, w, h, s), RowsTell(v),
         v.status \notin {"none", "PENDING"},
         h = v.hold \/ h \in v.taken,
         s = "FAILED" => h \notin v.taken,
         v.pay[h] # "CAPTURED" \/ s = "CAPTURED"
  PROVE  /\ RowsTell(w)
         /\ w.status = v.status /\ w.hold = v.hold /\ w.taken = v.taken /\ w.seats = v.seats
         /\ w.back = v.back /\ w.pay[h] = s
<1>1. /\ w.status = v.status /\ w.hold = v.hold /\ w.taken = v.taken
      /\ w.seats = v.seats /\ w.back = v.back
      /\ w.pay[h] = s /\ \A g \in Holds \ {h} : w.pay[g] = v.pay[g]
  BY ViewFields DEF Pays
<1>2. v.taken \subseteq Holds
  BY DEF Views
<1>3. \A g \in v.taken : w.pay[g] \notin {"none", "FAILED"}
  BY <1>1, <1>2 DEF RowsTell
<1>4. \A g \in Holds : w.pay[g] # "none" => g = v.hold \/ g \in v.taken
  BY <1>1 DEF RowsTell
<1>5. (\E g \in Holds : v.pay[g] = "CAPTURED") => \E g \in Holds : w.pay[g] = "CAPTURED"
  BY <1>1
<1> QED
  BY <1>1, <1>3, <1>4, <1>5 DEF RowsTell

LEMMA PaysTell ==
  ASSUME NEW v, NEW x, NEW w, NEW y, Knows(v, x), PaysOn(v, x, w, y)
  PROVE  RowsTell(w) /\ RunTells(w, y)
<1> DEFINE h == x.hold
<1>1. v \in Views /\ RowsTell(v) /\ RunTells(v, x) /\ MemoryFits(v, x)
  BY DEF Knows, ViewFits
<1>2. h \in Holds
  BY <1>1 DEF PaysOn, MemoryFits, WithHold
<1>3. v.pay[h] = "CAPTURED" => h \in v.taken
  BY <1>2 DEF Knows, ViewFits
<1> HIDE DEF h
<1>4. CASE x.pc = "insert payment"
  <2>1. h = v.hold /\ v.status \in {"AUTHORIZING", "CONFIRMING"}
    BY <1>1, <1>4 DEF h, RunTells, Current
  <2>2. CASE /\ y.pc = "charge" /\ y.hold = h
             /\ v.pay[h] = "none" /\ Pays(v, w, h, "PENDING")
    <3>1. /\ RowsTell(w) /\ w.pay[h] = "PENDING" /\ w.status = v.status /\ w.hold = v.hold
      BY <1>1, <1>2, <2>1, <2>2, PaymentTells
    <3> QED
      BY <2>1, <2>2, <3>1 DEF RunTells, Current, Asking, Late
  <2>3. CASE y.pc = "charge" /\ y.hold = h /\ v.pay[h] = "PENDING" /\ w = v
    BY <1>1, <2>1, <2>3 DEF RunTells, Current, Asking, Late
  <2>4. CASE w = v /\ BranchesOn(x, y, v.pay[h])
    BY <1>1, <1>2, <2>1, <2>4 DEF h, BranchesOn, Ends, RowsTell, RunTells, Current, Asking, Late
  <2> QED
    BY <1>4, <2>2, <2>3, <2>4 DEF h, PaysOn
<1>5. CASE x.pc = "charge"
  <2>1. h = v.hold /\ v.status \in {"AUTHORIZING", "CONFIRMING"} /\ v.pay[h] = "PENDING"
    BY <1>1, <1>5 DEF h, RunTells, Current
  <2>2. CASE Takes(v, w, h) /\ y.pc = "record" /\ y.hold = h /\ y.pay.status # "FAILED"
    <3>1. /\ w.status = v.status /\ w.hold = v.hold /\ w.pay = v.pay /\ w.seats = v.seats
          /\ w.back = v.back /\ w.taken = v.taken \cup {h}
      BY <1>1, <2>2 DEF Views, Takes
    <3>2. RowsTell(w)
      BY <1>1, <2>1, <3>1 DEF RowsTell
    <3> QED
      BY <2>1, <2>2, <3>1, <3>2 DEF RunTells, Current, Asking, Late
  <2>3. CASE w = v /\ y.pc = "record" /\ y.hold = h /\ (y.pay.status = "FAILED" => h \notin v.taken)
    BY <1>1, <2>1, <2>3 DEF RunTells, Current, Asking, Late
  <2> QED
    BY <1>5, <2>2, <2>3 DEF h, PaysOn
<1>6. CASE x.pc = "record"
  <2>1. h = v.hold /\ v.status \in {"AUTHORIZING", "CONFIRMING"} /\ v.pay[h] = "PENDING"
    BY <1>1, <1>6 DEF h, RunTells, Current
  <2>2. PICK s \in {"CAPTURED", "FAILED", "UNKNOWN"} :
          s = x.pay.status /\ Pays(v, w, h, s) /\ BranchesOn(x, y, s)
    BY <1>6 DEF h, PaysOn, BranchesOn
  <2>3. s = "FAILED" => h \notin v.taken
    BY <1>1, <1>6, <2>2 DEF h, RunTells
  <2>4. RowsTell(w) /\ w.pay[h] = s /\ w.status = v.status /\ w.hold = v.hold /\ w.taken = v.taken
    BY <1>1, <1>2, <2>1, <2>2, <2>3, PaymentTells
  <2> QED
    BY <2>1, <2>2, <2>3, <2>4 DEF h, BranchesOn, Ends, RunTells, Current, Asking, Late
<1>7. CASE x.pc = "settle" /\ Pays(v, w, h, "CAPTURED") /\ y.pc = "start"
  <2>1. h \in v.taken /\ v.pay[h] # "none"
    BY <1>1, <1>7 DEF h, MemoryFits, RunTells, Asking
  <2>2. v.status \notin {"none", "PENDING"}
    BY <1>1, <1>2, <2>1 DEF RowsTell, Untried
  <2>3. RowsTell(w)
    BY <1>1, <1>2, <1>7, <2>1, <2>2, PaymentTells
  <2> QED
    BY <1>7, <2>3 DEF RunTells, Current, Asking, Late
<1>8. CASE x.pc = "decline" /\ Pays(v, w, h, "FAILED") /\ Goes(x, y, "fail")
  <2>1. h \notin v.taken /\ v.pay[h] # "none"
    BY <1>1, <1>8 DEF h, RunTells, Asking
  <2>2. v.status \notin {"none", "PENDING"} /\ h = v.hold
    BY <1>1, <1>2, <2>1 DEF RowsTell, Untried
  <2>3. RowsTell(w) /\ w.hold = v.hold /\ w.taken = v.taken
    BY <1>1, <1>2, <1>3, <1>8, <2>1, <2>2, PaymentTells
  <2> QED
    BY <1>8, <2>1, <2>2, <2>3 DEF Goes, RunTells, Current, Asking, Late
<1> QED
  BY <1>4, <1>5, <1>6, <1>7, <1>8 DEF h, PaysOn

LEMMA DeliversTell ==
  ASSUME NEW v, NEW x, NEW w, NEW y, Knows(v, x), DeliversOn(v, x, w, y)
  PROVE  RowsTell(w) /\ RunTells(w, y)
<1>1. v \in Views /\ RowsTell(v) /\ RunTells(v, x) /\ MemoryFits(v, x)
  BY DEF Knows, ViewFits
<1>2. /\ x.hold \in Holds /\ x.hold = v.hold /\ x.hold \in v.taken /\ v.pay[x.hold] = "CAPTURED"
      /\ v.status \in {"AUTHORIZING", "CONFIRMING"}
  BY <1>1 DEF DeliversOn, MemoryFits, RunTells, WithHold, Late, Current
<1>3. CASE /\ w = v
           /\ \/ x.pc = "confirm" /\ Goes(x, y, "reallocate")
              \/ x.pc = "confirm new" /\ Goes(x, y, "release new")
  BY <1>1, <1>2, <1>3 DEF Goes, RunTells, Current, Asking, Late
<1>4. ASSUME NEW h, Books(v, w, h),
             \/ x.pc = "confirm" /\ h = x.hold /\ Goes(x, y, "confirmed")
             \/ x.pc = "confirm new" /\ h = x.new /\ Goes(x, y, "switch")
      PROVE  RowsTell(w) /\ RunTells(w, y)
  <2>1. /\ w.status = v.status /\ w.hold = v.hold /\ w.pay = v.pay /\ w.taken = v.taken
        /\ w.back = v.back /\ w.seats = v.seats \cup {h}
    BY <1>1, <1>4 DEF Views, Books
  <2>2. RowsTell(w)
    BY <1>1, <2>1 DEF RowsTell, Untried
  <2> QED
    BY <1>2, <1>4, <2>1, <2>2 DEF Goes, RunTells, Current, Asking, Late
<1>5. CASE x.pc = "switch" /\ Renames(v, w, x.new) /\ Goes(x, y, "confirmed")
  <2>1. /\ w.status = v.status /\ w.hold = x.new /\ w.pay = v.pay /\ w.taken = v.taken
        /\ w.back = v.back /\ w.seats = v.seats
    BY <1>1, <1>5 DEF Views, Renames
  <2>2. RowsTell(w)
    BY <1>1, <1>2, <2>1 DEF RowsTell, Untried
  <2> QED
    BY <1>1, <1>2, <1>5, <2>1, <2>2 DEF Goes, RunTells, Current, Asking, Late
<1>6. CASE x.pc = "refund" /\ GivesBack(v, w) /\ Goes(x, y, "insert refund")
  <2>1. /\ w.status = v.status /\ w.hold = v.hold /\ w.pay = v.pay /\ w.taken = v.taken
        /\ w.seats = v.seats /\ w.back > 0
    <3>1. PICK b \in Nat : b = v.back
      BY <1>1 DEF Views
    <3>2. PICK n \in Nat : n = b + 1 /\ n > 0
      OBVIOUS
    <3>3. w = [v EXCEPT !.back = n]
      BY <1>6, <3>1, <3>2 DEF GivesBack
    <3> QED
      BY <1>1, <3>2, <3>3 DEF Views
  <2>2. RowsTell(w)
    BY <1>1, <1>2, <2>1 DEF RowsTell, Untried
  <2> QED
    BY <1>2, <1>6, <2>1, <2>2 DEF Goes, RunTells, Current, Asking, Late
<1>7. CASE /\ x.pc = "insert refund" /\ Notes(v, w, x.hold)
           /\ Goes(x, y, "compensated")
  <2>1. /\ w.status = v.status /\ w.hold = v.hold /\ w.pay = v.pay /\ w.taken = v.taken
        /\ w.seats = v.seats /\ w.back = v.back
    BY <1>1, <1>7 DEF Views, Notes
  <2>2. RowsTell(w) /\ v.back > 0
    BY <1>1, <1>7, <2>1 DEF RowsTell, RunTells, Untried
  <2> QED
    BY <1>2, <1>7, <2>1, <2>2 DEF Goes, RunTells, Current, Asking, Late
<1> QED
  BY <1>3, <1>4, <1>5, <1>6, <1>7 DEF DeliversOn

LEMMA EffectTells ==
  ASSUME NEW v, NEW x, NEW w, NEW y, Knows(v, x), Effect(v, x, w, y)
  PROVE  RowsTell(w) /\ RunTells(w, y)
BY ReadsTell, MarksTell, PaysTell, DeliversTell DEF Effect

Settled(v, x) == RowsSettle(v, {x.pc}) /\ RunSettles(v, x)

\* Until a run has moved the order to other seats, no one has.
LEMMA NotMoved ==
  ASSUME NEW v, NEW x, Knows(v, x), Settled(v, x), x.pc \in Current
  PROVE  v.taken \subseteq {v.hold}
<1> SUFFICES ASSUME Moved(v) PROVE FALSE
  BY DEF Moved
<1>1. v.pay[v.hold] = "none" /\ v.hold \in v.seats
  BY DEF Settled, RowsSettle
<1>2. CASE x.pc \in {"authorize", "extend"}
  <2>1. \A h \in Holds : v.pay[h] = "none"
    BY <1>2 DEF Knows, RunTells, Untried
  <2>2. v.taken \subseteq Holds
    BY DEF Knows, ViewFits, Views
  <2>3. v.taken = {}
    BY <2>1, <2>2 DEF Knows, RowsTell
  <2> QED
    BY <2>3 DEF Moved
<1>3. CASE x.pc = "insert payment"
  BY <1>1, <1>3 DEF Settled, RowsSettle, Knows, RunTells, Current
<1>4. CASE x.pc \in {"charge", "record"}
  BY <1>1, <1>4 DEF Knows, RunTells, Current
<1>5. CASE x.pc \in Late
  BY <1>1, <1>5 DEF Knows, RunTells, Current, Late
<1> QED
  BY <1>2, <1>3, <1>4, <1>5 DEF Current, Late

LEMMA ReadsSettle ==
  ASSUME NEW v, NEW x, NEW w, NEW y, Knows(v, x), Settled(v, x), ReadsOn(v, x, w, y)
  PROVE  Settled(w, y)
<1>1. w = v /\ RowsSettle(v, {x.pc})
  BY DEF ReadsOn, Settled
<1>2. /\ x.pc \notin {"switch", "confirmed", "insert refund", "compensated"}
      /\ y.pc \notin {"switch", "confirmed", "insert refund", "compensated"}
  BY DEF ReadsOn, Goes, Ends
<1>3. RowsSettle(v, {y.pc})
  BY <1>1, <1>2 DEF RowsSettle
<1>4. y.pc = "fail" => v.taken = {}
  <2> SUFFICES ASSUME x.pc = "extend" PROVE v.taken = {}
    BY DEF ReadsOn, Goes, Ends
  <2>1. \A h \in Holds : v.pay[h] = "none"
    BY DEF Knows, RunTells, Untried
  <2>2. v.taken \subseteq Holds
    BY DEF Knows, ViewFits, Views
  <2> QED
    BY <2>1, <2>2 DEF Knows, RowsTell
<1> QED
  BY <1>1, <1>2, <1>3, <1>4 DEF Settled, RunSettles

LEMMA MarksSettle ==
  ASSUME NEW v, NEW x, NEW w, NEW y, Knows(v, x), Settled(v, x), MarksOn(v, x, w, y)
  PROVE  Settled(w, y)
<1>1. v \in Views /\ RowsTell(v) /\ RunTells(v, x) /\ RowsSettle(v, {x.pc}) /\ RunSettles(v, x)
  BY DEF Knows, ViewFits, Settled
<1>2. PICK s : Marks(v, w, s)
  BY DEF MarksOn
<1>3. /\ w.status = s /\ w.hold = v.hold /\ w.pay = v.pay /\ w.taken = v.taken
      /\ w.seats = v.seats /\ w.back = v.back /\ w.refunded = v.refunded
  BY <1>1, <1>2, ViewFields DEF Marks
<1>4. Moved(w) <=> Moved(v)
  BY <1>3 DEF Moved
<1>5. CASE /\ x.pc \in {"authorize", "confirming"} /\ y.pc \in {"extend", "confirm"}
           /\ s \in {"AUTHORIZING", "CONFIRMING"}
  BY <1>1, <1>3, <1>4, <1>5 DEF RowsSettle, RunSettles, Settled, RunTells, Current
<1>6. CASE x.pc = "fail" /\ s = "FAILED" /\ Ends(y)
  <2>1. v.taken = {} /\ v.seats = {} /\ ~(v.back > 0)
    BY <1>1, <1>6 DEF RunSettles, Knows, ViewFits
  <2> QED
    BY <1>1, <1>3, <1>4, <1>6, <2>1 DEF RowsSettle, RunSettles, Settled, Ends
<1>7. CASE x.pc = "confirmed" /\ s = "CONFIRMED" /\ y.pc = "ticketed"
  BY <1>1, <1>3, <1>4, <1>7 DEF RowsSettle, RunSettles, Settled, RunTells, Current
<1>8. CASE x.pc = "ticketed" /\ s = "TICKETED" /\ Ends(y)
  <2>1. v.status \in {"CONFIRMED", "TICKETED"}
    BY <1>1, <1>8 DEF RowsSettle, RunTells
  <2> QED
    BY <1>1, <1>3, <1>4, <1>8, <2>1 DEF RowsSettle, RunSettles, Settled, Ends
<1>9. CASE x.pc = "compensated" /\ s = "COMPENSATED" /\ Ends(y)
  <2>1. v.taken \subseteq {v.hold} /\ x.hold = v.hold /\ v.status \in {"AUTHORIZING", "CONFIRMING"}
    BY <1>1, <1>9, NotMoved DEF RunTells, Current
  <2>2. v.taken \subseteq v.refunded /\ v.seats = {}
    BY <1>1, <1>9, <2>1 DEF RowsSettle, RunSettles
  <2> QED
    BY <1>1, <1>3, <1>4, <1>9, <2>1, <2>2 DEF RowsSettle, RunSettles, Settled, Ends
<1>10. \A t : Marks(v, w, t) => t = s
  BY <1>1, <1>3, ViewFields DEF Marks
<1> QED
  BY <1>5, <1>6, <1>7, <1>8, <1>9, <1>10 DEF MarksOn, Goes

LEMMA PaysSettle ==
  ASSUME NEW v, NEW x, NEW w, NEW y, Knows(v, x), Settled(v, x), PaysOn(v, x, w, y)
  PROVE  Settled(w, y)
<1> DEFINE h == x.hold
<1>1. /\ v \in Views /\ RowsTell(v) /\ RunTells(v, x) /\ MemoryFits(v, x)
      /\ RowsSettle(v, {x.pc}) /\ RunSettles(v, x)
  BY DEF Knows, ViewFits, Settled
<1>2. h \in Holds
  BY <1>1 DEF PaysOn, MemoryFits, WithHold
<1> HIDE DEF h
<1>3. /\ x.pc \notin {"switch", "confirmed", "insert refund", "compensated"}
      /\ y.pc \notin {"switch", "confirmed", "insert refund", "compensated"}
  BY DEF PaysOn, Goes, Ends, BranchesOn
<1>4. CASE w = v
  <2>1. RowsSettle(v, {y.pc})
    BY <1>1, <1>3 DEF RowsSettle
  <2>2. y.pc = "fail" => v.taken = {}
    <3> SUFFICES ASSUME y.pc = "fail" PROVE v.taken = {}
      OBVIOUS
    <3>1. CASE x.pc = "insert payment" /\ v.pay[h] = "FAILED"
      BY <1>1, <1>2, <3>1, NotMoved DEF h, RunTells, Current, RowsTell
    <3>2. CASE x.pc = "record" /\ x.pay.status = "FAILED"
      BY <1>1, <1>2, <3>2, NotMoved DEF h, RunTells, Current, RowsTell
    <3>3. CASE x.pc = "decline"
      <4>1. h \notin v.taken /\ v.pay[h] # "none" /\ h = v.hold
        BY <1>1, <1>2, <3>3 DEF h, RunTells, Asking, RowsTell
      <4> QED
        BY <1>1, <4>1 DEF RowsSettle, Moved
    <3> QED
      BY <3>1, <3>2, <3>3 DEF h, PaysOn, BranchesOn, Ends
  <2> QED
    BY <1>3, <1>4, <2>1, <2>2 DEF Settled, RunSettles
<1>5. CASE x.pc = "charge" /\ Takes(v, w, h) /\ y.pc = "record"
  <2>1. /\ w.status = v.status /\ w.hold = v.hold /\ w.pay = v.pay /\ w.taken = v.taken \cup {h}
        /\ w.seats = v.seats /\ w.back = v.back /\ w.refunded = v.refunded
    BY <1>1, <1>5 DEF Views, Takes
  <2>2. v.taken \subseteq {v.hold} /\ h = v.hold /\ v.status \in {"AUTHORIZING", "CONFIRMING"}
    BY <1>1, <1>5, NotMoved DEF h, RunTells, Current
  <2>3. ~Moved(w)
    BY <2>1, <2>2 DEF Moved
  <2> QED
    BY <1>1, <1>3, <1>5, <2>1, <2>2, <2>3 DEF RowsSettle, RunSettles, Settled
<1>6. ASSUME NEW s, Pays(v, w, h, s), x.pc \in {"insert payment", "record", "settle", "decline"},
             x.pc = "insert payment" => y.pc = "charge",
             x.pc = "settle" => y.pc = "start",
             x.pc = "record" => s = x.pay.status,
             y.pc = "fail" => s = "FAILED"
      PROVE  Settled(w, y)
  <2>1. /\ w.status = v.status /\ w.hold = v.hold /\ w.taken = v.taken /\ w.seats = v.seats
        /\ w.back = v.back /\ w.refunded = v.refunded
        /\ \A g \in Holds \ {h} : w.pay[g] = v.pay[g]
    <3>1. v \in Views /\ w = [v EXCEPT !.pay[h] = s]
      BY <1>1, <1>6 DEF Pays
    <3> QED
      BY <1>2, <3>1, ViewFields
  <2>2. Moved(v) => h # v.hold
    <3>1. CASE x.pc \in {"insert payment", "record"}
      BY <3>1, NotMoved DEF Current, Moved
    <3>2. CASE x.pc \in {"settle", "decline"}
      BY <1>1, <3>2 DEF h, RunTells, Asking, RowsSettle
    <3> QED
      BY <1>6, <3>1, <3>2
  <2>3. Moved(v) => v.hold \in Holds
    <3>1. v.taken # {} /\ v.taken \subseteq Holds => v.status # "none"
      BY <1>1 DEF RowsTell, Untried
    <3> QED
      BY <1>1, <3>1 DEF Moved, Views, Knows, ViewFits
  <2>4. Moved(w) => Moved(v) /\ w.pay[w.hold] = v.pay[v.hold]
    BY <2>1, <2>2, <2>3 DEF Moved
  <2>5. RowsSettle(w, {y.pc})
    BY <1>1, <1>3, <2>1, <2>4 DEF RowsSettle
  <2>6. y.pc = "fail" => v.taken = {}
    <3> SUFFICES ASSUME y.pc = "fail" PROVE v.taken = {}
      OBVIOUS
    <3>1. CASE x.pc = "record"
      BY <1>1, <1>2, <1>6, <3>1, NotMoved DEF h, RunTells, Current, RowsTell
    <3>2. CASE x.pc = "decline"
      <4>1. h \notin v.taken /\ v.pay[h] # "none" /\ h = v.hold
        BY <1>1, <1>2, <3>2 DEF h, RunTells, Asking, RowsTell
      <4> QED
        BY <1>1, <2>2, <4>1 DEF Moved
    <3> QED
      BY <1>6, <3>1, <3>2
  <2> QED
    BY <1>3, <2>1, <2>5, <2>6 DEF Settled, RunSettles
<1> QED
  BY <1>4, <1>5, <1>6 DEF h, PaysOn, BranchesOn, Ends, Goes

LEMMA DeliversSettle ==
  ASSUME NEW v, NEW x, NEW w, NEW y, Knows(v, x), Settled(v, x), DeliversOn(v, x, w, y)
  PROVE  Settled(w, y)
<1>1. /\ v \in Views /\ RowsTell(v) /\ RunTells(v, x) /\ MemoryFits(v, x)
      /\ RowsSettle(v, {x.pc})
  BY DEF Knows, ViewFits, Settled
<1>2. /\ x.hold \in Holds /\ x.hold = v.hold /\ x.hold \in v.taken /\ v.pay[x.hold] = "CAPTURED"
      /\ v.status \in {"AUTHORIZING", "CONFIRMING"} /\ v.taken \subseteq {v.hold}
  BY <1>1, NotMoved DEF DeliversOn, MemoryFits, RunTells, WithHold, Late, Current
<1>3. /\ v.seats # {} => x.pc = "switch"
      /\ v.back > 0 => x.pc = "insert refund"
  BY <1>1, <1>2 DEF RowsSettle, DeliversOn
<1>4. CASE /\ w = v
           /\ \/ x.pc = "confirm" /\ Goes(x, y, "reallocate")
              \/ x.pc = "confirm new" /\ Goes(x, y, "release new")
  BY <1>1, <1>2, <1>3, <1>4 DEF Goes, RowsSettle, RunSettles, Settled
<1>5. ASSUME NEW h, Books(v, w, h),
             x.pc \in {"confirm", "confirm new"}, y.pc \in {"confirmed", "switch"}
      PROVE  Settled(w, y)
  <2>1. /\ w.status = v.status /\ w.hold = v.hold /\ w.pay = v.pay /\ w.taken = v.taken
        /\ w.back = v.back /\ w.seats = v.seats \cup {h} /\ w.refunded = v.refunded
    BY <1>1, <1>5 DEF Views, Books
  <2> QED
    BY <1>1, <1>2, <1>3, <1>5, <2>1 DEF RowsSettle, RunSettles, Settled, Moved
<1>6. CASE x.pc = "switch" /\ Renames(v, w, x.new) /\ Goes(x, y, "confirmed")
  <2>1. /\ w.status = v.status /\ w.hold = x.new /\ w.pay = v.pay /\ w.taken = v.taken
        /\ w.back = v.back /\ w.seats = v.seats /\ w.refunded = v.refunded
    BY <1>1, <1>6 DEF Views, Renames
  <2>2. x.new \in v.seats /\ x.new \in Holds
    BY <1>1, <1>6 DEF RunTells, MemoryFits, WithNew
  <2>3. Moved(w) => v.pay[x.new] = "none"
    BY <1>1, <1>2, <2>1, <2>2 DEF Moved, RowsTell
  <2> QED
    BY <1>2, <1>3, <1>6, <2>1, <2>2, <2>3 DEF RowsSettle, RunSettles, Settled, Goes
<1>7. CASE x.pc = "refund" /\ GivesBack(v, w) /\ Goes(x, y, "insert refund")
  <2>1. /\ w.status = v.status /\ w.hold = v.hold /\ w.pay = v.pay /\ w.taken = v.taken
        /\ w.seats = v.seats /\ w.refunded = v.refunded
    BY <1>1, <1>7 DEF Views, GivesBack
  <2> QED
    BY <1>2, <1>3, <1>7, <2>1 DEF RowsSettle, RunSettles, Settled, Goes, Moved
<1>8. CASE /\ x.pc = "insert refund" /\ Notes(v, w, x.hold)
           /\ Goes(x, y, "compensated")
  <2>1. /\ w.status = v.status /\ w.hold = v.hold /\ w.pay = v.pay /\ w.taken = v.taken
        /\ w.seats = v.seats /\ w.back = v.back /\ w.refunded = v.refunded \cup {x.hold}
    BY <1>1, <1>8 DEF Views, Notes
  <2> QED
    BY <1>2, <1>3, <1>8, <2>1 DEF RowsSettle, RunSettles, Settled, Goes, Moved
<1> QED
  BY <1>4, <1>5, <1>6, <1>7, <1>8 DEF DeliversOn, Goes

LEMMA EffectSettles ==
  ASSUME NEW v, NEW x, NEW w, NEW y, Knows(v, x), Settled(v, x), Effect(v, x, w, y)
  PROVE  Settled(w, y)
BY ReadsSettle, MarksSettle, PaysSettle, DeliversSettle DEF Effect

-----------------------------------------------------------------------------
(* The views, and what the statements do to them.                          *)

LEMMA ViewIsFit ==
  ASSUME IInv, NEW o \in Orders
  PROVE  ViewFits(View(o))
<1>1. /\ order[o] \in OrderRow /\ ((order[o].status = "none") <=> (order[o].hold = None))
      /\ returned[o][TRUE] \in Nat /\ returned[o][FALSE] \in Nat
  BY DEF IInv, RowsFit
<1>2. \A h \in Holds :
        /\ payment[<<o, h>>] \in PaymentRow
        /\ payment[<<o, h>>].status # "none" => order[o].status # "none"
        /\ payment[<<o, h>>].status = "CAPTURED" => Captured(<<o, h>>)
  BY DEF IInv, RowsFit, PaymentsFit, Keys, Created
<1>3. Returns(o) \in Nat
  <2>1. PICK a \in Nat, b \in Nat : a = returned[o][TRUE] /\ b = returned[o][FALSE]
    BY <1>1
  <2>2. a + b \in Nat
    OBVIOUS
  <2> QED
    BY <2>1, <2>2 DEF Returns
<1>4. SeatsOf(o) # {} \/ Returns(o) > 0 => Paid(o)
  <2>1. SeatsOf(o) # {} => Paid(o)
    BY DEF SeatsOf, IInv, DeliveriesArePaid
  <2>2. ASSUME Returns(o) > 0 PROVE Paid(o)
    <3>1. PICK a \in Nat, b \in Nat : a = returned[o][TRUE] /\ b = returned[o][FALSE]
      BY <1>1
    <3>2. a > 0 \/ b > 0
      BY <2>2, <3>1, OneIsPositive DEF Returns
    <3> QED
      BY <3>1, <3>2 DEF IInv, DeliveriesArePaid
  <2> QED
    BY <2>1, <2>2
<1>5. PICK v : v = View(o)
  OBVIOUS
<1>6. /\ v.status = order[o].status /\ v.hold = order[o].hold
      /\ v.pay = [h \in Holds |-> payment[<<o, h>>].status]
      /\ v.taken = {h \in Holds : Captured(<<o, h>>)}
      /\ v.seats = SeatsOf(o) /\ v.back = Returns(o)
  BY <1>5 DEF View
<1>7. v \in Views
  <2>1. SeatsOf(o) \subseteq Holds
    BY DEF SeatsOf
  <2>2. \A h \in Holds : payment[<<o, h>>].status \in {"none", "PENDING", "CAPTURED", "FAILED", "UNKNOWN"}
    BY <1>2 DEF PaymentRow
  <2> QED
    BY <1>1, <1>3, <1>5, <2>1, <2>2 DEF View, Views, OrderRow
<1>8. Paid(o) => v.taken # {}
  BY <1>6 DEF Paid
<1>9. v.status = "none" => Untried(v)
  BY <1>2, <1>6 DEF Untried
<1>10. \A h \in Holds : v.pay[h] = "CAPTURED" => h \in v.taken
  BY <1>2, <1>6
<1> QED
  BY <1>1, <1>4, <1>5, <1>6, <1>7, <1>8, <1>9, <1>10 DEF ViewFits

LEMMA AtWorkKnows ==
  ASSUME IInv, TellInv, NEW r \in Runners, run[r].pc # "idle"
  PROVE  /\ run[r] \in Run /\ run[r].order \in Orders /\ run[r].order # None
         /\ Knows(View(run[r].order), run[r])
<1>1. RunsFit /\ RunFits(r, run[r])
  BY DEF IInv, RunsFit
<1>2. PICK o \in Orders : o = run[r].order
  BY <1>1, AtWork
<1>3. run[r].order # None
  BY <1>1 DEF RunFits
<1>4. PICK v : v = View(o)
  OBVIOUS
<1>5. ViewFits(v) /\ RowsTell(v) /\ RunTells(v, run[r])
  BY <1>2, <1>3, <1>4, ViewIsFit DEF TellInv
<1>6. MemoryFits(v, run[r])
  <2>1. v.taken = {h \in Holds : Captured(<<o, h>>)}
    BY <1>4 DEF View
  <2>2. run[r].pc \in Late \/ run[r].pc = "settle" => run[r].hold \in Holds /\ Captured(<<o, run[r].hold>>)
    BY <1>1, <1>2 DEF RunFits, WithHold
  <2> QED
    BY <1>1, <2>1, <2>2 DEF MemoryFits, RunFits
<1> QED
  BY <1>1, <1>2, <1>3, <1>4, <1>5, <1>6, AtWork DEF Knows

\* Where nothing of it changes, a view stays.
LEMMA SameView ==
  ASSUME NEW p \in Orders, order'[p] = order[p],
         \A h \in Holds : payment'[<<p, h>>] = payment[<<p, h>>],
         \A h \in Holds : Captured(<<p, h>>)' <=> Captured(<<p, h>>),
         SeatsOf(p)' = SeatsOf(p), Returns(p)' = Returns(p),
         \A h \in Holds : <<p, h>> \in refundRow' <=> <<p, h>> \in refundRow
  PROVE  View(p)' = View(p)
BY DEF View

LEMMA SameRowsSameView ==
  ASSUME NEW p \in Orders, UNCHANGED rows
  PROVE  View(p)' = View(p)
BY SameView DEF rows, Captured, SeatsOf, Returns

\* A view field by field.
ViewOf(st, hd, py, tk, se, bk, rf) ==
  [status |-> st, hold |-> hd, pay |-> py, taken |-> tk, seats |-> se, back |-> bk, refunded |-> rf]

ViewIs(o, st, hd, py, tk, se, bk, rf) ==
  /\ st = order[o].status /\ hd = order[o].hold
  /\ py = [h \in Holds |-> payment[<<o, h>>].status]
  /\ tk = {h \in Holds : Captured(<<o, h>>)}
  /\ se = SeatsOf(o) /\ bk = Returns(o)
  /\ rf = {h \in Holds : <<o, h>> \in refundRow}

LEMMA OneField ==
  ASSUME NEW st, NEW hd, NEW py, NEW tk, NEW se, NEW bk, NEW rf, NEW w,
         NEW v, v = ViewOf(st, hd, py, tk, se, bk, rf), NEW x
  PROVE  /\ w = ViewOf(x, hd, py, tk, se, bk, rf) => Marks(v, w, x)
         /\ w = ViewOf(st, x, py, tk, se, bk, rf) => Renames(v, w, x)
         /\ \A h : w = ViewOf(st, hd, [py EXCEPT ![h] = x], tk, se, bk, rf) => Pays(v, w, h, x)
         /\ w = ViewOf(st, hd, py, tk \cup {x}, se, bk, rf) => Takes(v, w, x)
         /\ w = ViewOf(st, hd, py, tk, se \cup {x}, bk, rf) => Books(v, w, x)
         /\ w = ViewOf(st, hd, py, tk, se, bk + 1, rf) => GivesBack(v, w)
         /\ w = ViewOf(st, hd, py, tk, se, bk, rf \cup {x}) => Notes(v, w, x)
<1>1. w = ViewOf(x, hd, py, tk, se, bk, rf) => Marks(v, w, x)
  BY DEF ViewOf, Marks
<1>2. w = ViewOf(st, x, py, tk, se, bk, rf) => Renames(v, w, x)
  BY DEF ViewOf, Renames
<1>3. \A h : w = ViewOf(st, hd, [py EXCEPT ![h] = x], tk, se, bk, rf) => Pays(v, w, h, x)
  BY DEF ViewOf, Pays
<1>4. w = ViewOf(st, hd, py, tk \cup {x}, se, bk, rf) => Takes(v, w, x)
  BY DEF ViewOf, Takes
<1>5. w = ViewOf(st, hd, py, tk, se \cup {x}, bk, rf) => Books(v, w, x)
  BY DEF ViewOf, Books
<1>6. w = ViewOf(st, hd, py, tk, se, bk + 1, rf) => GivesBack(v, w)
  BY DEF ViewOf, GivesBack
<1>7. w = ViewOf(st, hd, py, tk, se, bk, rf \cup {x}) => Notes(v, w, x)
  BY DEF ViewOf, Notes
<1> QED
  BY <1>1, <1>2, <1>3, <1>4, <1>5, <1>6, <1>7

\* An order's status or hold is set.
LEMMA OrderView ==
  ASSUME IInv, NEW o \in Orders, NEW row, order' = [order EXCEPT ![o] = row],
         UNCHANGED <<payment, refundRow, hold, captured, returned>>
  PROVE  /\ \A p \in Orders \ {o} : View(p)' = View(p)
         /\ row.hold = order[o].hold => Marks(View(o), View(o)', row.status)
         /\ row.status = order[o].status => Renames(View(o), View(o)', row.hold)
<1>1. order'[o] = row /\ \A p \in Orders \ {o} : order'[p] = order[p]
  BY DEF IInv, RowsFit
<1>2. \A p \in Orders : /\ SeatsOf(p)' = SeatsOf(p) /\ Returns(p)' = Returns(p)
                        /\ \A h \in Holds : Captured(<<p, h>>)' <=> Captured(<<p, h>>)
  BY DEF SeatsOf, Returns, Captured
<1>3. \A p \in Orders \ {o} : View(p)' = View(p)
  BY <1>1, <1>2, SameView
<1>4. PICK v, st, hd, py, tk, se, bk, rf :
        /\ v = View(o) /\ v = ViewOf(st, hd, py, tk, se, bk, rf)
        /\ ViewIs(o, st, hd, py, tk, se, bk, rf)
  BY DEF View, ViewOf, ViewIs
<1>5. PICK w, s, h : w = View(o)' /\ s = row.status /\ h = row.hold
  OBVIOUS
<1>6. w = ViewOf(s, h, py, tk, se, bk, rf)
  BY <1>1, <1>2, <1>4, <1>5 DEF View, ViewOf, ViewIs
<1>7. hd = order[o].hold /\ st = order[o].status
  BY <1>4 DEF ViewIs
<1>8. h = hd => Marks(v, w, s)
  BY <1>4, <1>6, OneField
<1>9. s = st => Renames(v, w, h)
  BY <1>4, <1>6, OneField
<1> QED
  BY <1>3, <1>4, <1>5, <1>7, <1>8, <1>9

\* A payment's status is set.
LEMMA PaymentView ==
  ASSUME IInv, NEW o \in Orders, NEW h \in Holds, NEW row,
         payment' = [payment EXCEPT ![<<o, h>>] = row],
         UNCHANGED <<order, refundRow, hold, captured, returned>>
  PROVE  /\ \A p \in Orders \ {o} : View(p)' = View(p)
         /\ Pays(View(o), View(o)', h, row.status)
<1>1. payment'[<<o, h>>] = row /\ \A k \in Keys \ {<<o, h>>} : payment'[k] = payment[k]
  BY DEF IInv, RowsFit, Keys
<1>2. \A p \in Orders : /\ SeatsOf(p)' = SeatsOf(p) /\ Returns(p)' = Returns(p)
                        /\ \A g \in Holds : Captured(<<p, g>>)' <=> Captured(<<p, g>>)
  BY DEF SeatsOf, Returns, Captured
<1>3. \A p \in Orders \ {o} : View(p)' = View(p)
  BY <1>1, <1>2, SameView DEF Keys
<1>4. PICK v, st, hd, py, tk, se, bk, rf :
        /\ v = View(o) /\ v = ViewOf(st, hd, py, tk, se, bk, rf)
        /\ ViewIs(o, st, hd, py, tk, se, bk, rf)
  BY DEF View, ViewOf, ViewIs
<1>5. PICK w, s : w = View(o)' /\ s = row.status
  OBVIOUS
<1>6. PICK qy : qy = [g \in Holds |-> payment'[<<o, g>>].status]
  OBVIOUS
<1>7. w = ViewOf(st, hd, qy, tk, se, bk, rf)
  BY <1>2, <1>4, <1>5, <1>6 DEF View, ViewOf, ViewIs
<1>8. qy = [py EXCEPT ![h] = s]
  <2>1. py = [g \in Holds |-> payment[<<o, g>>].status]
    BY <1>4 DEF ViewIs
  <2>2. \A g \in Holds : payment'[<<o, g>>] = IF g = h THEN row ELSE payment[<<o, g>>]
    BY <1>1 DEF Keys
  <2>3. \A g \in Holds : qy[g] = IF g = h THEN s ELSE py[g]
    BY <1>5, <1>6, <2>1, <2>2
  <2>4. py = [g \in Holds |-> py[g]] /\ qy = [g \in Holds |-> qy[g]]
    BY <1>6, <2>1
  <2> QED
    BY ONLY <2>3, <2>4
<1> QED
  BY <1>3, <1>4, <1>5, <1>7, <1>8, OneField

\* The provider captures a charge.
LEMMA CaptureView ==
  ASSUME IInv, NEW o \in Orders, NEW h \in Holds, NEW p \in Providers,
         captured' = [captured EXCEPT ![p] = @ \cup {<<o, h>>}],
         UNCHANGED <<order, payment, refundRow, hold, returned>>
  PROVE  /\ \A q \in Orders \ {o} : View(q)' = View(q)
         /\ Takes(View(o), View(o)', h)
<1>1. \A k : Captured(k)' <=> Captured(k) \/ k = <<o, h>>
  BY DEF IInv, RowsFit, Captured
<1>2. \A q \in Orders : SeatsOf(q)' = SeatsOf(q) /\ Returns(q)' = Returns(q)
  BY DEF SeatsOf, Returns
<1>3. \A q \in Orders \ {o} : View(q)' = View(q)
  BY <1>1, <1>2, SameView
<1>4. PICK v, st, hd, py, tk, se, bk, rf :
        /\ v = View(o) /\ v = ViewOf(st, hd, py, tk, se, bk, rf)
        /\ ViewIs(o, st, hd, py, tk, se, bk, rf)
  BY DEF View, ViewOf, ViewIs
<1>5. PICK w, uk : w = View(o)' /\ uk = {g \in Holds : Captured(<<o, g>>)'}
  OBVIOUS
<1>6. w = ViewOf(st, hd, py, uk, se, bk, rf)
  BY <1>2, <1>4, <1>5 DEF View, ViewOf, ViewIs
<1>7. uk = tk \cup {h}
  BY <1>1, <1>4, <1>5 DEF ViewIs
<1> QED
  BY <1>3, <1>4, <1>5, <1>6, <1>7, OneField

\* The rows of a hold change; only a live hold is booked.
LEMMA HoldView ==
  ASSUME IInv, NEW o \in Orders, NEW h \in Holds, NEW row, hold' = [hold EXCEPT ![h] = row],
         hold[h].rows # "BOOKED", row.rows = "BOOKED" => row.order = o,
         UNCHANGED <<order, payment, refundRow, captured, returned>>
  PROVE  /\ \A p \in Orders \ {o} : View(p)' = View(p)
         /\ row.rows # "BOOKED" => View(o)' = View(o)
         /\ row.rows = "BOOKED" => Books(View(o), View(o)', h)
<1>1. \A g \in Holds : hold'[g] = IF g = h THEN row ELSE hold[g]
  BY DEF IInv, RowsFit
<1>2. \A p \in Orders : /\ Returns(p)' = Returns(p)
                        /\ \A g \in Holds : Captured(<<p, g>>)' <=> Captured(<<p, g>>)
  BY DEF Returns, Captured
<1>3. \A p \in Orders :
        SeatsOf(p)' = SeatsOf(p) \cup (IF row.rows = "BOOKED" /\ row.order = p THEN {h} ELSE {})
  BY <1>1 DEF SeatsOf
<1>4. \A p \in Orders \ {o} : View(p)' = View(p)
  <2> SUFFICES ASSUME NEW p \in Orders \ {o} PROVE View(p)' = View(p)
    OBVIOUS
  <2>1. SeatsOf(p)' = SeatsOf(p)
    BY <1>3
  <2> QED
    BY <1>2, <2>1, SameView
<1>5. row.rows # "BOOKED" => View(o)' = View(o)
  BY <1>2, <1>3, SameView
<1>6. ASSUME row.rows = "BOOKED" PROVE Books(View(o), View(o)', h)
  <2>1. PICK v, st, hd, py, tk, se, bk, rf :
          /\ v = View(o) /\ v = ViewOf(st, hd, py, tk, se, bk, rf)
          /\ ViewIs(o, st, hd, py, tk, se, bk, rf)
    BY DEF View, ViewOf, ViewIs
  <2>2. PICK w, ue : w = View(o)' /\ ue = SeatsOf(o)'
    OBVIOUS
  <2>3. w = ViewOf(st, hd, py, tk, ue, bk, rf)
    BY <1>2, <2>1, <2>2 DEF View, ViewOf, ViewIs
  <2>4. ue = se \cup {h}
    BY <1>3, <1>6, <2>1, <2>2 DEF ViewIs
  <2> QED
    BY <2>1, <2>2, <2>3, <2>4, OneField
<1> QED
  BY <1>4, <1>5, <1>6

\* The provider gives money back.
LEMMA RefundView ==
  ASSUME IInv, NEW o \in Orders, NEW ref \in BOOLEAN,
         returned' = [returned EXCEPT ![o][ref] = @ + 1],
         UNCHANGED <<order, payment, refundRow, hold, captured>>
  PROVE  /\ \A p \in Orders \ {o} : View(p)' = View(p)
         /\ GivesBack(View(o), View(o)')
<1>1. \A p \in Orders \ {o} : returned'[p] = returned[p]
  BY DEF IInv, RowsFit
<1>2. Returns(o)' = Returns(o) + 1
  <2>1. PICK a \in Nat, b \in Nat : a = returned[o][TRUE] /\ b = returned[o][FALSE]
    BY DEF IInv, RowsFit
  <2>2. /\ ref = TRUE => returned'[o][TRUE] = a + 1 /\ returned'[o][FALSE] = b
        /\ ref = FALSE => returned'[o][TRUE] = a /\ returned'[o][FALSE] = b + 1
    BY <2>1 DEF IInv, RowsFit
  <2>3. a + (b + 1) = (a + b) + 1 /\ (a + 1) + b = (a + b) + 1
    OBVIOUS
  <2> QED
    BY <2>1, <2>2, <2>3 DEF Returns
<1>3. \A p \in Orders : /\ SeatsOf(p)' = SeatsOf(p) /\ (p # o => Returns(p)' = Returns(p))
                        /\ \A g \in Holds : Captured(<<p, g>>)' <=> Captured(<<p, g>>)
  BY <1>1 DEF SeatsOf, Returns, Captured
<1>4. \A p \in Orders \ {o} : View(p)' = View(p)
  BY <1>3, SameView
<1>5. PICK v, st, hd, py, tk, se, bk, rf :
        /\ v = View(o) /\ v = ViewOf(st, hd, py, tk, se, bk, rf)
        /\ ViewIs(o, st, hd, py, tk, se, bk, rf)
  BY DEF View, ViewOf, ViewIs
<1>6. PICK w : w = View(o)'
  OBVIOUS
<1>7. w = ViewOf(st, hd, py, tk, se, bk + 1, rf)
  BY <1>2, <1>3, <1>5, <1>6 DEF View, ViewOf, ViewIs
<1> QED
  BY <1>4, <1>5, <1>6, <1>7, OneField

\* The refund's row is inserted.
LEMMA RefundRowView ==
  ASSUME IInv, NEW o \in Orders, NEW h \in Holds, refundRow' = refundRow \cup {<<o, h>>},
         UNCHANGED <<order, payment, hold, captured, returned>>
  PROVE  /\ \A p \in Orders \ {o} : View(p)' = View(p)
         /\ Notes(View(o), View(o)', h)
<1>1. \A p \in Orders : /\ SeatsOf(p)' = SeatsOf(p) /\ Returns(p)' = Returns(p)
                        /\ \A g \in Holds : Captured(<<p, g>>)' <=> Captured(<<p, g>>)
  BY DEF SeatsOf, Returns, Captured
<1>2. \A p \in Orders \ {o} : View(p)' = View(p)
  BY <1>1, SameView
<1>3. PICK v, st, hd, py, tk, se, bk, rf :
        /\ v = View(o) /\ v = ViewOf(st, hd, py, tk, se, bk, rf)
        /\ ViewIs(o, st, hd, py, tk, se, bk, rf)
  BY DEF View, ViewOf, ViewIs
<1>4. PICK w, uf : w = View(o)' /\ uf = {g \in Holds : <<o, g>> \in refundRow'}
  OBVIOUS
<1>5. w = ViewOf(st, hd, py, tk, se, bk, uf)
  BY <1>1, <1>3, <1>4 DEF View, ViewOf, ViewIs
<1>6. uf = rf \cup {h}
  BY <1>3, <1>4 DEF ViewIs
<1> QED
  BY <1>2, <1>3, <1>4, <1>5, <1>6, OneField

-----------------------------------------------------------------------------
(* Every step of RunSaga, and of the reconciler's visit, has such an effect *)
(* on the order it works on and touches nothing of the others.             *)

Keeps(r, o) ==
  /\ Moves(r)
  /\ run'[r].order \in {o, None}
  /\ run'[r].todo \subseteq run[r].todo

Beside(r, o) == Keeps(r, o) /\ \A p \in Orders \ {o} : View(p)' = View(p)

LEMMA GotoMemory ==
  ASSUME IInv, NEW r \in Runners, NEW pc, Goto(r, pc)
  PROVE  Keeps(r, run[r].order) /\ Goes(run[r], run'[r], pc)
<1>1. RunsFit /\ run[r] \in Run
  BY DEF IInv, RunsFit, RunFits
<1>2. Moves(r) /\ run'[r] = [run[r] EXCEPT !.pc = pc]
  BY <1>1 DEF Goto, Moves, RunsFit
<1> QED
  BY <1>1, <1>2 DEF Run, Keeps, Goes

LEMMA FinishMemory ==
  ASSUME IInv, NEW r \in Runners, NEW left, left \subseteq run[r].todo,
         run' = [run EXCEPT ![r] = [IdleRun EXCEPT !.todo = left]]
  PROVE  /\ Moves(r) /\ Ends(run'[r]) /\ run'[r].order = None
         /\ run'[r].todo \subseteq run[r].todo
<1>1. Moves(r) /\ run'[r] = [IdleRun EXCEPT !.todo = left]
  BY Zenon DEF Moves, IInv, RunsFit
<1> QED
  BY <1>1 DEF IdleRun, Ends

LEMMA BranchMemory ==
  ASSUME IInv, NEW r \in Runners, NEW pay, Branch(r, pay)
  PROVE  Keeps(r, run[r].order) /\ BranchesOn(run[r], run'[r], pay.status)
<1>1. RunsFit /\ run[r] \in Run
  BY DEF IInv, RunsFit, RunFits
<1>2. CASE pay.status = "UNKNOWN" /\ Finish(r)
  <2>1. PICK left : left = run[r].todo
    OBVIOUS
  <2> QED
    BY <1>2, <2>1, FinishMemory DEF Finish, Keeps, BranchesOn
<1>3. ASSUME NEW pc, run' = [run EXCEPT ![r].pay = pay, ![r].got = FALSE, ![r].pc = pc]
      PROVE  Keeps(r, run[r].order) /\ run'[r].pc = pc /\ run'[r].hold = run[r].hold
  <2>1. Moves(r) /\ run'[r] = [run[r] EXCEPT !.pay = pay, !.got = FALSE, !.pc = pc]
    BY <1>1, <1>3 DEF Moves, RunsFit
  <2> QED
    BY <1>1, <2>1 DEF Run, Keeps
<1>4. CASE /\ pay.status = "FAILED"
           /\ run' = [run EXCEPT ![r].pay = pay, ![r].got = FALSE, ![r].pc = "fail"]
  BY <1>3, <1>4 DEF BranchesOn
<1>5. CASE /\ pay.status = "CAPTURED"
           /\ run' = [run EXCEPT ![r].pay = pay, ![r].got = FALSE, ![r].pc = "confirming"]
  BY <1>3, <1>5 DEF BranchesOn
<1> QED
  BY <1>2, <1>4, <1>5 DEF Branch

\* Statements that set the order's status.
LEMMA StatusEffect ==
  ASSUME IInv, ~Flaky, NEW r \in Runners, NEW o \in Orders, o = run[r].order,
         \/ Authorize(r) \/ Fail(r) \/ Confirming(r)
         \/ Confirmed(r) \/ Ticketed(r) \/ Compensated(r)
  PROVE  Beside(r, o) /\ MarksOn(View(o), run[r], View(o)', run'[r])
<1>1. UNCHANGED <<payment, refundRow, hold, captured, returned>>
  BY DEF Authorize, Fail, Confirming, Confirmed, Ticketed, Compensated
<1>2. ASSUME NEW status, SetStatus(o, status)
      PROVE  Marks(View(o), View(o)', status) /\ \A p \in Orders \ {o} : View(p)' = View(p)
  <2>1. order[o] \in OrderRow
    BY DEF IInv, RowsFit
  <2>2. PICK row : row = [order[o] EXCEPT !.status = status]
    OBVIOUS
  <2>3. row.status = status /\ row.hold = order[o].hold
    BY <2>1, <2>2 DEF OrderRow
  <2>4. order' = [order EXCEPT ![o] = row]
    BY <1>2, <2>2 DEF SetStatus
  <2> QED
    BY <1>1, <2>3, <2>4, OrderView
<1>3. PICK left : left = run[r].todo
  OBVIOUS
<1>4. Finish(r) => Keeps(r, o) /\ Ends(run'[r])
  BY <1>3, FinishMemory DEF Finish, Keeps
<1>5. CASE Authorize(r)
  BY <1>2, <1>5, GotoMemory DEF Authorize, MarksOn, Beside
<1>6. CASE Fail(r)
  BY <1>2, <1>4, <1>6 DEF Fail, MarksOn, Beside
<1>7. CASE Confirming(r)
  BY <1>2, <1>7, GotoMemory DEF Confirming, MarksOn, Beside
<1>8. CASE Confirmed(r)
  BY <1>2, <1>8, GotoMemory DEF Confirmed, MarksOn, Beside
<1>9. CASE Ticketed(r)
  BY <1>2, <1>4, <1>9 DEF Ticketed, MarksOn, Beside
<1>10. CASE Compensated(r)
  BY <1>2, <1>4, <1>10 DEF Compensated, MarksOn, Beside
<1> QED
  BY <1>5, <1>6, <1>7, <1>8, <1>9, <1>10

\* Statements about seats.
LEMMA SeatEffect ==
  ASSUME IInv, ~Flaky, NEW r \in Runners, NEW o \in Orders, o = run[r].order,
         Extend(r) \/ Confirm(r) \/ ConfirmNew(r) \/ ReleaseNew(r)
  PROVE  Beside(r, o) /\ Effect(View(o), run[r], View(o)', run'[r])
<1>1. UNCHANGED <<order, payment, refundRow, captured, returned>>
  BY DEF Extend, Confirm, ConfirmNew, ReleaseNew
<1>2. RunFits(r, run[r])
  BY DEF IInv, RunsFit
<1>3. hold' = hold => \A p \in Orders : View(p)' = View(p)
  BY <1>1, SameRowsSameView DEF rows
<1>4. ASSUME NEW h \in Holds, NEW status, hold[h].rows \in Live, status # "BOOKED",
             \/ hold' = [hold EXCEPT ![h].rows = status]
             \/ hold' = [hold EXCEPT ![h].rows = status, ![h].lapsed = FALSE]
      PROVE  \A p \in Orders : View(p)' = View(p)
  <2>1. hold[h] \in HoldRows /\ hold[h].rows # "BOOKED"
    BY <1>4 DEF IInv, RowsFit, Live
  <2>2. PICK row : row.rows = status /\ hold' = [hold EXCEPT ![h] = row]
    <3>1. PICK a, b : /\ a = [hold[h] EXCEPT !.rows = status]
                      /\ b = [hold[h] EXCEPT !.rows = status, !.lapsed = FALSE]
      OBVIOUS
    <3>2. a.rows = status /\ b.rows = status
      BY <2>1, <3>1 DEF HoldRows
    <3>3. hold' = [hold EXCEPT ![h] = a] \/ hold' = [hold EXCEPT ![h] = b]
      BY <1>4, <3>1 DEF IInv, RowsFit
    <3> QED
      BY <3>2, <3>3
  <2> QED
    BY <1>1, <1>4, <2>1, <2>2, HoldView
<1>5. ASSUME NEW h \in Holds, NEW then, NEW else, Book(r, h, then, else)
      PROVE  /\ \A p \in Orders \ {o} : View(p)' = View(p)
             /\ \/ Books(View(o), View(o)', h) /\ Goto(r, then)
                \/ View(o)' = View(o) /\ Goto(r, else)
  <2>1. CASE hold' = hold /\ Goto(r, else)
    BY <1>3, <2>1
  <2>2. CASE /\ Alive(h) /\ Goto(r, then)
             /\ hold' = [hold EXCEPT ![h].rows = "BOOKED", ![h].order = run[r].order]
    <3>1. hold[h] \in HoldRows /\ hold[h].rows # "BOOKED"
      BY <2>2 DEF IInv, RowsFit, Alive, Live
    <3>2. PICK row : row = [hold[h] EXCEPT !.rows = "BOOKED", !.order = o]
      OBVIOUS
    <3>3. row.rows = "BOOKED" /\ row.order = o
      BY <3>1, <3>2 DEF HoldRows
    <3>4. hold' = [hold EXCEPT ![h] = row]
      BY <2>2, <3>2 DEF IInv, RowsFit
    <3> QED
      BY <1>1, <2>2, <3>1, <3>3, <3>4, HoldView
  <2> QED
    BY <1>5, <2>1, <2>2 DEF Book
<1>6. CASE Extend(r)
  <2>1. run[r].pc = "extend" /\ (Goto(r, "insert payment") \/ Goto(r, "fail"))
    BY <1>6 DEF Extend
  <2>2. PICK h \in Holds : h = run[r].hold
    BY <1>2, <2>1 DEF RunFits, WithHold
  <2>3. \/ hold' = hold
        \/ Alive(h) /\ hold' = [hold EXCEPT ![h].rows = "PENDING_PAYMENT"]
    BY <1>6, <2>2 DEF Extend
  <2>4. \A p \in Orders : View(p)' = View(p)
    BY <1>3, <1>4, <2>3 DEF Alive
  <2>5. /\ Keeps(r, o)
        /\ Goes(run[r], run'[r], "insert payment") \/ Goes(run[r], run'[r], "fail")
    BY <2>1, GotoMemory
  <2> QED
    BY <2>1, <2>4, <2>5 DEF Beside, Effect, ReadsOn
<1>7. CASE Confirm(r)
  <2>1. run[r].pc = "confirm" /\ Book(r, run[r].hold, "confirmed", "reallocate")
    BY <1>7 DEF Confirm
  <2>2. run[r].hold \in Holds
    BY <1>2, <2>1 DEF RunFits, WithHold, Late
  <2> QED
    BY <1>5, <2>1, <2>2, GotoMemory DEF Beside, Effect, DeliversOn
<1>8. CASE ConfirmNew(r)
  <2>1. run[r].pc = "confirm new" /\ Book(r, run[r].new, "switch", "release new")
    BY <1>8 DEF ConfirmNew
  <2>2. run[r].new \in Holds
    BY <1>2, <2>1 DEF RunFits, WithNew
  <2> QED
    BY <1>5, <2>1, <2>2, GotoMemory DEF Beside, Effect, DeliversOn
<1>9. CASE ReleaseNew(r)
  <2>1. run[r].pc = "release new" /\ Goto(r, "refund")
    BY <1>9 DEF ReleaseNew
  <2>2. PICK h \in Holds : h = run[r].new
    BY <1>2, <2>1 DEF RunFits, WithNew
  <2>3. \/ hold' = hold
        \/ /\ hold[h].rows \in Live
           /\ hold' = [hold EXCEPT ![h].rows = "released", ![h].lapsed = FALSE]
    BY <1>9, <2>2 DEF ReleaseNew
  <2>4. \A p \in Orders : View(p)' = View(p)
    BY <1>3, <1>4, <2>3
  <2>5. Keeps(r, o) /\ Goes(run[r], run'[r], "refund")
    BY <2>1, GotoMemory
  <2> QED
    BY <2>1, <2>4, <2>5 DEF Beside, Effect, ReadsOn
<1> QED
  BY <1>6, <1>7, <1>8, <1>9

LEMMA ReallocateEffect ==
  ASSUME IInv, ~Flaky, NEW r \in Runners, NEW o \in Orders, o = run[r].order, Reallocate(r)
  PROVE  Beside(r, o) /\ Effect(View(o), run[r], View(o)', run'[r])
<1>1. run[r].pc = "reallocate" /\ UNCHANGED <<order, payment, refundRow, captured, returned>>
  BY DEF Reallocate
<1>2. CASE hold' = hold /\ Goto(r, "refund")
  <2>1. \A p \in Orders : View(p)' = View(p)
    BY <1>1, <1>2, SameRowsSameView DEF rows
  <2>2. Keeps(r, o) /\ Goes(run[r], run'[r], "refund")
    BY <1>2, GotoMemory
  <2> QED
    BY <1>1, <2>1, <2>2 DEF Beside, Effect, ReadsOn, Goes
<1>3. ASSUME NEW h \in Holds, hold[h].rows = "unused",
             hold' = [hold EXCEPT ![h].rows = "HELD", ![h].order = run[r].order],
             run' = [run EXCEPT ![r].new = h, ![r].pc = "confirm new"]
      PROVE  Beside(r, o) /\ Effect(View(o), run[r], View(o)', run'[r])
  <2>1. hold[h] \in HoldRows
    BY DEF IInv, RowsFit
  <2>2. PICK row : row = [hold[h] EXCEPT !.rows = "HELD", !.order = o]
    OBVIOUS
  <2>3. row.rows = "HELD"
    BY <2>1, <2>2 DEF HoldRows
  <2>4. hold' = [hold EXCEPT ![h] = row]
    BY <1>3, <2>2 DEF IInv, RowsFit
  <2>5. \A p \in Orders : View(p)' = View(p)
    BY <1>1, <1>3, <2>3, <2>4, HoldView
  <2>6. RunsFit /\ run[r] \in Run
    BY DEF IInv, RunsFit, RunFits
  <2>7. Moves(r) /\ run'[r] = [run[r] EXCEPT !.new = h, !.pc = "confirm new"]
    BY <1>3, <2>6 DEF Moves, RunsFit
  <2>8. /\ Keeps(r, o) /\ run'[r].pc = "confirm new"
        /\ run'[r].hold = run[r].hold /\ run'[r].pay = run[r].pay
    BY <2>6, <2>7 DEF Run, Keeps
  <2> QED
    BY <1>1, <2>5, <2>8 DEF Beside, Effect, ReadsOn
<1> QED
  BY <1>2, <1>3 DEF Reallocate

\* With one provider and charges made by no other, StatusOf's answer is the truth.
LEMMA OneBook ==
  ASSUME IInv, OneProvider, OneCharger, NEW r \in Runners, NEW k
  PROVE  ProviderOf(r) = Server /\ (k \in captured[Server] <=> Captured(k))
BY DEF ProviderOf, Captured, OneCharger, Providers

\* Reading the order, and asking the provider.
LEMMA ReadEffect ==
  ASSUME IInv, OneProvider, OneCharger, NEW r \in Runners, NEW o \in Orders, o = run[r].order,
         Start(r) \/ Query(r)
  PROVE  Beside(r, o) /\ ReadsOn(View(o), run[r], View(o)', run'[r])
<1>1. \A p \in Orders : View(p)' = View(p)
  BY SameRowsSameView DEF Start, Query
<1>2. RunsFit /\ RunFits(r, run[r]) /\ run[r] \in Run
  BY DEF IInv, RunsFit, RunFits
<1>3. View(o).status = order[o].status /\ View(o).hold = order[o].hold
  BY DEF View
<1>4. CASE Query(r)
  <2>1. run[r].pc = "query" /\ run[r].hold \in Holds
    BY <1>2, <1>4 DEF Query, RunFits, WithHold
  <2>2. run[r].hold \in View(o).taken <=> Captured(Key(r))
    BY <2>1 DEF View, Key
  <2>3. \/ run[r].hold \in View(o).taken /\ Goto(r, "settle")
        \/ run[r].hold \notin View(o).taken /\ Goto(r, "decline")
    BY <1>4, <2>2, OneBook DEF Query
  <2> QED
    BY <1>1, <2>1, <2>3, GotoMemory DEF Beside, ReadsOn
<1>5. ASSUME Start(r), Finish(r)
      PROVE  Beside(r, o) /\ ReadsOn(View(o), run[r], View(o)', run'[r])
  <2>1. PICK left : left = run[r].todo
    OBVIOUS
  <2> QED
    BY <1>1, <1>5, <2>1, FinishMemory DEF Finish, Start, Keeps, Beside, ReadsOn
<1>6. ASSUME Start(r), NEW pc, run' = [run EXCEPT ![r].hold = order[o].hold, ![r].pc = pc],
             \/ pc = "authorize" /\ order[o].status = "PENDING"
             \/ pc = "insert payment" /\ order[o].status \in {"AUTHORIZING", "CONFIRMING"}
      PROVE  Beside(r, o) /\ ReadsOn(View(o), run[r], View(o)', run'[r])
  <2>1. PICK h : h = order[o].hold
    OBVIOUS
  <2>2. Moves(r) /\ run'[r] = [run[r] EXCEPT !.hold = h, !.pc = pc]
    BY <1>2, <1>6, <2>1 DEF Moves, RunsFit
  <2>3. Keeps(r, o) /\ run'[r].pc = pc /\ run'[r].hold = h
    BY <1>2, <2>2 DEF Run, Keeps
  <2> QED
    BY <1>1, <1>3, <1>6, <2>1, <2>3 DEF Start, Beside, ReadsOn
<1> QED
  BY <1>4, <1>5, <1>6 DEF Start, Resumable

\* ReallocateOrder, the refund and its row.
LEMMA DeliveryEffect ==
  ASSUME IInv, ~Flaky, NEW r \in Runners, NEW o \in Orders, o = run[r].order,
         Switch(r) \/ Refund(r) \/ InsertRefund(r)
  PROVE  Beside(r, o) /\ DeliversOn(View(o), run[r], View(o)', run'[r])
<1>1. RunFits(r, run[r]) /\ run[r] \in Run
  BY DEF IInv, RunsFit, RunFits
<1>2. CASE Switch(r)
  <2>1. run[r].pc = "switch" /\ Goto(r, "confirmed")
    BY <1>2 DEF Switch
  <2>2. order[o] \in OrderRow
    BY DEF IInv, RowsFit
  <2>3. PICK row : row = [order[o] EXCEPT !.hold = run[r].new]
    OBVIOUS
  <2>4. row.hold = run[r].new /\ row.status = order[o].status
    BY <2>2, <2>3 DEF OrderRow
  <2>5. order' = [order EXCEPT ![o] = row] /\ UNCHANGED <<payment, refundRow, hold, captured, returned>>
    BY <1>2, <2>3 DEF Switch
  <2>6. Renames(View(o), View(o)', run[r].new) /\ \A p \in Orders \ {o} : View(p)' = View(p)
    BY <2>4, <2>5, OrderView
  <2> QED
    BY <2>1, <2>6, GotoMemory DEF Beside, DeliversOn
<1>3. CASE Refund(r)
  <2>1. run[r].pc = "refund" /\ Goto(r, "insert refund")
    BY <1>3 DEF Refund
  <2>2. PICK ref \in BOOLEAN : ref = run[r].pay.ref
    BY <1>1 DEF Run, PaymentRow
  <2>3. /\ returned' = [returned EXCEPT ![o][ref] = @ + 1]
        /\ UNCHANGED <<order, payment, refundRow, hold, captured>>
    BY <1>3, <2>2 DEF Refund
  <2> QED
    BY <2>1, <2>3, RefundView, GotoMemory DEF Beside, DeliversOn
<1>4. CASE InsertRefund(r)
  <2>1. run[r].pc = "insert refund" /\ Goto(r, "compensated")
    BY <1>4 DEF InsertRefund
  <2>2. PICK h \in Holds : h = run[r].hold
    BY <1>1, <2>1 DEF RunFits, WithHold, Late
  <2>3. /\ refundRow' = refundRow \cup {<<o, h>>}
        /\ UNCHANGED <<order, payment, hold, captured, returned>>
    BY <1>4, <2>2 DEF InsertRefund, Key
  <2> QED
    BY <2>1, <2>2, <2>3, RefundRowView, GotoMemory DEF Beside, DeliversOn
<1> QED
  BY <1>2, <1>3, <1>4

\* The payment's row is inserted, or found.
LEMMA InsertEffect ==
  ASSUME IInv, NEW r \in Runners, NEW o \in Orders, o = run[r].order, InsertPayment(r)
  PROVE  Beside(r, o) /\ PaysOn(View(o), run[r], View(o)', run'[r])
<1>1. RunsFit /\ RunFits(r, run[r]) /\ run[r] \in Run
  BY DEF IInv, RunsFit, RunFits
<1>2. /\ run[r].pc = "insert payment"
      /\ UNCHANGED <<order, refundRow, hold, captured, returned>>
  BY DEF InsertPayment
<1>3. PICK h \in Holds : h = run[r].hold
  BY <1>1, <1>2 DEF RunFits, WithHold
<1>4. Key(r) = <<o, h>> /\ <<o, h>> \in Keys /\ payment[<<o, h>>] \in PaymentRow
  BY <1>3 DEF Key, Keys, IInv, RowsFit
<1>5. View(o).pay[h] = payment[<<o, h>>].status
  BY DEF View
<1>6. payment' = payment => \A p \in Orders : View(p)' = View(p)
  BY <1>2, SameRowsSameView DEF rows
<1>7. PICK row : row = [payment[<<o, h>>] EXCEPT !.status = "PENDING"]
  OBVIOUS
<1>8. row.status = "PENDING"
  BY <1>4, <1>7 DEF PaymentRow
<1>9. \/ payment' = payment
      \/ payment[<<o, h>>].status = "none" /\ payment' = [payment EXCEPT ![<<o, h>>] = row]
  <2>1. payment' = IF payment[<<o, h>>] = NoPayment
                   THEN [payment EXCEPT ![<<o, h>>].status = "PENDING"] ELSE payment
    BY <1>4 DEF InsertPayment
  <2>2. NoPayment.status = "none"
    BY DEF NoPayment
  <2>3. [payment EXCEPT ![<<o, h>>].status = "PENDING"] = [payment EXCEPT ![<<o, h>>] = row]
    BY <1>4, <1>7 DEF IInv, RowsFit
  <2> QED
    BY <2>1, <2>2, <2>3
<1>10. ASSUME payment'[<<o, h>>].status = "PENDING",
              run' = [run EXCEPT ![r].pay = payment'[<<o, h>>], ![r].pc = "charge"]
       PROVE  Beside(r, o) /\ PaysOn(View(o), run[r], View(o)', run'[r])
  <2>1. PICK pay : pay = payment'[<<o, h>>]
    OBVIOUS
  <2>2. Moves(r) /\ run'[r] = [run[r] EXCEPT !.pay = pay, !.pc = "charge"]
    BY <1>1, <1>10, <2>1 DEF Moves, RunsFit
  <2>3. Keeps(r, o) /\ run'[r].pc = "charge" /\ run'[r].hold = h
    BY <1>1, <1>3, <2>2 DEF Run, Keeps
  <2>4. CASE payment' = payment
    BY <1>2, <1>3, <1>5, <1>6, <1>10, <2>3, <2>4 DEF Beside, PaysOn
  <2>5. CASE payment[<<o, h>>].status = "none" /\ payment' = [payment EXCEPT ![<<o, h>>] = row]
    <3>1. Pays(View(o), View(o)', h, "PENDING") /\ \A p \in Orders \ {o} : View(p)' = View(p)
      BY <1>2, <1>8, <2>5, PaymentView
    <3> QED
      BY <1>2, <1>3, <1>5, <2>3, <2>5, <3>1 DEF Beside, PaysOn
  <2> QED
    BY <1>9, <2>4, <2>5
<1>11. ASSUME Branch(r, payment[<<o, h>>])
       PROVE  Beside(r, o) /\ PaysOn(View(o), run[r], View(o)', run'[r])
  <2>1. PICK pay : pay = payment[<<o, h>>]
    OBVIOUS
  <2>2. Keeps(r, o) /\ BranchesOn(run[r], run'[r], pay.status)
    BY <1>11, <2>1, BranchMemory
  <2>3. pay.status \in {"FAILED", "CAPTURED", "UNKNOWN"}
    BY <2>2 DEF BranchesOn
  <2>4. payment' = payment
    BY <1>9, <2>1, <2>3
  <2> QED
    BY <1>2, <1>3, <1>5, <1>6, <2>1, <2>2, <2>4 DEF Beside, PaysOn
<1> QED
  BY <1>4, <1>10, <1>11 DEF InsertPayment

\* The charge: taken or not, and known to be taken or not.
LEMMA ChargeEffect ==
  ASSUME IInv, OneProvider, OneCharger, NEW r \in Runners, NEW o \in Orders, o = run[r].order,
         Charge(r)
  PROVE  Beside(r, o) /\ PaysOn(View(o), run[r], View(o)', run'[r]) /\ OneCharger'
<1>1. RunsFit /\ RunFits(r, run[r]) /\ run[r] \in Run
  BY DEF IInv, RunsFit, RunFits
<1>2. run[r].pc = "charge" /\ UNCHANGED <<order, payment, refundRow, hold, returned>>
  BY DEF Charge
<1>3. PICK h \in Holds : h = run[r].hold /\ Key(r) = <<o, h>>
  BY <1>1, <1>2 DEF RunFits, WithHold, Key
<1>4. PICK pay \in {"CAPTURED", "FAILED", "UNKNOWN"}, took \in BOOLEAN :
        /\ <<o, h>> \in captured[Server] => pay = "CAPTURED"
        /\ pay = "FAILED" => ~took
        /\ captured' = IF took THEN [captured EXCEPT ![Server] = @ \cup {<<o, h>>}] ELSE captured
        /\ run' = [run EXCEPT ![r].pay.status = pay, ![r].got = took, ![r].pc = "record"]
  BY <1>3, OneBook DEF Charge
<1>5. Server \in Providers
  BY DEF Providers
<1>6. OneCharger'
  BY <1>4, <1>5 DEF OneCharger, IInv, RowsFit
<1>7. Moves(r) /\ run'[r] = [run[r] EXCEPT !.pay.status = pay, !.got = took, !.pc = "record"]
  BY <1>1, <1>4 DEF Moves, RunsFit
<1>8. /\ Keeps(r, o) /\ run'[r].pc = "record" /\ run'[r].hold = h
      /\ run'[r].pay = [run[r].pay EXCEPT !.status = pay]
  BY <1>1, <1>3, <1>7 DEF Run, Keeps
<1>9. run'[r].pay.status = pay
  <2>1. run[r].pay \in PaymentRow
    BY <1>1 DEF Run
  <2> QED
    BY <1>8, <2>1 DEF PaymentRow
<1>10. CASE took
  <2>1. Takes(View(o), View(o)', h) /\ \A p \in Orders \ {o} : View(p)' = View(p)
    BY <1>2, <1>4, <1>5, <1>10, CaptureView
  <2> QED
    BY <1>2, <1>3, <1>4, <1>6, <1>8, <1>9, <1>10, <2>1 DEF Beside, PaysOn
<1>11. CASE ~took
  <2>1. \A p \in Orders : View(p)' = View(p)
    BY <1>2, <1>4, <1>11, SameRowsSameView DEF rows
  <2>2. h \in View(o).taken <=> <<o, h>> \in captured[Server]
    BY OneBook DEF View
  <2> QED
    BY <1>2, <1>3, <1>4, <1>6, <1>8, <1>9, <2>1, <2>2 DEF Beside, PaysOn
<1> QED
  BY <1>10, <1>11

\* The outcome of a charge is recorded, by the run or by the reconciler.
LEMMA RecordEffect ==
  ASSUME IInv, ~Flaky, NEW r \in Runners, NEW o \in Orders, o = run[r].order,
         Record(r) \/ Settle(r) \/ Decline(r)
  PROVE  Beside(r, o) /\ PaysOn(View(o), run[r], View(o)', run'[r])
<1>1. RunsFit /\ RunFits(r, run[r]) /\ run[r] \in Run
  BY DEF IInv, RunsFit, RunFits
<1>2. UNCHANGED <<order, refundRow, hold, captured, returned>>
  BY DEF Record, Settle, Decline
<1>3. PICK h \in Holds : h = run[r].hold /\ Key(r) = <<o, h>>
  BY <1>1 DEF Record, Settle, Decline, RunFits, WithHold, Key
<1>4. ASSUME NEW status, NEW ref, SetPayment(Key(r), status, ref)
      PROVE  Pays(View(o), View(o)', h, status) /\ \A p \in Orders \ {o} : View(p)' = View(p)
  <2>1. PICK row : row = [status |-> status, ref |-> ref]
    OBVIOUS
  <2>2. row.status = status /\ payment' = [payment EXCEPT ![<<o, h>>] = row]
    BY <1>3, <1>4, <2>1 DEF SetPayment
  <2> QED
    BY <1>2, <2>2, PaymentView
<1>5. CASE Record(r)
  <2>1. PICK pay : pay = run[r].pay
    OBVIOUS
  <2>2. run[r].pc = "record" /\ Branch(r, pay) /\ SetPayment(Key(r), pay.status, run[r].got)
    BY <1>5, <2>1 DEF Record
  <2>3. Keeps(r, o) /\ BranchesOn(run[r], run'[r], pay.status)
    BY <2>2, BranchMemory
  <2> QED
    BY <1>3, <1>4, <2>1, <2>2, <2>3 DEF Beside, PaysOn
<1>6. CASE Settle(r)
  <2>1. /\ run[r].pc = "settle" /\ SetPayment(Key(r), "CAPTURED", run[r].pay.ref)
        /\ run' = [run EXCEPT ![r].pc = "start", ![r].hold = None, ![r].pay = NoPayment]
    BY <1>6 DEF Settle
  <2>2. Moves(r) /\ run'[r] = [run[r] EXCEPT !.pc = "start", !.hold = None, !.pay = NoPayment]
    BY <1>1, <2>1 DEF Moves, RunsFit
  <2>3. Keeps(r, o) /\ run'[r].pc = "start"
    BY <1>1, <2>2 DEF Run, Keeps
  <2> QED
    BY <1>3, <1>4, <2>1, <2>3 DEF Beside, PaysOn
<1>7. CASE Decline(r)
  <2>1. run[r].pc = "decline" /\ SetPayment(Key(r), "FAILED", FALSE) /\ Goto(r, "fail")
    BY <1>7 DEF Decline
  <2> QED
    BY <1>3, <1>4, <2>1, GotoMemory DEF Beside, PaysOn
<1> QED
  BY <1>5, <1>6, <1>7

\* Only a charge makes the provider capture anything.
LEMMA RunEffect ==
  ASSUME IInv, OneProvider, ~Flaky, OneCharger, NEW r \in Runners, NEW o \in Orders,
         o = run[r].order, RunStep(r)
  PROVE  Beside(r, o) /\ Effect(View(o), run[r], View(o)', run'[r]) /\ OneCharger'
<1>1. CASE \/ Authorize(r) \/ Fail(r) \/ Confirming(r)
           \/ Confirmed(r) \/ Ticketed(r) \/ Compensated(r)
  <2>1. UNCHANGED captured
    BY <1>1 DEF Authorize, Fail, Confirming, Confirmed, Ticketed, Compensated
  <2> QED
    BY <1>1, <2>1, StatusEffect DEF Effect, OneCharger
<1>2. CASE Extend(r) \/ Confirm(r) \/ ConfirmNew(r) \/ ReleaseNew(r)
  <2>1. UNCHANGED captured
    BY <1>2 DEF Extend, Confirm, ConfirmNew, ReleaseNew
  <2> QED
    BY <1>2, <2>1, SeatEffect DEF OneCharger
<1>3. CASE Reallocate(r)
  <2>1. UNCHANGED captured
    BY <1>3 DEF Reallocate
  <2> QED
    BY <1>3, <2>1, ReallocateEffect DEF OneCharger
<1>4. CASE Start(r) \/ Query(r)
  <2>1. UNCHANGED captured
    BY <1>4 DEF Start, Query, rows
  <2> QED
    BY <1>4, <2>1, ReadEffect DEF Effect, OneCharger
<1>5. CASE Switch(r) \/ Refund(r) \/ InsertRefund(r)
  <2>1. UNCHANGED captured
    BY <1>5 DEF Switch, Refund, InsertRefund
  <2> QED
    BY <1>5, <2>1, DeliveryEffect DEF Effect, OneCharger
<1>6. CASE InsertPayment(r)
  <2>1. UNCHANGED captured
    BY <1>6 DEF InsertPayment
  <2> QED
    BY <1>6, <2>1, InsertEffect DEF Effect, OneCharger
<1>7. CASE Charge(r)
  BY <1>7, ChargeEffect DEF Effect
<1>8. CASE Record(r) \/ Settle(r) \/ Decline(r)
  <2>1. UNCHANGED captured
    BY <1>8 DEF Record, Settle, Decline
  <2> QED
    BY <1>8, <2>1, RecordEffect DEF Effect, OneCharger
<1> QED
  BY <1>1, <1>2, <1>3, <1>4, <1>5, <1>6, <1>7, <1>8 DEF RunStep

-----------------------------------------------------------------------------
(* Statuses tell the truth.                                                *)

\* Attempted payments stay attempted.
LEMMA EffectKeeps ==
  ASSUME NEW v, NEW x, NEW w, NEW y, Knows(v, x), Effect(v, x, w, y)
  PROVE  \A h \in Holds : v.pay[h] # "none" => w.pay[h] # "none"
<1>1. v \in Views
  BY DEF Knows, ViewFits
<1>2. CASE ReadsOn(v, x, w, y)
  BY <1>2 DEF ReadsOn
<1>3. CASE MarksOn(v, x, w, y)
  <2>1. PICK s : Marks(v, w, s)
    BY <1>3 DEF MarksOn
  <2>2. w.pay = v.pay
    BY <1>1, <2>1, ViewFields DEF Marks
  <2> QED
    BY <2>2
<1>4. CASE DeliversOn(v, x, w, y)
  <2>1. GivesBack(v, w) => w.pay = v.pay
    BY <1>1 DEF Views, GivesBack
  <2>2. \A h : Books(v, w, h) \/ Renames(v, w, h) \/ Notes(v, w, h) => w.pay = v.pay
    BY <1>1 DEF Views, Books, Renames, Notes
  <2>3. w.pay = v.pay
    BY <1>4, <2>1, <2>2 DEF DeliversOn
  <2> QED
    BY <2>3
<1>5. CASE PaysOn(v, x, w, y)
  <2>1. x.hold \in Holds
    BY <1>5 DEF Knows, MemoryFits, PaysOn, WithHold
  <2>2. CASE w = v
    BY <2>2
  <2>3. CASE Takes(v, w, x.hold)
    <3>1. w.pay = v.pay
      BY <1>1, <2>3 DEF Takes, Views
    <3> QED
      BY <3>1
  <2>4. ASSUME NEW s, s # "none", Pays(v, w, x.hold, s)
        PROVE  \A h \in Holds : v.pay[h] # "none" => w.pay[h] # "none"
    BY <1>1, <2>1, <2>4, ViewFields DEF Pays
  <2> QED
    BY <1>5, <2>2, <2>3, <2>4 DEF PaysOn, BranchesOn
<1> QED
  BY <1>2, <1>3, <1>4, <1>5 DEF Effect

\* It is enough to look at the order that a step is about and at the run that makes it.
LEMMA TellStep ==
  ASSUME IInv, TellInv, OneCharger', NEW r \in Runners, NEW o \in Orders, run[r].order = o,
         Beside(r, o),
         \A h \in Holds : View(o).pay[h] # "none" => View(o)'.pay[h] # "none",
         RowsTell(View(o)'),
         run'[r].order = o => RunTells(View(o)', run'[r])
  PROVE  TellInv'
<1>1. o # None /\ run[r].pc # "idle"
  BY NamesAssumption DEF IInv, RunsFit, RunFits
<1>2. /\ \A p \in Orders \ {o} : View(p)' = View(p)
      /\ \A q \in Runners \ {r} : run'[q] = run[q]
      /\ run'[r].order \in {o, None} /\ run'[r].todo \subseteq run[r].todo
  BY DEF Beside, Keeps, Moves
<1>3. \A q \in Runners : run[q].order = o => q = r
  BY DEF TellInv, OneRun
<1>4. ASSUME NEW q \in Runners PROVE JobsTell(q)'
  <2> SUFFICES ASSUME NEW j \in run'[q].todo
               PROVE  /\ run'[j.order].pc = "idle"
                      /\ q = Reconciler => payment'[<<j.order, j.hold>>].status # "none"
    BY DEF JobsTell
  <2>1. j \in run[q].todo
    BY <1>2
  <2>2. run[q] \in Run /\ j \in Job /\ j.order \in Orders /\ (q = Reconciler => j.hold \in Holds)
    BY <2>1 DEF IInv, RunsFit, RunFits, Run, Job
  <2>3. /\ run[j.order].pc = "idle"
        /\ q = Reconciler => payment[<<j.order, j.hold>>].status # "none"
    BY <2>1 DEF TellInv, JobsTell
  <2>4. run'[j.order].pc = "idle"
    BY <1>1, <1>2, <2>2, <2>3 DEF Runners
  <2>5. ASSUME q = Reconciler PROVE payment'[<<j.order, j.hold>>].status # "none"
    <3>1. PICK p \in Orders, h \in Holds : p = j.order /\ h = j.hold
      BY <2>2, <2>5
    <3>2. View(p).pay[h] # "none"
      BY <2>3, <2>5, <3>1 DEF View
    <3>3. View(p)'.pay[h] # "none"
      BY <1>2, <3>2
    <3>4. View(p)'.pay[h] = payment'[<<p, h>>].status
      BY DEF View
    <3> QED
      BY <3>1, <3>3, <3>4
  <2> QED
    BY <2>4, <2>5
<1>5. ASSUME NEW p \in Orders PROVE OneRun(p)' /\ RowsTell(View(p)')
  <2>1. OneRun(p) /\ RowsTell(View(p)) /\ p \in Runners
    BY DEF TellInv, Runners
  <2>2. run'[p].order \in {p, None}
    BY <1>1, <1>2, <2>1 DEF OneRun
  <2>3. ASSUME NEW q \in Runners, run'[q].order = p PROVE run[q].order = p
    <3>1. p # None
      BY NamesAssumption
    <3> QED
      BY <1>2, <2>3, <3>1
  <2>4. OneRun(p)'
    BY <2>1, <2>2, <2>3 DEF OneRun
  <2>5. RowsTell(View(p)')
    BY <1>2, <2>1
  <2> QED
    BY <2>4, <2>5
<1>6. ASSUME NEW q \in Runners, NEW p, p = run'[q].order, p # None
      PROVE  RunTells(View(p)', run'[q])
  <2>1. CASE q = r
    BY <1>2, <1>6, <2>1
  <2>2. CASE q # r
    <3>1. p = run[q].order /\ run'[q] = run[q]
      BY <1>2, <1>6, <2>2
    <3>2. p \in Orders \ {o}
      BY <1>3, <1>6, <2>2, <3>1 DEF IInv, RunsFit, RunFits, Run
    <3>3. RunTells(View(p), run[q])
      BY <1>6, <3>1 DEF TellInv
    <3>4. View(p)' = View(p)
      BY <1>2, <3>2
    <3> QED
      BY <3>1, <3>3, <3>4
  <2> QED
    BY <2>1, <2>2
<1>7. \A q \in Runners : run'[q].order # None => RunTells(View(run[q].order), run[q])'
  <2> SUFFICES ASSUME NEW q \in Runners, run'[q].order # None
               PROVE  RunTells(View(run[q].order), run[q])'
    OBVIOUS
  <2>1. PICK p : p = run'[q].order
    OBVIOUS
  <2>2. RunTells(View(p)', run'[q])
    BY <1>6, <2>1
  <2> QED
    BY <2>1, <2>2
<1> QED
  BY <1>4, <1>5, <1>7 DEF TellInv

LEMMA RunStepsWork ==
  ASSUME NEW r, RunStep(r)
  PROVE  run[r].pc # "idle"
BY DEF RunStep, Start, Authorize, Extend, Fail, InsertPayment, Charge, Record, Confirming,
       Confirm, Confirmed, Ticketed, Reallocate, ConfirmNew, Switch, ReleaseNew, Refund,
       InsertRefund, Compensated, Query, Settle, Decline

LEMMA RunTellsOn ==
  ASSUME IInv, Alone, TellInv, NEW r \in Runners, RunStep(r)
  PROVE  TellInv'
<1>1. run[r].pc # "idle"
  BY RunStepsWork
<1>2. PICK o \in Orders : o = run[r].order /\ Knows(View(o), run[r])
  BY <1>1, AtWorkKnows
<1>3. OneCharger
  BY DEF TellInv
<1>4. Beside(r, o) /\ Effect(View(o), run[r], View(o)', run'[r]) /\ OneCharger'
  BY <1>2, <1>3, RunEffect DEF Alone
<1>5. PICK v, x, w, y : v = View(o) /\ x = run[r] /\ w = View(o)' /\ y = run'[r]
  OBVIOUS
<1>6. RowsTell(w) /\ RunTells(w, y) /\ \A h \in Holds : v.pay[h] # "none" => w.pay[h] # "none"
  BY <1>2, <1>4, <1>5, EffectTells, EffectKeeps
<1> QED
  BY <1>2, <1>4, <1>5, <1>6, TellStep

\* A run that is cut short leaves the rows as they are.
LEMMA CrashTells ==
  ASSUME IInv, TellInv, NEW r \in Runners, Crash(r)
  PROVE  TellInv'
<1>1. run[r].pc # "idle" /\ UNCHANGED rows
  BY DEF Crash
<1>2. PICK o \in Orders : o = run[r].order /\ o # None /\ RowsTell(View(o))
  BY <1>1, AtWorkKnows DEF Knows
<1>3. PICK left \in {{}, run[r].todo} : run' = [run EXCEPT ![r] = [IdleRun EXCEPT !.todo = left]]
  BY DEF Crash
<1>4. left \subseteq run[r].todo
  BY <1>3
<1>5. Moves(r) /\ run'[r].order = None /\ run'[r].todo \subseteq run[r].todo
  BY <1>3, <1>4, FinishMemory
<1>6. \A p \in Orders : View(p)' = View(p)
  BY <1>1, SameRowsSameView
<1>7. OneCharger'
  BY <1>1 DEF TellInv, OneCharger, rows
<1>8. Beside(r, o)
  BY <1>5, <1>6 DEF Beside, Keeps
<1> QED
  BY <1>2, <1>5, <1>6, <1>7, <1>8, TellStep

\* Steps that leave every run as it is, and every view.
LEMMA StillTells ==
  ASSUME IInv, TellInv, UNCHANGED <<run, payment, captured>>, \A p \in Orders : View(p)' = View(p)
  PROVE  TellInv'
<1>1. OneCharger'
  BY DEF TellInv, OneCharger
<1>2. \A r \in Runners : JobsTell(r)'
  BY DEF TellInv, JobsTell
<1>3. \A o \in Orders : OneRun(o)' /\ RowsTell(View(o)')
  BY DEF TellInv, OneRun
<1>4. ASSUME NEW r \in Runners, run'[r].order # None
      PROVE  RunTells(View(run[r].order), run[r])'
  <2>1. PICK p : p = run[r].order
    OBVIOUS
  <2>2. p \in Orders /\ run'[r] = run[r]
    BY <1>4, <2>1 DEF IInv, RunsFit, RunFits, Run
  <2>3. RunTells(View(p), run[r]) /\ View(p)' = View(p)
    BY <1>4, <2>1, <2>2 DEF TellInv
  <2>4. RunTells(View(p)', run'[r]) /\ p = run'[r].order
    BY <2>1, <2>2, <2>3
  <2> QED
    BY <2>4
<1> QED
  BY <1>1, <1>2, <1>3, <1>4 DEF TellInv

\* No hold becomes booked, and no booked hold changes.
LEMMA HoldStepsView ==
  ASSUME IInv, NEW h \in Holds, AcquireHold(h) \/ Lapse(h) \/ LoseHold(h)
  PROVE  \A p \in Orders : View(p)' = View(p)
<1>1. UNCHANGED <<order, payment, refundRow, captured, returned, run>>
  BY DEF AcquireHold, Lapse, LoseHold
<1>2. hold[h] \in HoldRows
  BY DEF IInv, RowsFit
<1>3. PICK a, b, c : /\ a = [hold[h] EXCEPT !.rows = "HELD"]
                     /\ b = [hold[h] EXCEPT !.lapsed = TRUE]
                     /\ c = [hold[h] EXCEPT !.rows = "released", !.lapsed = FALSE]
  OBVIOUS
<1>4. a.rows = "HELD" /\ b.rows = hold[h].rows /\ c.rows = "released"
  BY <1>2, <1>3 DEF HoldRows
<1>5. \/ hold[h].rows = "unused" /\ hold' = [hold EXCEPT ![h] = a]
      \/ hold[h].rows \in Live /\ hold' = [hold EXCEPT ![h] = b]
      \/ hold[h].rows \in Live /\ hold' = [hold EXCEPT ![h] = c]
  BY <1>3 DEF AcquireHold, Lapse, LoseHold, Alive
<1>6. PICK row : hold[h].rows # "BOOKED" /\ row.rows # "BOOKED" /\ hold' = [hold EXCEPT ![h] = row]
  BY <1>4, <1>5 DEF Live
<1> QED
  BY <1>1, <1>6, HoldView

LEMMA HoldStepsTell ==
  ASSUME IInv, TellInv, NEW h \in Holds, AcquireHold(h) \/ Lapse(h) \/ LoseHold(h)
  PROVE  TellInv'
BY HoldStepsView, StillTells DEF AcquireHold, Lapse, LoseHold

\* A sweep that is between two orders.
LEMMA SweeperTells ==
  ASSUME IInv, TellInv, UNCHANGED rows, NEW r \in Sweepers, Moves(r), JobsTell(r)',
         NEW p, p = run'[r].order,
         p # None => /\ p \in Orders /\ \A q \in Runners \ {r} : run[q].order # p
                     /\ RunTells(View(p), run'[r])
  PROVE  TellInv'
<1>1. r \in Runners /\ r \notin Orders
  BY NamesAssumption DEF Sweepers, Runners
<1>2. \A q \in Runners \ {r} : run'[q] = run[q]
  BY DEF Moves
<1>3. \A o \in Orders : View(o)' = View(o)
  BY SameRowsSameView
<1>4. OneCharger'
  BY DEF TellInv, OneCharger, rows
<1>5. ASSUME NEW q \in Runners PROVE JobsTell(q)'
  <2>1. CASE q = r
    BY <2>1
  <2>2. CASE q # r
    <3>1. \A j \in run[q].todo : j.order \in Orders
      BY DEF IInv, RunsFit, RunFits, Run, Job
    <3>2. \A j \in run[q].todo : run'[j.order] = run[j.order]
      BY <1>1, <1>2, <3>1 DEF Runners
    <3>3. JobsTell(q) /\ payment' = payment /\ run'[q] = run[q]
      BY <1>2, <2>2 DEF TellInv, rows
    <3> QED
      BY <3>2, <3>3 DEF JobsTell
  <2> QED
    BY <2>1, <2>2
<1>6. ASSUME NEW o \in Orders PROVE OneRun(o)' /\ RowsTell(View(o)')
  <2>1. OneRun(o) /\ RowsTell(View(o)) /\ run'[o] = run[o] /\ o # None
    BY <1>1, <1>2, NamesAssumption DEF TellInv, Runners
  <2>2. ASSUME NEW a \in Runners, NEW b \in Runners, run'[a].order = o, run'[b].order = o
        PROVE  a = b
    <3>1. CASE p = o
      <4>1. \A q \in Runners : run'[q].order = o => q = r
        BY <1>2, <2>1, <3>1
      <4> QED
        BY <2>2, <4>1
    <3>2. CASE p # o
      <4>1. a # r /\ b # r
        BY <2>2, <3>2
      <4> QED
        BY <1>2, <2>1, <2>2, <4>1 DEF OneRun
    <3> QED
      BY <3>1, <3>2
  <2>3. OneRun(o)'
    BY <2>1, <2>2 DEF OneRun
  <2> QED
    BY <1>3, <2>1, <2>3
<1>7. ASSUME NEW q \in Runners, run'[q].order # None
      PROVE  RunTells(View(run[q].order), run[q])'
  <2>1. PICK o : o = run'[q].order
    OBVIOUS
  <2>2. o \in Orders /\ RunTells(View(o), run'[q])
    <3>1. CASE q = r
      BY <1>7, <2>1, <3>1
    <3>2. CASE q # r
      BY <1>2, <1>7, <2>1, <3>2 DEF TellInv, IInv, RunsFit, RunFits, Run
    <3> QED
      BY <3>1, <3>2
  <2>3. RunTells(View(o)', run'[q])
    BY <1>3, <2>2
  <2> QED
    BY <2>1, <2>3
<1> QED
  BY <1>4, <1>5, <1>6, <1>7 DEF TellInv

\* ListStuckOrders and ListStuckPayments leave the orders at work out.
LEMMA SweepTells ==
  ASSUME IInv, Alone, TellInv, NEW r \in Runners, Sweep(r)
  PROVE  TellInv'
<1>1. /\ r \in Sweepers /\ run[r].pc = "idle" /\ UNCHANGED rows
      /\ run' = [run EXCEPT ![r].todo = Stuck(r)]
  BY DEF Sweep
<1>2. RunsFit /\ RunFits(r, run[r]) /\ run[r] \in Run /\ r \notin Orders
  BY <1>1, NamesAssumption DEF IInv, RunsFit, RunFits, Sweepers
<1>3. PICK jobs : jobs = Stuck(r)
  OBVIOUS
<1>4. Moves(r) /\ run'[r] = [run[r] EXCEPT !.todo = jobs]
  BY <1>1, <1>2, <1>3 DEF Moves, RunsFit
<1>5. run'[r].todo = jobs /\ run'[r].order = None
  BY <1>1, <1>2, <1>4 DEF Run, RunFits
<1>6. JobsTell(r)'
  <2> SUFFICES ASSUME NEW j \in jobs
               PROVE  /\ run'[j.order].pc = "idle"
                      /\ r = Reconciler => payment'[<<j.order, j.hold>>].status # "none"
    BY <1>5 DEF JobsTell
  <2>1. /\ j.order \in Orders /\ Aged(j.order)
        /\ r # Worker => payment[<<j.order, j.hold>>].status # "none"
    <3>1. CASE r = Worker
      BY <1>3, <3>1 DEF Stuck
    <3>2. CASE r # Worker
      <4>1. PICK k \in Keys : /\ payment[k].status \in {"PENDING", "UNKNOWN"} /\ Aged(k[1])
                              /\ j = [order |-> k[1], hold |-> k[2], ref |-> payment[k].ref]
        BY <1>3, <3>2 DEF Stuck
      <4>2. PICK o \in Orders, h \in Holds : k = <<o, h>>
        BY DEF Keys
      <4>3. j.order = o /\ j.hold = h
        BY <4>1, <4>2
      <4> QED
        BY <4>1, <4>2, <4>3
    <3> QED
      BY <3>1, <3>2
  <2>2. run[j.order].pc = "idle" /\ j.order \in Runners \ {r}
    BY <1>2, <2>1 DEF Aged, Alone, Runners
  <2>3. run'[j.order].pc = "idle"
    BY <1>4, <2>2 DEF Moves
  <2> QED
    BY <1>1, <2>1, <2>3, NamesAssumption DEF rows
<1> QED
  BY <1>1, <1>4, <1>5, <1>6, SweeperTells

LEMMA VisitTells ==
  ASSUME IInv, Alone, TellInv, NEW r \in Runners, Visit(r)
  PROVE  TellInv'
<1>1. run[r].pc = "idle" /\ UNCHANGED rows
  BY DEF Visit
<1>2. RunsFit /\ RunFits(r, run[r]) /\ run[r] \in Run
  BY DEF IInv, RunsFit, RunFits
<1>3. PICK j \in run[r].todo :
        /\ \A q \in Sweepers : run[q].order # j.order
        /\ run' = [run EXCEPT ![r].pc = IF r = Worker THEN "start" ELSE "query",
                              ![r].order = j.order, ![r].hold = j.hold, ![r].pay.ref = j.ref,
                              ![r].todo = @ \ {j}]
  BY DEF Visit, Alone
<1>4. /\ j \in Job /\ j.order \in Orders /\ j.order # None /\ r \notin Orders
      /\ r = Reconciler => j.hold \in Holds
  BY <1>2, NamesAssumption DEF RunFits, Run, Job
<1>5. r \in Sweepers
  BY <1>4 DEF Runners
<1>6. Moves(r)
  <2>1. run' = [run EXCEPT ![r].pc = IF r = Worker THEN "start" ELSE "query",
                           ![r].order = j.order, ![r].hold = j.hold, ![r].pay.ref = j.ref,
                           ![r].todo = @ \ {j}]
    BY <1>3
  <2> QED
    BY <1>2, <2>1 DEF Moves, RunsFit
<1>7. /\ run'[r].pc = IF r = Worker THEN "start" ELSE "query"
      /\ run'[r].order = j.order /\ run'[r].hold = j.hold /\ run'[r].todo \subseteq run[r].todo
  <2>1. PICK pc, todo, pay : /\ pc = IF r = Worker THEN "start" ELSE "query"
                             /\ todo = run[r].todo \ {j}
                             /\ pay = [run[r].pay EXCEPT !.ref = j.ref]
    OBVIOUS
  <2>2. run'[r] = [run[r] EXCEPT !.pc = IF r = Worker THEN "start" ELSE "query",
                                 !.order = j.order, !.hold = j.hold, !.pay.ref = j.ref,
                                 !.todo = @ \ {j}]
    BY <1>2, <1>3 DEF RunsFit
  <2>3. [run[r] EXCEPT !.pc = IF r = Worker THEN "start" ELSE "query",
                       !.order = j.order, !.hold = j.hold, !.pay.ref = j.ref,
                       !.todo = @ \ {j}]
        = [run[r] EXCEPT !.pc = pc, !.order = j.order, !.hold = j.hold, !.pay = pay,
                         !.todo = todo]
    BY <1>2, <2>1 DEF Run
  <2>4. /\ run'[r].pc = pc /\ run'[r].order = j.order /\ run'[r].hold = j.hold
        /\ run'[r].todo = todo
    BY <1>2, <2>2, <2>3 DEF Run
  <2> QED
    BY <2>1, <2>4
<1>8. run[j.order].pc = "idle" /\ (r = Reconciler => payment[<<j.order, j.hold>>].status # "none")
  BY <1>3 DEF TellInv, JobsTell
<1>9. JobsTell(r)'
  <2>1. \A i \in run[r].todo : i.order \in Orders
    BY <1>2 DEF Run, Job
  <2>2. \A i \in run[r].todo : run'[i.order] = run[i.order]
    BY <1>4, <1>6, <2>1 DEF Moves, Runners
  <2>3. JobsTell(r) /\ payment' = payment
    BY <1>1 DEF TellInv, rows
  <2>4. ASSUME NEW i \in run'[r].todo
        PROVE  /\ run'[i.order].pc = "idle"
               /\ r = Reconciler => payment'[<<i.order, i.hold>>].status # "none"
    <3>1. i \in run[r].todo
      BY <1>7
    <3> QED
      BY <2>2, <2>3, <3>1 DEF JobsTell
  <2> QED
    BY <2>4 DEF JobsTell
<1>10. \A q \in Runners : run[q].order # j.order
  <2> SUFFICES ASSUME NEW q \in Orders, run[q].order = j.order PROVE FALSE
    BY <1>3 DEF Runners
  <2>1. q = j.order
    BY <1>4 DEF TellInv, OneRun
  <2>2. run[q].pc # "idle"
    BY <1>2, <1>4 DEF RunsFit, RunFits, Runners
  <2> QED
    BY <1>8, <2>1, <2>2
<1>11. RunTells(View(j.order), run'[r])
  <2>1. CASE r = Worker
    BY <1>7, <2>1 DEF RunTells, Current, Asking, Late
  <2>2. CASE r = Reconciler
    <3>1. View(j.order).pay[j.hold] # "none"
      BY <1>4, <1>8, <2>2 DEF View
    <3> QED
      BY <1>7, <2>2, <3>1, NamesAssumption DEF RunTells, Current, Asking, Late
  <2> QED
    BY <1>5, <2>1, <2>2 DEF Sweepers
<1> QED
  BY <1>1, <1>4, <1>5, <1>6, <1>7, <1>9, <1>10, <1>11, SweeperTells

\* A new order has not tried anything.
LEMMA CreateTells ==
  ASSUME IInv, IInv', TellInv, NEW o \in Orders, NEW h \in Holds, CreateOrder(o, h)
  PROVE  TellInv'
<1>1. /\ order[o].status = "none"
      /\ order' = [order EXCEPT ![o] = [status |-> "PENDING", hold |-> h]]
      /\ run' = [run EXCEPT ![o].pc = "start", ![o].order = o]
      /\ UNCHANGED <<payment, refundRow, hold, captured, returned>>
  BY DEF CreateOrder
<1>2. RunsFit /\ RunFits(o, run[o]) /\ run[o] \in Run /\ o \in Runners /\ run[o].pc = "idle"
  BY <1>1 DEF IInv, RunsFit, RunFits, Runners, Created
<1>3. Moves(o) /\ run'[o] = [run[o] EXCEPT !.pc = "start", !.order = o]
  BY <1>1, <1>2 DEF Moves, RunsFit
<1>4. run'[o].pc = "start" /\ run'[o].order = o /\ run'[o].todo = {}
  BY <1>2, <1>3 DEF Run, RunFits
<1>5. \A q \in Runners \ {o} : run'[q] = run[q]
  BY <1>3 DEF Moves
<1>6. ASSUME NEW q \in Runners
      PROVE  run[q].order # o /\ (q = o => run[q].order = None) /\ \A j \in run[q].todo : j.order # o
  <2>1. RunFits(q, run[q]) /\ o # None /\ ~Created(o)
    BY <1>1, NamesAssumption DEF IInv, RunsFit, Created
  <2>2. run[q].order # o
    BY <2>1 DEF RunFits
  <2>3. \A j \in run[q].todo : j.order # o
    BY <2>1 DEF RunFits
  <2>4. q = o => run[q].order = None
    BY <1>2 DEF RunFits
  <2> QED
    BY <2>2, <2>3, <2>4
<1>7. OneCharger'
  BY <1>1 DEF TellInv, OneCharger
<1>8. ASSUME NEW q \in Runners PROVE JobsTell(q)'
  <2>1. CASE q = o
    BY <1>4, <2>1 DEF JobsTell
  <2>2. CASE q # o
    <3>1. \A j \in run[q].todo : j.order \in Orders \ {o}
      BY <1>2, <1>6 DEF RunsFit, RunFits, Run, Job
    <3>2. \A j \in run[q].todo : run'[j.order] = run[j.order]
      BY <1>5, <3>1 DEF Runners
    <3>3. JobsTell(q) /\ payment' = payment /\ run'[q] = run[q]
      BY <1>1, <1>5, <2>2 DEF TellInv
    <3> QED
      BY <3>2, <3>3 DEF JobsTell
  <2> QED
    BY <2>1, <2>2
<1>9. PICK row : row = [status |-> "PENDING", hold |-> h]
  OBVIOUS
<1>10. \A p \in Orders \ {o} : View(p)' = View(p)
  BY <1>1, <1>9, OrderView
<1>11. RowsTell(View(o)')
  <2>1. PICK v, w : v = View(o) /\ w = View(o)'
    OBVIOUS
  <2>2. Untried(v) /\ RowsTell(v) /\ v.taken \subseteq Holds
    BY <1>1, <2>1, ViewIsFit DEF ViewFits, View, TellInv
  <2>3. w.status = "PENDING" /\ w.pay = v.pay /\ w.taken = v.taken
    BY <1>1, <2>1 DEF View, IInv, RowsFit, Captured
  <2>4. v.taken = {}
    BY <2>2 DEF RowsTell, Untried
  <2> QED
    BY <2>1, <2>2, <2>3, <2>4 DEF RowsTell, Untried
<1>12. ASSUME NEW p \in Orders PROVE OneRun(p)' /\ RowsTell(View(p)')
  <2>1. OneRun(p) /\ RowsTell(View(p))
    BY DEF TellInv
  <2>2. \A q \in Runners : run'[q].order = p => (q = o /\ p = o) \/ (q # o /\ p # o /\ run[q].order = p)
    BY <1>4, <1>5, <1>6
  <2>3. run'[p].order \in {p, None}
    BY <1>4, <1>5, <2>1 DEF OneRun, Runners
  <2>4. OneRun(p)'
    BY <2>1, <2>2, <2>3 DEF OneRun
  <2> QED
    BY <1>10, <1>11, <2>1, <2>4
<1>13. ASSUME NEW q \in Runners, run'[q].order # None
       PROVE  RunTells(View(run[q].order), run[q])'
  <2>1. PICK p : p = run'[q].order
    OBVIOUS
  <2>2. RunTells(View(p)', run'[q])
    <3>1. CASE q = o
      BY <1>4, <3>1 DEF RunTells, Current, Asking, Late
    <3>2. CASE q # o
      <4>1. run'[q] = run[q] /\ p \in Orders \ {o}
        BY <1>5, <1>6, <1>13, <2>1, <3>2 DEF IInv, RunsFit, RunFits, Run
      <4>2. RunTells(View(p), run[q])
        BY <1>13, <2>1, <4>1 DEF TellInv
      <4> QED
        BY <1>10, <4>1, <4>2
    <3> QED
      BY <3>1, <3>2
  <2> QED
    BY <2>1, <2>2
<1> QED
  BY <1>7, <1>8, <1>12, <1>13 DEF TellInv

LEMMA TellInit == Init => TellInv
<1> SUFFICES ASSUME Init PROVE TellInv
  OBVIOUS
<1>1. IdleRun.order = None /\ IdleRun.pc = "idle" /\ IdleRun.todo = {}
  BY DEF IdleRun
<1>2. \A r \in Runners : run[r] = IdleRun
  BY DEF Init
<1>3. OneCharger
  BY DEF Init, OneCharger
<1>4. \A r \in Runners : JobsTell(r) /\ run[r].order = None
  BY <1>1, <1>2 DEF JobsTell
<1>5. ASSUME NEW o \in Orders PROVE OneRun(o) /\ RowsTell(View(o))
  <2>1. OneRun(o)
    BY <1>1, <1>2, NamesAssumption DEF OneRun, Runners
  <2>2. PICK v : v = View(o)
    OBVIOUS
  <2>3. v.status = "none" /\ v.taken = {}
    BY <2>2 DEF View, Init, Captured
  <2>4. \A h \in Holds : v.pay[h] = "none"
    BY <2>2 DEF View, Init, NoPayment, Keys
  <2> QED
    BY <2>1, <2>2, <2>3, <2>4 DEF RowsTell, Untried
<1> QED
  BY <1>3, <1>4, <1>5 DEF TellInv

LEMMA TellNext == Alone /\ IInv /\ TellInv /\ [Next]_vars => TellInv'
<1> SUFFICES ASSUME Alone, IInv, TellInv, [Next]_vars PROVE TellInv'
  OBVIOUS
<1>1. CASE UNCHANGED vars
  <2>1. \A p \in Orders : View(p)' = View(p)
    BY <1>1, SameRowsSameView DEF vars, rows
  <2> QED
    BY <1>1, <2>1, StillTells DEF vars
<1>2. ASSUME NEW r \in Runners, RunStep(r) \/ Crash(r) \/ Sweep(r) \/ Visit(r)
      PROVE  TellInv'
  BY <1>2, RunTellsOn, CrashTells, SweepTells, VisitTells
<1>3. ASSUME NEW h \in Holds, AcquireHold(h) \/ Lapse(h) \/ LoseHold(h)
      PROVE  TellInv'
  BY <1>3, HoldStepsTell
<1>4. ASSUME NEW o \in Orders, NEW h \in Holds, CreateOrder(o, h)
      PROVE  TellInv'
  <2>1. IInv'
    BY InvNext
  <2> QED
    BY <1>4, <2>1, CreateTells
<1> QED
  BY <1>1, <1>2, <1>3, <1>4 DEF Next

LEMMA TellsTheTruth == IInv /\ TellInv => StatusIsTrue
<1> SUFFICES ASSUME IInv, TellInv, NEW o \in Orders
             PROVE  /\ order[o].status \in {"CONFIRMED", "TICKETED"} =>
                         /\ order[o].hold \in SeatsOf(o)
                         /\ \E h \in Holds : payment[<<o, h>>].status = "CAPTURED"
                    /\ order[o].status = "FAILED" =>
                         \A p \in Providers : <<o, order[o].hold>> \notin captured[p]
                    /\ order[o].status = "COMPENSATED" => Returns(o) > 0
  BY DEF StatusIsTrue
<1>1. PICK v : v = View(o)
  OBVIOUS
<1>2. /\ v.status = order[o].status /\ v.hold = order[o].hold
      /\ \A h \in Holds : v.pay[h] = payment[<<o, h>>].status
      /\ v.taken = {h \in Holds : Captured(<<o, h>>)}
      /\ v.seats = SeatsOf(o) /\ v.back = Returns(o)
  BY <1>1 DEF View
<1>3. RowsTell(v)
  BY <1>1 DEF TellInv
<1>4. ASSUME order[o].status = "FAILED", NEW p \in Providers, <<o, order[o].hold>> \in captured[p]
      PROVE  FALSE
  <2>1. order[o].hold \in Holds
    BY <1>4 DEF IInv, RowsFit, Keys
  <2> QED
    BY <1>2, <1>3, <1>4, <2>1 DEF RowsTell, Captured
<1> QED
  BY <1>2, <1>3, <1>4 DEF RowsTell

\* CONFIRMED and TICKETED mean booked seats and a captured payment, FAILED that no
\* money moved, COMPENSATED that it went back, wherever runs of RunSaga are cut short:
\* as long as no two work on one order, statements do not fail and all processes ask
\* one provider.
THEOREM StatusesTellTheTruth == Alone => (Spec => []StatusIsTrue)
<1> SUFFICES ASSUME Alone PROVE Spec => []StatusIsTrue
  OBVIOUS
<1>1. TellInv /\ IInv /\ [Next]_vars => TellInv'
  BY TellNext
<1>2. Spec => []TellInv
  BY <1>1, TellInit, SagaInvariant, PTL DEF Spec
<1> QED
  BY <1>2, TellsTheTruth, SagaInvariant, PTL

-----------------------------------------------------------------------------
(* Without crashes, what a run has begun it ends.                          *)

Working == {"switch", "confirmed", "insert refund", "compensated"}

\* An order that a step is not about.
LEMMA OtherSettles ==
  ASSUME SettleInv, NEW o \in Orders, View(o)' = View(o),
         \A q \in Runners : run[q].order = o /\ run[q].pc \in Working =>
                              run'[q].order = o /\ run'[q].pc = run[q].pc
  PROVE  RowsSettle(View(o)', At(o)')
<1>1. At(o) \cap Working \subseteq At(o)'
  BY DEF At
<1>2. PICK v, a, b : v = View(o) /\ a = At(o) /\ b = At(o)'
  OBVIOUS
<1>3. RowsSettle(v, a) /\ a \cap Working \subseteq b
  BY <1>1, <1>2 DEF SettleInv
<1>4. RowsSettle(v, b)
  BY <1>3 DEF RowsSettle, Working
<1> QED
  BY <1>2, <1>4

\* Steps that leave every view as it is, and every run but those that begin.
LEMMA StillSettles ==
  ASSUME IInv, IInv', SettleInv, \A p \in Orders : View(p)' = View(p),
         \A q \in Runners :
           \/ run'[q].order = run[q].order /\ run'[q].pc = run[q].pc /\ run'[q].hold = run[q].hold
           \/ run[q].pc = "idle" /\ run'[q].pc \in {"start", "query"}
  PROVE  SettleInv'
<1>1. ASSUME NEW o \in Orders PROVE RowsSettle(View(o)', At(o)')
  <2>1. \A q \in Runners : run[q].pc \in Working => run'[q].order = run[q].order /\ run'[q].pc = run[q].pc
    BY DEF Working
  <2> QED
    BY <2>1, OtherSettles
<1>2. ASSUME NEW q \in Runners, run'[q].order # None
      PROVE  RunSettles(View(run[q].order), run[q])'
  <2>1. PICK o : o = run'[q].order
    OBVIOUS
  <2>2. o \in Orders
    BY <1>2, <2>1 DEF IInv, RunsFit, RunFits, Run
  <2>3. CASE run[q].pc = "idle" /\ run'[q].pc \in {"start", "query"}
    <3>1. RunSettles(View(o)', run'[q])
      BY <2>3 DEF RunSettles
    <3> QED
      BY <2>1, <3>1
  <2>4. CASE run'[q].order = run[q].order /\ run'[q].pc = run[q].pc /\ run'[q].hold = run[q].hold
    <3>1. PICK v : v = View(o) /\ v = View(o)'
      BY <2>2
    <3>2. RunSettles(v, run[q])
      BY <1>2, <2>1, <2>4, <3>1 DEF SettleInv
    <3>3. RunSettles(v, run'[q])
      BY <2>4, <3>2 DEF RunSettles
    <3> QED
      BY <2>1, <3>1, <3>3
  <2> QED
    BY <2>3, <2>4
<1> QED
  BY <1>1, <1>2 DEF SettleInv

\* The run that has an order is settled with its rows.
LEMMA AtWorkSettled ==
  ASSUME IInv, TellInv, SettleInv, NEW r \in Runners, NEW o \in Orders, run[r].order = o
  PROVE  Settled(View(o), run[r])
<1>1. At(o) = {run[r].pc}
  BY DEF At, TellInv, OneRun
<1>2. o # None
  BY NamesAssumption
<1> QED
  BY <1>1, <1>2 DEF SettleInv, Settled

LEMMA RunSettlesOn ==
  ASSUME IInv, IInv', Alone, TellInv, SettleInv, NEW r \in Runners, RunStep(r)
  PROVE  SettleInv'
<1>1. run[r].pc # "idle"
  BY RunStepsWork
<1>2. PICK o \in Orders : o = run[r].order /\ o # None /\ Knows(View(o), run[r])
  BY <1>1, AtWorkKnows
<1>3. Beside(r, o) /\ Effect(View(o), run[r], View(o)', run'[r])
  BY <1>2, RunEffect DEF TellInv, Alone
<1>4. PICK v, x, w, y : v = View(o) /\ x = run[r] /\ w = View(o)' /\ y = run'[r]
  OBVIOUS
<1>5. Settled(w, y)
  <2>1. Settled(v, x)
    BY <1>2, <1>4, AtWorkSettled
  <2> QED
    BY <1>2, <1>3, <1>4, <2>1, EffectSettles
<1>6. /\ \A p \in Orders \ {o} : View(p)' = View(p)
      /\ \A q \in Runners \ {r} : run'[q] = run[q]
      /\ run'[r].order \in {o, None}
  BY <1>3 DEF Beside, Keeps, Moves
<1>7. \A q \in Runners : run[q].order = o => q = r
  BY <1>2 DEF TellInv, OneRun
<1>8. RowsSettle(View(o)', At(o)')
  <2>1. At(o)' = IF y.order = o THEN {y.pc} ELSE {}
    BY <1>2, <1>4, <1>6, <1>7 DEF At
  <2>2. y.order # o => y.pc = "idle"
    BY <1>4, <1>6 DEF IInv, RunsFit, RunFits
  <2>3. y.order # o => RowsSettle(w, {})
    BY <1>5, <2>2 DEF Settled, RowsSettle
  <2>4. y.order = o => RowsSettle(w, {y.pc})
    BY <1>5 DEF Settled
  <2> QED
    BY <1>4, <2>1, <2>3, <2>4
<1>9. ASSUME NEW p \in Orders \ {o} PROVE RowsSettle(View(p)', At(p)')
  <2>1. \A q \in Runners : run[q].order = p => run'[q] = run[q]
    BY <1>2, <1>6
  <2> QED
    BY <1>6, <2>1, OtherSettles
<1>10. ASSUME NEW q \in Runners, run'[q].order # None
       PROVE  RunSettles(View(run[q].order), run[q])'
  <2>1. PICK p : p = run'[q].order
    OBVIOUS
  <2>2. RunSettles(View(p)', run'[q])
    <3>1. CASE q = r
      <4>1. p = o
        BY <1>6, <1>10, <2>1, <3>1
      <4> QED
        BY <1>4, <1>5, <3>1, <4>1 DEF Settled
    <3>2. CASE q # r
      <4>1. run'[q] = run[q] /\ p \in Orders \ {o}
        BY <1>6, <1>7, <1>10, <2>1, <3>2 DEF IInv, RunsFit, RunFits, Run
      <4>2. RunSettles(View(p), run[q])
        BY <1>10, <2>1, <4>1 DEF SettleInv
      <4> QED
        BY <1>6, <4>1, <4>2
    <3> QED
      BY <3>1, <3>2
  <2> QED
    BY <2>1, <2>2
<1> QED
  BY <1>8, <1>9, <1>10 DEF SettleInv

LEMMA CreateSettles ==
  ASSUME IInv, IInv', TellInv, SettleInv, NEW o \in Orders, NEW h \in Holds,
         CreateOrder(o, h)
  PROVE  SettleInv'
<1>1. /\ order[o].status = "none"
      /\ order' = [order EXCEPT ![o] = [status |-> "PENDING", hold |-> h]]
      /\ run' = [run EXCEPT ![o].pc = "start", ![o].order = o]
      /\ UNCHANGED <<payment, refundRow, hold, captured, returned>>
  BY DEF CreateOrder
<1>2. RunsFit /\ RunFits(o, run[o]) /\ run[o] \in Run /\ o \in Runners /\ run[o].pc = "idle"
  BY <1>1 DEF IInv, RunsFit, RunFits, Runners, Created
<1>3. Moves(o) /\ run'[o] = [run[o] EXCEPT !.pc = "start", !.order = o]
  BY <1>1, <1>2 DEF Moves, RunsFit
<1>4. run'[o].pc = "start" /\ run'[o].order = o
  BY <1>2, <1>3 DEF Run
<1>5. \A q \in Runners \ {o} : run'[q] = run[q]
  BY <1>3 DEF Moves
<1>6. \A q \in Runners : run[q].order # o
  BY <1>1, NamesAssumption DEF IInv, RunsFit, RunFits, Created
<1>7. PICK row : row = [status |-> "PENDING", hold |-> h]
  OBVIOUS
<1>8. \A p \in Orders \ {o} : View(p)' = View(p)
  BY <1>1, <1>7, OrderView
<1>9. RowsSettle(View(o)', At(o)')
  <2>1. PICK v, w, a : v = View(o) /\ w = View(o)' /\ a = At(o)'
    OBVIOUS
  <2>2. w.status = "PENDING" /\ w.taken = v.taken /\ w.seats = v.seats /\ w.back = v.back
    BY <1>1, <2>1 DEF View, IInv, RowsFit, Captured, SeatsOf, Returns
  <2>3. v.status = "none" /\ RowsTell(v) /\ ViewFits(v)
    BY <1>1, <2>1, ViewIsFit DEF View, TellInv
  <2>4. v.taken = {}
    BY <2>3 DEF RowsTell, Untried, ViewFits, Views
  <2>5. v.seats = {} /\ ~(v.back > 0)
    BY <2>3, <2>4 DEF ViewFits
  <2>6. RowsSettle(w, a)
    BY <2>2, <2>4, <2>5 DEF RowsSettle, Moved
  <2> QED
    BY <2>1, <2>6
<1>10. ASSUME NEW p \in Orders \ {o} PROVE RowsSettle(View(p)', At(p)')
  <2>1. \A q \in Runners : run[q].order = p => q # o
    BY <1>2, NamesAssumption DEF RunFits
  <2>2. \A q \in Runners : run[q].order = p => run'[q] = run[q]
    BY <1>5, <2>1
  <2> QED
    BY <1>8, <2>2, OtherSettles
<1>11. ASSUME NEW q \in Runners, run'[q].order # None
       PROVE  RunSettles(View(run[q].order), run[q])'
  <2>1. PICK p : p = run'[q].order
    OBVIOUS
  <2>2. RunSettles(View(p)', run'[q])
    <3>1. CASE q = o
      BY <1>4, <3>1 DEF RunSettles
    <3>2. CASE q # o
      <4>1. run'[q] = run[q] /\ p \in Orders \ {o}
        BY <1>5, <1>6, <1>11, <2>1, <3>2 DEF IInv, RunsFit, RunFits, Run
      <4>2. RunSettles(View(p), run[q])
        BY <1>11, <2>1, <4>1 DEF SettleInv
      <4> QED
        BY <1>8, <4>1, <4>2
    <3> QED
      BY <3>1, <3>2
  <2> QED
    BY <2>1, <2>2
<1> QED
  BY <1>9, <1>10, <1>11 DEF SettleInv

LEMMA SettleInit == Init => SettleInv
<1> SUFFICES ASSUME Init PROVE SettleInv
  OBVIOUS
<1>1. ASSUME NEW o \in Orders PROVE RowsSettle(View(o), At(o))
  <2>1. PICK v, a : v = View(o) /\ a = At(o)
    OBVIOUS
  <2>2. Returns(o) = 0
    BY DEF Init, Returns
  <2>3. v.status = "none" /\ v.taken = {} /\ v.seats = {} /\ v.back = 0
    BY <2>1, <2>2 DEF View, Init, Captured, SeatsOf
  <2>4. RowsSettle(v, a)
    BY <2>3 DEF RowsSettle, Moved
  <2> QED
    BY <2>1, <2>4
<1>2. \A r \in Runners : run[r].order = None
  BY DEF Init, IdleRun
<1> QED
  BY <1>1, <1>2 DEF SettleInv

LEMMA SettleNext ==
  ASSUME Alone, MaxCrashes = 0, IInv, IInv', TellInv, SettleInv, [Next]_vars
  PROVE  SettleInv'
<1>1. CASE UNCHANGED vars
  <2>1. \A p \in Orders : View(p)' = View(p)
    BY <1>1, SameRowsSameView DEF vars, rows
  <2> QED
    BY <1>1, <2>1, StillSettles DEF vars
<1>2. ASSUME NEW h \in Holds, AcquireHold(h) \/ Lapse(h) \/ LoseHold(h)
      PROVE  SettleInv'
  <2>1. run' = run
    BY <1>2 DEF AcquireHold, Lapse, LoseHold
  <2> QED
    BY <1>2, <2>1, HoldStepsView, StillSettles
<1>3. ASSUME NEW r \in Runners, Sweep(r) \/ Visit(r)
      PROVE  SettleInv'
  <2>1. run[r].pc = "idle" /\ run[r] \in Run /\ run = [q \in Runners |-> run[q]]
    BY <1>3 DEF Sweep, Visit, IInv, RunsFit, RunFits
  <2>2. \A p \in Orders : View(p)' = View(p)
    BY <1>3, SameRowsSameView DEF Sweep, Visit
  <2>3. CASE Sweep(r)
    <3>1. \A q \in Runners : /\ run'[q].order = run[q].order /\ run'[q].pc = run[q].pc
                             /\ run'[q].hold = run[q].hold
      <4>1. PICK jobs : run' = [run EXCEPT ![r].todo = jobs]
        BY <2>3 DEF Sweep
      <4>2. /\ run'[r] = [run[r] EXCEPT !.todo = jobs]
            /\ \A q \in Runners \ {r} : run'[q] = run[q]
        BY <2>1, <4>1
      <4> QED
        BY <2>1, <4>2 DEF Run
    <3> QED
      BY <2>2, <3>1, StillSettles
  <2>4. CASE Visit(r)
    <3>1. PICK j : run' = [run EXCEPT ![r].pc = IF r = Worker THEN "start" ELSE "query",
                                      ![r].order = j.order, ![r].hold = j.hold, ![r].pay.ref = j.ref,
                                      ![r].todo = @ \ {j}]
      BY <2>4 DEF Visit
    <3>2. PICK pc \in {"start", "query"} : pc = IF r = Worker THEN "start" ELSE "query"
      OBVIOUS
    <3>3. /\ run'[r] = [run[r] EXCEPT !.pc = pc, !.order = j.order, !.hold = j.hold,
                                      !.pay.ref = j.ref, !.todo = @ \ {j}]
          /\ \A q \in Runners \ {r} : run'[q] = run[q]
      BY <2>1, <3>1, <3>2
    <3>4. run'[r].pc = pc
      BY <2>1, <3>3 DEF Run
    <3> QED
      BY <2>1, <2>2, <3>3, <3>4, StillSettles
  <2> QED
    BY <1>3, <2>3, <2>4
<1>4. ASSUME NEW r \in Runners, RunStep(r)
      PROVE  SettleInv'
  BY <1>4, RunSettlesOn
<1>5. ASSUME NEW r \in Runners, Crash(r)
      PROVE  SettleInv'
  BY <1>5 DEF Crash, IInv, RowsFit
<1>6. ASSUME NEW o \in Orders, NEW h \in Holds, CreateOrder(o, h)
      PROVE  SettleInv'
  BY <1>6, CreateSettles
<1> QED
  BY <1>1, <1>2, <1>3, <1>4, <1>5, <1>6 DEF Next

\* A captured payment of an order that is closed has its refund row.
LEMMA SettledIsAccounted == IInv /\ TellInv /\ SettleInv => CapturedIsAccounted
<1> SUFFICES ASSUME IInv, TellInv, SettleInv, NEW o \in Orders, NEW h \in Holds,
                    payment[<<o, h>>].status = "CAPTURED"
             PROVE  \/ order[o].status \in {"CONFIRMED", "TICKETED"} \cup Resumable
                    \/ <<o, h>> \in refundRow
  BY DEF CapturedIsAccounted, Keys
<1>1. PICK v, a : v = View(o) /\ a = At(o)
  OBVIOUS
<1>2. /\ v.status = order[o].status /\ v.pay[h] = "CAPTURED"
      /\ h \in v.refunded <=> <<o, h>> \in refundRow
  BY <1>1 DEF View
<1>3. ViewFits(v) /\ RowsSettle(v, a)
  BY <1>1, ViewIsFit DEF SettleInv
<1>4. h \in v.taken /\ v.status # "none" /\ v.status \in Statuses
  BY <1>2, <1>3 DEF ViewFits, Untried, Views
<1>5. v.status # "FAILED" /\ (v.status = "COMPENSATED" => h \in v.refunded)
  BY <1>3, <1>4 DEF RowsSettle
<1> QED
  BY <1>2, <1>4, <1>5 DEF Statuses

LEMMA SagaSettles == Alone /\ MaxCrashes = 0 => (Spec => [](IInv /\ TellInv /\ SettleInv))
<1> SUFFICES ASSUME Alone, MaxCrashes = 0 PROVE Spec => [](IInv /\ TellInv /\ SettleInv)
  OBVIOUS
<1>1. TellInv /\ IInv /\ [Next]_vars => TellInv'
  BY TellNext
<1>2. SettleInv /\ TellInv /\ IInv /\ IInv' /\ [Next]_vars => SettleInv'
  BY SettleNext
<1> QED
  BY <1>1, <1>2, TellInit, SettleInit, SagaInvariant, PTL DEF Spec

\* FindCapturedPaymentsMissingOrderOrRefund finds nothing but orders still on their
\* way, as long as nothing crashes or fails, one run at a time works on an order and
\* all processes ask one provider.
THEOREM CapturedMoneyIsAccounted == Alone /\ MaxCrashes = 0 => (Spec => []CapturedIsAccounted)
<1> SUFFICES ASSUME Alone, MaxCrashes = 0 PROVE Spec => []CapturedIsAccounted
  OBVIOUS
<1>1. Spec => [](IInv /\ TellInv /\ SettleInv)
  BY SagaSettles
<1> QED
  BY <1>1, SettledIsAccounted, PTL

-----------------------------------------------------------------------------
(* Refinement: the saga implements Checkout.                               *)

SamePromise(v, w) == w.taken = v.taken /\ w.seats = v.seats /\ w.back = v.back
Open(v) == v.seats = {} /\ v.back = 0 /\ \E g \in Holds : v.taken = {g}

Pay(v, w) ==
  v.taken = {} /\ w.seats = v.seats /\ w.back = v.back /\ \E h \in Holds : w.taken = {h}
Deliver(v, w, h) == Open(v) /\ w.taken = v.taken /\ w.seats = {h} /\ w.back = v.back
GiveBack(v, w)   == Open(v) /\ w.taken = v.taken /\ w.seats = v.seats /\ w.back = 1

\* A run takes the money once, and gives seats or the money back once.
LEMMA EffectKeepsPromise ==
  ASSUME NEW v, NEW x, NEW w, NEW y, Knows(v, x), Settled(v, x), Effect(v, x, w, y)
  PROVE  SamePromise(v, w) \/ Pay(v, w) \/ GiveBack(v, w) \/ \E h \in Holds : Deliver(v, w, h)
<1>1. v \in Views /\ RunTells(v, x) /\ MemoryFits(v, x) /\ RowsSettle(v, {x.pc})
  BY DEF Knows, ViewFits, Settled
<1>2. CASE ReadsOn(v, x, w, y)
  BY <1>2 DEF ReadsOn, SamePromise
<1>3. CASE MarksOn(v, x, w, y)
  <2>1. PICK s : Marks(v, w, s)
    BY <1>3 DEF MarksOn
  <2> QED
    BY <1>1, <2>1 DEF Marks, Views, SamePromise
<1>4. CASE PaysOn(v, x, w, y)
  <2>1. CASE w = v
    BY <2>1 DEF SamePromise
  <2>2. ASSUME NEW s, Pays(v, w, x.hold, s) PROVE SamePromise(v, w)
    BY <1>1, <2>2 DEF Pays, Views, SamePromise
  <2>3. CASE x.pc = "charge" /\ Takes(v, w, x.hold)
    <3>1. w.taken = v.taken \cup {x.hold} /\ w.seats = v.seats /\ w.back = v.back
      BY <1>1, <2>3 DEF Takes, Views
    <3>2. v.taken \subseteq {v.hold} /\ x.hold = v.hold /\ x.hold \in Holds
      BY <1>1, <2>3, NotMoved DEF RunTells, MemoryFits, WithHold, Current
    <3>3. CASE v.taken = {}
      BY <3>1, <3>2, <3>3 DEF Pay
    <3>4. CASE v.taken = {x.hold}
      BY <3>1, <3>4 DEF SamePromise
    <3> QED
      BY <3>2, <3>3, <3>4
  <2> QED
    BY <1>4, <2>1, <2>2, <2>3 DEF PaysOn
<1>5. CASE DeliversOn(v, x, w, y)
  <2>1. x.hold \in Holds /\ v.taken = {x.hold} /\ v.status \in {"AUTHORIZING", "CONFIRMING"}
    BY <1>1, <1>5, NotMoved DEF DeliversOn, RunTells, MemoryFits, WithHold, Late, Current
  <2>2. ASSUME x.pc \notin Working PROVE Open(v)
    <3>1. v.seats = {} /\ ~(v.back > 0)
      BY <1>1, <2>1, <2>2 DEF RowsSettle, Working
    <3>2. v.back \in Nat
      BY <1>1 DEF Views
    <3>3. v.back = 0
      BY <3>1, <3>2
    <3> QED
      BY <2>1, <3>1, <3>3 DEF Open
  <2>3. ASSUME NEW h \in Holds, Books(v, w, h), x.pc \in {"confirm", "confirm new"}
        PROVE  Deliver(v, w, h)
    BY <1>1, <2>2, <2>3 DEF Books, Views, Working, Deliver, Open
  <2>4. CASE x.pc = "refund" /\ GivesBack(v, w)
    <3>1. Open(v) /\ v.back = 0
      BY <2>2, <2>4 DEF Working, Open
    <3>2. w = [v EXCEPT !.back = 1]
      BY <2>4, <3>1 DEF GivesBack
    <3> QED
      BY <1>1, <3>1, <3>2 DEF Views, GiveBack
  <2>5. ASSUME NEW h, Renames(v, w, h) \/ Notes(v, w, h) PROVE SamePromise(v, w)
    BY <1>1, <2>5 DEF Renames, Notes, Views, SamePromise
  <2>6. CASE w = v
    BY <2>6 DEF SamePromise
  <2>7. /\ x.pc = "confirm" => x.hold \in Holds
        /\ x.pc = "confirm new" => x.new \in Holds
    BY <1>1, <2>1 DEF MemoryFits, WithNew
  <2> QED
    BY <1>5, <2>3, <2>4, <2>5, <2>6, <2>7 DEF DeliversOn
<1> QED
  BY <1>2, <1>3, <1>4, <1>5 DEF Effect

\* Every captured charge was taken by the one provider.
LEMMA ChargesAreTaken ==
  IInv /\ OneCharger => \A o \in Orders : Charges(o) = {<<Server, <<o, h>>>> : h \in View(o).taken}
<1> SUFFICES ASSUME IInv, OneCharger, NEW o \in Orders
             PROVE  Charges(o) = {<<Server, <<o, h>>>> : h \in View(o).taken}
  OBVIOUS
<1>1. View(o).taken = {h \in Holds : Captured(<<o, h>>)}
  BY DEF View
<1>2. captured \in [Providers -> SUBSET Keys] /\ Server \in Providers
  BY DEF IInv, RowsFit, Providers
<1>3. ASSUME NEW c \in Charges(o) PROVE \E h \in View(o).taken : c = <<Server, <<o, h>>>>
  <2>1. PICK p \in Providers, q \in Orders, h \in Holds : c = <<p, <<q, h>>>>
    BY DEF Charges, Keys
  <2>2. q = o /\ <<q, h>> \in captured[p]
    BY <2>1 DEF Charges
  <2>3. p = Server
    BY <2>2 DEF OneCharger
  <2> QED
    BY <1>1, <2>1, <2>2, <2>3 DEF Captured
<1>4. ASSUME NEW h \in View(o).taken PROVE <<Server, <<o, h>>>> \in Charges(o)
  <2>1. h \in Holds /\ <<o, h>> \in captured[Server]
    BY <1>1, <1>2 DEF Captured, OneCharger
  <2> QED
    BY <1>2, <2>1 DEF Charges, Keys
<1> QED
  BY <1>3, <1>4

LEMMA ChargesStayTaken ==
  (IInv /\ OneCharger => \A o \in Orders : Charges(o) = {<<Server, <<o, h>>>> : h \in View(o).taken})'
BY ChargesAreTaken, PTL

\* The steps of one order as steps of Checkout.
LEMMA PromiseStep ==
  ASSUME IInv, IInv', TellInv, TellInv', NEW o \in Orders,
         \A p \in Orders \ {o} : View(p)' = View(p),
         \/ SamePromise(View(o), View(o)') \/ Pay(View(o), View(o)') \/ GiveBack(View(o), View(o)')
         \/ \E h \in Holds : Deliver(View(o), View(o)', h)
  PROVE  [Promise!Next]_Promise!vars
<1> DEFINE paid  == [p \in Orders |-> Cardinality(Charges(p))]
           seats == [p \in Orders |-> SeatsOf(p)]
           given == [p \in Orders |-> Returns(p)]
<1>1. PICK v, w : v = View(o) /\ w = View(o)'
  OBVIOUS
<1>2. \A p \in Orders : /\ Charges(p) = {<<Server, <<p, h>>>> : h \in View(p).taken}
                        /\ Charges(p)' = {<<Server, <<p, h>>>> : h \in View(p)'.taken}
  BY ChargesAreTaken, ChargesStayTaken DEF TellInv
<1>3. /\ v.seats = SeatsOf(o) /\ v.back = Returns(o)
      /\ w.seats = SeatsOf(o)' /\ w.back = Returns(o)'
  BY <1>1 DEF View
<1>4. ASSUME NEW p \in Orders \ {o}
      PROVE  Charges(p)' = Charges(p) /\ SeatsOf(p)' = SeatsOf(p) /\ Returns(p)' = Returns(p)
  <2>1. View(p)' = View(p)
    OBVIOUS
  <2>2. /\ View(p).seats = SeatsOf(p) /\ View(p).back = Returns(p)
        /\ View(p)'.seats = SeatsOf(p)' /\ View(p)'.back = Returns(p)'
    BY DEF View
  <2> QED
    BY <1>2, <2>1, <2>2
<1>5. w.taken = v.taken => paid' = paid
  BY <1>1, <1>2, <1>4
<1>6. w.seats = v.seats => seats' = seats
  BY <1>3, <1>4
<1>7. w.back = v.back => given' = given
  BY <1>3, <1>4
<1>8. v.taken = {} => paid[o] = 0
  BY <1>1, <1>2, FS_EmptySet
<1>9. ASSUME NEW g, v.taken = {g} PROVE paid[o] = 1
  <2>1. Charges(o) = {<<Server, <<o, g>>>>}
    BY <1>1, <1>2, <1>9
  <2> QED
    BY <2>1, FS_Singleton
<1>10. ASSUME NEW g, w.taken = {g} PROVE paid'[o] = 1
  <2>1. Charges(o)' = {<<Server, <<o, g>>>>}
    BY <1>1, <1>2, <1>10
  <2> QED
    BY <2>1, FS_Singleton
<1>11. CASE SamePromise(v, w)
  BY <1>5, <1>6, <1>7, <1>11 DEF SamePromise, Promise!vars
<1>12. CASE Pay(v, w)
  <2>1. paid[o] = 0 /\ paid'[o] = 1 /\ seats' = seats /\ given' = given
    BY <1>6, <1>7, <1>8, <1>10, <1>12 DEF Pay
  <2>2. paid' = [paid EXCEPT ![o] = 1]
    BY <1>4, <2>1
  <2>3. Promise!Pay(o)
    BY <2>1, <2>2 DEF Promise!Pay
  <2> QED
    BY <2>3 DEF Promise!Next
<1>13. Open(v) => Promise!Open(o)
  BY <1>3, <1>9 DEF Open, Promise!Open
<1>14. CASE GiveBack(v, w)
  <2>1. given'[o] = 1 /\ seats' = seats /\ paid' = paid
    BY <1>3, <1>5, <1>6, <1>14 DEF GiveBack
  <2>2. given' = [given EXCEPT ![o] = 1]
    BY <1>4, <2>1
  <2>3. Promise!GiveBack(o)
    BY <1>13, <1>14, <2>1, <2>2 DEF Promise!GiveBack, GiveBack
  <2> QED
    BY <2>3 DEF Promise!Next
<1>15. ASSUME NEW h \in Holds, Deliver(v, w, h) PROVE Promise!Next
  <2>1. SeatsOf(o) = {} /\ SeatsOf(o)' = {h} /\ paid' = paid /\ given' = given
    BY <1>3, <1>5, <1>7, <1>15 DEF Deliver, Open
  <2>2. \A p \in Orders : h \notin SeatsOf(p)
    <3> SUFFICES ASSUME NEW p \in Orders \ {o}, h \in SeatsOf(p) PROVE FALSE
      BY <2>1
    <3>1. h \in SeatsOf(p)' /\ h \in SeatsOf(o)'
      BY <1>4, <2>1
    <3> QED
      BY <3>1 DEF SeatsOf
  <2>3. seats' = [seats EXCEPT ![o] = {h}]
    BY <1>4, <2>1
  <2>4. Promise!Deliver(o, h)
    BY <1>13, <1>15, <2>1, <2>2, <2>3 DEF Promise!Deliver, Deliver
  <2> QED
    BY <2>4 DEF Promise!Next
<1> QED
  BY <1>1, <1>11, <1>12, <1>14, <1>15

LEMMA PromiseInit == Init => Promise!Init
<1> SUFFICES ASSUME Init PROVE Promise!Init
  OBVIOUS
<1>1. ASSUME NEW o \in Orders
      PROVE  Cardinality(Charges(o)) = 0 /\ SeatsOf(o) = {} /\ Returns(o) = 0
  <2>1. Charges(o) = {}
    BY DEF Init, Charges
  <2>2. SeatsOf(o) = {} /\ Returns(o) = 0
    BY DEF Init, SeatsOf, Returns
  <2> QED
    BY <2>1, <2>2, FS_EmptySet
<1> QED
  BY <1>1 DEF Promise!Init

LEMMA PromiseNext ==
  ASSUME Alone, IInv, IInv', TellInv, TellInv', SettleInv, [Next]_vars
  PROVE  [Promise!Next]_Promise!vars
<1>1. ASSUME \A p \in Orders : View(p)' = View(p) PROVE [Promise!Next]_Promise!vars
  <2>1. ASSUME NEW p \in Orders
        PROVE  Charges(p)' = Charges(p) /\ SeatsOf(p)' = SeatsOf(p) /\ Returns(p)' = Returns(p)
    <3>1. /\ Charges(p) = {<<Server, <<p, h>>>> : h \in View(p).taken}
          /\ Charges(p)' = {<<Server, <<p, h>>>> : h \in View(p)'.taken}
      BY ChargesAreTaken, ChargesStayTaken DEF TellInv
    <3>2. /\ View(p).seats = SeatsOf(p) /\ View(p).back = Returns(p)
          /\ View(p)'.seats = SeatsOf(p)' /\ View(p)'.back = Returns(p)'
      BY DEF View
    <3>3. View(p)' = View(p)
      BY <1>1
    <3> QED
      BY <3>1, <3>2, <3>3
  <2> QED
    BY <2>1 DEF Promise!vars
<1>2. ASSUME NEW r \in Runners, RunStep(r)
      PROVE  [Promise!Next]_Promise!vars
  <2>1. run[r].pc # "idle"
    BY <1>2, RunStepsWork
  <2>2. PICK o \in Orders : o = run[r].order /\ Knows(View(o), run[r])
    BY <2>1, AtWorkKnows
  <2>3. Beside(r, o) /\ Effect(View(o), run[r], View(o)', run'[r])
    BY <1>2, <2>2, RunEffect DEF TellInv, Alone
  <2>4. PICK v, x, w, y : v = View(o) /\ x = run[r] /\ w = View(o)' /\ y = run'[r]
    OBVIOUS
  <2>5. Settled(v, x)
    BY <2>2, <2>4, AtWorkSettled
  <2>6. SamePromise(v, w) \/ Pay(v, w) \/ GiveBack(v, w) \/ \E h \in Holds : Deliver(v, w, h)
    BY <2>2, <2>3, <2>4, <2>5, EffectKeepsPromise
  <2> QED
    BY <2>3, <2>4, <2>6, PromiseStep DEF Beside
<1>3. ASSUME NEW o \in Orders, NEW h \in Holds, CreateOrder(o, h)
      PROVE  [Promise!Next]_Promise!vars
  <2>1. PICK row : row = [status |-> "PENDING", hold |-> h]
    OBVIOUS
  <2>2. /\ order' = [order EXCEPT ![o] = row]
        /\ UNCHANGED <<payment, refundRow, hold, captured, returned>>
    BY <1>3, <2>1 DEF CreateOrder
  <2>3. \A p \in Orders \ {o} : View(p)' = View(p)
    BY <2>2, OrderView
  <2>4. SamePromise(View(o), View(o)')
    BY <2>2 DEF SamePromise, View, Captured, SeatsOf, Returns
  <2> QED
    BY <2>3, <2>4, PromiseStep
<1>4. ASSUME NEW h \in Holds, AcquireHold(h) \/ Lapse(h) \/ LoseHold(h)
      PROVE  [Promise!Next]_Promise!vars
  BY <1>1, <1>4, HoldStepsView
<1>5. ASSUME NEW r \in Runners, Crash(r) \/ Sweep(r) \/ Visit(r)
      PROVE  [Promise!Next]_Promise!vars
  <2>1. UNCHANGED rows
    BY <1>5 DEF Crash, Sweep, Visit
  <2> QED
    BY <1>1, <2>1, SameRowsSameView
<1>6. CASE UNCHANGED vars
  <2>1. UNCHANGED rows
    BY <1>6 DEF vars, rows
  <2> QED
    BY <1>1, <2>1, SameRowsSameView
<1> QED
  BY <1>2, <1>3, <1>4, <1>5, <1>6 DEF Next

\* A buyer pays at most once and gets seats, once, or his money back, once: a captured
\* charge is a Pay, ConfirmSeats a Deliver, the provider's refund a GiveBack, and every
\* other step a stutter, as long as nothing crashes or fails, one run at a time works
\* on an order and all processes ask one provider.
THEOREM SagaImplementsCheckout == Alone /\ MaxCrashes = 0 => (Spec => ImplementsCheckout)
<1> SUFFICES ASSUME Alone, MaxCrashes = 0 PROVE Spec => ImplementsCheckout
  OBVIOUS
<1>1. Spec => [](IInv /\ TellInv /\ SettleInv)
  BY SagaSettles
<1>2. /\ IInv /\ TellInv /\ SettleInv /\ IInv' /\ TellInv' /\ [Next]_vars
         => [Promise!Next]_Promise!vars
  BY PromiseNext
<1> QED
  BY <1>1, <1>2, PromiseInit, PTL DEF Spec, ImplementsCheckout, Promise!Spec
=============================================================================
