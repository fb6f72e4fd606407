----------------------------- MODULE OrderSaga -----------------------------
(***************************************************************************)
(* The payment saga of the ticket-booking service: orders driven by the    *)
(* goroutine that POST /orders starts, by the saga worker's sweep and by   *)
(* the payment reconciler, all running the same RunSaga code over rows     *)
(* that every statement updates on its own.                                *)
(*                                                                         *)
(* The seats are reduced to their holds, as SeatInventory's theorems       *)
(* allow: a hold is alive or gone as a whole, and a confirmation books all *)
(* its seats or none.  A step of a run is one statement or provider call;  *)
(* local computation belongs to the step before it.                        *)
(***************************************************************************)
EXTENDS Naturals, FiniteSets

CONSTANTS
  Orders,       \* order ids; also names the goroutine POST /orders starts
  Holds,        \* hold ids: buyers' own and those of reallocations
  Worker,       \* cmd/saga-worker
  Reconciler,   \* cmd/reconciler
  Server,       \* cmd/server, where the goroutines run
  None,         \* no hold, no order
  OneProvider,  \* one payment provider, or one per process as the binaries build it
  Overlap,      \* which runs may work on one order at once: "none", "sweeps", "all"
  Flaky,        \* whether a statement may fail, or commit without its reply
  MaxCrashes,   \* bound: how many runs are cut short
  MaxReturns    \* bound: refunds per order

ASSUME NamesAssumption ==
  /\ Worker # Reconciler /\ Server \notin {Worker, Reconciler}
  /\ {Worker, Reconciler, Server, None} \cap (Orders \cup Holds) = {}
ASSUME FlagsAssumption ==
  {OneProvider, Flaky} \subseteq BOOLEAN /\ Overlap \in {"none", "sweeps", "all"}
ASSUME BoundsAssumption == {MaxCrashes, MaxReturns} \subseteq Nat

VARIABLES
  order,     \* order[o]: the row of orders: its status and hold_id
  payment,   \* payment[k]: the row of payments with idempotency key k
  refundRow, \* the payments that have a COMPLETED row in refunds
  hold,      \* hold[h]: the event_seats rows of a hold
  captured,  \* captured[p]: the idempotency keys whose charge provider p has captured
  returned,  \* returned[o][ref]: the refunds of o that named a charge, or did not
  run,       \* run[r]: what runner r is doing
  crashes    \* how many runs were cut short

vars == <<order, payment, refundRow, hold, captured, returned, run, crashes>>
rows == <<order, payment, refundRow, hold, captured, returned>>

Sweepers  == {Worker, Reconciler}
Runners   == Orders \cup Sweepers
Providers == {Server} \cup Sweepers

\* order.New is given a provider of its own in every process.
ProviderOf(r) == IF OneProvider \/ r \in Orders THEN Server ELSE r

Resumable == {"PENDING", "AUTHORIZING", "CONFIRMING"}
Live      == {"HELD", "PENDING_PAYMENT"}
Statuses  == {"none", "CONFIRMED", "TICKETED", "FAILED", "COMPENSATED"} \cup Resumable

\* chargeIdempotencyKey: made of the order and the hold it has at the time.
Keys == Orders \X Holds

OrderRow   == [status : Statuses, hold : Holds \cup {None}]
PaymentRow == [status : {"none", "PENDING", "CAPTURED", "FAILED", "UNKNOWN"},
               ref    : BOOLEAN]               \* whether provider_ref is known
HoldRows   == [rows   : {"unused", "HELD", "PENDING_PAYMENT", "released", "BOOKED"},
               lapsed : BOOLEAN,               \* hold_expires_at has passed
               order  : Orders \cup {None}]    \* the order it was acquired or booked for

\* An entry of a sweep's list: an order, or a payment with the provider_ref it had.
Job == [order : Orders, hold : Holds \cup {None}, ref : BOOLEAN]

Run == [pc    : {"idle", "start", "authorize", "extend", "fail", "insert payment", "charge",
                 "record", "confirming", "confirm", "confirmed", "ticketed", "reallocate",
                 "confirm new", "switch", "release new", "refund", "insert refund",
                 "compensated", "query", "settle", "decline"},
        order : Orders \cup {None},
        hold  : Holds \cup {None},     \* ord.HoldID, or the hold of a listed payment
        pay   : PaymentRow,            \* payRow
        got   : BOOLEAN,               \* whether the charge answered with a provider_ref
        new   : Holds \cup {None},     \* newHold
        todo  : SUBSET Job]            \* the rest of a sweep's list

NoPayment == [status |-> "none", ref |-> FALSE]

IdleRun == [pc |-> "idle", order |-> None, hold |-> None, pay |-> NoPayment, got |-> FALSE,
            new |-> None, todo |-> {}]

Key(r) == <<run[r].order, run[r].hold>>

Init ==
  /\ order     = [o \in Orders |-> [status |-> "none", hold |-> None]]
  /\ payment   = [k \in Keys |-> NoPayment]
  /\ refundRow = {}
  /\ hold      = [h \in Holds |-> [rows |-> "unused", lapsed |-> FALSE, order |-> None]]
  /\ captured  = [p \in Providers |-> {}]
  /\ returned  = [o \in Orders |-> [ref \in BOOLEAN |-> 0]]
  /\ run       = [r \in Runners |-> IdleRun]
  /\ crashes   = 0

-----------------------------------------------------------------------------
(* The statements.                                                         *)

\* A runner goes on at pc, or is done with its order.
Goto(r, pc) == run' = [run EXCEPT ![r].pc = pc]
Finish(r)   == run' = [run EXCEPT ![r] = [IdleRun EXCEPT !.todo = run[r].todo]]

\* Statements whose error the code ignores: when they fail the run just goes on.
SetStatus(o, status) ==
  \/ order' = [order EXCEPT ![o].status = status]
  \/ Flaky /\ order' = order

SetPayment(k, status, ref) ==
  \/ payment' = [payment EXCEPT ![k] = [status |-> status, ref |-> ref]]
  \/ Flaky /\ payment' = payment

Alive(h) == hold[h].rows \in Live /\ ~hold[h].lapsed

\* ConfirmSeats; its reply may be lost after the commit.
Book(r, h, then, else) ==
  \/ /\ Alive(h)
     /\ hold' = [hold EXCEPT ![h].rows = "BOOKED", ![h].order = run[r].order]
     /\ Goto(r, then) \/ (Flaky /\ Goto(r, else))
  \/ /\ ~Alive(h) \/ Flaky
     /\ hold' = hold
     /\ Goto(r, else)

-----------------------------------------------------------------------------
(* Buyers and time.                                                        *)

AcquireHold(h) ==
  /\ hold[h].rows = "unused"
  /\ hold' = [hold EXCEPT ![h].rows = "HELD"]
  /\ UNCHANGED <<order, payment, refundRow, captured, returned, run, crashes>>

\* POST /orders; orders.hold_id is unique.  Expired rows are accepted.
CreateOrder(o, h) ==
  /\ order[o].status = "none"
  /\ hold[h].rows \in Live /\ hold[h].order = None
  /\ \A p \in Orders : order[p].hold # h
  /\ order' = [order EXCEPT ![o] = [status |-> "PENDING", hold |-> h]]
  /\ run' = [run EXCEPT ![o].pc = "start", ![o].order = o]
  /\ UNCHANGED <<payment, refundRow, hold, captured, returned, crashes>>

Lapse(h) ==
  /\ Alive(h)
  /\ hold' = [hold EXCEPT ![h].lapsed = TRUE]
  /\ UNCHANGED <<order, payment, refundRow, captured, returned, run, crashes>>

\* The reaper, another buyer's AcquireHold, or DELETE /holds by the owner, who may
\* do so while his order is being paid.
LoseHold(h) ==
  /\ hold[h].rows \in Live
  /\ hold[h].lapsed \/ hold[h].order = None
  /\ hold' = [hold EXCEPT ![h].rows = "released", ![h].lapsed = FALSE]
  /\ UNCHANGED <<order, payment, refundRow, captured, returned, run, crashes>>

-----------------------------------------------------------------------------
(* RunSaga: extend and charge.                                             *)

Start(r) ==
  LET o == order[run[r].order] IN
  /\ run[r].pc = "start"
  /\ \/ o.status \notin Resumable /\ Finish(r)
     \/ o.status = "PENDING" /\ run' = [run EXCEPT ![r].hold = o.hold, ![r].pc = "authorize"]
     \/ /\ o.status \in Resumable \ {"PENDING"}
        /\ run' = [run EXCEPT ![r].hold = o.hold, ![r].pc = "insert payment"]
  /\ UNCHANGED <<rows, crashes>>

Authorize(r) ==
  /\ run[r].pc = "authorize"
  /\ SetStatus(run[r].order, "AUTHORIZING")
  /\ Goto(r, "extend")
  /\ UNCHANGED <<payment, refundRow, hold, captured, returned, crashes>>

Extend(r) ==
  LET h == run[r].hold IN
  /\ run[r].pc = "extend"
  /\ \/ /\ Alive(h)
        /\ hold' = [hold EXCEPT ![h].rows = "PENDING_PAYMENT"]
        /\ Goto(r, "insert payment") \/ (Flaky /\ Goto(r, "fail"))
     \/ /\ ~Alive(h) \/ Flaky
        /\ hold' = hold
        /\ Goto(r, "fail")
  /\ UNCHANGED <<order, payment, refundRow, captured, returned, crashes>>

\* FailOrder, unconditional; also the reconciler's.
Fail(r) ==
  /\ run[r].pc = "fail"
  /\ SetStatus(run[r].order, "FAILED")
  /\ Finish(r)
  /\ UNCHANGED <<payment, refundRow, hold, captured, returned, crashes>>

\* Mutation: an unknown outcome is taken for a capture.
BranchOptimistic(r, pay) ==
  run' = [run EXCEPT ![r].pay = pay, ![r].got = FALSE,
                     ![r].pc = IF pay.status = "FAILED" THEN "fail" ELSE "confirming"]

\* Where the payment's status sends a run.
Branch(r, pay) ==
  LET on(pc) == run' = [run EXCEPT ![r].pay = pay, ![r].got = FALSE, ![r].pc = pc] IN
  \/ pay.status = "FAILED"   /\ on("fail")
  \/ pay.status = "CAPTURED" /\ on("confirming")
  \/ pay.status = "UNKNOWN"  /\ Finish(r)

\* INSERT .. ON CONFLICT DO NOTHING on the idempotency key, else the existing row.
InsertPayment(r) ==
  LET k == Key(r) IN
  /\ run[r].pc = "insert payment"
  /\ payment' = IF payment[k] = NoPayment THEN [payment EXCEPT ![k].status = "PENDING"] ELSE payment
  /\ \/ payment'[k].status = "PENDING"
        /\ run' = [run EXCEPT ![r].pay = payment'[k], ![r].pc = "charge"]
     \/ Branch(r, payment[k])
  /\ UNCHANGED <<order, refundRow, hold, captured, returned, crashes>>

\* A captured charge is replayed; otherwise it may capture, decline, or time out
\* with or without capturing.  payRow.Status takes the result, payRow.ProviderRef
\* does not.
Charge(r) ==
  LET k == Key(r)
      p == ProviderOf(r)
  IN  /\ run[r].pc = "charge"
      /\ \E pay \in {"CAPTURED", "FAILED", "UNKNOWN"}, took \in BOOLEAN :
           /\ k \in captured[p] => pay = "CAPTURED"
           /\ pay = "CAPTURED" => took
           /\ pay = "FAILED" => ~took
           /\ captured' = IF took THEN [captured EXCEPT ![p] = @ \cup {k}] ELSE captured
           /\ run' = [run EXCEPT ![r].pay.status = pay, ![r].got = took, ![r].pc = "record"]
      /\ UNCHANGED <<order, payment, refundRow, hold, returned, crashes>>

Record(r) ==
  /\ run[r].pc = "record"
  /\ SetPayment(Key(r), run[r].pay.status, run[r].got)
  /\ Branch(r, run[r].pay)
  /\ UNCHANGED <<order, refundRow, hold, captured, returned, crashes>>

-----------------------------------------------------------------------------
(* RunSaga: confirm, and compensate.                                       *)

Confirming(r) ==
  /\ run[r].pc = "confirming"
  /\ SetStatus(run[r].order, "CONFIRMING")
  /\ Goto(r, "confirm")
  /\ UNCHANGED <<payment, refundRow, hold, captured, returned, crashes>>

Confirm(r) ==
  /\ run[r].pc = "confirm"
  /\ Book(r, run[r].hold, "confirmed", "reallocate")
  /\ UNCHANGED <<order, payment, refundRow, captured, returned, crashes>>

Confirmed(r) ==
  /\ run[r].pc = "confirmed"
  /\ SetStatus(run[r].order, "CONFIRMED")
  /\ Goto(r, "ticketed")
  /\ UNCHANGED <<payment, refundRow, hold, captured, returned, crashes>>

Ticketed(r) ==
  /\ run[r].pc = "ticketed"
  /\ SetStatus(run[r].order, "TICKETED")
  /\ Finish(r)
  /\ UNCHANGED <<payment, refundRow, hold, captured, returned, crashes>>

\* Mutation: an order that gets no other seats is closed without a refund.
ReallocateOrGiveUp(r) ==
  /\ run[r].pc = "reallocate"
  /\ \/ \E h \in Holds :
          /\ hold[h].rows = "unused"
          /\ hold' = [hold EXCEPT ![h].rows = "HELD", ![h].order = run[r].order]
          /\ run' = [run EXCEPT ![r].new = h, ![r].pc = "confirm new"]
     \/ hold' = hold /\ Goto(r, "compensated")
  /\ UNCHANGED <<order, payment, refundRow, captured, returned, crashes>>

\* BestAvailable finds and holds other seats, or none.
Reallocate(r) ==
  /\ run[r].pc = "reallocate"
  /\ \/ \E h \in Holds :
          /\ hold[h].rows = "unused"
          /\ hold' = [hold EXCEPT ![h].rows = "HELD", ![h].order = run[r].order]
          /\ \/ run' = [run EXCEPT ![r].new = h, ![r].pc = "confirm new"]
             \/ Flaky /\ Goto(r, "refund")
     \/ hold' = hold /\ Goto(r, "refund")
  /\ UNCHANGED <<order, payment, refundRow, captured, returned, crashes>>

ConfirmNew(r) ==
  /\ run[r].pc = "confirm new"
  /\ Book(r, run[r].new, "switch", "release new")
  /\ UNCHANGED <<order, payment, refundRow, captured, returned, crashes>>

\* Mutation: the order keeps naming the hold it lost.
SwitchForgotten(r) ==
  /\ run[r].pc = "switch"
  /\ Goto(r, "confirmed")
  /\ UNCHANGED <<rows, crashes>>

\* ReallocateOrder.
Switch(r) ==
  /\ run[r].pc = "switch"
  /\ \/ order' = [order EXCEPT ![run[r].order].hold = run[r].new]
     \/ Flaky /\ order' = order
  /\ Goto(r, "confirmed")
  /\ UNCHANGED <<payment, refundRow, hold, captured, returned, crashes>>

ReleaseNew(r) ==
  LET h == run[r].new IN
  /\ run[r].pc = "release new"
  /\ \/ hold[h].rows \in Live /\ hold' = [hold EXCEPT ![h].rows = "released", ![h].lapsed = FALSE]
     \/ (hold[h].rows \notin Live \/ Flaky) /\ hold' = hold
  /\ Goto(r, "refund")
  /\ UNCHANGED <<order, payment, refundRow, captured, returned, crashes>>

\* The provider is given no idempotency key for a refund.
Refund(r) ==
  LET o == run[r].order IN
  /\ run[r].pc = "refund"
  /\ returned[o][TRUE] + returned[o][FALSE] < MaxReturns
  /\ returned' = [returned EXCEPT ![o][run[r].pay.ref] = @ + 1]
  /\ Goto(r, "insert refund")
  /\ UNCHANGED <<order, payment, refundRow, hold, captured, crashes>>

InsertRefund(r) ==
  /\ run[r].pc = "insert refund"
  /\ refundRow' = refundRow \cup {Key(r)} \/ (Flaky /\ refundRow' = refundRow)
  /\ Goto(r, "compensated")
  /\ UNCHANGED <<order, payment, hold, captured, returned, crashes>>

\* Mutation: a refunded order is not marked COMPENSATED.
CompensatedUnmarked(r) ==
  /\ run[r].pc = "compensated"
  /\ Finish(r)
  /\ UNCHANGED <<rows, crashes>>

Compensated(r) ==
  /\ run[r].pc = "compensated"
  /\ SetStatus(run[r].order, "COMPENSATED")
  /\ Finish(r)
  /\ UNCHANGED <<payment, refundRow, hold, captured, returned, crashes>>

-----------------------------------------------------------------------------
(* The sweeps.                                                             *)

\* The age limits of the two lists (30 s, 5 min) keep a sweep away from an order
\* whose own goroutine is at work, unless that outlasts them.
Aged(o) == Overlap = "all" \/ run[o].pc = "idle"

\* Mutation: payments whose outcome is unknown are not listed.
StuckCertain(r) ==
  IF r = Worker
  THEN {[order |-> o, hold |-> None, ref |-> FALSE] :
          o \in {p \in Orders : Aged(p) /\ order[p].status \in Resumable}}
  ELSE {[order |-> k[1], hold |-> k[2], ref |-> payment[k].ref] :
          k \in {l \in Keys : Aged(l[1]) /\ payment[l].status = "PENDING"}}

\* ListStuckOrders and ListStuckPayments.
Stuck(r) ==
  IF r = Worker
  THEN {[order |-> o, hold |-> None, ref |-> FALSE] :
          o \in {p \in Orders : Aged(p) /\ order[p].status \in Resumable}}
  ELSE {[order |-> k[1], hold |-> k[2], ref |-> payment[k].ref] :
          k \in {l \in Keys : Aged(l[1]) /\ payment[l].status \in {"PENDING", "UNKNOWN"}}}

Sweep(r) ==
  /\ r \in Sweepers /\ run[r].pc = "idle" /\ run[r].todo = {}
  /\ run' = [run EXCEPT ![r].todo = Stuck(r)]
  /\ UNCHANGED <<rows, crashes>>

\* Nothing keeps the two sweeps off each other's order; "none" supposes that something does.
Visit(r) ==
  /\ run[r].pc = "idle"
  /\ \E j \in run[r].todo :
       /\ Overlap = "none" => \A q \in Sweepers : run[q].order # j.order
       /\ run' = [run EXCEPT ![r].pc = IF r = Worker THEN "start" ELSE "query",
                             ![r].order = j.order, ![r].hold = j.hold, ![r].pay.ref = j.ref,
                             ![r].todo = @ \ {j}]
  /\ UNCHANGED <<rows, crashes>>

\* StatusOf: what is not captured is taken for declined.
Query(r) ==
  /\ run[r].pc = "query"
  /\ \/ Key(r) \in captured[ProviderOf(r)] /\ Goto(r, "settle")
     \/ Key(r) \notin captured[ProviderOf(r)] /\ Goto(r, "decline")
  /\ UNCHANGED <<rows, crashes>>

\* The row takes the provider_ref that was listed, and RunSaga starts over.
Settle(r) ==
  /\ run[r].pc = "settle"
  /\ SetPayment(Key(r), "CAPTURED", run[r].pay.ref)
  /\ run' = [run EXCEPT ![r].pc = "start", ![r].hold = None, ![r].pay = NoPayment]
  /\ UNCHANGED <<order, refundRow, hold, captured, returned, crashes>>

Decline(r) ==
  /\ run[r].pc = "decline"
  /\ SetPayment(Key(r), "FAILED", FALSE)
  /\ Goto(r, "fail")
  /\ UNCHANGED <<order, refundRow, hold, captured, returned, crashes>>

\* A run ends early: its process dies, or a statement whose error it returns fails.
Crash(r) ==
  /\ run[r].pc # "idle" /\ crashes < MaxCrashes
  /\ \E left \in {{}, run[r].todo} : run' = [run EXCEPT ![r] = [IdleRun EXCEPT !.todo = left]]
  /\ crashes' = crashes + 1
  /\ UNCHANGED rows

RunStep(r) ==
  \/ Start(r) \/ Authorize(r) \/ Extend(r) \/ Fail(r) \/ InsertPayment(r) \/ Charge(r) \/ Record(r)
  \/ Confirming(r) \/ Confirm(r) \/ Confirmed(r) \/ Ticketed(r)
  \/ Reallocate(r) \/ ConfirmNew(r) \/ Switch(r) \/ ReleaseNew(r)
  \/ Refund(r) \/ InsertRefund(r) \/ Compensated(r)
  \/ Query(r) \/ Settle(r) \/ Decline(r)

Next ==
  \/ \E h \in Holds : AcquireHold(h) \/ Lapse(h) \/ LoseHold(h)
  \/ \E o \in Orders, h \in Holds : CreateOrder(o, h)
  \/ \E r \in Runners : RunStep(r) \/ Crash(r) \/ Sweep(r) \/ Visit(r)

Spec == Init /\ [][Next]_vars

\* Goroutines run on, tickers tick for ever, and crashed processes are restarted; a
\* sweep takes its turn at an order whenever the other runs leave it alone.
Fairness ==
  \A r \in Runners : WF_vars(RunStep(r)) /\ WF_vars(Sweep(r)) /\ SF_vars(Visit(r))

FairSpec == Spec /\ Fairness

-----------------------------------------------------------------------------
(* What was promised, and what became of it.                               *)

Charges(o) == {c \in Providers \X Keys : c[2][1] = o /\ c[2] \in captured[c[1]]}
SeatsOf(o) == {h \in Holds : hold[h].rows = "BOOKED" /\ hold[h].order = o}
Returns(o) == returned[o][TRUE] + returned[o][FALSE]

\* Rows keep their types; a runner has an order exactly while it is at work, and a
\* row of orders has a hold (a finished run leaves nothing behind for the next).
TypeOK ==
  /\ order \in [Orders -> OrderRow]
  /\ \A o \in Orders : (order[o].status = "none") <=> (order[o].hold = None)
  /\ payment \in [Keys -> PaymentRow]
  /\ refundRow \subseteq Keys
  /\ hold \in [Holds -> HoldRows]
  /\ captured \in [Providers -> SUBSET Keys]
  /\ returned \in [Orders -> [BOOLEAN -> Nat]]
  /\ run \in [Runners -> Run]
  /\ \A r \in Runners : (run[r].pc = "idle") <=> (run[r].order = None)
  /\ crashes \in 0..MaxCrashes

\* Whatever crashes, overlaps or fails: seats are booked for an order, and money is
\* given back, only when some provider has taken the order's money.
NothingWithoutMoney ==
  \A o \in Orders : SeatsOf(o) # {} \/ Returns(o) > 0 => Charges(o) # {}

\* FindCapturedPaymentsMissingOrderOrRefund finds nothing but orders still on their way.
CapturedIsAccounted ==
  \A k \in Keys :
    payment[k].status = "CAPTURED" =>
      order[k[1]].status \in {"CONFIRMED", "TICKETED"} \cup Resumable \/ k \in refundRow

\* The status tells the truth: a confirmed order's own hold is booked for it and
\* FindOrdersMissingPayment does not find it, a failed order's charge did not go
\* through ("no money moved"), a compensated order's money went back.
StatusIsTrue ==
  \A o \in Orders :
    /\ order[o].status \in {"CONFIRMED", "TICKETED"} =>
         /\ order[o].hold \in SeatsOf(o)
         /\ \E h \in Holds : payment[<<o, h>>].status = "CAPTURED"
    /\ order[o].status = "FAILED" => \A p \in Providers : <<o, order[o].hold>> \notin captured[p]
    /\ order[o].status = "COMPENSATED" => Returns(o) > 0

\* RunSaga may be called again for an order: he still gets seats or money, once.
SeatsOrMoneyOnce == \A o \in Orders : Cardinality(SeatsOf(o)) + Returns(o) <= 1

\* The promise of Checkout, without crashes and overlaps.
Promise == INSTANCE Checkout WITH
  paid     <- [o \in Orders |-> Cardinality(Charges(o))],
  seats    <- [o \in Orders |-> SeatsOf(o)],
  returned <- [o \in Orders |-> Returns(o)]

ImplementsCheckout == Promise!Spec

\* Every order is decided in the end, whatever crashed and whatever the provider
\* did not tell.
OrderSettles == \A o \in Orders : order[o].status \in Resumable ~> order[o].status \notin Resumable

\* Captured money becomes a valid booking or a refund in the end.
MoneyBecomesSeatsOrRefund ==
  \A o \in Orders : Charges(o) # {} ~> SeatsOf(o) # {} \/ Returns(o) > 0

-----------------------------------------------------------------------------
(* Why no seats and no refund come without money: the inductive invariant. *)

Created(o)  == order[o].status # "none"
Captured(k) == \E p \in Providers : k \in captured[p]

\* pcs that only a captured payment leads to, and those that use ord.HoldID or newHold.
Late == {"confirming", "confirm", "confirmed", "ticketed", "reallocate", "confirm new",
         "switch", "release new", "refund", "insert refund", "compensated"}
WithHold == Late \cup {"authorize", "extend", "insert payment", "charge", "record",
                      "query", "settle", "decline"}
WithNew == {"confirm new", "switch", "release new"}

RowsFit ==
  /\ order \in [Orders -> OrderRow]
  /\ \A o \in Orders : (order[o].status = "none") <=> (order[o].hold = None)
  /\ payment \in [Keys -> PaymentRow]
  /\ refundRow \subseteq Keys
  /\ hold \in [Holds -> HoldRows]
  /\ captured \in [Providers -> SUBSET Keys]
  /\ returned \in [Orders -> [BOOLEAN -> Nat]]
  /\ crashes \in 0..MaxCrashes

\* A payment belongs to an order, and is CAPTURED only if its key was.
PaymentsFit ==
  \A o \in Orders, h \in Holds :
    /\ payment[<<o, h>>].status # "none" => Created(o)
    /\ payment[<<o, h>>].status = "CAPTURED" => Captured(<<o, h>>)

\* What a runner r may remember as x, given the rows.
RunFits(r, x) ==
  /\ x \in Run
  /\ (x.pc = "idle") <=> (x.order = None)
  /\ x.order # None => Created(x.order)
  /\ \A j \in x.todo : Created(j.order) /\ (r = Reconciler => j.hold \in Holds)
  /\ r \in Orders => x.todo = {}
  /\ x.pc \in WithHold => x.hold \in Holds
  /\ x.pc \in WithNew => x.new \in Holds
  /\ x.pc \in Late => x.pay.status = "CAPTURED"
  /\ x.pay.status = "CAPTURED" => x.pc \in Late \cup {"record"}
  /\ x.pay.status = "CAPTURED" \/ x.pc = "settle" => Captured(<<x.order, x.hold>>)

RunsFit ==
  /\ run = [r \in Runners |-> run[r]]
  /\ \A r \in Runners : RunFits(r, run[r])
  /\ \A o \in Orders : ~Created(o) => run[o].pc = "idle"

Paid(o) == \E h \in Holds : Captured(<<o, h>>)

DeliveriesArePaid ==
  \A o \in Orders :
    /\ \A h \in Holds : hold[h].rows = "BOOKED" /\ hold[h].order = o => Paid(o)
    /\ returned[o][TRUE] > 0 \/ returned[o][FALSE] > 0 => Paid(o)

\* The inductive invariant: it implies TypeOK and NothingWithoutMoney.
IInv == RowsFit /\ PaymentsFit /\ RunsFit /\ DeliveriesArePaid
=============================================================================
