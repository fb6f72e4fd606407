------------------------------ MODULE Checkout ------------------------------
(***************************************************************************)
(* What the payment saga promises a buyer, and nothing about how: he pays  *)
(* at most once, and for that he gets seats, once, or his money back,      *)
(* once, but never both and never either without having paid.              *)
(***************************************************************************)
EXTENDS Naturals

CONSTANTS
  Orders,
  Holds       \* a set of seats that can be delivered, named by its hold id

VARIABLES
  paid,       \* paid[o]: how often money was taken for order o
  seats,      \* seats[o]: the holds whose seats are booked for order o
  returned    \* returned[o]: how often the money of o was given back

vars == <<paid, seats, returned>>

Init ==
  /\ paid = [o \in Orders |-> 0]
  /\ seats = [o \in Orders |-> {}]
  /\ returned = [o \in Orders |-> 0]

Open(o) == paid[o] = 1 /\ seats[o] = {} /\ returned[o] = 0

Pay(o) ==
  /\ paid[o] = 0
  /\ paid' = [paid EXCEPT ![o] = 1]
  /\ UNCHANGED <<seats, returned>>

Deliver(o, h) ==
  /\ Open(o)
  /\ \A p \in Orders : h \notin seats[p]
  /\ seats' = [seats EXCEPT ![o] = {h}]
  /\ UNCHANGED <<paid, returned>>

GiveBack(o) ==
  /\ Open(o)
  /\ returned' = [returned EXCEPT ![o] = 1]
  /\ UNCHANGED <<paid, seats>>

Next == \E o \in Orders : Pay(o) \/ GiveBack(o) \/ \E h \in Holds : Deliver(o, h)

Spec == Init /\ [][Next]_vars
=============================================================================
