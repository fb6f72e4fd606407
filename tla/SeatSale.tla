------------------------------ MODULE SeatSale ------------------------------
(***************************************************************************)
(* What the ticket-booking inventory promises, and nothing about how: a    *)
(* buyer asks once for a set of seats, and is later sold exactly that set  *)
(* in one indivisible step, or never.  A seat is sold to at most one buyer *)
(* and a sale is never undone.                                             *)
(***************************************************************************)
CONSTANTS
  Seats,      \* the seats of one event
  Sellable,   \* those that may be sold at all
  Holds       \* one buyer's request for seats, named by its hold id

VARIABLES
  wanted,     \* wanted[h]: the seats request h asked for, {} before it asks
  sold        \* sold[h]: the seats sold to request h

vars == <<wanted, sold>>

Init ==
  /\ wanted = [h \in Holds |-> {}]
  /\ sold   = [h \in Holds |-> {}]

Ask(h, S) ==
  /\ wanted[h] = {}
  /\ wanted' = [wanted EXCEPT ![h] = S]
  /\ UNCHANGED sold

Sell(h) ==
  /\ wanted[h] \subseteq Sellable
  /\ sold[h] = {}
  /\ \A g \in Holds : sold[g] \cap wanted[h] = {}
  /\ sold' = [sold EXCEPT ![h] = wanted[h]]
  /\ UNCHANGED wanted

Next ==
  \E h \in Holds :
    \/ \E S \in (SUBSET Seats) \ {{}} : Ask(h, S)
    \/ Sell(h)

Spec == Init /\ [][Next]_vars
=============================================================================
