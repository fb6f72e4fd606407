-------------------------- MODULE MCSeatInventory --------------------------
(* Small instances of SeatInventory for TLC.                               *)
EXTENDS SeatInventory, TLC

\* Hold ids are random UUIDs and callers are goroutines: neither is ever ordered.
Symmetry == Permutations(Holds) \cup Permutations(Workers)
=============================================================================
