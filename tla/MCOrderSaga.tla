---------------------------- MODULE MCOrderSaga ----------------------------
(* Small instances of OrderSaga for TLC.                                    *)
EXTENDS OrderSaga, TLC

\* Order and hold ids are random UUIDs, never ordered.
Symmetry == Permutations(Orders) \cup Permutations(Holds)
=============================================================================
