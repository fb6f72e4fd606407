---------------------------- MODULE MCFieldSync ----------------------------
(* Small instances of FieldSync for TLC.                                   *)
EXTENDS FieldSync, TLC
CONSTANTS s1
OnlySites == Sites
OneSite == [p \in Photos |-> s1]

\* Ids are random UUIDs; devices, drains and requests are never ordered.
Symmetry == Permutations(Photos) \cup Permutations(Devices) \cup Permutations(Drains) \cup Permutations(Slots)
=============================================================================
