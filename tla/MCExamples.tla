---------------------------- MODULE MCExamples -----------------------------
(* Every program, one behaviour each.  Written as a function, the table is *)
(* evaluated once.                                                         *)
EXTENDS Examples, DataLoader, ServerProcess
MCTable == Examples @@ Loaders @@ Servers
MCPrograms == [p \in DOMAIN MCTable |-> MCTable[p]]
=============================================================================
