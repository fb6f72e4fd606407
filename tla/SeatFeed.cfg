SPECIFICATION Spec
CONSTANTS
  Seats = {s1, s2}
  Clients = {c1}
  NoBits = NoBits
  RingCap = 2
  BufCap = 1
  BatchSize = 2
  MaxChanges = 3
  MaxFaults = 2
SYMMETRY Symmetry
INVARIANTS
  TypeOK
  
  ClientShowsBitset
  NothingSlipsBetween
CHECK_DEADLOCK FALSE
