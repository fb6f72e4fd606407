SPECIFICATION FairSpec
CONSTANTS
  Users = {u1, u2}
  Servers = {c1, c2}
  MinRate = 1
  MaxRate = 2
  AdditiveStep = 1
  MaxFaults = 1
INVARIANTS
  AdmittedInOrder
PROPERTIES
  EveryoneAdmitted
  
