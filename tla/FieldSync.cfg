SPECIFICATION Spec
CONSTANTS
  Devices = {d1, d2}
  Drains = {n1, n2}
  Slots = {t1, t2}
  s1 = s1
  Sites = {s1}
  Photos = {p1, p2}
  SiteOf <- OneSite
  Nobody = Nobody
  Cap = 1
  Editable <- OnlySites
  MaxVersion = 2
  MaxFaults = 1
SYMMETRY Symmetry
INVARIANTS
  NothingLost
  
  
CHECK_DEADLOCK FALSE
