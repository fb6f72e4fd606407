SPECIFICATION Spec
CONSTANTS
  Seats = {1, 2}
  Sellable = {1, 2}
  Holds = {h1, h2}
  Workers = {w1}
  Reaper = reaper
  NoHold = NoHold
  MaxSeatsPerHold = 2
  HoldTTL = 1
  Extensions = {1, 2}
  SlowExtends = FALSE
  LastExpiry = 3
  MaxTime = 3
SYMMETRY Symmetry
INVARIANTS
  
  BookingIsWhole
  FreeSeatIsAnnounced
PROPERTIES
  
  ForeignKeyUntouched
  ImplementsSeatSale
