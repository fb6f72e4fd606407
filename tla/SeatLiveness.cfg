SPECIFICATION FairSpec
CONSTANTS
  Seats = {1}
  Sellable = {1}
  Holds = {h1, h2}
  Workers = {w1}
  Reaper = reaper
  NoHold = NoHold
  MaxSeatsPerHold = 2
  HoldTTL = 1
  Extensions = {1}
  SlowExtends = FALSE
  LastExpiry = 2
  MaxTime = 3
PROPERTIES
  LapsedHoldEnds
