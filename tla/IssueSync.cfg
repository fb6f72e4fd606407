SPECIFICATION FairSpec
CONSTANTS
  Issues = {1, 2}
  NoItem = NoItem
  NoCursor = NoCursor
  NoPage = NoPage
  PageSize = 1
  Overlap = 0
  MaxAttempts = 2
  MaxReceived = 2
  MaxEdits = 1
  MaxOutside = 2
  MaxFaults = 2
INVARIANTS
  TypeOK
  ProcessedIsApplied
  PushesAreEdits
  
  NothingBehindWatermark
PROPERTIES
  NeverBackwards
  PollCatchesUp
