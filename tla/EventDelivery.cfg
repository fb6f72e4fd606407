SPECIFICATION FairSpec
CONSTANTS
  Events = {e1, e2}
  Conns = {c1}
  Relays = {r1}
  Workers = {w1}
  Roles <- EitherConsumer
  Transports = {"queue", "poll"}
  BatchSize = 2
  MaxReceives = 2
  MaxFaults = 1
INVARIANTS
  NothingForgotten
  
PROPERTIES
  EverythingSettles
CHECK_DEADLOCK FALSE
