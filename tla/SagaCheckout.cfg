SPECIFICATION Spec
CONSTANTS
  Orders = {o1, o2}
  Holds = {h1, h2, h3}
  Worker = Worker
  Reconciler = Reconciler
  Server = Server
  None = None
  OneProvider = TRUE
  Overlap = "none"
  Flaky = FALSE
  MaxCrashes = 0
  MaxReturns = 2
SYMMETRY Symmetry
INVARIANTS
  CapturedIsAccounted

  
