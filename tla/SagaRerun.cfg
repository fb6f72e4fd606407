SPECIFICATION Spec
CONSTANTS
  Orders = {o1}
  Holds = {h1, h2}
  Worker = Worker
  Reconciler = Reconciler
  Server = Server
  None = None
  OneProvider = TRUE
  Overlap = "none"
  Flaky = FALSE
  MaxCrashes = 1
  MaxReturns = 2
INVARIANTS
  SeatsOrMoneyOnce
