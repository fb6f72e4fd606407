SPECIFICATION Spec
CONSTANTS
  Orders = {o1}
  Holds = {h1}
  Worker = Worker
  Reconciler = Reconciler
  Server = Server
  None = None
  OneProvider = FALSE
  Overlap = "all"
  Flaky = TRUE
  MaxCrashes = 1
  MaxReturns = 2
INVARIANTS
  NothingWithoutMoney
