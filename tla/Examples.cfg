SPECIFICATION Spec
CONSTANTS
  N = 3
  Programs <- MCPrograms
INVARIANTS
  NoPanic
  
  OutcomeAsPrinted
  PromisesKept
  
  BatchHoldsKey
  LiveIsServed
CHECK_DEADLOCK FALSE
