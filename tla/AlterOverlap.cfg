SPECIFICATION Spec

CONSTANTS
  Executions = {first, second}
  Values = {1, 2, 3}
  Stepwise = FALSE
  Faults = {}

INVARIANTS
  OverlapRestored
