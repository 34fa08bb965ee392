SPECIFICATION FairSpec

CONSTANTS
  Executions = {first, second}
  Values = {1, 2, 3}
  Stepwise = FALSE
  Faults = {"slow", "transient", "crash"}

INVARIANTS
  TypeOK
  StoppedMeansRestored

PROPERTIES
  CallsEnd
