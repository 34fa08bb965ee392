SPECIFICATION FairSpec

CONSTANTS
  Executions = {first}
  Values = {1, 2, 3, 5, 8, 13}
  Stepwise = TRUE
  Faults = {"slow", "transient", "crash"}

INVARIANTS
  NeverRefused
  StoppedMeansRestored

PROPERTIES
  StepsTowardGoal
  GoalReached
