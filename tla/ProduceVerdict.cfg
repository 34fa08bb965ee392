SPECIFICATION Spec

CONSTANTS
  Workers = {w1, w2}
  FixedAmount = TRUE
  NumberOfRecords = 1
  Duration = 100
  RecordsPerSecond = 2
  SuccessRate = 100
  BrokerStates = {"accepting"}
  Faults = {}
  MaxRequests = 0

INVARIANTS
  CompletedSucceeds
