SPECIFICATION FairSpec

CONSTANTS
  Workers = {w1, w2}
  FixedAmount = TRUE
  NumberOfRecords = 2
  Duration = 100
  RecordsPerSecond = 2
  SuccessRate = 100
  BrokerStates = {"accepting", "rejecting", "unreachable"}
  Faults = {"client", "crash", "retry"}
  MaxRequests = 0

INVARIANTS
  TypeOK
  OvershootBound
  SuccessesAreRequests
  NoGoroutineLeaks

PROPERTIES
  CancelledOnlyDrains
  ImplementsPromise
  CancelEndsAll
  FixedAmountCompletes
