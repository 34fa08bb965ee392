SPECIFICATION Spec

CONSTANTS
  Denials = {e1, e2}
  Bindings = {topicRead, topicWrite, groupRead}
  Topic = {0, 1}
  Asked <- Numbers
  NotANumber = notANumber
  Wrap = 8
  Keep <- Counts
  MaxChosen = 2
  MaxEnd = 3
  Replicas = {0, 1, 2}
  StaleMetadata = FALSE

INVARIANTS
  TypeOK
  NoDenialRemains
  DeniedWhileStarted
  NewestKept
  DeletedAsAsked
  LeaderRelegated

PROPERTIES
  SuccessMovesLeader
