SPECIFICATION FairSpec

CONSTANTS
  Names <- TwoNames
  LegacyName = ""
  Discoveries = {d1}
  Config <- Differing
  Executions = {e1}
  MaxCrashes = 2

INVARIANTS
  TypeOK
  OwnCluster

PROPERTIES
  RegisteredForGood
  OneClusterSuffices
  AttackUndone
