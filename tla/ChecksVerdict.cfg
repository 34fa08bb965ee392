SPECIFICATION Spec

CONSTANTS
  MaxPolls = 3
  Brokers = {n1, n2}
  NoController = none
  Partitions = {p1, p2}
  PartitionKinds = {"leader changed", "replicas changed"}
  Values = {0, 1}
  States = {"Stable", "Empty", "Dead"}
  NoState = ""
  Lags = {0, 1, 2}
  NoLag = noLag

INVARIANTS
  TypeOK
  BrokersVerdictIsRight
  PartitionsVerdictIsRight
  GroupVerdictIsRight
  LagVerdictIsRight
  FirstDeviationIsKept
