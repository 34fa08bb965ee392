SPECIFICATION FairSpec

CONSTANTS
  Clusters = {c1, c2}
  Objects = {plain, internal}
  Internal = {internal}
  NoController = none
  MaxChanges = 2

INVARIANTS
  TypeOK
  NothingInvented
  NothingMissed

PROPERTIES
  RunsEnd
