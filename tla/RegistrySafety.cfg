SPECIFICATION Spec

CONSTANTS
  Names <- SharedAndOwn
  LegacyName = "legacy"
  Discoveries = {d1, d2}

INVARIANTS
  TypeOK
  NothingLost

PROPERTIES
  ImplementsPromise
