SPECIFICATION Spec

CONSTANTS
  Names <- TwoNames
  LegacyName = ""
  Discoveries = {d1, d2}

INVARIANTS
  NoConfigRace
