SPECIFICATION Spec
CONSTANTS
  h1 = h1  h2 = h2
  f1 = f1  f2 = f2
  Handles = {h1, h2}
  Population = 2
  GroupLimit = 2
  OwnedLimit = 2
  Fingerprints = {f1, f2}
  Current = f1
  MayFail <- MCMayFail
  MaxTables = 1
INVARIANTS CountersExact
CHECK_DEADLOCK FALSE
