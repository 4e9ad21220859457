SPECIFICATION Spec
CONSTANTS
  c1 = c1
  c2 = c2
  r1 = r1
  r2 = r2
  d1 = d1
  d2 = d2
  Commits = {c1, c2}
  Readers = {d1, d2}
  Addresses = {1, 2, 3}
  Private = {3}
  Window = 1
  MaxNow = 2
  Bundles <- SomeBundles
  Runs = {r1, r2}
  MaxSubmissions = 2
  Options <- OptionSets
  MaxDrift = 1
SYMMETRY ReaderSymmetry
INVARIANTS
  OneSettlement
  GrantUsedOnce
  SealedIsBacked
  PendingIsSpent
CHECK_DEADLOCK FALSE
