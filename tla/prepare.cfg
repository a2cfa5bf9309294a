CONSTANTS
  a = a
  b = b
  r = r
  p = p
  k1 = k1
  k2 = k2
  Bases = {a, b}
  Repos = {r, p}
  SkipReview = {p}
  ForceSrcinfo = {p}
  MaxCommit = 2
  Version <- MCVersion
  KeysOf <- MCKeysOf
  Foreign <- MCForeign
  Sessions <- Many
  MaxSessions = 3
  MaxFaults = 1
SPECIFICATION Spec
INVARIANTS
  NothingUnreviewed
  BuiltIsResolved
CHECK_DEADLOCK FALSE
