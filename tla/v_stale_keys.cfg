CONSTANTS
  a = a
  b = b
  r = r
  p = p
  k1 = k1
  k2 = k2
  Bases = {a, b}
  Repos = {r, p}
  SkipReview = {p}
  ForceSrcinfo = {p}
  MaxCommit = 2
  Version <- MCVersion
  KeysOf <- MCKeysOf
  Foreign <- MCForeign
  Sessions <- Few
  MaxSessions = 2
  MaxFaults = 0
SPECIFICATION Spec
INVARIANT KeysAsked
CHECK_DEADLOCK FALSE
