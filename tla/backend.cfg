SPECIFICATION LiveSpec
CONSTANTS
  p = p
  q = q
  NoOne = NoOne
  Stale = Stale
  Callers = {p, q}
  Commands <- AllCommands
  Settings <- AllSettings
  MaxCalls = 1
  MayCrash = TRUE
  MayInterrupt = TRUE
INVARIANTS
  TypeOK
  RepeatedByFallback
  OkMeansApplied
  SameEffect
PROPERTY CallsEnd
