SPECIFICATION Spec
CONSTANTS
  x = x
  y = y
  p = p
  q = q
  r = r
  m = m
  Bases = {x, y}
  Packages = {p, q, r, m}
  Jobs <- AllJobs
  Confs <- AllConfs
  MaxFaults = 3
  LookupsFail = FALSE
INVARIANTS
  TypeOK
  OkMeansInstalled
  NothingDropped
  ConflictsFlagged
  NoNeedlessFailure
  OkMeansRecorded
  MakeDepsGone
PROPERTY RecordedAfterInstall
