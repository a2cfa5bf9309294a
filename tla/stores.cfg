SPECIFICATION Spec
CONSTANTS
  p = p
  q = q
  x = x
  y = y
  a = a
  b = b
  c = c
  s = s
  t = t
  NoPackage = NoPackage
  Procs = {p, q}
  Bases = {x, y}
  Packages = {a, b, c}
  Sources = {s, t}
  Made <- MadeOf
  NameOf <- Names
  From <- SourcesOf
  Official = {c}
  Commits = {"old", "new", ""}
  Sha <- Answers
  Scenarios <- AllScenarios
  MaxPushes = 2
  MaxFaults = 2
  MayCrash = TRUE
INVARIANTS
  TypeOK
  PublishedWhole
  UpdatesFound
  RepoHasFiles
  SyncedAtRest
PROPERTY KeepsRecords
