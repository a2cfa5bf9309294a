SPECIFICATION Spec
CONSTANTS
  e = e
  f = f
  g = g
  k = k
  h = h
  i = i
  j = j
  NoHook = NoHook
  Files = {e, f, g}
  Sizeless = {e}
  Packages = {k}
  Hooks = {h, i, j}
  Plans <- Transactions
  AbortOnFail = {i, j}
  Critical = {i}
  Heights = {2, 9}
  MaxLogs = 1
  MaxTries = 1
  PipeSize = 2
INVARIANTS
  TypeOK
  CursorBelow
  EachShownOnce
  HooksBlamed
PROPERTY FinalLinesStay
