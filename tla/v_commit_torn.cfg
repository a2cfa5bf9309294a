CONSTANTS
  Plans <- CommitPlans
  MaxQuestions = 1
  MaxEvents = 1
  MaxSignals = 1
  PidInLock = TRUE
  KillReaches = FALSE
  LongLines = FALSE
  ParentMayDie = FALSE
  RmMayFail = FALSE
  SudoLoops = FALSE
  OtherArrives = FALSE
SPECIFICATION Spec
CHECK_DEADLOCK TRUE
INVARIANT CommitNeverTorn
