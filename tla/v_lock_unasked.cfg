CONSTANTS
  Plans <- CommitPlans
  MaxQuestions = 1
  MaxEvents = 0
  MaxSignals = 0
  PidInLock = FALSE
  KillReaches = FALSE
  LongLines = FALSE
  ParentMayDie = FALSE
  RmMayFail = FALSE
  SudoLoops = FALSE
  OtherArrives = TRUE
SPECIFICATION Spec
CHECK_DEADLOCK TRUE
PROPERTY LiveLockTakenOnlyIfAgreed
