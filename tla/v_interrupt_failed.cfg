CONSTANTS
  Plans <- CommitPlans
  MaxQuestions = 1
  MaxEvents = 0
  MaxSignals = 1
  PidInLock = FALSE
  KillReaches = FALSE
  LongLines = FALSE
  ParentMayDie = FALSE
  RmMayFail = FALSE
  SudoLoops = FALSE
  OtherArrives = FALSE
SPECIFICATION LiveSpec
CHECK_DEADLOCK TRUE
PROPERTY InterruptedIsReported
