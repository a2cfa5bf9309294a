CONSTANTS
  Plans <- InterruptPlans
  MaxQuestions = 1
  MaxEvents = 0
  MaxSignals = 2
  PidInLock = TRUE
  KillReaches = FALSE
  LongLines = FALSE
  ParentMayDie = TRUE
  RmMayFail = FALSE
  SudoLoops = TRUE
  OtherArrives = TRUE
SPECIFICATION LiveSpec
INVARIANTS InterruptCleansLock
PROPERTIES SessionEnds
CHECK_DEADLOCK TRUE
