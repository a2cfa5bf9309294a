CONSTANTS
  Plans <- AllPlans
  MaxQuestions = 2
  MaxEvents = 1
  MaxSignals = 0
  PidInLock = FALSE
  KillReaches = FALSE
  LongLines = TRUE
  ParentMayDie = TRUE
  RmMayFail = TRUE
  SudoLoops = FALSE
  OtherArrives = TRUE
SPECIFICATION Spec
INVARIANTS TypeOK OkMeansDone ReturnMeansHelperGone AnswersInStep LockGivenBack
PROPERTIES RemovalAgreed ImplementsTransaction
CHECK_DEADLOCK TRUE
