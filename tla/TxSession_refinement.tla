------------------------ MODULE TxSession_refinement ------------------------
(***************************************************************************)
(* When the call returns, its helper is gone, and the session implements   *)
(* Transaction.  Both rest on wait_helper_exit waiting for the helper, so  *)
(* they assume that its kill() does not get through to the wrapper, which  *)
(* runs as root: KillReaches = FALSE.  Then, about db.lck: who holds it,   *)
(* who gives it back, and when a stale one is removed.                     *)
(***************************************************************************)
EXTENDS TxSession_proofs

Joined == {"join", "drain", "decide", "clean", "drop", "done"}

\* The wrapper outlives the helper, and the parent outwaits the wrapper.
GoneInv ==
  /\ wrapper = "exited" => HelperDead
  /\ ppc \in Joined => HelperDead
  /\ ppc \in {"drop", "done"} => outcome # "none"

\* A dead helper stays dead.
LEMMA DeadForGood ==
  ASSUME [Next]_vars, HelperDead
  PROVE  HelperDead'
<1> USE DEF HelperDead
<1>1. CASE ParentStep
  BY <1>1, ParentStepFrame
<1>2. CASE HelperStep
  BY <1>2, HelperStepFrame
<1>3. CASE ReaderStep \/ WrapperExits \/ OtherStep \/ Terminated \/ UNCHANGED vars
  BY <1>3 DEF ReaderStep, ReadLine, ReadEof, readerFrame, WrapperExits, OtherStep, OtherLocks,
              OtherUnlocks, OtherCrashes, otherFrame, Terminated, vars, helperVars
<1>4. CASE SignalThreadStep \/ Signal \/ ParentDies \/ SudoLoop
  BY <1>4 DEF SignalThreadStep, RegisterSignals, ForwardSignal, Signal, ParentDies, SudoLoop,
              SignalHelper
<1>5. CASE Authenticate
  BY <1>5 DEF Authenticate
<1> QED
  BY <1>1, <1>2, <1>3, <1>4, <1>5 DEF Next

\* The main thread passes the join only after the wrapper has exited.
LEMMA ParentGoneInv ==
  ASSUME KillReaches = FALSE, TypeOK, GoneInv, ParentStep, HelperDead => HelperDead'
  PROVE  GoneInv'
<1> USE DEF GoneInv, Joined, mainFrame, commandFrame, promptFrame, parentVars, signalVars, readerVars, helperVars,
            systemVars
<1>1. CASE Spawn
  BY <1>1 DEF Spawn, HelperDead
<1>2. CASE TakeOverSignals \/ RecvTimeout \/ TryWait \/ Reap \/ Wait \/ JoinReader
  BY <1>2 DEF TakeOverSignals, RecvTimeout, TryWait, Reap, Wait, JoinReader, Goto
<1>3. CASE WritePlan \/ AnswerQuestion
  BY <1>3 DEF WritePlan, AnswerQuestion, Send
<1>4. CASE ReceiveEvent \/ ReceiveQuestion \/ ReceiveResult \/ ReceiveError \/ ReceiveEof
           \/ ReceiveReadError
  BY <1>4 DEF ReceiveEvent, ReceiveQuestion, ReceiveResult, ReceiveError, ReceiveEof,
              ReceiveReadError, Receive
<1>5. CASE ReapTimeout \/ StopSignalThread
  BY <1>5 DEF ReapTimeout, StopSignalThread
<1>6. CASE Decide
  BY <1>6 DEF Decide, Verdict
<1>7. CASE CleanInterrupted
  BY <1>7 DEF CleanInterrupted, AfterCommand
<1>8. CASE DropGuards
  BY <1>8 DEF DropGuards, AfterCommand
<1> QED
  BY <1>1, <1>2, <1>3, <1>4, <1>5, <1>6, <1>7, <1>8 DEF ParentStep

LEMMA OthersGoneInv ==
  ASSUME GoneInv, [Next]_vars, ~ParentStep, HelperDead => HelperDead'
  PROVE  GoneInv'
<1> USE DEF GoneInv, Joined, parentVars, signalVars, readerVars, helperVars
<1>1. CASE HelperStep
  BY <1>1, HelperStepFrame DEF helperFrame
<1>2. CASE ReaderStep \/ OtherStep \/ Terminated \/ UNCHANGED vars
  BY <1>2 DEF ReaderStep, ReadLine, ReadEof, readerFrame, OtherStep, OtherLocks,
              OtherUnlocks, OtherCrashes, otherFrame, Terminated, vars
<1>3. CASE SignalThreadStep \/ Signal \/ ParentDies \/ SudoLoop
  BY <1>3 DEF SignalThreadStep, RegisterSignals, ForwardSignal, Signal, ParentDies, SudoLoop,
              signalFrame
<1>4. CASE Authenticate
  BY <1>4 DEF Authenticate, helperFrame
<1>5. CASE WrapperExits
  BY <1>5 DEF WrapperExits
<1> QED
  BY <1>1, <1>2, <1>3, <1>4, <1>5 DEF Next

\* wait_helper_exit returns only when the wrapper, and with it the helper, is gone.
THEOREM GoneCorrect ==
  ASSUME KillReaches = FALSE
  PROVE  Spec => []GoneInv
<1>1. Init => GoneInv
  BY DEF Init, GoneInv, Joined
<1>2. TypeOK /\ GoneInv /\ [Next]_vars => GoneInv'
  BY ParentGoneInv, OthersGoneInv, DeadForGood
<1>3. QED
  BY <1>1, <1>2, TypeCorrect, PTL DEF Spec

\* run_plan_with_helper never returns while its helper is running: what the caller
\* does next, the pacman fallback included, has the database for itself.
THEOREM ReturnMeansHelperGoneHolds ==
  ASSUME KillReaches = FALSE
  PROVE  Spec => []ReturnMeansHelperGone
<1>1. GoneInv => ReturnMeansHelperGone
  BY DEF GoneInv, Joined, ReturnMeansHelperGone
<1>2. QED
  BY <1>1, GoneCorrect, PTL

-----------------------------------------------------------------------------
(* The database is changed in one piece of work: it is untouched until the *)
(* commit, or the writing of the install reasons, begins.                  *)

DbInv ==
  hpc \notin Finished =>
    /\ db \in {"untouched", "partial"}
    /\ HelperPlace \notin {"commit", "reason"} => db = "untouched"
    /\ HelperPlace = "commit" /\ db = "partial" => plan.scope = "full"

LEMMA EmitMoves ==
  ASSUME NEW message, NEW next, Emit(message, next)
  PROVE  hpc' \in {next, "killed"}
BY DEF Emit

LEMMA HelperDbInv ==
  ASSUME TypeOK, DbInv, HelperStep
  PROVE  DbInv'
<1> USE DEF DbInv, HelperPlace, Finished
<1>1. CASE hpc \in Finished
  BY <1>1, FinishedStep
<1>2. CASE ReadPlan \/ PlanEof \/ OpenAlpm
  BY <1>2 DEF ReadPlan, PlanEof, OpenAlpm, FirstStep, HelperGoto, Abort, Fail, helperFrame
<1>3. CASE WriteReason \/ EndReason
  BY <1>3 DEF WriteReason, EndReason, helperFrame, helperRest, Abort, Fail
<1>4. CASE RefreshDatabases \/ InitTransaction
  BY <1>4 DEF RefreshDatabases, InitTransaction, TakeLock, LockFails, Abort, Fail, helperFrame
<1>5. CASE EndRefresh \/ RemoveStaleLock
  BY <1>5 DEF EndRefresh, RemoveStaleLock, helperFrame, Abort, Fail
<1>6. CASE CheckLock
  <2>1. CASE HelperGoto("remove") \/ Abort
    BY <1>6, <2>1 DEF CheckLock, HelperGoto, Abort, Fail, helperFrame
  <2>2. CASE ~(HelperGoto("remove") \/ Abort)
    BY <1>6, <2>2, EmitMoves DEF CheckLock, helperFrame
  <2>3. QED
    BY <2>1, <2>2
<1>7. CASE Reopen
  <2>1. site \in {"refresh", "init"}
    BY DEF TypeOK, HelperTypeOK
  <2>2. QED
    BY <1>7, <2>1, EmitMoves DEF Reopen, Abort, Fail, helperFrame
<1>8. CASE AskCallback
  <2>1. hpc' \in {"wait", "killed"}
    BY <1>8, EmitMoves DEF AskCallback
  <2>2. QED
    BY <1>8, <2>1 DEF AskCallback, helperFrame
<1>9. CASE EmitEvent
  <2>1. hpc' \in {hpc, "killed"}
    BY <1>9, EmitMoves DEF EmitEvent
  <2>2. QED
    BY <1>9, <2>1 DEF EmitEvent, helperFrame
<1>10. ASSUME NEW yes, Settle(yes)
       PROVE  DbInv'
  <2>1. cur.back \in {"lock", "update", "resolve", "commit"}
    BY <1>10 DEF TypeOK, HelperTypeOK, Questions, Settle
  <2>2. QED
    BY <1>10, <2>1 DEF Settle, Fail, helperFrame
<1>11. CASE TakeAnswer
  <2>1. CASE Settle(Head(toHelper).yes)
    BY <1>10, <2>1
  <2>2. CASE ~Settle(Head(toHelper).yes)
    BY <1>11, <2>2 DEF TakeAnswer, helperFrame, helperRest
  <2>3. QED
    BY <2>1, <2>2
<1>12. CASE AnswerLost
  BY <1>10, <1>12 DEF AnswerLost
<1>13. CASE Resolve \/ Verify
  BY <1>13 DEF Resolve, Verify, Finish, HelperGoto, Abort, Fail, helperFrame
<1>14. CASE CommitWrite \/ CommitEnd
  BY <1>14 DEF CommitWrite, CommitEnd, Finish, helperFrame, helperRest
<1>15. CASE Unlock \/ Report \/ Exit
  BY <1>1, <1>15 DEF Unlock, Report, Exit
<1> QED
  BY <1>2, <1>3, <1>4, <1>5, <1>6, <1>7, <1>8, <1>9, <1>11, <1>12, <1>13, <1>14, <1>15
  DEF HelperStep

LEMMA OthersDbInv ==
  ASSUME DbInv, [Next]_vars, ~HelperStep
  PROVE  DbInv'
<1> USE DEF DbInv, HelperPlace, Finished, parentVars, signalVars, readerVars, helperVars,
            systemVars
<1>1. CASE ParentStep
  BY <1>1, ParentStepFrame
<1>2. CASE ReaderStep \/ WrapperExits \/ OtherStep \/ Terminated \/ UNCHANGED vars
  BY <1>2 DEF ReaderStep, ReadLine, ReadEof, readerFrame, WrapperExits, OtherStep, OtherLocks,
              OtherUnlocks, OtherCrashes, otherFrame, Terminated, vars
<1>3. CASE SignalThreadStep \/ Signal \/ ParentDies \/ SudoLoop
  <2>1. UNCHANGED <<plan, db, cur>> /\ hpc' \in {hpc, "killed"}
    BY <1>3 DEF SignalThreadStep, RegisterSignals, ForwardSignal, Signal, ParentDies, SudoLoop,
                signalFrame, SignalHelper
  <2>2. QED
    BY <2>1
<1>4. CASE Authenticate
  BY <1>4 DEF Authenticate, helperFrame
<1> QED
  BY <1>1, <1>2, <1>3, <1>4 DEF Next

\* The database is untouched until the commit begins.
THEOREM DbCorrect == Spec => []DbInv
<1>1. Init => DbInv
  BY DEF Init, DbInv, HelperPlace
<1>2. TypeOK /\ DbInv /\ [Next]_vars => DbInv'
  BY HelperDbInv, OthersDbInv
<1>3. QED
  BY <1>1, <1>2, TypeCorrect, PTL DEF Spec

-----------------------------------------------------------------------------
(* The session implements Transaction *)

\* What the caller sees changes only by a step of the parent, or by its death.
LEMMA StillReturned ==
  ASSUME UNCHANGED <<ppc, outcome>>
  PROVE  Returned' = Returned
BY DEF Returned

\* The helper's work is the work of the abstract transaction.
LEMMA HelperRefines ==
  ASSUME TypeOK, GoneInv, DbInv, HelperStep
  PROVE  [Promise!Next]_Promise!vars
<1>1. Returned' = Returned
  BY StillReturned, HelperStepFrame DEF helperFrame, parentVars
<1>2. Returned \in {"none", "abandoned"}
  BY HelperStepFrame DEF Returned, GoneInv, Joined
<1>3. CASE db' = db
  BY <1>1, <1>3 DEF Promise!vars
<1>4. CASE db = "untouched" /\ db' = "partial"
  BY <1>1, <1>2, <1>4 DEF Promise!Next, Promise!Begin, Promise!Unreturned
<1>5. CASE db = "partial" /\ db' = "applied"
  BY <1>1, <1>2, <1>5 DEF Promise!Next, Promise!Apply, Promise!Unreturned
<1>6. CASE db = "untouched" /\ db' = "nothing"
  BY <1>1, <1>2, <1>6 DEF Promise!Next, Promise!Skip, Promise!Unreturned
<1>7. db' = db \/ WriteReason \/ EndReason \/ Resolve \/ Verify \/ CommitWrite \/ CommitEnd
  <2>1. CASE ReadPlan \/ PlanEof \/ OpenAlpm \/ RefreshDatabases \/ EndRefresh
             \/ InitTransaction \/ CheckLock \/ RemoveStaleLock \/ Reopen
    BY <2>1 DEF ReadPlan, PlanEof, OpenAlpm, RefreshDatabases, EndRefresh, InitTransaction,
                CheckLock, RemoveStaleLock, Reopen, TakeLock, LockFails, HelperGoto, Abort,
                Fail
  <2>2. CASE AskCallback \/ EmitEvent \/ TakeAnswer \/ AnswerLost
    BY <2>2 DEF AskCallback, EmitEvent, TakeAnswer, AnswerLost, Settle, Fail
  <2>3. CASE Unlock \/ Report \/ Exit
    BY <2>3 DEF Unlock, Report, Exit, HelperGoto
  <2>4. QED
    BY <2>1, <2>2, <2>3 DEF HelperStep
<1>8. CASE WriteReason \/ EndReason \/ Resolve \/ Verify \/ CommitWrite \/ CommitEnd
  <2> USE DEF DbInv, Finished, HelperPlace
  <2>1. CASE WriteReason
    BY <1>4, <2>1 DEF WriteReason
  <2>2. CASE EndReason
    BY <1>3, <1>5, <1>6, <2>2 DEF EndReason, Abort, Fail
  <2>3. CASE Resolve
    BY <1>3, <1>6, <2>3 DEF Resolve, Finish, HelperGoto, Abort, Fail
  <2>4. CASE Verify
    BY <1>3, <1>6, <2>4 DEF Verify, Finish, HelperGoto, Abort, Fail
  <2>5. CASE CommitWrite
    BY <1>4, <2>5 DEF CommitWrite
  <2>6. CASE CommitEnd
    BY <1>3, <1>5, <1>6, <2>6 DEF CommitEnd, Finish
  <2>7. QED
    BY <1>8, <2>1, <2>2, <2>3, <2>4, <2>5, <2>6
<1> QED
  BY <1>3, <1>7, <1>8

\* The parent's steps are returns of the abstract call, or invisible.
LEMMA ParentRefines ==
  ASSUME TypeOK, ResultInv, GoneInv, GoneInv', ParentStep
  PROVE  [Promise!Next]_Promise!vars
<1>1. db' = db
  BY ParentStepFrame
<1>2. CASE Returned' = Returned
  BY <1>1, <1>2 DEF Promise!vars
<1>3. CASE Returned = "none" /\ Returned' = "abandoned"
  BY <1>1, <1>3 DEF Promise!Next, Promise!CallerDies
<1>4. CASE Returned = "none" /\ Returned' \in {"failed", "interrupted"}
  BY <1>1, <1>4 DEF Promise!Next, Promise!ReturnError
<1>5. CASE Returned = "none" /\ Returned' = "ok" /\ Done
  BY <1>1, <1>5 DEF Promise!Next, Promise!ReturnOk, Promise!Done, Done
<1>6. ppc \notin {"done", "dead"}
  BY DEF ParentStep, Spawn, TakeOverSignals, WritePlan, AnswerQuestion, ReceiveEvent,
         ReceiveQuestion, ReceiveResult, ReceiveError, ReceiveEof, ReceiveReadError,
         Receive, RecvTimeout, TryWait, Reap, ReapTimeout, Wait, StopSignalThread,
         JoinReader, Decide, CleanInterrupted, DropGuards, Goto
<1>7. CASE ppc' \notin {"done", "dead"}
  BY <1>2, <1>6, <1>7 DEF Returned
<1>8. CASE ppc' = "dead"
  BY <1>3, <1>6, <1>8 DEF Returned
<1>9. CASE ppc' = "done"
  <2>1. Returned = "none" /\ Returned' = outcome'
    BY <1>6, <1>9 DEF Returned
  <2>2. CASE Spawn
    BY <1>4, <1>9, <2>1, <2>2 DEF Spawn
  <2>3. CASE DropGuards
    <3>1. outcome' = outcome /\ outcome \in {"ok", "failed", "interrupted"}
      BY <2>3 DEF DropGuards, GoneInv, TypeOK, ParentTypeOK
    <3>2. outcome = "ok" => Done
      BY DEF ResultInv
    <3>3. QED
      BY <1>4, <1>5, <2>1, <3>1, <3>2
  <2>4. ParentStep => Spawn \/ DropGuards
    BY <1>9
    DEF ParentStep, TakeOverSignals, WritePlan, AnswerQuestion, Send, ReceiveEvent,
        ReceiveQuestion, ReceiveResult, ReceiveError, ReceiveEof, ReceiveReadError, Receive,
        RecvTimeout, TryWait, Reap, ReapTimeout, Wait, StopSignalThread, JoinReader, Decide,
        CleanInterrupted, AfterCommand, Goto
  <2>5. QED
    BY <2>2, <2>3, <2>4
<1> QED
  BY <1>7, <1>8, <1>9

LEMMA OthersRefine ==
  ASSUME [Next]_vars, ~ParentStep, ~HelperStep
  PROVE  [Promise!Next]_Promise!vars
<1> USE DEF parentVars, signalVars, readerVars, helperVars, systemVars
<1>1. db' = db
  BY DEF Next, ReaderStep, ReadLine, ReadEof, readerFrame, SignalThreadStep,
         RegisterSignals, ForwardSignal, Signal, ParentDies, SudoLoop, signalFrame, Authenticate,
         helperFrame, WrapperExits, OtherStep, OtherLocks, OtherUnlocks, OtherCrashes,
         otherFrame, Terminated, vars
<1>2. CASE UNCHANGED <<ppc, outcome>>
  BY <1>1, <1>2, StillReturned DEF Promise!vars
<1>3. CASE ~ParentGone /\ ppc' = "dead"
  BY <1>1, <1>3 DEF ParentGone, Returned, Promise!Next, Promise!CallerDies
<1>4. UNCHANGED <<ppc, outcome>> \/ (~ParentGone /\ ppc' = "dead")
  BY DEF Next, ReaderStep, ReadLine, ReadEof, readerFrame, SignalThreadStep,
         RegisterSignals, ForwardSignal, Signal, ParentDies, SudoLoop, signalFrame, Authenticate,
         helperFrame, WrapperExits, OtherStep, OtherLocks, OtherUnlocks, OtherCrashes,
         otherFrame, Terminated, vars
<1>5. QED
  BY <1>2, <1>3, <1>4

\* Every call of run_plan_with_helper behaves as Transaction promises: the plan is
\* applied at most once, "ok" means done, and nothing happens after the return.
THEOREM SessionImplementsTransaction ==
  ASSUME KillReaches = FALSE
  PROVE  Spec => ImplementsTransaction
<1>1. Init => Promise!Init
  BY DEF Init, Promise!Init, Returned
<1>2. /\ TypeOK /\ ResultInv /\ GoneInv /\ DbInv
      /\ GoneInv' /\ [Next]_vars
      => [Promise!Next]_Promise!vars
  BY HelperRefines, ParentRefines, OthersRefine
<1>3. QED
  BY <1>1, <1>2, TypeCorrect, ResultCorrect, GoneCorrect, DbCorrect, PTL
  DEF Spec, ImplementsTransaction, Promise!Spec

-----------------------------------------------------------------------------
(* Every way out of the helper gives the lock back *)

\* The file is the helper's only while its libalpm handle has created it, or after
\* it was killed.
LockInv ==
  /\ lock = "helper" => HelperHolds \/ hpc = "killed"
  /\ ppc = "spawn" => hpc = "auth" /\ sigThread = "new"

LEMMA HelperLockInv ==
  ASSUME TypeOK, LockInv, HelperStep
  PROVE  LockInv'
<1> USE DEF LockInv, HelperHolds, HelperPlace, HoldingPlaces
<1>1. hpc # "auth" /\ ppc' = ppc
  BY HelperStepFrame
  DEF HelperStep, ReadPlan, PlanEof, OpenAlpm, WriteReason, EndReason, RefreshDatabases,
      EndRefresh, InitTransaction, TakeLock, LockFails, CheckLock, RemoveStaleLock, Reopen,
      AskCallback, TakeAnswer, AnswerLost, Settle, EmitEvent, Resolve, Verify, CommitWrite,
      CommitEnd, Unlock, Report, Exit, helperFrame, parentVars
<1>2. CASE ReadPlan \/ PlanEof \/ OpenAlpm
  BY <1>1, <1>2 DEF ReadPlan, PlanEof, OpenAlpm, FirstStep, HelperGoto, helperRest, Abort, Fail
<1>3. CASE WriteReason \/ EndReason
  BY <1>1, <1>3 DEF WriteReason, EndReason, helperRest, Abort, Fail
<1>4. CASE RefreshDatabases \/ InitTransaction
  BY <1>1, <1>4 DEF RefreshDatabases, InitTransaction, TakeLock, LockFails, Abort, Fail
<1>5. CASE EndRefresh \/ RemoveStaleLock
  BY <1>1, <1>5 DEF EndRefresh, RemoveStaleLock, helperRest, Abort, Fail
<1>6. CASE CheckLock
  <2>1. CASE HelperGoto("remove") \/ Abort
    BY <1>1, <1>6, <2>1 DEF CheckLock, HelperGoto, helperRest, Abort, Fail
  <2>2. CASE ~(HelperGoto("remove") \/ Abort)
    BY <1>1, <1>6, <2>2, EmitMoves DEF CheckLock
  <2>3. QED
    BY <2>1, <2>2
<1>7. CASE Reopen
  BY <1>1, <1>7, EmitMoves DEF Reopen, Abort, Fail
<1>8. CASE AskCallback
  <2>1. hpc' \in {"wait", "killed"}
    BY <1>8, EmitMoves DEF AskCallback
  <2>2. QED
    BY <1>1, <1>8, <2>1 DEF AskCallback
<1>9. CASE EmitEvent
  <2>1. hpc' \in {hpc, "killed"}
    BY <1>9, EmitMoves DEF EmitEvent
  <2>2. QED
    BY <1>1, <1>9, <2>1 DEF EmitEvent
<1>10. ASSUME NEW yes, Settle(yes)
       PROVE  LockInv'
  <2>1. cur.back \in {"lock", "update", "resolve", "commit"}
    BY <1>10 DEF TypeOK, HelperTypeOK, Questions, Settle
  <2>2. QED
    BY <1>1, <1>10, <2>1 DEF Settle, Fail
<1>11. CASE TakeAnswer
  <2>1. CASE Settle(Head(toHelper).yes)
    BY <1>10, <2>1
  <2>2. CASE ~Settle(Head(toHelper).yes)
    BY <1>1, <1>11, <2>2 DEF TakeAnswer, helperRest
  <2>3. QED
    BY <2>1, <2>2
<1>12. CASE AnswerLost
  BY <1>10, <1>12 DEF AnswerLost
<1>13. CASE Resolve \/ Verify
  BY <1>1, <1>13 DEF Resolve, Verify, Finish, HelperGoto, helperRest, Abort, Fail
<1>14. CASE CommitWrite \/ CommitEnd
  BY <1>1, <1>14 DEF CommitWrite, CommitEnd, Finish, helperRest
<1>15. CASE Unlock \/ Exit
  BY <1>1, <1>15 DEF Unlock, Exit, HelperGoto, helperRest
<1>16. CASE Report
  <2>1. hpc' \in {"leave", "killed"}
    BY <1>16, EmitMoves DEF Report
  <2>2. QED
    BY <1>1, <1>16, <2>1 DEF Report, helperRest
<1> QED
  BY <1>2, <1>3, <1>4, <1>5, <1>6, <1>7, <1>8, <1>9, <1>11, <1>12, <1>13, <1>14, <1>15, <1>16
  DEF HelperStep

\* The parent only ever removes the file, and only when it was interrupted.
LEMMA ParentLock ==
  ASSUME ParentStep
  PROVE  /\ lock' \in {lock, "free"}
         /\ lock' # lock => ppc = "clean" \/ (ppc = "drop" /\ Interrupted)
         /\ ppc' # "spawn"
<1> USE DEF mainFrame, commandFrame, promptFrame, systemVars
<1>1. CASE Spawn
  BY <1>1 DEF Spawn
<1>2. CASE TakeOverSignals \/ RecvTimeout \/ TryWait \/ Reap \/ Wait \/ JoinReader
  BY <1>2 DEF TakeOverSignals, RecvTimeout, TryWait, Reap, Wait, JoinReader, Goto
<1>3. CASE WritePlan \/ AnswerQuestion
  BY <1>3 DEF WritePlan, AnswerQuestion, Send
<1>4. CASE ReceiveEvent \/ ReceiveQuestion \/ ReceiveResult \/ ReceiveError \/ ReceiveEof
           \/ ReceiveReadError
  BY <1>4 DEF ReceiveEvent, ReceiveQuestion, ReceiveResult, ReceiveError, ReceiveEof,
              ReceiveReadError, Receive
<1>5. CASE ReapTimeout \/ StopSignalThread \/ Decide
  BY <1>5 DEF ReapTimeout, StopSignalThread, Decide
<1>6. CASE DropGuards
  BY <1>6 DEF DropGuards, RemoveDbLock, AfterCommand
<1>7. CASE CleanInterrupted
  BY <1>7 DEF CleanInterrupted, RemoveDbLock, AfterCommand
<1> QED
  BY <1>1, <1>2, <1>3, <1>4, <1>5, <1>6, <1>7 DEF ParentStep

LEMMA OthersLockInv ==
  ASSUME LockInv, [Next]_vars, ~HelperStep
  PROVE  LockInv'
<1> USE DEF LockInv, HelperHolds, HelperPlace, HoldingPlaces, parentVars, signalVars,
            readerVars, helperVars, systemVars
<1>1. CASE ParentStep
  BY <1>1, ParentStepFrame, ParentLock
<1>2. CASE ReaderStep \/ WrapperExits \/ Terminated \/ UNCHANGED vars
  BY <1>2 DEF ReaderStep, ReadLine, ReadEof, readerFrame, WrapperExits, Terminated, vars
<1>3. CASE OtherStep
  <2>1. UNCHANGED <<ppc, sigThread, hpc, cur>> /\ lock' \in {lock, "free", "other"}
    BY <1>3 DEF OtherStep, OtherLocks, OtherUnlocks, OtherCrashes, otherFrame
  <2>2. QED
    BY <2>1
<1>4. CASE SignalThreadStep \/ ParentDies \/ SudoLoop
  <2>1. UNCHANGED <<cur, lock>> /\ ppc' \in {ppc, "dead"} /\ hpc' \in {hpc, "killed"}
    BY <1>4 DEF SignalThreadStep, RegisterSignals, ForwardSignal, ParentDies, SudoLoop, signalFrame,
                SignalHelper
  <2>2. ppc # "spawn" \/ ppc' = "dead" \/ UNCHANGED <<hpc, sigThread>>
    BY <1>4 DEF SignalThreadStep, RegisterSignals, ForwardSignal, ParentDies, SudoLoop
  <2>3. QED
    BY <2>1, <2>2
<1>5. CASE Signal
  BY <1>5 DEF Signal, signalFrame, SignalHelper
<1>6. CASE Authenticate
  BY <1>6 DEF Authenticate, helperFrame
<1> QED
  BY <1>1, <1>2, <1>3, <1>4, <1>5, <1>6 DEF Next

\* The helper owns db.lck only at the places where execute_plan_root holds it.
THEOREM LockCorrect == Spec => []LockInv
<1>1. Init => LockInv
  BY DEF Init, LockInv
<1>2. TypeOK /\ LockInv /\ [Next]_vars => LockInv'
  BY HelperLockInv, OthersLockInv
<1>3. QED
  BY <1>1, <1>2, TypeCorrect, PTL DEF Spec

\* A helper that ends by itself, whatever failed on its way, leaves no lock.
THEOREM LockGivenBackHolds == Spec => []LockGivenBack
<1>1. LockInv => LockGivenBack
  BY DEF LockInv, LockGivenBack, HelperHolds, HelperPlace, HoldingPlaces
<1>2. QED
  BY <1>1, LockCorrect, PTL

-----------------------------------------------------------------------------
(* After an interrupted call no lock of the helper remains, provided that  *)
(* `sudo rm` succeeds.                                                     *)

LEMMA InterruptStep ==
  ASSUME RmMayFail = FALSE, TypeOK, GoneInv, GoneInv', LockInv, InterruptCleansLock,
         [Next]_vars
  PROVE  InterruptCleansLock'
<1> USE DEF InterruptCleansLock, Interrupted, parentVars, signalVars, readerVars,
            helperVars, systemVars
<1>1. CASE ParentStep
  <2>1. ppc # "done" /\ UNCHANGED <<sticky, intr>>
    BY <1>1, ParentStepFrame
    DEF ParentStep, Spawn, TakeOverSignals, WritePlan, AnswerQuestion, ReceiveEvent,
        ReceiveQuestion, ReceiveResult, ReceiveError, ReceiveEof, ReceiveReadError,
        Receive, RecvTimeout, TryWait, Reap, ReapTimeout, Wait, StopSignalThread,
        JoinReader, Decide, CleanInterrupted, DropGuards, Goto
  <2>2. CASE Spawn
    <3>1. lock # "helper"
      BY <2>2 DEF Spawn, LockInv, HelperHolds, HelperPlace, HoldingPlaces
    <3>2. QED
      BY <2>2, <3>1 DEF Spawn
  <2>3. CASE DropGuards
    BY <2>1, <2>3 DEF DropGuards, RemoveDbLock, RmResults
  <2>4. CASE ppc' # "done"
    BY <2>4
  <2>5. ppc' = "done" => Spawn \/ DropGuards
    BY <1>1
    DEF ParentStep, TakeOverSignals, WritePlan, AnswerQuestion, Send, ReceiveEvent,
        ReceiveQuestion, ReceiveResult, ReceiveError, ReceiveEof, ReceiveReadError, Receive,
        RecvTimeout, TryWait, Reap, ReapTimeout, Wait, StopSignalThread, JoinReader, Decide,
        CleanInterrupted, AfterCommand, Goto
  <2>6. QED
    BY <2>2, <2>3, <2>4, <2>5
<1>2. CASE HelperStep
  BY <1>2, HelperStepFrame DEF GoneInv, Joined, helperFrame
<1>3. CASE ReaderStep \/ WrapperExits \/ Terminated \/ UNCHANGED vars
  BY <1>3 DEF ReaderStep, ReadLine, ReadEof, readerFrame, WrapperExits, Terminated, vars
<1>4. CASE OtherStep
  BY <1>4 DEF OtherStep, OtherLocks, OtherUnlocks, OtherCrashes, otherFrame
<1>5. CASE SignalThreadStep \/ Signal \/ ParentDies \/ SudoLoop
  BY <1>5 DEF SignalThreadStep, RegisterSignals, ForwardSignal, Signal, ParentDies, SudoLoop,
              signalFrame, ParentGone
<1>6. CASE Authenticate
  BY <1>6 DEF Authenticate, helperFrame
<1> QED
  BY <1>1, <1>2, <1>3, <1>4, <1>5, <1>6 DEF Next

\* An interrupted call that has returned leaves no lock of its helper behind.
THEOREM InterruptCleansLockHolds ==
  ASSUME RmMayFail = FALSE, KillReaches = FALSE
  PROVE  Spec => []InterruptCleansLock
<1>1. Init => InterruptCleansLock
  BY DEF Init, InterruptCleansLock
<1>2. TypeOK /\ GoneInv /\ GoneInv' /\ LockInv /\ InterruptCleansLock /\ [Next]_vars
      => InterruptCleansLock'
  BY InterruptStep
<1>3. QED
  BY <1>1, <1>2, TypeCorrect, GoneCorrect, LockCorrect, PTL DEF Spec

-----------------------------------------------------------------------------
(* The recovery removes db.lck only with the user's consent                *)

\* A yes on its way to the helper was typed by the user, and silence means no to
\* the question about the lock.
ConsentInv ==
  /\ cur.back = "lock" => cur.default = FALSE
  /\ \A i \in 1..Len(toHelper) :
       toHelper[i].t = "answer" /\ toHelper[i].yes => toHelper[i].n \in agreed

\* What the user said stays said, and only new lines need a look.
LEMMA ConsentKept ==
  ASSUME ConsentInv, UNCHANGED <<toHelper, cur>>, agreed \subseteq agreed'
  PROVE  ConsentInv'
BY DEF ConsentInv

LEMMA ParentConsent ==
  ASSUME TypeOK, ConsentInv, ParentStep
  PROVE  ConsentInv'
<1> USE DEF mainFrame, commandFrame, promptFrame, parentVars, signalVars, readerVars, helperVars,
            systemVars
<1>1. cur' = cur /\ toHelper \in Seq(Inputs)
  BY ParentStepFrame DEF TypeOK, PipeTypeOK
<1>2. ASSUME NEW input, Send(input), agreed \subseteq agreed',
             input.t = "answer" /\ input.yes => input.n \in agreed', input \in Inputs
      PROVE  ConsentInv'
  <2>1. CASE toHelper' = toHelper
    BY <1>1, <1>2, <2>1, ConsentKept
  <2>2. CASE toHelper' = Append(toHelper, input)
    <3>1. /\ Len(Append(toHelper, input)) = Len(toHelper) + 1 /\ Len(toHelper) \in Nat
          /\ \A i \in 1..Len(toHelper) : Append(toHelper, input)[i] = toHelper[i]
          /\ Append(toHelper, input)[Len(toHelper) + 1] = input
      BY <1>1, <1>2, AppendProperties
    <3>2. \A i \in 1..Len(Append(toHelper, input)) : i \in 1..Len(toHelper) \/ i = Len(toHelper) + 1
      BY <3>1
    <3>3. \A i \in 1..Len(Append(toHelper, input)) :
            \/ i \in 1..Len(toHelper) /\ Append(toHelper, input)[i] = toHelper[i]
            \/ Append(toHelper, input)[i] = input
      BY <3>1, <3>2
    <3> QED
      BY <1>1, <1>2, <2>2, <3>3 DEF ConsentInv
  <2> QED
    BY <1>2, <2>1, <2>2 DEF Send
<1>3. CASE WritePlan
  BY <1>2, <1>3 DEF WritePlan, Inputs
<1>4. CASE AnswerQuestion
  <2>1. PICK yes \in BOOLEAN :
          /\ Send([t |-> "answer", id |-> pending.id, n |-> pending.n, yes |-> yes])
          /\ agreed' = IF yes THEN agreed \cup {pending.n} ELSE agreed
    BY <1>4 DEF AnswerQuestion
  <2> DEFINE input == [t |-> "answer", id |-> pending.id, n |-> pending.n, yes |-> yes]
  <2>2. input \in Inputs /\ (input.yes => input.n \in agreed') /\ agreed \subseteq agreed'
    BY <2>1 DEF Inputs, Questions, TypeOK, ParentTypeOK
  <2>3. Send(input)
    BY <2>1
  <2> HIDE DEF input
  <2> QED
    BY <1>2, <2>2, <2>3
<1>5. CASE UNCHANGED <<toHelper, agreed>>
  BY <1>1, <1>5, ConsentKept
<1>6. WritePlan \/ AnswerQuestion \/ UNCHANGED <<toHelper, agreed>>
  BY DEF ParentStep, Spawn, TakeOverSignals, ReceiveEvent, ReceiveQuestion, ReceiveResult,
     ReceiveError, ReceiveEof, ReceiveReadError, Receive, RecvTimeout, TryWait, Reap, ReapTimeout,
     Wait, StopSignalThread, JoinReader, Decide, CleanInterrupted, DropGuards, Goto
<1> QED
  BY <1>3, <1>4, <1>5, <1>6

LEMMA HelperConsent ==
  ASSUME TypeOK, ConsentInv, HelperStep
  PROVE  ConsentInv'
<1>1. agreed' = agreed /\ toHelper \in Seq(Inputs)
  BY HelperStepFrame DEF helperFrame, parentVars, TypeOK, PipeTypeOK
<1>2. ASSUME toHelper' \in {toHelper, Tail(toHelper)}, toHelper' = toHelper \/ toHelper # <<>>,
             cur' \in {cur, NoQuestion} \/ cur'.back # "lock" \/ cur'.default = FALSE
      PROVE  ConsentInv'
  <2>1. cur'.back = "lock" => cur'.default = FALSE
    BY <1>2 DEF ConsentInv, NoQuestion
  <2>2. CASE toHelper' = toHelper
    BY <1>1, <2>1, <2>2 DEF ConsentInv
  <2>3. CASE toHelper' = Tail(toHelper) /\ toHelper # <<>>
    <3>1. /\ Len(Tail(toHelper)) = Len(toHelper) - 1 /\ Len(toHelper) \in Nat \ {0}
          /\ \A i \in 1..Len(Tail(toHelper)) : Tail(toHelper)[i] = toHelper[i + 1]
      BY <1>1, <2>3, HeadTailProperties, LenProperties, EmptySeq
    <3>2. \A i \in 1..Len(Tail(toHelper)) :
            i + 1 \in 1..Len(toHelper) /\ Tail(toHelper)[i] = toHelper[i + 1]
      BY <3>1
    <3> QED
      BY <1>1, <2>1, <2>3, <3>2 DEF ConsentInv
  <2> QED
    BY <1>2, <2>2, <2>3
<1>3. CASE ReadPlan \/ PlanEof \/ OpenAlpm \/ WriteReason \/ EndReason \/ EndRefresh
  BY <1>2, <1>3 DEF ReadPlan, PlanEof, OpenAlpm, WriteReason, EndReason, EndRefresh,
     HelperGoto, helperRest, Abort, Fail
<1>4. CASE RefreshDatabases \/ InitTransaction
  BY <1>2, <1>4 DEF RefreshDatabases, InitTransaction, TakeLock, LockFails, Abort, Fail
<1>5. CASE CheckLock
  <2>1. /\ toHelper' = toHelper
        /\ \/ cur' = cur
           \/ cur' = [id |-> lockId, n |-> asked + 1, back |-> "lock", default |-> FALSE]
    BY <1>5 DEF CheckLock, HelperGoto, helperRest, Abort
  <2>2. [id |-> lockId, n |-> asked + 1, back |-> "lock", default |-> FALSE].default = FALSE
    OBVIOUS
  <2> QED
    BY <1>2, <2>1, <2>2
<1>6. CASE RemoveStaleLock \/ Reopen \/ EmitEvent
  BY <1>2, <1>6 DEF RemoveStaleLock, Reopen, EmitEvent, HelperGoto, helperRest, Abort
<1>7. CASE AskCallback
  BY <1>2, <1>7 DEF AskCallback
<1>8. CASE TakeAnswer \/ AnswerLost
  BY <1>2, <1>8 DEF TakeAnswer, AnswerLost, Settle, helperRest
<1>9. CASE Resolve \/ Verify \/ CommitWrite \/ CommitEnd
  BY <1>2, <1>9 DEF Resolve, Verify, CommitWrite, CommitEnd, Finish, HelperGoto, helperRest, Abort
<1>10. CASE Unlock \/ Report \/ Exit
  BY <1>2, <1>10 DEF Unlock, Report, Exit, HelperGoto, helperRest
<1> QED
  BY <1>3, <1>4, <1>5, <1>6, <1>7, <1>8, <1>9, <1>10 DEF HelperStep

LEMMA OthersConsent ==
  ASSUME ConsentInv,
         ReaderStep \/ SignalThreadStep \/ Signal \/ ParentDies \/ SudoLoop \/ Authenticate
         \/ WrapperExits \/ OtherStep \/ Terminated \/ UNCHANGED vars
  PROVE  ConsentInv'
<1>1. UNCHANGED <<toHelper, cur, agreed>>
  BY DEF ReaderStep, ReadLine, ReadEof, readerFrame, SignalThreadStep, RegisterSignals,
     ForwardSignal, Signal, ParentDies, SudoLoop, signalFrame, Authenticate, helperFrame,
     WrapperExits, OtherStep, OtherLocks, OtherUnlocks, OtherCrashes, otherFrame, Terminated,
     vars, parentVars, helperVars
<1> QED
  BY <1>1, ConsentKept

\* Every yes on its way to the helper is the user's.
THEOREM ConsentCorrect == Spec => []ConsentInv
<1>1. Init => ConsentInv
  BY DEF Init, ConsentInv, NoQuestion
<1>2. TypeOK /\ ConsentInv /\ [Next]_vars => ConsentInv'
  BY ParentConsent, HelperConsent, OthersConsent DEF Next
<1> QED
  BY <1>1, <1>2, TypeCorrect, PTL DEF Spec

\* The steps that may take the helper to the removal of db.lck.
LEMMA RemovalEntered ==
  ASSUME TypeOK, [Next]_vars, hpc # "remove", hpc' = "remove"
  PROVE  CheckLock \/ TakeAnswer \/ AnswerLost
<1>1. HelperStep
  BY ParentStepFrame DEF Next, ReaderStep, ReadLine, ReadEof, readerFrame, SignalThreadStep,
     RegisterSignals, ForwardSignal, Signal, SignalHelper, ParentDies, SudoLoop, signalFrame,
     Authenticate, WrapperExits, OtherStep, OtherLocks, OtherUnlocks, OtherCrashes, otherFrame,
     Terminated, vars, helperVars
<1>2. site \in {"refresh", "init"}
  BY DEF TypeOK, HelperTypeOK
<1>3. ~ReadPlan /\ ~PlanEof /\ ~OpenAlpm /\ ~WriteReason /\ ~EndReason /\ ~EndRefresh
  BY DEF ReadPlan, PlanEof, OpenAlpm, FirstStep, WriteReason, EndReason, EndRefresh, HelperGoto,
     Abort, Fail
<1>4. ~RefreshDatabases /\ ~InitTransaction /\ ~RemoveStaleLock /\ ~Reopen
  BY <1>2 DEF RefreshDatabases, InitTransaction, TakeLock, LockFails, RemoveStaleLock, Reopen,
     Emit, Abort, Fail
<1>5. ~AskCallback /\ ~EmitEvent
  BY DEF AskCallback, EmitEvent, Emit
<1>6. ~Resolve /\ ~Verify /\ ~CommitWrite /\ ~CommitEnd /\ ~Unlock /\ ~Report /\ ~Exit
  BY DEF Resolve, Verify, CommitWrite, CommitEnd, Finish, Unlock, Report, Exit, HelperGoto,
     Abort, Fail, Emit
<1> QED
  BY <1>1, <1>3, <1>4, <1>5, <1>6 DEF HelperStep

\* The recovery goes on to remove db.lck only if there was no file when it looked,
\* or the user said yes to this very question, for all values of the constants.
THEOREM RemovalAgreedHolds == Spec => RemovalAgreed
<1> DEFINE Agreed == hpc # "remove" /\ hpc' = "remove" =>
                       \/ hpc = "check" /\ lock = "free"
                       \/ hpc = "wait" /\ cur.back = "lock" /\ cur.n \in agreed
<1>1. TypeOK /\ StepInv /\ ConsentInv /\ [Next]_vars => [Agreed]_vars
  <2> SUFFICES ASSUME TypeOK, StepInv, ConsentInv, [Next]_vars, hpc # "remove", hpc' = "remove"
               PROVE  \/ hpc = "check" /\ lock = "free"
                      \/ hpc = "wait" /\ cur.back = "lock" /\ cur.n \in agreed
    BY Zenon
  <2>1. CASE CheckLock
    BY <2>1 DEF CheckLock, Abort, Fail, Emit
  <2>2. ASSUME NEW yes, Settle(yes)
        PROVE  hpc = "wait" /\ cur.back = "lock" /\ yes
    <3>1. hpc = "wait" /\ cur.back \in {"lock", "update", "resolve", "commit"}
      BY <2>2 DEF Settle, TypeOK, HelperTypeOK, Questions
    <3> QED
      BY <2>2, <3>1 DEF Settle, Fail
  <2>3. CASE AnswerLost
    <3>1. Settle(cur.default)
      BY <2>3 DEF AnswerLost
    <3> QED
      BY <2>2, <3>1 DEF ConsentInv
  <2>4. CASE TakeAnswer
    <3>1. /\ hpc = "wait" /\ toHelper # <<>>
          /\ Head(toHelper).t = "answer" /\ Settle(Head(toHelper).yes)
      BY <2>4 DEF TakeAnswer
    <3>2. cur.back = "lock" /\ Head(toHelper).yes
      BY <2>2, <3>1
    <3>3. toHelper \in Seq(Inputs) /\ OneLine
      BY <3>1 DEF TypeOK, PipeTypeOK, StepInv, HelperDead
    <3>4. Head(toHelper) = toHelper[1] /\ 1 \in 1..Len(toHelper)
      BY <3>1, <3>3, HeadTailProperties, LenProperties, EmptySeq
    <3>5. toHelper[1].n = cur.n
      BY <3>1, <3>3 DEF OneLine
    <3> QED
      BY <3>1, <3>2, <3>4, <3>5 DEF ConsentInv
  <2> QED
    BY <2>1, <2>3, <2>4, RemovalEntered
<1> QED
  BY <1>1, TypeCorrect, StepCorrect, ConsentCorrect, PTL DEF Spec, RemovalAgreed

=============================================================================
