-------------------------- MODULE TxSession_proofs --------------------------
(***************************************************************************)
(* Theorems about TxSession, for every value of its constants.             *)
(***************************************************************************)
EXTENDS TxSession, SequenceTheorems, TLAPS

-----------------------------------------------------------------------------
(* Messages *)

\* Every message, input and question the session builds has its type.
LEMMA MessageType ==
  ASSUME NEW type \in {"event", "question", "result", "error", "eof", "ioerr"},
         NEW id \in Nat, NEW n \in Nat, NEW long \in BOOLEAN
  PROVE  Message(type, id, n, long) \in Messages
BY DEF Message, Messages

LEMMA LengthsType == Lengths \subseteq BOOLEAN
BY DEF Lengths

-----------------------------------------------------------------------------
(* Type correctness *)

LEMMA InitType == Init => TypeOK
<1> SUFFICES ASSUME Init PROVE TypeOK
  OBVIOUS
<1>1. NoQuestion \in Questions
  BY DEF NoQuestion, Questions
<1>2. ParentTypeOK
  BY <1>1, SessionAssumption DEF Init, ParentTypeOK, ParentPlaces
<1>3. PipeTypeOK
  BY DEF Init, PipeTypeOK
<1>4. HelperTypeOK
  <2>1. hpc \in HelperPlaces /\ hpc # "wait"
    BY DEF Init, HelperPlaces
  <2>2. nextId \in Nat \ {0} /\ lockId \in Nat /\ asked \in Nat /\ events \in Nat
    BY DEF Init, LockIdBase
  <2>3. hres = "none" /\ site = "init" /\ tried = FALSE /\ cur = NoQuestion
    BY DEF Init
  <2>4. QED
    BY <1>1, <2>1, <2>2, <2>3 DEF HelperTypeOK
<1>5. SystemTypeOK
  BY DEF Init, SystemTypeOK
<1> QED
  BY <1>2, <1>3, <1>4, <1>5 DEF TypeOK

LEMMA ParentStepType ==
  ASSUME TypeOK, ParentStep
  PROVE  TypeOK'
<1> USE DEF TypeOK, ParentTypeOK, PipeTypeOK, HelperTypeOK, SystemTypeOK,
            mainFrame, commandFrame, promptFrame, parentVars, signalVars, readerVars, helperVars, systemVars
<1>1. CASE Spawn
  BY <1>1 DEF Spawn, ParentPlaces, HelperPlaces
<1>2. ASSUME NEW here \in ParentPlaces, NEW next \in ParentPlaces, Goto(here, next)
      PROVE  TypeOK'
  BY <1>2 DEF Goto
<1>3. CASE TakeOverSignals
  <2>1. ppc' = "write" /\ defaults' = FALSE
        /\ UNCHANGED <<commandFrame, perr, code, outcome, pending, readerVars, toHelper,
                       wrapper, lock>>
    BY <1>3 DEF TakeOverSignals
  <2>2. ParentTypeOK'
    BY <2>1 DEF ParentPlaces
  <2>3. PipeTypeOK' /\ SystemTypeOK'
    BY <2>1
  <2>4. HelperTypeOK'
    BY <2>1
  <2>5. QED
    BY <2>2, <2>3, <2>4
<1>4. ASSUME NEW input \in Inputs, Send(input), pending' \in Questions, agreed' \subseteq Nat
      PROVE  TypeOK'
  <2>1. Append(toHelper, input) \in Seq(Inputs)
    BY <1>4, AppendProperties
  <2>2. /\ ppc' \in ParentPlaces /\ toHelper' \in Seq(Inputs)
        /\ UNCHANGED <<promptFrame, defaults, perr, code, outcome, readerVars, wrapper, lock>>
    BY <1>4, <2>1 DEF Send, ParentPlaces
  <2>3. ParentTypeOK'
    BY <1>4, <2>2
  <2>4. PipeTypeOK' /\ HelperTypeOK' /\ SystemTypeOK'
    BY <2>2
  <2>5. QED
    BY <2>3, <2>4
<1>5. CASE WritePlan
  BY <1>4, <1>5 DEF WritePlan, Inputs
<1>6. CASE AnswerQuestion
  <2>1. PICK yes \in BOOLEAN :
          Send([t |-> "answer", id |-> pending.id, n |-> pending.n, yes |-> yes])
    BY <1>6 DEF AnswerQuestion
  <2>2. [t |-> "answer", id |-> pending.id, n |-> pending.n, yes |-> yes] \in Inputs
    BY DEF Inputs, Questions
  <2>3. pending' \in Questions /\ agreed' \subseteq Nat
    BY <1>6 DEF AnswerQuestion, NoQuestion, Questions
  <2>4. QED
    BY <1>4, <2>1, <2>2, <2>3
<1>7. ASSUME NEW type, NEW next \in ParentPlaces, Receive(type, next),
             pending' \in Questions, perr' \in {"none", "helper", "read"},
             code' \in {"none", "zero"}
      PROVE  TypeOK'
  <2>1. Tail(chan) \in Seq(Messages)
    BY <1>7, HeadTailProperties DEF Receive
  <2>2. QED
    BY <1>7, <2>1 DEF Receive
<1>8. CASE ReceiveEvent
  BY <1>7, <1>8 DEF ReceiveEvent, ParentPlaces
<1>9. CASE ReceiveQuestion
  <2>1. Head(chan) \in Messages
    BY <1>9, HeadTailProperties DEF ReceiveQuestion, Receive
  <2>2. pending' \in Questions
    BY <1>9, <2>1 DEF ReceiveQuestion, NoQuestion, Questions, Messages
  <2>3. QED
    BY <1>7, <1>9, <2>2 DEF ReceiveQuestion, ParentPlaces
<1>10. CASE ReceiveResult \/ ReceiveError \/ ReceiveEof \/ ReceiveReadError
  BY <1>7, <1>10 DEF ReceiveResult, ReceiveError, ReceiveEof, ReceiveReadError, ParentPlaces
<1>11. CASE RecvTimeout \/ TryWait \/ Reap \/ Wait \/ JoinReader
  BY <1>2, <1>11 DEF RecvTimeout, TryWait, Reap, Wait, JoinReader, ParentPlaces
<1>12. CASE ReapTimeout
  BY <1>12 DEF ReapTimeout, ParentPlaces
<1>13. CASE StopSignalThread
  BY <1>13 DEF StopSignalThread, ParentPlaces
<1>14. CASE Decide
  BY <1>14 DEF Decide, Verdict, ParentPlaces
<1>15. CASE CleanInterrupted
  BY <1>15 DEF CleanInterrupted, RemoveDbLock, AfterCommand, ParentPlaces
<1>16. CASE DropGuards
  <2>1. ppc' \in {"dead", "done"} /\ defaults' \in BOOLEAN /\ lock' \in {lock, "free"}
    BY <1>16 DEF DropGuards, RemoveDbLock, AfterCommand
  <2>2. UNCHANGED <<commandFrame, perr, code, outcome, pending, readerVars, toHelper, wrapper>>
    BY <1>16 DEF DropGuards
  <2>3. QED
    BY <2>1, <2>2 DEF ParentPlaces
<1> QED
  BY <1>1, <1>3, <1>5, <1>6, <1>8, <1>9, <1>10, <1>11, <1>12, <1>13, <1>14, <1>15, <1>16
  DEF ParentStep

LEMMA OtherThreadsType ==
  ASSUME TypeOK, ReaderStep \/ SignalThreadStep \/ Signal \/ ParentDies \/ SudoLoop
                 \/ Authenticate \/ WrapperExits \/ OtherStep \/ Terminated
  PROVE  TypeOK'
<1> USE DEF TypeOK, ParentTypeOK, PipeTypeOK, HelperTypeOK, SystemTypeOK,
            helperFrame, parentVars, signalVars, readerVars, helperVars, systemVars
<1>1. CASE ReadLine
  <2>1. Head(pipe) \in Messages /\ Tail(pipe) \in Seq(Messages)
    BY <1>1, HeadTailProperties DEF ReadLine
  <2>2. Message("ioerr", 0, 0, FALSE) \in Messages
    BY MessageType
  <2>3. /\ Append(chan, Head(pipe)) \in Seq(Messages)
        /\ Append(chan, Message("ioerr", 0, 0, FALSE)) \in Seq(Messages)
    BY <2>1, <2>2, AppendProperties
  <2>4. QED
    <3>1. chan' \in Seq(Messages) /\ pipe' \in Seq(Messages)
          /\ reader' \in {"running", "stopped"}
      BY <1>1, <2>1, <2>3 DEF ReadLine
    <3>2. UNCHANGED readerFrame
      BY <1>1 DEF ReadLine
    <3>3. QED
      BY <3>1, <3>2 DEF readerFrame
<1>2. CASE ReadEof
  <2>1. Message("eof", 0, 0, FALSE) \in Messages
    BY MessageType
  <2>2. Append(chan, Message("eof", 0, 0, FALSE)) \in Seq(Messages)
    BY <2>1, AppendProperties
  <2>3. QED
    <3>1. chan' \in Seq(Messages) /\ reader' = "stopped"
      BY <1>2, <2>2 DEF ReadEof
    <3>2. UNCHANGED <<readerFrame, pipe>>
      BY <1>2 DEF ReadEof
    <3>3. QED
      BY <3>1, <3>2 DEF readerFrame
<1>3. ASSUME UNCHANGED signalFrame, ppc' \in {ppc, "dead"}, hpc' \in {hpc, "killed"},
             sticky' \in BOOLEAN, caught' \in BOOLEAN, defaults' \in BOOLEAN,
             intr' \in BOOLEAN, sigThread' \in {sigThread, "polling", "stopped"},
             signals' \in Nat
      PROVE  TypeOK'
  <2>1. ParentTypeOK'
    BY <1>3 DEF signalFrame, ParentPlaces
  <2>2. PipeTypeOK'
    BY <1>3 DEF signalFrame
  <2>3. HelperTypeOK'
    BY <1>3 DEF signalFrame, HelperPlaces
  <2>4. SystemTypeOK'
    BY <1>3 DEF signalFrame
  <2>5. QED
    BY <2>1, <2>2, <2>3, <2>4
<1>4. CASE Signal
  <2>1. hpc' \in {hpc, "killed"} /\ ppc' \in {ppc, "dead"}
    BY <1>4 DEF Signal, SignalHelper
  <2>2. signals' \in Nat
    BY <1>4 DEF Signal
  <2>3. sticky' \in BOOLEAN /\ caught' \in BOOLEAN
    <3>1. CASE defaults
      BY <1>4, <3>1 DEF Signal
    <3>2. CASE ~defaults
      <4>1. sticky' = TRUE /\ caught' \in IF sigThread = "new" THEN BOOLEAN ELSE {TRUE}
        BY <1>4, <3>2 DEF Signal
      <4>2. QED
        BY <4>1
    <3>3. QED
      BY <3>1, <3>2
  <2>4. UNCHANGED <<signalFrame, defaults, intr, sigThread>>
    BY <1>4 DEF Signal
  <2>5. QED
    BY <1>3, <2>1, <2>2, <2>3, <2>4
<1>5. CASE RegisterSignals \/ ForwardSignal
  <2>1. hpc' \in {hpc, "killed"}
    BY <1>5 DEF RegisterSignals, ForwardSignal, SignalHelper
  <2>2. /\ UNCHANGED <<signalFrame, ppc, sticky, defaults, signals>>
        /\ caught' \in BOOLEAN /\ intr' \in BOOLEAN
        /\ sigThread' \in {"polling", "stopped"}
    BY <1>5 DEF RegisterSignals, ForwardSignal
  <2>3. QED
    BY <1>3, <2>1, <2>2
<1>6. CASE ParentDies \/ SudoLoop
  <2>1. /\ ppc' \in {ppc, "dead"} /\ defaults' \in BOOLEAN
        /\ UNCHANGED <<signalFrame, sticky, caught, intr, sigThread, signals, hpc>>
    BY <1>6 DEF ParentDies, SudoLoop
  <2>2. QED
    BY <1>3, <2>1
<1>7. CASE Authenticate
  BY <1>7 DEF Authenticate, HelperPlaces
<1>8. CASE WrapperExits
  BY <1>8 DEF WrapperExits
<1>9. CASE OtherLocks \/ OtherUnlocks \/ OtherCrashes
  <2>1. /\ lock' \in {lock, "free", "other"} /\ other' \in {"idle", "busy", "crashed"}
        /\ UNCHANGED otherFrame
    BY <1>9 DEF OtherLocks, OtherUnlocks, OtherCrashes
  <2>2. QED
    BY <2>1 DEF otherFrame
<1>10. CASE Terminated
  BY <1>10 DEF Terminated, vars
<1> QED
  BY <1>1, <1>2, <1>3, <1>4, <1>5, <1>6, <1>7, <1>8, <1>9, <1>10
  DEF ReaderStep, SignalThreadStep, OtherStep

LEMMA HelperStepType ==
  ASSUME TypeOK, HelperStep
  PROVE  TypeOK'
<1> USE DEF TypeOK, ParentTypeOK, PipeTypeOK, HelperTypeOK, SystemTypeOK, helperFrame,
            helperRest, parentVars, signalVars, readerVars, helperVars, systemVars
<1>1. ASSUME NEW next \in HelperPlaces \ {"wait"}, HelperGoto(next)
      PROVE  TypeOK'
  BY <1>1 DEF HelperGoto
<1>2. ASSUME Abort
      PROVE  TypeOK'
  BY <1>2 DEF Abort, Fail, HelperPlaces
<1>3. ASSUME NEW message \in Messages, NEW next \in HelperPlaces, Emit(message, next)
      PROVE  hpc' \in {next, "killed"} /\ pipe' \in Seq(Messages)
  <2>1. Append(pipe, message) \in Seq(Messages)
    BY <1>3, AppendProperties
  <2>2. QED
    BY <1>3, <2>1 DEF Emit, HelperPlaces
<1>4. ASSUME NEW effect \in {"untouched", "partial", "applied", "nothing"},
             NEW result \in {"ok", "err"}, Finish(result, effect)
      PROVE  TypeOK'
  BY <1>4 DEF Finish, HelperPlaces
<1>5. CASE ReadPlan
  <2>1. Tail(toHelper) \in Seq(Inputs)
    BY <1>5, HeadTailProperties DEF ReadPlan
  <2>2. QED
    BY <1>5, <2>1 DEF ReadPlan, HelperPlaces
<1>6. CASE PlanEof \/ OpenAlpm \/ Exit
  BY <1>1, <1>2, <1>6 DEF PlanEof, OpenAlpm, FirstStep, Exit, HelperPlaces
<1>7. CASE WriteReason
  BY <1>7 DEF WriteReason
<1>8. CASE EndReason
  BY <1>2, <1>8 DEF EndReason, HelperPlaces
<1>9. CASE RefreshDatabases \/ InitTransaction
  <2>1. ASSUME NEW here \in {"refresh", "init"}, NEW got \in {"update", "resolve"},
               TakeLock(here, got)
        PROVE  TypeOK'
    <3>1. /\ hpc' \in {got, "check"} /\ site' \in {site, here} /\ lock' \in {lock, "helper"}
          /\ UNCHANGED <<helperFrame, hres, tried, nextId, lockId, cur, asked, events, pipe,
                         toHelper, db>>
      BY <2>1 DEF TakeLock
    <3>2. QED
      BY <3>1 DEF HelperPlaces
  <2>2. QED
    BY <1>2, <1>9, <2>1 DEF RefreshDatabases, InitTransaction, LockFails
<1>10. CASE EndRefresh
  BY <1>2, <1>10 DEF EndRefresh, HelperPlaces
<1>11. CASE CheckLock
  <2>1. Message("question", lockId, asked + 1, FALSE) \in Messages
    <3>1. lockId \in Nat /\ asked + 1 \in Nat
      OBVIOUS
    <3>2. QED
      BY <3>1, MessageType
  <2>2. [id |-> lockId, n |-> asked + 1, back |-> "lock", default |-> FALSE] \in Questions
    BY DEF Questions
  <2>3. CASE (lock = "free" /\ HelperGoto("remove")) \/ Abort
    BY <1>1, <1>2, <2>3 DEF HelperPlaces
  <2>4. CASE Emit(Message("question", lockId, asked + 1, FALSE), "wait")
    <3>1. hpc' \in HelperPlaces /\ pipe' \in Seq(Messages)
      BY <1>3, <2>1, <2>4 DEF HelperPlaces
    <3>2. CASE HelperGoto("remove")
      BY <1>1, <3>2 DEF HelperPlaces
    <3>3. CASE Abort
      BY <1>2, <3>3
    <3>4. CASE cur' = [id |-> lockId, n |-> asked + 1, back |-> "lock", default |-> FALSE]
               /\ lockId' = lockId + 1 /\ asked' = asked + 1
               /\ UNCHANGED <<helperFrame, hres, site, tried, nextId, events, toHelper,
                              lock, db>>
      BY <2>2, <3>1, <3>4
    <3>5. QED
      BY <1>11, <3>2, <3>3, <3>4 DEF CheckLock
  <2>5. QED
    BY <1>11, <2>3, <2>4 DEF CheckLock
<1>12. CASE RemoveStaleLock
  BY <1>2, <1>12 DEF RemoveStaleLock, HelperPlaces
<1>13. CASE Reopen
  <2>1. Message("event", 0, 0, FALSE) \in Messages
    BY MessageType
  <2>2. site \in HelperPlaces
    BY DEF HelperPlaces
  <2>3. hpc' \in {site, "report", "killed"} /\ pipe' \in Seq(Messages)
        /\ hres' \in {hres, "err"}
    BY <1>3, <1>13, <2>1, <2>2 DEF Reopen, HelperPlaces
  <2>4. /\ tried' = TRUE /\ nextId' = 1
        /\ UNCHANGED <<helperFrame, site, lockId, cur, asked, events, toHelper, lock, db>>
    BY <1>13 DEF Reopen
  <2>5. QED
    BY <2>3, <2>4 DEF HelperPlaces
<1>14. CASE AskCallback
  <2>1. PICK long \in Lengths :
          Emit(Message("question", nextId, asked + 1, long), "wait")
    BY <1>14 DEF AskCallback
  <2>2. Message("question", nextId, asked + 1, long) \in Messages
    BY MessageType, LengthsType
  <2>3. [id |-> nextId, n |-> asked + 1, back |-> hpc, default |-> TRUE] \in Questions
    BY <1>14 DEF Questions, AskCallback
  <2>4. hpc' \in HelperPlaces /\ pipe' \in Seq(Messages)
    BY <1>3, <2>1, <2>2 DEF HelperPlaces
  <2>5. QED
    BY <1>14, <2>3, <2>4 DEF AskCallback
<1>15. ASSUME NEW yes \in BOOLEAN, Settle(yes), toHelper' \in Seq(Inputs)
       PROVE  TypeOK'
  <2>1. NoQuestion \in Questions
    BY DEF NoQuestion, Questions
  <2>2. cur.back \in {"lock", "update", "resolve", "commit"}
    BY <1>15 DEF Questions, Settle
  <2>3. QED
    BY <1>15, <2>1, <2>2 DEF Settle, Fail, HelperPlaces
<1>16. CASE TakeAnswer
  <2>1. Head(toHelper) \in Inputs /\ Tail(toHelper) \in Seq(Inputs)
    BY <1>16, HeadTailProperties DEF TakeAnswer
  <2>2. CASE Settle(Head(toHelper).yes)
    BY <1>15, <1>16, <2>1, <2>2 DEF TakeAnswer, Inputs
  <2>3. CASE ~Settle(Head(toHelper).yes)
    <3>1. /\ toHelper' = Tail(toHelper)
          /\ UNCHANGED <<helperFrame, hpc, helperRest, pipe, lock, db>>
      BY <1>16, <2>3 DEF TakeAnswer
    <3>2. QED
      BY <2>1, <3>1
  <2>4. QED
    BY <2>2, <2>3
<1>17. CASE AnswerLost
  BY <1>15, <1>17 DEF AnswerLost, Questions
<1>18. CASE EmitEvent
  <2>1. PICK long \in Lengths : Emit(Message("event", 0, 0, long), hpc)
    BY <1>18 DEF EmitEvent
  <2>2. Message("event", 0, 0, long) \in Messages
    BY MessageType, LengthsType
  <2>3. hpc' \in {hpc, "killed"} /\ pipe' \in Seq(Messages)
    BY <1>3, <2>1, <2>2
  <2>4. QED
    BY <1>18, <2>3 DEF EmitEvent, HelperPlaces
<1>19. CASE Resolve \/ Verify
  BY <1>1, <1>2, <1>4, <1>19 DEF Resolve, Verify, HelperPlaces
<1>20. CASE CommitWrite
  BY <1>20 DEF CommitWrite
<1>21. CASE CommitEnd
  BY <1>4, <1>21 DEF CommitEnd
<1>22. CASE Unlock
  BY <1>22 DEF Unlock, HelperPlaces
<1>23. CASE Report
  <2>1. Message(IF hres = "ok" THEN "result" ELSE "error", 0, 0, FALSE) \in Messages
    BY MessageType
  <2>2. hpc' \in {"leave", "killed"} /\ pipe' \in Seq(Messages)
    BY <1>3, <1>23, <2>1 DEF Report, HelperPlaces
  <2>3. QED
    BY <1>23, <2>2 DEF Report, HelperPlaces
<1> QED
  BY <1>5, <1>6, <1>7, <1>8, <1>9, <1>10, <1>11, <1>12, <1>13, <1>14, <1>16, <1>17,
     <1>18, <1>19, <1>20, <1>21, <1>22, <1>23
  DEF HelperStep

\* Every variable keeps its type.
THEOREM TypeCorrect == Spec => []TypeOK
<1>1. TypeOK /\ [Next]_vars => TypeOK'
  <2> SUFFICES ASSUME TypeOK, [Next]_vars PROVE TypeOK'
    OBVIOUS
  <2>1. CASE UNCHANGED vars
    BY <2>1 DEF vars, TypeOK, ParentTypeOK, PipeTypeOK, HelperTypeOK, SystemTypeOK,
       parentVars, signalVars, readerVars, helperVars, systemVars
  <2>2. CASE Next
    BY <2>2, ParentStepType, OtherThreadsType, HelperStepType DEF Next
  <2>3. QED
    BY <2>1, <2>2
<1>2. QED
  BY InitType, <1>1, PTL DEF Spec

-----------------------------------------------------------------------------
(* What the steps of each process leave alone *)

\* The main thread does not touch the database, and it ends the helper only by
\* failing to start it.
LEMMA ParentStepFrame ==
  ASSUME ParentStep
  PROVE  /\ UNCHANGED <<plan, pipe, hres, cur, db, other, sticky, caught, intr, signals>>
         /\ hpc' = hpc \/ (ppc = "spawn" /\ ppc' = "done" /\ hpc' = "exited")
<1> USE DEF mainFrame, commandFrame, promptFrame, parentVars, signalVars, readerVars, helperVars, systemVars
<1>1. CASE Spawn
  BY <1>1 DEF Spawn
<1>2. CASE TakeOverSignals \/ RecvTimeout \/ TryWait \/ Reap \/ Wait \/ JoinReader
  BY <1>2 DEF TakeOverSignals, RecvTimeout, TryWait, Reap, Wait, JoinReader, Goto
<1>3. CASE WritePlan
  BY <1>3 DEF WritePlan, Send
<1>4. CASE AnswerQuestion
  BY <1>4 DEF AnswerQuestion, Send
<1>5. CASE ReceiveEvent \/ ReceiveQuestion \/ ReceiveResult \/ ReceiveError \/ ReceiveEof
           \/ ReceiveReadError
  BY <1>5 DEF ReceiveEvent, ReceiveQuestion, ReceiveResult, ReceiveError, ReceiveEof,
              ReceiveReadError, Receive
<1>6. CASE ReapTimeout \/ StopSignalThread \/ Decide
  BY <1>6 DEF ReapTimeout, StopSignalThread, Decide
<1>7. CASE CleanInterrupted \/ DropGuards
  BY <1>7 DEF CleanInterrupted, DropGuards
<1> QED
  BY <1>1, <1>2, <1>3, <1>4, <1>5, <1>6, <1>7 DEF ParentStep

\* The helper's steps leave the parent alone, and a dead helper takes none.
LEMMA HelperStepFrame ==
  ASSUME HelperStep
  PROVE  UNCHANGED helperFrame /\ ~HelperDead
<1>1. CASE ReadPlan \/ PlanEof \/ OpenAlpm \/ WriteReason \/ EndReason \/ EndRefresh
  BY <1>1 DEF ReadPlan, PlanEof, OpenAlpm, WriteReason, EndReason, EndRefresh,
              HelperGoto, Abort, Fail, HelperDead
<1>2. CASE RefreshDatabases \/ InitTransaction
  BY <1>2 DEF RefreshDatabases, InitTransaction, TakeLock, LockFails, Abort, Fail, HelperDead
<1>3. CASE CheckLock \/ RemoveStaleLock \/ Reopen
  BY <1>3 DEF CheckLock, RemoveStaleLock, Reopen, HelperGoto, Abort, Fail, HelperDead
<1>4. CASE AskCallback \/ EmitEvent
  BY <1>4 DEF AskCallback, EmitEvent, HelperDead
<1>5. CASE TakeAnswer
  BY <1>5 DEF TakeAnswer, Settle, Fail, HelperDead
<1>6. CASE AnswerLost
  BY <1>6 DEF AnswerLost, Settle, Fail, HelperDead
<1>7. CASE Resolve \/ Verify \/ CommitWrite \/ CommitEnd
  BY <1>7 DEF Resolve, Verify, CommitWrite, CommitEnd, Finish, HelperGoto, Abort, Fail,
              HelperDead
<1>8. CASE Unlock \/ Report \/ Exit
  BY <1>8 DEF Unlock, Report, Exit, HelperGoto, HelperDead
<1> QED
  BY <1>1, <1>2, <1>3, <1>4, <1>5, <1>6, <1>7, <1>8 DEF HelperStep

-----------------------------------------------------------------------------
(* Success is reported only for a plan that was carried out *)

Finished == {"unlock", "report", "leave", "exited", "killed"}

Done == db \in {"applied", "nothing"}

NoResultIn(queue) == \A i \in 1..Len(queue) : queue[i].t # "result"

\* A successful result exists, at the helper or on its way, only when the plan is
\* done and the helper will not touch the database again.
ResultInv ==
  /\ hres = "ok" => hpc \in Finished /\ Done
  /\ hres # "ok" => NoResultIn(pipe) /\ NoResultIn(chan)
                    /\ code = "none" /\ outcome # "ok"

\* A message other than the result does not put a result on its way.
LEMMA AppendNoResult ==
  ASSUME NEW queue \in Seq(Messages), NoResultIn(queue),
         NEW message \in Messages, message.t # "result"
  PROVE  NoResultIn(Append(queue, message))
BY AppendProperties DEF NoResultIn

LEMMA TailNoResult ==
  ASSUME NEW queue \in Seq(Messages), NoResultIn(queue), queue # <<>>
  PROVE  NoResultIn(Tail(queue)) /\ Head(queue).t # "result"
BY HeadTailProperties DEF NoResultIn

LEMMA MessageKind ==
  ASSUME NEW type \in {"event", "question", "result", "error", "eof", "ioerr"},
         NEW id \in Nat, NEW n \in Nat, NEW long \in BOOLEAN
  PROVE  Message(type, id, n, long).t = type
BY DEF Message

\* Before it is finished, the helper sends events and questions only, and claims
\* success only when the plan is done.
LEMMA WorkingStep ==
  ASSUME TypeOK, HelperStep, hpc \notin Finished, NoResultIn(pipe)
  PROVE  /\ NoResultIn(pipe')
         /\ hres' = "ok" => hres = "ok" \/ (hpc' \in Finished /\ Done')
<1> USE DEF Finished
<1>1. ASSUME NEW next, HelperGoto(next)
      PROVE  hres' = hres /\ pipe' = pipe
  BY <1>1 DEF HelperGoto, helperRest
<1>2. ASSUME Abort
      PROVE  hres' = "err" /\ pipe' = pipe
  BY <1>2 DEF Abort, Fail
<1>3. ASSUME NEW message \in Messages, message.t # "result", NEW next, Emit(message, next)
      PROVE  NoResultIn(pipe')
  <2>1. pipe \in Seq(Messages)
    BY DEF TypeOK, PipeTypeOK
  <2>2. NoResultIn(Append(pipe, message))
    BY <1>3, <2>1, AppendNoResult
  <2>3. QED
    BY <1>3, <2>2 DEF Emit
<1>4. ASSUME NEW id \in Nat, NEW n \in Nat, NEW long \in BOOLEAN, NEW next,
             NEW type \in {"event", "question"}, Emit(Message(type, id, n, long), next)
      PROVE  NoResultIn(pipe')
  <2>1. Message(type, id, n, long) \in Messages /\ Message(type, id, n, long).t # "result"
    BY MessageType, MessageKind
  <2>2. QED
    BY <1>3, <1>4, <2>1
<1>5. CASE ReadPlan \/ WriteReason \/ CommitWrite \/ RemoveStaleLock
  BY <1>2, <1>5 DEF ReadPlan, WriteReason, CommitWrite, RemoveStaleLock, helperRest
<1>6. CASE PlanEof \/ OpenAlpm \/ Exit
  BY <1>1, <1>2, <1>6 DEF PlanEof, OpenAlpm, Exit
<1>7. CASE EndReason
  BY <1>2, <1>7 DEF EndReason, Done
<1>8. CASE RefreshDatabases \/ InitTransaction
  BY <1>2, <1>8 DEF RefreshDatabases, InitTransaction, TakeLock, LockFails
<1>9. CASE EndRefresh
  BY <1>2, <1>9 DEF EndRefresh
<1>10. CASE CheckLock
  <2>1. CASE HelperGoto("remove") \/ Abort
    BY <1>1, <1>2, <2>1
  <2>2. CASE Emit(Message("question", lockId, asked + 1, FALSE), "wait") /\ hres' = hres
    <3>1. lockId \in Nat /\ asked + 1 \in Nat
      BY DEF TypeOK, HelperTypeOK
    <3>2. QED
      BY <1>4, <2>2, <3>1
  <2>3. QED
    BY <1>10, <2>1, <2>2 DEF CheckLock
<1>11. CASE Reopen
  <2>1. NoResultIn(pipe')
    BY <1>4, <1>11 DEF Reopen
  <2>2. QED
    BY <1>11, <2>1 DEF Reopen
<1>12. CASE AskCallback
  <2>1. PICK long \in Lengths :
          Emit(Message("question", nextId, asked + 1, long), "wait")
    BY <1>12 DEF AskCallback
  <2>2. nextId \in Nat /\ asked + 1 \in Nat
    BY DEF TypeOK, HelperTypeOK
  <2>3. NoResultIn(pipe')
    BY <1>4, <2>1, <2>2, LengthsType
  <2>4. QED
    BY <1>12, <2>3 DEF AskCallback
<1>13. ASSUME NEW yes, Settle(yes)
       PROVE  pipe' = pipe /\ hres' \in {hres, "err"}
  BY <1>13 DEF Settle, Fail
<1>14. CASE TakeAnswer
  <2>1. CASE Settle(Head(toHelper).yes)
    BY <1>13, <2>1
  <2>2. CASE ~Settle(Head(toHelper).yes)
    BY <1>14, <2>2 DEF TakeAnswer, helperRest
  <2>3. QED
    BY <2>1, <2>2
<1>15. CASE AnswerLost
  BY <1>13, <1>15 DEF AnswerLost
<1>16. CASE EmitEvent
  <2>1. PICK long \in Lengths : Emit(Message("event", 0, 0, long), hpc)
    BY <1>16 DEF EmitEvent
  <2>2. NoResultIn(pipe')
    BY <1>4, <2>1, LengthsType
  <2>3. QED
    BY <1>16, <2>2 DEF EmitEvent
<1>17. CASE Resolve \/ Verify \/ CommitEnd
  BY <1>1, <1>2, <1>17 DEF Resolve, Verify, CommitEnd, Finish, Done
<1>18. CASE Unlock \/ Report
  BY <1>18 DEF Unlock, Report
<1> QED
  BY <1>5, <1>6, <1>7, <1>8, <1>9, <1>10, <1>11, <1>12, <1>14, <1>15, <1>16, <1>17, <1>18
  DEF HelperStep

\* Once it is finished, the helper keeps its result and the database.
LEMMA FinishedStep ==
  ASSUME HelperStep, hpc \in Finished
  PROVE  /\ UNCHANGED <<hres, db, lockId, nextId, cur>>
         /\ hpc' \in Finished
         /\ \/ pipe' = pipe
            \/ pipe' = Append(pipe, Message(IF hres = "ok" THEN "result" ELSE "error",
                                            0, 0, FALSE))
<1>1. Unlock \/ Report \/ Exit
  BY HelperStepFrame
  DEF HelperStep, Finished, ReadPlan, PlanEof, OpenAlpm, WriteReason, EndReason,
      RefreshDatabases, InitTransaction, TakeLock, LockFails, EndRefresh, CheckLock,
      RemoveStaleLock, Reopen, AskCallback, TakeAnswer, AnswerLost, Settle, EmitEvent,
      Resolve, Verify, CommitWrite, CommitEnd
<1>2. QED
  BY <1>1 DEF Unlock, Report, Exit, Emit, HelperGoto, helperRest, Finished

LEMMA HelperResult ==
  ASSUME TypeOK, ResultInv, HelperStep
  PROVE  ResultInv'
<1>1. UNCHANGED <<chan, code, outcome>>
  BY HelperStepFrame DEF helperFrame, readerVars, parentVars
<1>2. CASE hpc \in Finished
  <2>1. hres # "ok" => NoResultIn(pipe')
    <3>1. Message("error", 0, 0, FALSE) \in Messages
          /\ Message("error", 0, 0, FALSE).t = "error"
      BY MessageType, MessageKind
    <3>2. pipe \in Seq(Messages)
      BY DEF TypeOK, PipeTypeOK
    <3>3. hres # "ok" => NoResultIn(Append(pipe, Message("error", 0, 0, FALSE)))
      BY <3>1, <3>2, AppendNoResult DEF ResultInv
    <3>4. QED
      BY <1>2, <3>3, FinishedStep DEF ResultInv
  <2>2. QED
    BY <1>1, <1>2, <2>1, FinishedStep DEF ResultInv, Done, NoResultIn
<1>3. CASE hpc \notin Finished
  BY <1>1, <1>3, WorkingStep DEF ResultInv, Done, NoResultIn
<1>4. QED
  BY <1>2, <1>3

LEMMA ParentResult ==
  ASSUME TypeOK, ResultInv, ParentStep
  PROVE  ResultInv'
<1>1. /\ UNCHANGED <<hres, db, pipe>>
      /\ hpc \in Finished => hpc' \in Finished
  BY ParentStepFrame DEF Finished
<1>2. ASSUME hres # "ok"
      PROVE  NoResultIn(chan') /\ code' = "none" /\ outcome' # "ok"
  <2> USE DEF mainFrame, commandFrame, promptFrame, parentVars, signalVars, readerVars, helperVars, systemVars
  <2>1. NoResultIn(chan) /\ code = "none" /\ outcome # "ok" /\ chan \in Seq(Messages)
    BY <1>2 DEF ResultInv, TypeOK, PipeTypeOK
  <2>2. ASSUME NEW type, NEW next, Receive(type, next)
        PROVE  NoResultIn(chan') /\ outcome' # "ok" /\ type # "result"
    BY <2>1, <2>2, TailNoResult DEF Receive
  <2>3. CASE ReceiveEvent \/ ReceiveQuestion \/ ReceiveResult \/ ReceiveError
             \/ ReceiveEof \/ ReceiveReadError
    BY <2>1, <2>2, <2>3 DEF ReceiveEvent, ReceiveQuestion, ReceiveResult, ReceiveError,
                            ReceiveEof, ReceiveReadError
  <2>4. CASE Spawn
    BY <2>1, <2>4 DEF Spawn, NoResultIn
  <2>5. CASE TakeOverSignals \/ RecvTimeout \/ TryWait \/ Reap \/ Wait \/ JoinReader
    BY <2>1, <2>5 DEF TakeOverSignals, RecvTimeout, TryWait, Reap, Wait, JoinReader, Goto,
                      NoResultIn
  <2>6. CASE WritePlan \/ AnswerQuestion
    BY <2>1, <2>6 DEF WritePlan, AnswerQuestion, Send, NoResultIn
  <2>7. CASE ReapTimeout \/ StopSignalThread
    BY <2>1, <2>7 DEF ReapTimeout, StopSignalThread, NoResultIn
  <2>8. CASE Decide
    BY <2>1, <2>8 DEF Decide, Verdict, NoResultIn
  <2>9. CASE CleanInterrupted \/ DropGuards
    BY <2>1, <2>9 DEF CleanInterrupted, DropGuards, NoResultIn
  <2> QED
    BY <2>3, <2>4, <2>5, <2>6, <2>7, <2>8, <2>9 DEF ParentStep
<1>3. QED
  BY <1>1, <1>2 DEF ResultInv, Done, NoResultIn

LEMMA OtherThreadsResult ==
  ASSUME TypeOK, ResultInv,
         ReaderStep \/ SignalThreadStep \/ Signal \/ ParentDies \/ SudoLoop \/ Authenticate
         \/ WrapperExits \/ OtherStep \/ Terminated \/ UNCHANGED vars
  PROVE  ResultInv'
<1> USE DEF parentVars, signalVars, readerVars, helperVars, systemVars
<1>1. CASE ReaderStep
  <2>1. UNCHANGED <<hres, hpc, db, code, outcome>>
    BY <1>1 DEF ReaderStep, ReadLine, ReadEof, readerFrame
  <2>2. ASSUME hres # "ok"
        PROVE  NoResultIn(pipe') /\ NoResultIn(chan')
    <3>1. /\ NoResultIn(pipe) /\ pipe \in Seq(Messages)
          /\ NoResultIn(chan) /\ chan \in Seq(Messages)
      BY <2>2 DEF ResultInv, TypeOK, PipeTypeOK
    <3>2. CASE ReadLine
      <4>1. /\ NoResultIn(Tail(pipe)) /\ Head(pipe).t # "result" /\ Head(pipe) \in Messages
        BY <3>1, <3>2, TailNoResult, HeadTailProperties DEF ReadLine
      <4>2. NoResultIn(Append(chan, Head(pipe)))
        BY <3>1, <4>1, AppendNoResult
      <4>3. NoResultIn(Append(chan, Message("ioerr", 0, 0, FALSE)))
        BY <3>1, AppendNoResult, MessageType, MessageKind
      <4>4. QED
        BY <3>2, <4>1, <4>2, <4>3 DEF ReadLine
    <3>3. CASE ReadEof
      <4>1. NoResultIn(Append(chan, Message("eof", 0, 0, FALSE)))
        BY <3>1, AppendNoResult, MessageType, MessageKind
      <4>2. QED
        BY <3>1, <3>3, <4>1 DEF ReadEof, NoResultIn
    <3>4. QED
      BY <1>1, <3>2, <3>3 DEF ReaderStep
  <2>3. QED
    BY <2>1, <2>2 DEF ResultInv, Done, NoResultIn
<1>2. CASE Signal \/ SignalThreadStep \/ ParentDies \/ SudoLoop
  <2>1. UNCHANGED <<hres, pipe, chan, db, code, outcome>> /\ hpc' \in {hpc, "killed"}
    BY <1>2 DEF Signal, SignalThreadStep, RegisterSignals, ForwardSignal, ParentDies, SudoLoop,
                signalFrame, SignalHelper
  <2>2. QED
    BY <2>1 DEF ResultInv, Done, NoResultIn, Finished
<1>3. CASE Authenticate
  <2>1. UNCHANGED <<hres, pipe, chan, db, code, outcome>> /\ hpc \notin Finished
    BY <1>3 DEF Authenticate, helperFrame, Finished
  <2>2. QED
    BY <2>1 DEF ResultInv, NoResultIn
<1>4. CASE WrapperExits \/ OtherStep \/ Terminated \/ UNCHANGED vars
  <2>1. UNCHANGED <<hres, hpc, pipe, chan, db, code, outcome>>
    BY <1>4 DEF WrapperExits, OtherStep, OtherLocks, OtherUnlocks, OtherCrashes, otherFrame,
                Terminated, vars
  <2>2. QED
    BY <2>1 DEF ResultInv, Done, NoResultIn
<1> QED
  BY <1>1, <1>2, <1>3, <1>4

\* A success exists, at the helper or on its way to the caller, only for a plan that
\* was carried out by a helper that is finished.
THEOREM ResultCorrect == Spec => []ResultInv
<1>1. Init => ResultInv
  BY DEF Init, ResultInv, NoResultIn
<1>2. TypeOK /\ ResultInv /\ [Next]_vars => ResultInv'
  BY HelperResult, ParentResult, OtherThreadsResult DEF Next
<1>3. QED
  BY <1>1, <1>2, TypeCorrect, PTL DEF Spec

\* The caller is told "ok" only when the plan was applied in full or asked for
\* nothing, for every plan, number of messages, signal and failure.
THEOREM OkMeansDoneHolds == Spec => []OkMeansDone
<1>1. ResultInv => OkMeansDone
  BY DEF ResultInv, OkMeansDone, Done
<1>2. QED
  BY <1>1, ResultCorrect, PTL

-----------------------------------------------------------------------------
(* Questions and answers *)

Carries(queue) == \E i \in 1..Len(queue) : queue[i].t = "question"

OnlyOne(queue) ==
  \A i, j \in 1..Len(queue) : queue[i].t = "question" /\ queue[j].t = "question" => i = j

\* Every question in the queue is `question`.
Current(queue, question) ==
  \A i \in 1..Len(queue) :
    queue[i].t = "question" => queue[i].id = question.id /\ queue[i].n = question.n

\* A question is in one place at a time: in the pipe, in the channel, before the
\* user, or answered.
OnePlace ==
  /\ OnlyOne(pipe) /\ OnlyOne(chan)
  /\ Carries(pipe) => ~Carries(chan) /\ ppc # "ask" /\ toHelper = <<>>
  /\ Carries(chan) => ppc # "ask" /\ toHelper = <<>>
  /\ ppc = "ask" => toHelper = <<>>

\* A question that the parent may still answer is the one the helper waits for.
AskedNow ==
  /\ Carries(pipe) \/ Carries(chan) \/ ppc = "ask" => hpc = "wait"
  /\ Current(pipe, cur) /\ Current(chan, cur)
  /\ ppc = "ask" => pending.id = cur.id /\ pending.n = cur.n

\* At most one line is on its way to the helper: the plan while it starts, and
\* afterwards the answer it waits for.
OneLine ==
  /\ Len(toHelper) <= 1
  /\ toHelper # <<>> /\ hpc \notin {"auth", "plan"} =>
       /\ hpc = "wait"
       /\ toHelper[1].t = "answer" /\ toHelper[1].id = cur.id /\ toHelper[1].n = cur.n

\* Until the parent has written the plan, the helper has not started to work.
NotStarted ==
  ppc \in {"spawn", "spawned", "write"} =>
    toHelper = <<>> /\ hpc \in {"auth", "plan", "exited", "killed"}

\* Nothing is known of the questions left behind by a parent or a helper that is
\* gone: the first answers none of them, the second waits for none.
StepInv ==
  /\ NotStarted
  /\ ~HelperDead => OneLine /\ (~ParentGone => OnePlace /\ AskedNow)

\* What a new line does to a queue.
LEMMA AppendLine ==
  ASSUME NEW queue \in Seq(Messages), NEW line \in Messages, NEW question
  PROVE  /\ line.t # "question" =>
              /\ Carries(Append(queue, line)) <=> Carries(queue)
              /\ OnlyOne(queue) => OnlyOne(Append(queue, line))
              /\ Current(queue, question) => Current(Append(queue, line), question)
         /\ ~Carries(queue) =>
              /\ OnlyOne(Append(queue, line))
              /\ line.id = question.id /\ line.n = question.n =>
                   Current(Append(queue, line), question)
<1>1. /\ Len(Append(queue, line)) = Len(queue) + 1 /\ Len(queue) \in Nat
      /\ \A i \in 1..Len(queue) : Append(queue, line)[i] = queue[i]
      /\ Append(queue, line)[Len(queue) + 1] = line
  BY AppendProperties
<1>2. \A i \in 1..Len(Append(queue, line)) : i \in 1..Len(queue) \/ i = Len(queue) + 1
  BY <1>1
<1>3. 1..Len(queue) \subseteq 1..Len(Append(queue, line))
  BY <1>1
<1>4. ASSUME line.t # "question"
      PROVE  Carries(Append(queue, line)) <=> Carries(queue)
  BY <1>1, <1>2, <1>3, <1>4 DEF Carries
<1>5. ASSUME line.t # "question", OnlyOne(queue)
      PROVE  OnlyOne(Append(queue, line))
  BY <1>1, <1>2, <1>5 DEF OnlyOne
<1>6. ASSUME line.t # "question", Current(queue, question)
      PROVE  Current(Append(queue, line), question)
  BY <1>1, <1>2, <1>6 DEF Current
<1>7. ASSUME ~Carries(queue)
      PROVE  OnlyOne(Append(queue, line))
  BY <1>1, <1>2, <1>7 DEF OnlyOne, Carries
<1>8. ASSUME ~Carries(queue), line.id = question.id, line.n = question.n
      PROVE  Current(Append(queue, line), question)
  BY <1>1, <1>2, <1>8 DEF Current, Carries
<1> QED
  BY <1>4, <1>5, <1>6, <1>7, <1>8

\* What taking the first line does to a queue.
LEMMA TakeLine ==
  ASSUME NEW queue \in Seq(Messages), queue # <<>>, NEW question
  PROVE  /\ Carries(Tail(queue)) => Carries(queue)
         /\ OnlyOne(queue) => OnlyOne(Tail(queue))
         /\ Current(queue, question) => Current(Tail(queue), question)
         /\ Head(queue).t = "question" =>
              /\ Carries(queue)
              /\ OnlyOne(queue) => ~Carries(Tail(queue))
              /\ Current(queue, question) =>
                   Head(queue).id = question.id /\ Head(queue).n = question.n
<1>1. /\ Len(Tail(queue)) = Len(queue) - 1 /\ Len(queue) \in Nat \ {0}
      /\ \A i \in 1..Len(Tail(queue)) : Tail(queue)[i] = queue[i + 1]
      /\ Head(queue) = queue[1]
  BY HeadTailProperties, LenProperties, EmptySeq
<1>2. /\ \A i \in 1..Len(Tail(queue)) : i + 1 \in 1..Len(queue) /\ i + 1 # 1
      /\ 1 \in 1..Len(queue)
  BY <1>1
<1>3. Carries(Tail(queue)) => Carries(queue)
  BY <1>1, <1>2 DEF Carries
<1>4. OnlyOne(queue) => OnlyOne(Tail(queue))
  BY <1>1, <1>2 DEF OnlyOne
<1>5. Current(queue, question) => Current(Tail(queue), question)
  BY <1>1, <1>2 DEF Current
<1>6. Head(queue).t = "question" => Carries(queue)
  BY <1>1, <1>2 DEF Carries
<1>7. Head(queue).t = "question" /\ OnlyOne(queue) => ~Carries(Tail(queue))
  BY <1>1, <1>2 DEF Carries, OnlyOne
<1>8. Head(queue).t = "question" /\ Current(queue, question) =>
        Head(queue).id = question.id /\ Head(queue).n = question.n
  BY <1>1, <1>2 DEF Current
<1> QED
  BY <1>3, <1>4, <1>5, <1>6, <1>7, <1>8

\* A step that moves no question and no answer keeps them in step.
LEMMA QuietStep ==
  ASSUME StepInv, UNCHANGED <<pipe, chan, toHelper, pending, cur>>,
         \/ hpc' \in {hpc, "exited", "killed"}
         \/ hpc = "auth" /\ hpc' = "plan",
         ppc' = "ask" => ppc = "ask",
         ppc' \in {"spawn", "spawned", "write"} => ppc \in {"spawn", "spawned", "write"},
         ParentGone => ParentGone'
  PROVE  StepInv'
<1>1. NotStarted'
  BY DEF StepInv, NotStarted
<1>2. HelperDead => HelperDead' \/ hpc' = hpc
  BY DEF HelperDead
<1>3. ASSUME ~HelperDead'
      PROVE  OneLine' /\ (~ParentGone' => OnePlace' /\ AskedNow')
  <2>1. ~HelperDead
    BY <1>3 DEF HelperDead
  <2>2. OneLine'
    BY <1>3, <2>1 DEF StepInv, OneLine, HelperDead
  <2>3. ASSUME ~ParentGone'
        PROVE  OnePlace' /\ AskedNow'
    <3>1. OnePlace /\ AskedNow
      BY <2>1, <2>3 DEF StepInv
    <3>2. OnePlace'
      BY <3>1 DEF OnePlace, Carries, OnlyOne
    <3>3. AskedNow'
      BY <1>3, <3>1 DEF AskedNow, Carries, Current, HelperDead
    <3> QED
      BY <3>2, <3>3
  <2> QED
    BY <2>2, <2>3
<1> QED
  BY <1>1, <1>3 DEF StepInv

\* The parent's main thread keeps questions and answers in step.
LEMMA ParentInStep ==
  ASSUME TypeOK, StepInv, ParentStep
  PROVE  StepInv'
<1> USE DEF mainFrame, commandFrame, promptFrame, parentVars, signalVars, readerVars, helperVars, systemVars
<1>1. pipe \in Seq(Messages) /\ chan \in Seq(Messages) /\ toHelper \in Seq(Inputs)
  BY DEF TypeOK, PipeTypeOK
<1>2. CASE Spawn \/ TakeOverSignals \/ RecvTimeout \/ TryWait \/ Reap \/ Wait \/ JoinReader
  <2>1. /\ UNCHANGED <<pipe, chan, toHelper, pending, cur>>
        /\ hpc' \in {hpc, "exited"} /\ ~ParentGone /\ ppc' # "ask"
        /\ ppc' \in {"spawn", "spawned", "write"} => ppc \in {"spawn", "spawned", "write"}
    BY <1>2 DEF Spawn, TakeOverSignals, RecvTimeout, TryWait, Reap, Wait, JoinReader, Goto,
                ParentGone
  <2> QED
    BY <2>1, QuietStep
<1>3. CASE ReapTimeout \/ StopSignalThread \/ Decide
  <2>1. /\ UNCHANGED <<pipe, chan, toHelper, pending, cur, hpc>>
        /\ ~ParentGone /\ ppc' \notin {"ask", "spawn", "spawned", "write"}
    BY <1>3 DEF ReapTimeout, StopSignalThread, Decide, ParentGone
  <2> QED
    BY <2>1, QuietStep
<1>4. CASE CleanInterrupted \/ DropGuards
  <2>1. /\ UNCHANGED <<pipe, chan, toHelper, pending, cur, hpc>>
        /\ ~ParentGone /\ ppc' \notin {"ask", "spawn", "spawned", "write"}
    BY <1>4 DEF CleanInterrupted, DropGuards, AfterCommand, ParentGone
  <2> QED
    BY <2>1, QuietStep
<1>5. ASSUME NEW input \in Inputs, Send(input), toHelper = <<>>, ~ParentGone,
             ~HelperDead => ~Carries(pipe) /\ ~Carries(chan),
             \/ hpc \in {"auth", "plan", "exited", "killed"}
             \/ hpc = "wait" /\ input.t = "answer" /\ input.id = cur.id /\ input.n = cur.n
      PROVE  StepInv'
  <2>1. UNCHANGED <<pipe, chan, cur, hpc>> /\ ppc' \in {"dead", "loop"}
    BY <1>5 DEF Send
  <2>2. toHelper' \in {<<>>, Append(<<>>, input)}
    BY <1>5 DEF Send
  <2>3. /\ Len(Append(<<>>, input)) = 1 /\ Append(<<>>, input)[1] = input
        /\ Len(<<>>) = 0
    BY <1>1, <1>5, AppendProperties, EmptySeq
  <2>4. ASSUME ~HelperDead'
        PROVE  OneLine' /\ OnePlace' /\ AskedNow'
    <3>1. OnePlace /\ AskedNow /\ ~Carries(pipe) /\ ~Carries(chan) /\ ~HelperDead
      BY <1>5, <2>1, <2>4 DEF StepInv, HelperDead
    <3>2. ~Carries(pipe)' /\ ~Carries(chan)'
      BY <2>1, <3>1 DEF Carries
    <3>3. OneLine'
      <4>1. Len(toHelper') \in {0, 1}
        BY <2>2, <2>3
      <4>2. ASSUME toHelper' # <<>>
            PROVE  toHelper'[1] = input
        BY <2>2, <2>3, <4>2
      <4> QED
        <5>1. Len(toHelper') <= 1
          <6>1. \A n \in {0, 1} : n <= 1
            OBVIOUS
          <6> QED
            BY <4>1, <6>1, Zenon
        <5>2. hpc' \notin {"auth", "plan"} =>
                hpc' = "wait" /\ input.t = "answer" /\ input.id = cur'.id /\ input.n = cur'.n
          BY <1>5, <2>1, <2>4 DEF HelperDead
        <5> QED
          BY <4>2, <5>1, <5>2 DEF OneLine
    <3>4. OnePlace'
      BY <2>1, <3>1, <3>2 DEF OnePlace, OnlyOne
    <3>5. AskedNow'
      BY <2>1, <3>1, <3>2 DEF AskedNow, Current
    <3> QED
      BY <3>3, <3>4, <3>5
  <2> QED
    BY <2>1, <2>4 DEF StepInv, NotStarted
<1>6. CASE WritePlan
  <2> DEFINE input == [t |-> "plan", id |-> 0, n |-> 0, yes |-> FALSE]
  <2>1. input \in Inputs /\ Send(input) /\ ppc = "write"
    BY <1>6 DEF WritePlan, Inputs
  <2>2. toHelper = <<>> /\ hpc \in {"auth", "plan", "exited", "killed"} /\ ~ParentGone
    BY <2>1 DEF StepInv, NotStarted, ParentGone
  <2>3. ~HelperDead => ~Carries(pipe) /\ ~Carries(chan)
    BY <2>2 DEF StepInv, AskedNow, HelperDead
  <2> QED
    BY <1>5, <2>1, <2>2, <2>3
<1>7. CASE AnswerQuestion
  <2>1. PICK yes \in BOOLEAN :
          Send([t |-> "answer", id |-> pending.id, n |-> pending.n, yes |-> yes])
    BY <1>7 DEF AnswerQuestion
  <2> DEFINE input == [t |-> "answer", id |-> pending.id, n |-> pending.n, yes |-> yes]
  <2>2. input \in Inputs /\ ppc = "ask" /\ ~ParentGone
    BY <1>7 DEF AnswerQuestion, Inputs, Questions, TypeOK, ParentTypeOK, ParentGone
  <2>3. CASE HelperDead
    <3>1. ppc' \in {"dead", "loop"} /\ hpc' = hpc
      BY <2>1 DEF Send
    <3> QED
      BY <2>3, <3>1 DEF StepInv, NotStarted, HelperDead
  <2>4. CASE ~HelperDead
    <3>1. OnePlace /\ AskedNow
      BY <2>2, <2>4 DEF StepInv
    <3>2. /\ toHelper = <<>> /\ ~Carries(pipe) /\ ~Carries(chan)
          /\ hpc = "wait" /\ input.id = cur.id /\ input.n = cur.n
      BY <2>2, <3>1 DEF OnePlace, AskedNow
    <3>3. Send(input) /\ input.t = "answer"
      BY <2>1
    <3> HIDE DEF input
    <3> QED
      BY <1>5, <2>2, <3>2, <3>3
  <2> QED
    BY <2>3, <2>4
<1>8. ASSUME NEW type, NEW next \in {"loop", "ask", "reap"}, Receive(type, next),
             next = "ask" => /\ type = "question"
                             /\ pending'.id = Head(chan).id /\ pending'.n = Head(chan).n
      PROVE  StepInv'
  <2>1. /\ UNCHANGED <<pipe, toHelper, cur, hpc>> /\ chan # <<>> /\ chan' = Tail(chan)
        /\ ppc = "loop" /\ ppc' = next /\ Head(chan).t = type
    BY <1>8 DEF Receive
  <2>2. OneLine' \/ HelperDead'
    BY <2>1 DEF StepInv, OneLine, HelperDead
  <2>3. ASSUME ~HelperDead'
        PROVE  OnePlace' /\ AskedNow'
    <3>1. OnePlace /\ AskedNow
      BY <2>1, <2>3 DEF StepInv, HelperDead, ParentGone
    <3>2. /\ Carries(chan)' => Carries(chan)
          /\ Carries(pipe)' <=> Carries(pipe)
          /\ OnlyOne(chan)' /\ Current(chan, cur)'
          /\ OnlyOne(pipe)' /\ Current(pipe, cur)'
      BY <1>1, <2>1, <3>1, TakeLine DEF OnePlace, AskedNow, Carries, OnlyOne, Current
    <3>3. ASSUME next = "ask"
          PROVE  /\ Carries(chan) /\ ~Carries(chan)'
                 /\ pending'.id = cur.id /\ pending'.n = cur.n
      BY <1>1, <1>8, <2>1, <3>1, <3>3, TakeLine DEF OnePlace, AskedNow, Carries
    <3>4. OnePlace'
      BY <2>1, <3>1, <3>2, <3>3 DEF OnePlace
    <3>5. AskedNow'
      BY <2>1, <3>1, <3>2, <3>3 DEF AskedNow
    <3> QED
      BY <3>4, <3>5
  <2>4. NotStarted'
    BY <1>8, <2>1 DEF NotStarted
  <2> QED
    BY <2>2, <2>3, <2>4 DEF StepInv
<1>9. CASE ReceiveQuestion
  <2>1. pending'.id = Head(chan).id /\ pending'.n = Head(chan).n
    BY <1>9 DEF ReceiveQuestion, NoQuestion
  <2> QED
    BY <1>8, <1>9, <2>1 DEF ReceiveQuestion
<1>10. CASE ReceiveEvent \/ ReceiveResult \/ ReceiveError \/ ReceiveEof \/ ReceiveReadError
  BY <1>8, <1>10
  DEF ReceiveEvent, ReceiveResult, ReceiveError, ReceiveEof, ReceiveReadError
<1> QED
  BY <1>2, <1>3, <1>4, <1>6, <1>7, <1>9, <1>10 DEF ParentStep

\* The reader thread moves a question from the pipe to the channel, or loses it.
LEMMA ReaderInStep ==
  ASSUME TypeOK, StepInv, ReaderStep
  PROVE  StepInv'
<1>1. pipe \in Seq(Messages) /\ chan \in Seq(Messages)
  BY DEF TypeOK, PipeTypeOK
<1>2. UNCHANGED <<ppc, pending, toHelper, cur, hpc>>
  BY DEF ReaderStep, ReadLine, ReadEof, readerFrame, parentVars, helperVars
<1>3. NotStarted' /\ (OneLine' \/ HelperDead')
  BY <1>2 DEF StepInv, NotStarted, OneLine, HelperDead
<1>4. ASSUME ~HelperDead', ~ParentGone'
      PROVE  OnePlace' /\ AskedNow'
  <2>1. OnePlace /\ AskedNow
    BY <1>2, <1>4 DEF StepInv, HelperDead, ParentGone
  <2>2. \A type \in {"ioerr", "eof"} :
          /\ Carries(Append(chan, Message(type, 0, 0, FALSE))) <=> Carries(chan)
          /\ OnlyOne(Append(chan, Message(type, 0, 0, FALSE)))
          /\ Current(Append(chan, Message(type, 0, 0, FALSE)), cur)
    BY <1>1, <2>1, AppendLine, MessageType, MessageKind DEF OnePlace, AskedNow
  <2>3. CASE ReadEof
    <3>1. chan' = Append(chan, Message("eof", 0, 0, FALSE)) /\ pipe' = pipe
      BY <2>3 DEF ReadEof
    <3>2. /\ Carries(chan)' <=> Carries(chan)
          /\ Carries(pipe)' <=> Carries(pipe)
          /\ OnlyOne(chan)' /\ Current(chan, cur)'
          /\ OnlyOne(pipe)' /\ Current(pipe, cur)'
      BY <1>2, <2>1, <2>2, <3>1 DEF OnePlace, AskedNow, Carries, OnlyOne, Current
    <3> QED
      BY <1>2, <2>1, <3>2 DEF OnePlace, AskedNow
  <2>4. CASE ReadLine
    <3>1. /\ pipe # <<>> /\ pipe' = Tail(pipe) /\ Head(pipe) \in Messages
          /\ \/ chan' = Append(chan, Message("ioerr", 0, 0, FALSE))
             \/ chan' = Append(chan, Head(pipe))
      BY <1>1, <2>4, HeadTailProperties DEF ReadLine
    <3>2. /\ Carries(pipe)' => Carries(pipe)
          /\ OnlyOne(pipe)' /\ Current(pipe, cur)'
      BY <1>1, <1>2, <2>1, <3>1, TakeLine DEF OnePlace, AskedNow, Carries, OnlyOne, Current
    <3>3. CASE chan' = Append(chan, Message("ioerr", 0, 0, FALSE)) \/ Head(pipe).t # "question"
      <4>1. /\ Carries(chan)' <=> Carries(chan)
            /\ OnlyOne(chan)' /\ Current(chan, cur)'
        <5>1. OnlyOne(chan) /\ Current(chan, cur)
          BY <2>1 DEF OnePlace, AskedNow
        <5>2. CASE chan' = Append(chan, Message("ioerr", 0, 0, FALSE))
          BY <1>2, <2>2, <5>2 DEF Carries, OnlyOne, Current
        <5>3. CASE chan' = Append(chan, Head(pipe)) /\ Head(pipe).t # "question"
          <6>1. /\ Carries(Append(chan, Head(pipe))) <=> Carries(chan)
                /\ OnlyOne(Append(chan, Head(pipe)))
                /\ Current(Append(chan, Head(pipe)), cur)
            BY <1>1, <3>1, <5>1, <5>3, AppendLine
          <6> QED
            BY <1>2, <5>3, <6>1 DEF Carries, OnlyOne, Current
        <5> QED
          BY <3>1, <3>3, <5>2, <5>3
      <4> QED
        BY <1>2, <2>1, <3>2, <4>1 DEF OnePlace, AskedNow
    <3>4. CASE chan' = Append(chan, Head(pipe)) /\ Head(pipe).t = "question"
      <4>1. /\ Carries(pipe) /\ ~Carries(pipe)'
            /\ Head(pipe).id = cur.id /\ Head(pipe).n = cur.n
        BY <1>1, <2>1, <3>1, <3>4, TakeLine DEF OnePlace, AskedNow, Carries
      <4>2. ~Carries(chan) /\ ppc # "ask" /\ toHelper = <<>> /\ hpc = "wait"
        BY <2>1, <4>1 DEF OnePlace, AskedNow
      <4>3. OnlyOne(chan)' /\ Current(chan, cur)'
        BY <1>1, <1>2, <3>1, <3>4, <4>1, <4>2, AppendLine DEF OnlyOne, Current
      <4> QED
        BY <1>2, <2>1, <3>2, <4>1, <4>2, <4>3 DEF OnePlace, AskedNow
    <3> QED
      BY <3>1, <3>3, <3>4
  <2> QED
    BY <2>3, <2>4 DEF ReaderStep
<1> QED
  BY <1>3, <1>4 DEF StepInv

\* Signals, the wrapper and the other program move neither questions nor answers.
LEMMA OthersInStep ==
  ASSUME StepInv,
         SignalThreadStep \/ Signal \/ ParentDies \/ SudoLoop \/ Authenticate
         \/ WrapperExits \/ OtherStep \/ Terminated \/ UNCHANGED vars
  PROVE  StepInv'
<1> USE DEF parentVars, signalVars, readerVars, helperVars, systemVars
<1>1. CASE Signal \/ SignalThreadStep \/ ParentDies \/ SudoLoop
  <2>1. /\ UNCHANGED <<pipe, chan, toHelper, pending, cur>>
        /\ hpc' \in {hpc, "killed"} /\ ppc' \in {ppc, "dead"}
    BY <1>1 DEF Signal, SignalThreadStep, RegisterSignals, ForwardSignal, ParentDies, SudoLoop,
                signalFrame, SignalHelper
  <2>2. /\ ppc' = "ask" => ppc = "ask"
        /\ ppc' \in {"spawn", "spawned", "write"} => ppc \in {"spawn", "spawned", "write"}
        /\ ParentGone => ParentGone'
    BY <2>1 DEF ParentGone
  <2> QED
    BY <2>1, <2>2, QuietStep
<1>2. CASE Authenticate \/ WrapperExits \/ OtherStep \/ Terminated \/ UNCHANGED vars
  <2>1. /\ UNCHANGED <<pipe, chan, toHelper, pending, cur, ppc>>
        /\ hpc' = hpc \/ (hpc = "auth" /\ hpc' \in {"plan", "exited"})
    BY <1>2 DEF Authenticate, WrapperExits, OtherStep, OtherLocks, OtherUnlocks, OtherCrashes,
                otherFrame, helperFrame, Terminated, vars
  <2>2. ParentGone => ParentGone'
    BY <2>1 DEF ParentGone
  <2> QED
    BY <2>1, <2>2, QuietStep
<1> QED
  BY <1>1, <1>2

\* The line, if any, that a step of the helper adds to the pipe is no question.
SendsNoQuestion ==
  \/ pipe' = pipe
  \/ \E line \in Messages : line.t # "question" /\ pipe' = Append(pipe, line)

\* The helper sends the question that it then waits for.
SendsQuestion ==
  \E line \in Messages :
    /\ line.t = "question" /\ line.id = cur'.id /\ line.n = cur'.n
    /\ pipe' = Append(pipe, line)

\* A helper at work, neither starting nor waiting, sends a question only to wait
\* for its answer, and reads nothing.
LEMMA HelperAtWork ==
  ASSUME TypeOK, HelperStep, hpc \notin {"auth", "plan", "wait"}
  PROVE  /\ toHelper' = toHelper
         /\ \/ hpc' \notin {"auth", "plan", "wait"} /\ SendsNoQuestion
            \/ hpc' = "wait" /\ SendsQuestion
<1>1. ASSUME NEW next, next \notin {"auth", "plan", "wait"}, HelperGoto(next)
      PROVE  hpc' \notin {"auth", "plan", "wait"} /\ UNCHANGED <<pipe, toHelper>>
  BY <1>1 DEF HelperGoto
<1>2. ASSUME Abort
      PROVE  hpc' = "report" /\ UNCHANGED <<pipe, toHelper>>
  BY <1>2 DEF Abort, Fail
<1>3. ASSUME NEW line \in Messages, line.t # "question",
             NEW next, next \notin {"auth", "plan", "wait"}, Emit(line, next)
      PROVE  hpc' \notin {"auth", "plan", "wait"} /\ SendsNoQuestion
  BY <1>3 DEF Emit, SendsNoQuestion
<1>4. ASSUME NEW id \in Nat, NEW n \in Nat, NEW long \in BOOLEAN,
             Emit(Message("question", id, n, long), "wait"), cur'.id = id, cur'.n = n
      PROVE  \/ hpc' = "killed" /\ SendsNoQuestion
             \/ hpc' = "wait" /\ SendsQuestion
  <2> DEFINE line == Message("question", id, n, long)
  <2>1. line \in Messages /\ line.t = "question" /\ line.id = id /\ line.n = n
    BY MessageType DEF Message
  <2>2. \/ pipe' = pipe /\ hpc' = "killed"
        \/ pipe' = Append(pipe, line) /\ hpc' = "wait"
    BY <1>4 DEF Emit
  <2> HIDE DEF line
  <2> QED
    BY <1>4, <2>1, <2>2 DEF SendsNoQuestion, SendsQuestion
<1>5. CASE OpenAlpm \/ RemoveStaleLock \/ Exit
  BY <1>1, <1>2, <1>5 DEF OpenAlpm, FirstStep, RemoveStaleLock, Exit, HelperGoto, SendsNoQuestion
<1>6. CASE WriteReason \/ EndReason \/ CommitWrite \/ Unlock
  BY <1>2, <1>6 DEF WriteReason, EndReason, CommitWrite, Unlock, SendsNoQuestion
<1>7. CASE RefreshDatabases \/ InitTransaction
  BY <1>2, <1>7
  DEF RefreshDatabases, InitTransaction, TakeLock, LockFails, SendsNoQuestion
<1>8. CASE EndRefresh
  BY <1>2, <1>8 DEF EndRefresh, SendsNoQuestion
<1>9. CASE CheckLock
  <2>1. CASE HelperGoto("remove") \/ Abort
    BY <1>1, <1>2, <2>1 DEF SendsNoQuestion, HelperGoto
  <2>2. CASE /\ Emit(Message("question", lockId, asked + 1, FALSE), "wait")
             /\ cur' = [id |-> lockId, n |-> asked + 1, back |-> "lock", default |-> FALSE]
             /\ toHelper' = toHelper
    <3>1. lockId \in Nat /\ asked + 1 \in Nat
      BY DEF TypeOK, HelperTypeOK
    <3> QED
      BY <1>4, <2>2, <3>1
  <2> QED
    BY <1>9, <2>1, <2>2 DEF CheckLock
<1>10. CASE AskCallback
  <2>1. PICK long \in Lengths :
          Emit(Message("question", nextId, asked + 1, long), "wait")
    BY <1>10 DEF AskCallback
  <2>2. nextId \in Nat /\ asked + 1 \in Nat /\ long \in BOOLEAN
    BY LengthsType DEF TypeOK, HelperTypeOK
  <2>3. cur'.id = nextId /\ cur'.n = asked + 1 /\ toHelper' = toHelper
    BY <1>10 DEF AskCallback
  <2> QED
    BY <1>4, <2>1, <2>2, <2>3
<1>11. CASE Reopen
  <2>1. site \in {"refresh", "init"}
    BY DEF TypeOK, HelperTypeOK
  <2>2. Message("event", 0, 0, FALSE) \in Messages /\ Message("event", 0, 0, FALSE).t = "event"
    BY MessageType, MessageKind
  <2> QED
    BY <1>3, <1>11, <2>1, <2>2 DEF Reopen
<1>12. CASE EmitEvent
  <2>1. PICK long \in Lengths : Emit(Message("event", 0, 0, long), hpc)
    BY <1>12 DEF EmitEvent
  <2>2. Message("event", 0, 0, long) \in Messages /\ Message("event", 0, 0, long).t = "event"
    BY MessageType, MessageKind, LengthsType
  <2>3. toHelper' = toHelper
    BY <1>12 DEF EmitEvent
  <2> QED
    BY <1>3, <2>1, <2>2, <2>3
<1>13. CASE Resolve \/ Verify \/ CommitEnd
  BY <1>1, <1>2, <1>13 DEF Resolve, Verify, CommitEnd, Finish, HelperGoto, SendsNoQuestion
<1>14. CASE Report
  <2> DEFINE type == IF hres = "ok" THEN "result" ELSE "error"
  <2>1. Message(type, 0, 0, FALSE) \in Messages /\ Message(type, 0, 0, FALSE).t # "question"
    BY MessageType, MessageKind
  <2> QED
    BY <1>3, <1>14, <2>1 DEF Report
<1>15. ~ReadPlan /\ ~PlanEof /\ ~TakeAnswer /\ ~AnswerLost
  BY DEF ReadPlan, PlanEof, TakeAnswer, AnswerLost, Settle
<1> QED
  BY <1>5, <1>6, <1>7, <1>8, <1>9, <1>10, <1>11, <1>12, <1>13, <1>14, <1>15 DEF HelperStep

\* The helper keeps questions and answers in step.
LEMMA HelperInStep ==
  ASSUME TypeOK, StepInv, HelperStep
  PROVE  StepInv'
<1>1. UNCHANGED <<ppc, pending, chan>> /\ ~HelperDead /\ hpc # "auth"
  BY HelperStepFrame DEF helperFrame, parentVars, readerVars, HelperStep, ReadPlan, PlanEof,
     OpenAlpm, WriteReason, EndReason, RefreshDatabases, InitTransaction, TakeLock, LockFails,
     EndRefresh, CheckLock, RemoveStaleLock, Reopen, AskCallback, TakeAnswer, AnswerLost, Settle,
     EmitEvent, Resolve, Verify, CommitWrite, CommitEnd, Unlock, Report, Exit
<1>2. /\ pipe \in Seq(Messages) /\ chan \in Seq(Messages) /\ toHelper \in Seq(Inputs)
      /\ OneLine /\ NotStarted
      /\ ~ParentGone => OnePlace /\ AskedNow
  BY <1>1 DEF StepInv, TypeOK, PipeTypeOK
<1>3. ASSUME toHelper' = <<>>, hpc' \notin {"auth", "plan", "wait"}, SendsNoQuestion,
             ~ParentGone => ~Carries(pipe) /\ ~Carries(chan) /\ ppc # "ask",
             NotStarted'
      PROVE  StepInv'
  <2>1. OneLine'
    BY <1>3 DEF OneLine
  <2>2. ASSUME ~ParentGone'
        PROVE  OnePlace' /\ AskedNow'
    <3>1. /\ ~Carries(pipe) /\ ~Carries(chan) /\ ppc # "ask" /\ OnlyOne(pipe) /\ OnlyOne(chan)
          /\ ~ParentGone
      BY <1>1, <1>2, <1>3, <2>2 DEF ParentGone, OnePlace
    <3>2. ~Carries(pipe)' /\ OnlyOne(pipe)'
      <4>1. CASE pipe' = pipe
        BY <3>1, <4>1 DEF Carries, OnlyOne
      <4>2. ASSUME NEW line \in Messages, line.t # "question", pipe' = Append(pipe, line)
            PROVE  ~Carries(pipe') /\ OnlyOne(pipe')
        BY <1>2, <3>1, <4>2, AppendLine
      <4> QED
        BY <1>3, <4>1, <4>2 DEF SendsNoQuestion, Carries, OnlyOne
    <3>3. ~Carries(chan)' /\ OnlyOne(chan)'
      BY <1>1, <3>1 DEF Carries, OnlyOne
    <3>4. Current(pipe, cur)' /\ Current(chan, cur)'
      BY <3>2, <3>3 DEF Carries, Current
    <3> QED
      BY <1>1, <1>3, <3>1, <3>2, <3>3, <3>4 DEF OnePlace, AskedNow
  <2> QED
    BY <1>3, <2>1, <2>2 DEF StepInv
<1>4. CASE hpc \notin {"auth", "plan", "wait"}
  <2>1. toHelper = <<>> /\ ppc \notin {"spawn", "spawned", "write"}
    BY <1>1, <1>2, <1>4 DEF OneLine, NotStarted, HelperDead
  <2>2. ~ParentGone => ~Carries(pipe) /\ ~Carries(chan) /\ ppc # "ask"
    BY <1>2, <1>4 DEF AskedNow
  <2>3. toHelper' = <<>> /\ NotStarted'
    BY <1>1, <1>4, <2>1, HelperAtWork DEF NotStarted
  <2>4. CASE hpc' \notin {"auth", "plan", "wait"} /\ SendsNoQuestion
    BY <1>3, <2>2, <2>3, <2>4
  <2>5. CASE hpc' = "wait" /\ SendsQuestion
    <3>1. OneLine'
      BY <2>3 DEF OneLine
    <3>2. ASSUME ~ParentGone'
          PROVE  OnePlace' /\ AskedNow'
      <4>1. ~Carries(pipe) /\ ~Carries(chan) /\ ppc' # "ask" /\ OnlyOne(chan)
        BY <1>1, <1>2, <2>2, <3>2 DEF ParentGone, OnePlace
      <4>2. OnlyOne(pipe') /\ Current(pipe', cur')
        BY <1>2, <2>5, <4>1, AppendLine DEF SendsQuestion
      <4>3. ~Carries(chan)' /\ OnlyOne(chan)' /\ Current(chan, cur)'
        BY <1>1, <4>1 DEF Carries, OnlyOne, Current
      <4> QED
        BY <2>3, <2>5, <4>1, <4>2, <4>3 DEF OnePlace, AskedNow, OnlyOne, Current
    <3> QED
      BY <2>3, <3>1, <3>2 DEF StepInv
  <2> QED
    BY <1>4, <2>4, <2>5, HelperAtWork
<1>5. CASE hpc = "plan"
  <2>1. ReadPlan \/ PlanEof
    BY <1>5 DEF HelperStep, ReadPlan, PlanEof,
     OpenAlpm, WriteReason, EndReason, RefreshDatabases, InitTransaction, TakeLock, LockFails,
     EndRefresh, CheckLock, RemoveStaleLock, Reopen, AskCallback, TakeAnswer, AnswerLost, Settle,
     EmitEvent, Resolve, Verify, CommitWrite, CommitEnd, Unlock, Report, Exit
  <2>2. /\ hpc' \in {"open", "exited"} /\ pipe' = pipe
        /\ toHelper' \in {toHelper, Tail(toHelper)}
        /\ hpc' = "open" => toHelper # <<>> /\ toHelper' = Tail(toHelper)
    BY <2>1 DEF ReadPlan, PlanEof, HelperGoto
  <2>3. CASE hpc' = "exited"
    <3>1. NotStarted'
      <4>1. toHelper = <<>> => toHelper' = <<>>
        BY <2>1 DEF ReadPlan, PlanEof, HelperGoto
      <4> QED
        BY <1>1, <1>2, <2>3, <4>1 DEF NotStarted
    <3> QED
      BY <2>3, <3>1 DEF StepInv, HelperDead
  <2>4. CASE hpc' = "open"
    <3>1. toHelper' = <<>>
      BY <1>2, <2>2, <2>4, HeadTailProperties, LenProperties, EmptySeq DEF OneLine
    <3>2. NotStarted'
      BY <1>1, <1>2, <2>2, <2>4 DEF NotStarted
    <3> QED
      BY <1>2, <1>3, <1>5, <2>2, <2>4, <3>1, <3>2 DEF AskedNow, SendsNoQuestion
  <2> QED
    BY <2>2, <2>3, <2>4
<1>6. CASE hpc = "wait"
  <2>1. TakeAnswer \/ AnswerLost
    BY <1>6 DEF HelperStep, ReadPlan, PlanEof,
     OpenAlpm, WriteReason, EndReason, RefreshDatabases, InitTransaction, TakeLock, LockFails,
     EndRefresh, CheckLock, RemoveStaleLock, Reopen, AskCallback, TakeAnswer, AnswerLost, Settle,
     EmitEvent, Resolve, Verify, CommitWrite, CommitEnd, Unlock, Report, Exit
  <2>2. ppc \notin {"spawn", "spawned", "write"}
    BY <1>2, <1>6 DEF NotStarted
  <2>3. NotStarted'
    BY <1>1, <2>2 DEF NotStarted
  <2>4. ASSUME NEW yes, Settle(yes)
        PROVE  hpc' \notin {"auth", "plan", "wait"} /\ pipe' = pipe
    <3>1. cur.back \in {"lock", "update", "resolve", "commit"}
      BY <1>6 DEF TypeOK, HelperTypeOK, Questions
    <3> QED
      BY <2>4, <3>1 DEF Settle, Fail
  <2>5. CASE AnswerLost
    <3>1. ParentGone /\ toHelper' = <<>> /\ Settle(cur.default)
      BY <2>5 DEF AnswerLost, WriteEndOpen
    <3> QED
      BY <1>3, <2>3, <2>4, <3>1 DEF SendsNoQuestion
  <2>6. CASE TakeAnswer
    <3>1. toHelper # <<>> /\ toHelper' = Tail(toHelper)
      BY <2>6 DEF TakeAnswer
    <3>2. Len(toHelper) = 1
      <4>1. Len(toHelper) \in Nat /\ Len(toHelper) # 0
        BY <1>2, <3>1, EmptySeq, LenProperties
      <4>2. Len(toHelper) <= 1
        BY <1>2 DEF OneLine
      <4>3. \A n \in Nat : n # 0 /\ n <= 1 => n = 1
        OBVIOUS
      <4> QED
        BY <4>1, <4>2, <4>3, Zenon
    <3>3. Head(toHelper) = toHelper[1] /\ toHelper' = <<>>
      BY <1>2, <3>1, <3>2, HeadTailProperties, LenProperties, EmptySeq
    <3>4. Settle(Head(toHelper).yes)
      BY <1>2, <1>6, <2>6, <3>1, <3>3 DEF TakeAnswer, OneLine
    <3>5. ~ParentGone => ~Carries(pipe) /\ ~Carries(chan) /\ ppc # "ask"
      BY <1>2, <3>1 DEF OnePlace
    <3> QED
      BY <1>3, <2>3, <2>4, <3>3, <3>4, <3>5 DEF SendsNoQuestion
  <2> QED
    BY <2>1, <2>5, <2>6
<1> QED
  BY <1>1, <1>4, <1>5, <1>6

\* At any time there is at most one question, in one place, and at most one line on
\* its way to the helper: the plan, or the answer to the question it waits for.
THEOREM StepCorrect == Spec => []StepInv
<1>1. Init => StepInv
  BY DEF Init, StepInv, NotStarted, HelperDead, ParentGone, OneLine, OnePlace, AskedNow,
     Carries, OnlyOne, Current
<1>2. TypeOK /\ StepInv /\ [Next]_vars => StepInv'
  BY ParentInStep, ReaderInStep, OthersInStep, HelperInStep DEF Next
<1> QED
  BY <1>1, <1>2, TypeCorrect, PTL DEF Spec

\* While the helper waits, nothing but the answer to its question is on its way,
\* for every plan and number of questions, whatever line is lost and whoever dies.
THEOREM AnswersInStepHolds == Spec => []AnswersInStep
<1>1. TypeOK /\ StepInv => AnswersInStep
  <2> SUFFICES ASSUME TypeOK, StepInv, hpc = "wait", NEW i \in 1..Len(toHelper)
               PROVE  toHelper[i].t = "answer" /\ toHelper[i].id = cur.id
                      /\ toHelper[i].n = cur.n
    BY DEF AnswersInStep
  <2>1. OneLine
    BY DEF StepInv, HelperDead
  <2>2. i = 1 /\ toHelper # <<>>
    BY <2>1, EmptySeq, LenProperties DEF OneLine, TypeOK, PipeTypeOK
  <2> QED
    BY <2>1, <2>2 DEF OneLine
<1> QED
  BY <1>1, StepCorrect, TypeCorrect, PTL

=============================================================================
