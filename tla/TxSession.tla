------------------------------ MODULE TxSession ------------------------------
(***************************************************************************)
(* One privileged transaction of bah: run_plan_with_helper in the          *)
(* unprivileged parent, the `bah --helper-transaction` process it starts   *)
(* through sudo, the JSON pipes between them, the signals they get, the    *)
(* libalpm lock file db.lck and one other program that uses it.            *)
(*                                                                         *)
(* Parent threads: main (ppc), the signal thread (sigThread), the reader   *)
(* of the helper's stdout (reader).  Helper: one thread (hpc).  sudo is    *)
(* `wrapper`: it outlives the command it runs, unless it is killed.        *)
(***************************************************************************)
EXTENDS Naturals, Sequences

CONSTANTS
  Plans,         \* the plans a caller may submit
  MaxQuestions,  \* bound: questions asked by libalpm callbacks
  MaxEvents,     \* bound: progress, hook and log messages
  MaxSignals,    \* bound: interrupts (Ctrl-C) sent to the session
  PidInLock,     \* whether the text of db.lck is the pid of its owner
  KillReaches,   \* whether the parent may send signals to the wrapper
  LongLines,     \* whether a message can exceed MAX_IPC_LINE_BYTES
  ParentMayDie,  \* whether the parent can be killed outright
  RmMayFail,     \* whether `sudo rm -f db.lck` can fail
  SudoLoops,     \* whether the sudo loop runs commands of its own meanwhile
  OtherArrives   \* whether another program may start to use the database meanwhile

Operations == {"sync", "remove", "upgrade", "reason"}

\* The fields of TransactionPlan that change what the helper does.
Plan == [op: Operations, refresh: BOOLEAN, sysupgrade: BOOLEAN,
         scope: {"print", "download", "full"}, noConfirm: BOOLEAN, valid: BOOLEAN]

ASSUME SessionAssumption ==
  /\ Plans \subseteq Plan
  /\ MaxQuestions \in Nat /\ MaxEvents \in Nat /\ MaxSignals \in Nat
  /\ PidInLock \in BOOLEAN /\ KillReaches \in BOOLEAN /\ LongLines \in BOOLEAN
  /\ ParentMayDie \in BOOLEAN /\ RmMayFail \in BOOLEAN
  /\ SudoLoops \in BOOLEAN /\ OtherArrives \in BOOLEAN

VARIABLES
  plan,       \* the plan of this call
  \* the parent
  ppc, perr, code, outcome,
  pending,    \* the question the parent is showing to the user
  sticky,     \* exec::INTERRUPTED: set by any caught signal, never cleared
  caught,     \* exec::CAUGHT_SIGNAL is not 0
  defaults,   \* exec::DEFAULT_SIGNALS: a signal ends the process
  intr,       \* `interrupted`, set by the signal thread
  sigThread, reader, chan,
  \* the pipes
  pipe, toHelper,
  \* the wrapper and the helper
  wrapper, hpc, hres, site, tried, nextId, lockId, cur, asked, events,
  \* the rest of the machine
  lock, db, other, signals,
  \* kept for the properties only: the questions that the user said yes to
  agreed

parentVars == <<ppc, perr, code, outcome, pending, agreed>>
signalVars == <<sticky, caught, defaults, intr, sigThread, signals>>
readerVars == <<reader, chan>>
helperVars == <<hpc, hres, site, tried, nextId, lockId, cur, asked, events>>
systemVars == <<lock, db, other>>

vars == <<plan, parentVars, signalVars, readerVars, pipe, toHelper, wrapper,
          helperVars, systemVars>>

\* What a step of the parent's main thread leaves alone, unless it says otherwise.
promptFrame == <<plan, sticky, caught, intr, sigThread, signals, pipe, helperVars,
                 db, other>>
commandFrame == <<promptFrame, agreed>>
mainFrame == <<commandFrame, defaults>>

\* What a step of the helper leaves alone.
helperFrame == <<plan, parentVars, signalVars, readerVars, wrapper, other>>

-----------------------------------------------------------------------------
(* Messages, questions and process states *)

LockIdBase == 10000

\* `n` numbers the questions of a session: the code has no such field, the
\* properties use it to tell apart questions that carry the same id.
Message(type, id, n, long) == [t |-> type, id |-> id, n |-> n, long |-> long]

Messages == [t: {"event", "question", "result", "error", "eof", "ioerr"},
             id: Nat, n: Nat, long: BOOLEAN]

Inputs == [t: {"plan", "answer"}, id: Nat, n: Nat, yes: BOOLEAN]

NoQuestion == [id |-> 0, n |-> 0, back |-> "none", default |-> FALSE]

Questions == [id: Nat, n: Nat, default: BOOLEAN,
              back: {"none", "lock", "update", "resolve", "commit"}]

Lengths == IF LongLines THEN BOOLEAN ELSE {FALSE}

HelperDead == hpc \in {"exited", "killed"}

ParentGone == ppc \in {"done", "dead"}

\* The reader thread owns the read end of the helper's stdout.
ReadEndOpen == reader = "running" /\ ppc # "dead"

\* child_stdin lives until run_plan_with_helper returns.
WriteEndOpen == ~ParentGone

\* Where the helper is, or will be once it has its answer.
HelperPlace == IF hpc = "wait" THEN cur.back ELSE hpc

HoldingPlaces == {"update", "resolve", "verify", "commit", "unlock"}

\* The helper has a libalpm handle that has created db.lck.
HelperHolds == HelperPlace \in HoldingPlaces

\* process_alive on the pid that owns the lock file.
LockOwnerAlive == (lock = "other" /\ other = "busy") \/ (lock = "helper" /\ ~HelperDead)

-----------------------------------------------------------------------------
(* Initial states: the caller enters run_plan_with_helper.  An interrupt   *)
(* that an earlier transaction of the same process survived is still       *)
(* recorded in INTERRUPTED.  Another program may be using the database, or *)
(* may have crashed and left db.lck.                                       *)

Init ==
  /\ plan \in Plans
  /\ ppc = "spawn" /\ perr = "none" /\ code = "none" /\ outcome = "none"
  /\ pending = NoQuestion
  /\ sticky \in (IF MaxSignals > 0 THEN BOOLEAN ELSE {FALSE})
  /\ caught = FALSE /\ defaults = TRUE /\ intr = FALSE
  /\ sigThread = "new" /\ signals = 0
  /\ reader = "running" /\ chan = <<>>
  /\ pipe = <<>> /\ toHelper = <<>>
  /\ wrapper = "running"
  /\ hpc = "auth" /\ hres = "none" /\ site = "init" /\ tried = FALSE
  /\ nextId = 1 /\ lockId = LockIdBase /\ cur = NoQuestion
  /\ asked = 0 /\ events = 0
  /\ db = "untouched" /\ agreed = {}
  /\ other \in {"idle", "busy", "crashed"}
  /\ lock = IF other = "idle" THEN "free" ELSE "other"

-----------------------------------------------------------------------------
(* The parent's main thread: run_plan_with_helper *)

\* Command::spawn may fail, and then nothing was started.
Spawn ==
  /\ ppc = "spawn"
  /\ \/ ppc' = "spawned" /\ UNCHANGED <<outcome, hpc, wrapper, reader>>
     \/ ppc' = "done" /\ outcome' = "failed" /\ hpc' = "exited"
        /\ wrapper' = "exited" /\ reader' = "stopped"
  /\ UNCHANGED <<plan, perr, code, pending, agreed, signalVars, chan, pipe, toHelper,
                 hres, site, tried, nextId, lockId, cur, asked, events, systemVars>>

\* A step that only moves the main thread.
Goto(here, next) ==
  /\ ppc = here
  /\ ppc' = next
  /\ UNCHANGED <<mainFrame, perr, code, outcome, pending, readerVars, toHelper,
                 wrapper, lock>>

\* DEFAULT_SIGNALS is cleared only after the spawn: until then SIGINT kills bah.
TakeOverSignals ==
  /\ ppc = "spawned"
  /\ ppc' = "write"
  /\ defaults' = FALSE
  /\ UNCHANGED <<commandFrame, perr, code, outcome, pending, readerVars, toHelper,
                 wrapper, lock>>

\* Nobody holds the read end of the helper's stdin: a write raises SIGPIPE,
\* whose default action is kept by RAISE_SIGPIPE.
StdinBroken == HelperDead /\ wrapper = "exited"

Send(input) ==
  /\ IF StdinBroken
       THEN ppc' = "dead" /\ UNCHANGED toHelper
       ELSE ppc' = "loop" /\ toHelper' = Append(toHelper, input)
  /\ UNCHANGED <<promptFrame, defaults, perr, code, outcome, readerVars, wrapper, lock>>

WritePlan ==
  /\ ppc = "write"
  /\ Send([t |-> "plan", id |-> 0, n |-> 0, yes |-> FALSE])
  /\ UNCHANGED <<pending, agreed>>

\* The user types an answer; it goes out with the id of the question.
AnswerQuestion ==
  /\ ppc = "ask"
  /\ \E yes \in BOOLEAN :
       /\ Send([t |-> "answer", id |-> pending.id, n |-> pending.n, yes |-> yes])
       /\ agreed' = IF yes THEN agreed \cup {pending.n} ELSE agreed
  /\ pending' = NoQuestion

Receive(type, next) ==
  /\ ppc = "loop"
  /\ chan # <<>>
  /\ Head(chan).t = type
  /\ chan' = Tail(chan)
  /\ ppc' = next
  /\ UNCHANGED <<mainFrame, outcome, reader, toHelper, wrapper, lock>>

ReceiveEvent == Receive("event", "loop") /\ UNCHANGED <<perr, code, pending>>

ReceiveQuestion ==
  /\ Receive("question", "ask")
  /\ pending' = [NoQuestion EXCEPT !.id = Head(chan).id, !.n = Head(chan).n]
  /\ UNCHANGED <<perr, code>>

ReceiveResult ==
  Receive("result", "reap") /\ code' = "zero" /\ UNCHANGED <<perr, pending>>

ReceiveError ==
  Receive("error", "reap") /\ perr' = "helper" /\ UNCHANGED <<code, pending>>

\* Fault: the end of the stream is taken for a success.
ReceiveEofAsSuccess ==
  Receive("eof", "reap") /\ code' = "zero" /\ UNCHANGED <<perr, pending>>

ReceiveEof == Receive("eof", "reap") /\ UNCHANGED <<perr, code, pending>>

ReceiveReadError ==
  Receive("ioerr", "reap") /\ perr' = "read" /\ UNCHANGED <<code, pending>>

\* recv_timeout found the channel empty for 100 ms; try_wait comes after it.
RecvTimeout == chan = <<>> /\ Goto("loop", "poll")

TryWait == Goto("poll", IF wrapper = "exited" THEN "reap" ELSE "loop")

\* wait_helper_exit: the wrapper exits within two seconds...
Reap == wrapper = "exited" /\ Goto("reap", "join")

\* Fault: the wrapper is not waited for after the kill.
ReapTimeoutWithoutWait ==
  /\ ppc = "reap"
  /\ wrapper = "running"
  /\ ppc' = "join"
  /\ wrapper' = IF KillReaches THEN "exited" ELSE wrapper
  /\ UNCHANGED <<mainFrame, perr, code, outcome, pending, readerVars, toHelper, lock>>

\* ... or is killed, a failure of kill() being ignored ...
ReapTimeout ==
  /\ ppc = "reap"
  /\ wrapper = "running"
  /\ ppc' = "block"
  /\ wrapper' = IF KillReaches THEN "exited" ELSE wrapper
  /\ UNCHANGED <<mainFrame, perr, code, outcome, pending, readerVars, toHelper, lock>>

\* ... and is then waited for without a limit.
Wait == wrapper = "exited" /\ Goto("block", "join")

StopSignalThread ==
  /\ ppc = "join"
  /\ ppc' = "drain"
  /\ sigThread' = "stopped"
  /\ UNCHANGED <<plan, perr, code, outcome, pending, agreed, sticky, caught, defaults, intr,
                 signals, readerVars, pipe, toHelper, wrapper, helperVars, systemVars>>

JoinReader == reader = "stopped" /\ Goto("drain", "decide")

Interrupted == intr \/ sticky

\* An error wins over a result, and a result over an interrupt.
Verdict ==
  IF perr # "none" THEN "failed"
  ELSE IF code # "none" THEN "ok"
  ELSE IF Interrupted THEN "interrupted" ELSE "failed"

Decide ==
  /\ ppc = "decide"
  /\ IF Verdict = "interrupted"
       THEN ppc' = "clean" /\ UNCHANGED outcome
       ELSE ppc' = "drop" /\ outcome' = Verdict
  /\ UNCHANGED <<mainFrame, perr, code, pending, readerVars, toHelper, wrapper, lock>>

\* Fault: the test for a dead owner is inverted.
RemoveDbLockIfAlive(removed) ==
  lock' = IF removed /\ LockOwnerAlive THEN "free" ELSE lock

\* cleanup_pacman_lock: `sudo rm -f db.lck`, whoever owns the file.
RemoveDbLock(removed) == lock' = IF removed THEN "free" ELSE lock

RmResults == IF RmMayFail THEN BOOLEAN ELSE {TRUE}

\* command_status, which runs the rm if there is a file, leaves DEFAULT_SIGNALS set,
\* and ends the process when it finds that a signal was caught.
AfterCommand(next) ==
  /\ defaults' = (defaults \/ lock # "free")
  /\ ppc' = IF lock # "free" /\ caught THEN "dead" ELSE next

\* The interrupted call cleans up and returns InterruptedError, or the error of rm.
CleanInterrupted ==
  /\ ppc = "clean"
  /\ \E removed \in RmResults :
       /\ RemoveDbLock(removed)
       /\ outcome' = IF lock = "free" \/ removed THEN "interrupted" ELSE "failed"
  /\ AfterCommand("drop")
  /\ UNCHANGED <<commandFrame, perr, code, pending, readerVars, toHelper, wrapper>>

\* InterruptCleanupGuard is dropped on every way out; then the call returns.
DropGuards ==
  /\ ppc = "drop"
  /\ IF Interrupted
       THEN (\E removed \in RmResults : RemoveDbLock(removed)) /\ AfterCommand("done")
       ELSE ppc' = "done" /\ UNCHANGED <<lock, defaults>>
  /\ UNCHANGED <<commandFrame, perr, code, outcome, pending, readerVars, toHelper, wrapper>>

ParentStep ==
  \/ Spawn \/ TakeOverSignals \/ WritePlan \/ AnswerQuestion
  \/ ReceiveEvent \/ ReceiveQuestion
  \/ ReceiveResult \/ ReceiveError \/ ReceiveEof \/ ReceiveReadError
  \/ RecvTimeout \/ TryWait \/ Reap \/ ReapTimeout \/ Wait
  \/ StopSignalThread \/ JoinReader \/ Decide \/ CleanInterrupted \/ DropGuards

-----------------------------------------------------------------------------
(* The parent's other threads, and the signals *)

readerFrame == <<plan, parentVars, signalVars, toHelper, wrapper, helperVars, systemVars>>

\* The bah-helper-ipc thread moves a line from the pipe to the channel; a line
\* that is too long is an error that ends it, and closes the pipe.
ReadLine ==
  /\ reader = "running" /\ ppc # "dead"
  /\ pipe # <<>>
  /\ pipe' = Tail(pipe)
  /\ IF Head(pipe).long
       THEN chan' = Append(chan, Message("ioerr", 0, 0, FALSE)) /\ reader' = "stopped"
       ELSE chan' = Append(chan, Head(pipe)) /\ UNCHANGED reader
  /\ UNCHANGED readerFrame

\* End of file: neither the helper nor the wrapper holds the write end.
ReadEof ==
  /\ reader = "running" /\ ppc # "dead"
  /\ pipe = <<>>
  /\ HelperDead /\ wrapper = "exited"
  /\ chan' = Append(chan, Message("eof", 0, 0, FALSE))
  /\ reader' = "stopped"
  /\ UNCHANGED <<readerFrame, pipe>>

ReaderStep == ReadLine \/ ReadEof

\* A signal reaches the helper.  The first action of its handler is the
\* conditional default of DEFAULT_SIGNALS, which nothing clears in the helper:
\* it dies before the thread that would consult COMMIT_INTERRUPT_ALLOWED runs.
SignalHelper(hit) == hpc' = IF hit /\ ~HelperDead THEN "killed" ELSE hpc

signalFrame == <<plan, perr, code, outcome, pending, agreed, readerVars, pipe, toHelper,
                 wrapper, hres, site, tried, nextId, lockId, cur, asked, events,
                 systemVars>>

\* Ctrl-C, or SIGTERM: the parent gets it; the helper may get it too, from the
\* terminal or through the wrapper.
Signal ==
  /\ signals < MaxSignals
  /\ ~ParentGone /\ ppc # "spawn"
  /\ signals' = signals + 1
  /\ \E hit \in BOOLEAN : SignalHelper(hit)
  /\ IF defaults
       THEN ppc' = "dead" /\ UNCHANGED <<sticky, caught>>
       ELSE /\ sticky' = TRUE
            /\ caught' \in (IF sigThread = "new" THEN BOOLEAN ELSE {TRUE})
            /\ UNCHANGED ppc
  /\ UNCHANGED <<signalFrame, defaults, intr, sigThread>>

\* The first poll of the signal thread registers CAUGHT_SIGNAL, if no earlier
\* command of the process did.
RegisterSignals ==
  /\ sigThread = "new"
  /\ ppc \notin {"spawn", "spawned"} /\ ~ParentGone
  /\ sigThread' = "polling"
  /\ UNCHANGED <<signalFrame, ppc, sticky, caught, defaults, intr, signals, hpc>>

\* The signal thread takes the signal, forwards it once and ends.
ForwardSignal ==
  /\ sigThread = "polling" /\ ~ParentGone
  /\ caught
  /\ caught' = FALSE /\ intr' = TRUE /\ sigThread' = "stopped"
  /\ \E hit \in (IF KillReaches THEN BOOLEAN ELSE {FALSE}) : SignalHelper(hit)
  /\ UNCHANGED <<signalFrame, ppc, sticky, defaults, signals>>

SignalThreadStep == RegisterSignals \/ ForwardSignal

\* SIGKILL, SIGHUP, a panic: the parent disappears.
ParentDies ==
  /\ ParentMayDie
  /\ ~ParentGone
  /\ ppc' = "dead"
  /\ UNCHANGED <<signalFrame, sticky, caught, defaults, intr, sigThread, signals, hpc>>

\* The thread of spawn_sudo runs `sudo -v` through command_status, which clears
\* DEFAULT_SIGNALS before the command, sets it after it, and ends the process if a
\* signal was caught: the session's own handling of signals is undone.
SudoLoop ==
  /\ SudoLoops
  /\ ~ParentGone
  /\ \/ defaults' = FALSE /\ UNCHANGED ppc
     \/ defaults' = TRUE /\ ppc' = IF caught THEN "dead" ELSE ppc
  /\ UNCHANGED <<signalFrame, sticky, caught, intr, sigThread, signals, hpc>>

-----------------------------------------------------------------------------
(* The wrapper *)

\* sudo authenticates the user and starts the helper, or gives up.
Authenticate ==
  /\ hpc = "auth" /\ ppc # "spawn"
  /\ hpc' \in {"plan", "exited"}
  /\ UNCHANGED <<helperFrame, pipe, toHelper, hres, site, tried, nextId, lockId, cur,
                 asked, events, lock, db>>

WrapperExits ==
  /\ wrapper = "running"
  /\ HelperDead
  /\ wrapper' = "exited"
  /\ UNCHANGED <<plan, parentVars, signalVars, readerVars, pipe, toHelper, helperVars,
                 systemVars>>

-----------------------------------------------------------------------------
(* The helper: run_helper_transaction and execute_plan_root *)

helperRest == <<hres, site, tried, nextId, lockId, cur, asked, events>>

\* A step of the helper that only moves it.
HelperGoto(next) ==
  /\ hpc' = next
  /\ UNCHANGED <<helperFrame, helperRest, pipe, toHelper, lock, db>>

\* Fault: a way out with an error that keeps the handle, and the lock.
FailKeepingLock ==
  /\ hpc' = "report"
  /\ hres' = "err"
  /\ UNCHANGED <<helperFrame, pipe, site, tried, nextId, lockId, asked, events, lock, db>>

\* Leaving with an error.  The libalpm handle is dropped before the error is
\* reported, and with it the lock file is unlinked.
Fail ==
  /\ hpc' = "report"
  /\ hres' = "err"
  /\ lock' = IF HelperHolds THEN "free" ELSE lock
  /\ UNCHANGED <<helperFrame, pipe, site, tried, nextId, lockId, asked, events, db>>

Abort == Fail /\ UNCHANGED <<cur, toHelper>>

\* A line written to the parent; if nobody can read it, SIGPIPE ends the helper.
Emit(message, next) ==
  IF ReadEndOpen
    THEN pipe' = Append(pipe, message) /\ hpc' = next
    ELSE hpc' = "killed" /\ UNCHANGED pipe

\* The plan arrives.  A plan that validate_plan rejects ends the helper before
\* it has set up its message channel: the parent is not told why.
ReadPlan ==
  /\ hpc = "plan"
  /\ toHelper # <<>>
  /\ toHelper' = Tail(toHelper)
  /\ hpc' = IF plan.valid THEN "open" ELSE "exited"
  /\ UNCHANGED <<helperFrame, helperRest, pipe, lock, db>>

\* The parent died before the plan was written.
PlanEof ==
  /\ hpc = "plan"
  /\ toHelper = <<>> /\ ~WriteEndOpen
  /\ HelperGoto("exited")

FirstStep ==
  IF plan.op = "reason" THEN "reason" ELSE IF plan.refresh THEN "refresh" ELSE "init"

OpenAlpm ==
  /\ hpc = "open"
  /\ HelperGoto(FirstStep) \/ Abort

\* SetInstallReason writes package by package, without taking the lock.
WriteReason ==
  /\ hpc = "reason"
  /\ db = "untouched"
  /\ db' = "partial"
  /\ UNCHANGED <<helperFrame, hpc, helperRest, pipe, toHelper, lock>>

EndReason ==
  /\ hpc = "reason"
  /\ \/ /\ hpc' = "report" /\ hres' = "ok"
        /\ db' = IF db = "partial" THEN "applied" ELSE "nothing"
        /\ UNCHANGED <<helperFrame, site, tried, nextId, lockId, cur, asked, events,
                       pipe, toHelper, lock>>
     \/ Abort

\* syncdbs.update and trans_init create db.lck.  The first time the lock is
\* held, recover_from_stale_lock runs; the second time is an error.
TakeLock(here, got) ==
  /\ hpc = here
  /\ \/ /\ lock = "free"
        /\ lock' = "helper" /\ hpc' = got /\ UNCHANGED <<site>>
     \/ /\ lock # "free" /\ ~tried
        /\ hpc' = "check" /\ site' = here /\ UNCHANGED lock
  /\ UNCHANGED <<helperFrame, hres, tried, nextId, lockId, cur, asked, events, pipe,
                 toHelper, db>>

\* The lock is still held, or libalpm reports another error.
LockFails(here) == hpc = here /\ Abort

RefreshDatabases == TakeLock("refresh", "update") \/ LockFails("refresh")

\* The update ends and unlocks; trans_init has a recovery of its own.
EndRefresh ==
  /\ hpc = "update"
  /\ \/ /\ hpc' = "init" /\ lock' = "free" /\ tried' = FALSE
        /\ UNCHANGED <<helperFrame, hres, site, nextId, lockId, cur, asked, events,
                       pipe, toHelper, db>>
     \/ Abort

InitTransaction == TakeLock("init", "resolve") \/ LockFails("init")

\* Fault: the question about the lock has yes for its default, as the others have.
CheckLockDefaultYes ==
  /\ hpc = "check"
  /\ \/ lock = "free" /\ HelperGoto("remove")
     \/ /\ lock # "free"
        /\ (PidInLock /\ LockOwnerAlive) \/ plan.noConfirm
        /\ Abort
     \/ /\ lock # "free"
        /\ ~(PidInLock /\ LockOwnerAlive) /\ ~plan.noConfirm
        /\ Emit(Message("question", lockId, asked + 1, FALSE), "wait")
        /\ cur' = [id |-> lockId, n |-> asked + 1, back |-> "lock", default |-> TRUE]
        /\ lockId' = lockId + 1 /\ asked' = asked + 1
        /\ UNCHANGED <<helperFrame, hres, site, tried, nextId, events, toHelper,
                       lock, db>>

\* confirm_stale_db_lock_removal
CheckLock ==
  /\ hpc = "check"
  /\ \/ lock = "free" /\ HelperGoto("remove")
     \/ /\ lock # "free"
        /\ (PidInLock /\ LockOwnerAlive) \/ plan.noConfirm
        /\ Abort
     \/ /\ lock # "free"
        /\ ~(PidInLock /\ LockOwnerAlive) /\ ~plan.noConfirm
        /\ Emit(Message("question", lockId, asked + 1, FALSE), "wait")
        /\ cur' = [id |-> lockId, n |-> asked + 1, back |-> "lock", default |-> FALSE]
        /\ lockId' = lockId + 1 /\ asked' = asked + 1
        /\ UNCHANGED <<helperFrame, hres, site, tried, nextId, events, toHelper,
                       lock, db>>

\* recover_from_stale_lock removes the file that is there now ...
RemoveStaleLock ==
  /\ hpc = "remove"
  /\ \/ /\ lock' = "free" /\ hpc' = "reopen"
        /\ UNCHANGED <<helperFrame, helperRest, pipe, toHelper, db>>
     \/ Abort

\* Fault: the fresh handle numbers its questions from 0.
ReopenAtZero ==
  /\ hpc = "reopen"
  /\ Emit(Message("event", 0, 0, FALSE), site)
  /\ tried' = TRUE /\ nextId' = 0
  /\ UNCHANGED <<helperFrame, hres, site, lockId, cur, asked, events, toHelper, lock, db>>

\* ... reports it, and continues with a fresh handle, whose question numbers
\* start again; there may be no fresh handle.
Reopen ==
  /\ hpc = "reopen"
  /\ \/ Emit(Message("event", 0, 0, FALSE), site) /\ UNCHANGED hres
     \/ Emit(Message("event", 0, 0, FALSE), "report") /\ hres' = "err"
  /\ tried' = TRUE /\ nextId' = 1
  /\ UNCHANGED <<helperFrame, site, lockId, cur, asked, events, toHelper, lock, db>>

\* helper_question_cb.  With no_confirm the default is taken and nothing is sent.
AskCallback ==
  /\ hpc \in {"update", "resolve", "commit"}
  /\ ~plan.noConfirm
  /\ asked < MaxQuestions
  /\ \E long \in Lengths : Emit(Message("question", nextId, asked + 1, long), "wait")
  /\ cur' = [id |-> nextId, n |-> asked + 1, back |-> hpc, default |-> TRUE]
  /\ nextId' = nextId + 1 /\ asked' = asked + 1
  /\ UNCHANGED <<helperFrame, hres, site, tried, lockId, events, toHelper, lock, db>>

\* The question is settled: a refused removal of the lock ends the transaction,
\* any other answer is handed to libalpm.
Settle(yes) ==
  /\ hpc = "wait"
  /\ cur' = NoQuestion
  /\ \/ cur.back = "lock" /\ ~yes /\ Fail
     \/ /\ cur.back # "lock" \/ yes
        /\ hpc' = IF cur.back = "lock" THEN "remove" ELSE cur.back
        /\ UNCHANGED <<helperFrame, hres, site, tried, nextId, lockId, asked, events,
                       pipe, lock, db>>

\* wait_parent_answer reads lines until one has the id of the question.
TakeAnswer ==
  /\ hpc = "wait"
  /\ toHelper # <<>>
  /\ toHelper' = Tail(toHelper)
  /\ IF Head(toHelper).t = "answer" /\ Head(toHelper).id = cur.id
       THEN Settle(Head(toHelper).yes)
       ELSE UNCHANGED <<helperFrame, hpc, helperRest, pipe, lock, db>>

\* Fault: the helper does not wait for the answer.
AnswerLostAtOnce ==
  /\ toHelper = <<>>
  /\ Settle(cur.default)
  /\ UNCHANGED toHelper

\* Fault: the helper reads again at the end of its input.
AnswerLostIgnored ==
  /\ hpc = "wait"
  /\ toHelper = <<>> /\ ~WriteEndOpen
  /\ UNCHANGED vars

\* At the end of its input the helper settles for the default.
AnswerLost ==
  /\ toHelper = <<>> /\ ~WriteEndOpen
  /\ Settle(cur.default)
  /\ UNCHANGED toHelper

\* Progress, hooks and log lines.
EmitEvent ==
  /\ hpc \in {"update", "resolve", "commit"}
  /\ events < MaxEvents
  /\ \E long \in Lengths : Emit(Message("event", 0, 0, long), hpc)
  /\ events' = events + 1
  /\ UNCHANGED <<helperFrame, hres, site, tried, nextId, lockId, cur, asked, toHelper,
                 lock, db>>

\* The helper is finished with libalpm and has only the lock left to give back.
Finish(result, effect) ==
  /\ hpc' = "unlock" /\ hres' = result /\ db' = effect
  /\ UNCHANGED <<helperFrame, site, tried, nextId, lockId, cur, asked, events, pipe,
                 toHelper, lock>>

\* -Sy and -Su may leave nothing to do; any other empty transaction is refused.
EmptyAllowed == plan.op = "sync" /\ (plan.refresh \/ plan.sysupgrade)

\* Targets are added and the transaction is prepared.
Resolve ==
  /\ hpc = "resolve"
  /\ \/ HelperGoto("verify")
     \/ EmptyAllowed /\ Finish("ok", "nothing")
     \/ Abort

\* The checks before the commit; a print-only plan stops here.
Verify ==
  /\ hpc = "verify"
  /\ \/ plan.scope = "print" /\ Finish("ok", "nothing")
     \/ plan.scope # "print" /\ (HelperGoto("commit") \/ Abort)

\* trans_commit starts to change the system ...
CommitWrite ==
  /\ hpc = "commit"
  /\ plan.scope = "full"
  /\ db = "untouched"
  /\ db' = "partial"
  /\ UNCHANGED <<helperFrame, hpc, helperRest, pipe, toHelper, lock>>

\* ... and ends: done, or with an error at any point.
CommitEnd ==
  /\ hpc = "commit"
  /\ \/ plan.scope = "download" /\ Finish("ok", "nothing")
     \/ db = "partial" /\ Finish("ok", "applied")
     \/ Finish("err", db)

\* TransactionCleanupGuard: trans_release, then alpm_unlock, on success and on
\* failure alike (skip_unlock has no caller).
Unlock ==
  /\ hpc = "unlock"
  /\ lock' = "free"
  /\ hpc' = "report"
  /\ UNCHANGED <<helperFrame, helperRest, pipe, toHelper, db>>

Report ==
  /\ hpc = "report"
  /\ Emit(Message(IF hres = "ok" THEN "result" ELSE "error", 0, 0, FALSE), "leave")
  /\ UNCHANGED <<helperFrame, helperRest, toHelper, lock, db>>

Exit == hpc = "leave" /\ HelperGoto("exited")

HelperStep ==
  \/ ReadPlan \/ PlanEof \/ OpenAlpm \/ WriteReason \/ EndReason
  \/ RefreshDatabases \/ EndRefresh \/ InitTransaction
  \/ CheckLock \/ RemoveStaleLock \/ Reopen
  \/ AskCallback \/ TakeAnswer \/ AnswerLost \/ EmitEvent
  \/ Resolve \/ Verify \/ CommitWrite \/ CommitEnd \/ Unlock \/ Report \/ Exit

-----------------------------------------------------------------------------
(* Another user of the package database, through libalpm as well: it takes  *)
(* the lock only if there is no file, unlinks the file when it is done, and *)
(* leaves it behind when it crashes.                                        *)

otherFrame == <<plan, parentVars, signalVars, readerVars, pipe, toHelper, wrapper,
                helperVars, db>>

OtherLocks ==
  /\ OtherArrives
  /\ other = "idle" /\ lock = "free"
  /\ other' = "busy" /\ lock' = "other"
  /\ UNCHANGED otherFrame

OtherUnlocks ==
  /\ other = "busy"
  /\ other' = "idle" /\ lock' = "free"
  /\ UNCHANGED otherFrame

OtherCrashes ==
  /\ other = "busy"
  /\ other' = "crashed"
  /\ UNCHANGED <<otherFrame, lock>>

OtherStep == OtherLocks \/ OtherUnlocks \/ OtherCrashes

-----------------------------------------------------------------------------
(* The session *)

\* The call is over and nothing of it runs any more.
Over == ParentGone /\ HelperDead

Terminated == Over /\ UNCHANGED vars

Next ==
  \/ ParentStep \/ ReaderStep \/ SignalThreadStep \/ Signal \/ ParentDies \/ SudoLoop
  \/ Authenticate \/ WrapperExits \/ HelperStep \/ OtherStep \/ Terminated

Spec == Init /\ [][Next]_vars

\* Every thread and process keeps running, and the user answers a prompt.
Fairness ==
  /\ WF_vars(ParentStep) /\ WF_vars(ReaderStep) /\ WF_vars(SignalThreadStep)
  /\ WF_vars(Authenticate) /\ WF_vars(WrapperExits) /\ WF_vars(HelperStep)

LiveSpec == Spec /\ Fairness

-----------------------------------------------------------------------------
(* Properties *)

ParentPlaces ==
  {"spawn", "spawned", "write", "loop", "ask", "poll", "reap", "block", "join",
   "drain", "decide", "clean", "drop", "done", "dead"}

HelperPlaces ==
  {"auth", "plan", "open", "reason", "refresh", "update", "init", "check", "remove",
   "reopen", "resolve", "verify", "commit", "wait", "unlock", "report", "leave",
   "exited", "killed"}

ParentTypeOK ==
  /\ plan \in Plans
  /\ ppc \in ParentPlaces
  /\ perr \in {"none", "helper", "read"} /\ code \in {"none", "zero"}
  /\ outcome \in {"none", "ok", "failed", "interrupted"}
  /\ pending \in Questions
  /\ sticky \in BOOLEAN /\ caught \in BOOLEAN /\ defaults \in BOOLEAN
  /\ intr \in BOOLEAN /\ sigThread \in {"new", "polling", "stopped"} /\ signals \in Nat
  /\ agreed \subseteq Nat

PipeTypeOK ==
  /\ reader \in {"running", "stopped"} /\ wrapper \in {"running", "exited"}
  /\ chan \in Seq(Messages) /\ pipe \in Seq(Messages) /\ toHelper \in Seq(Inputs)

HelperTypeOK ==
  /\ hpc \in HelperPlaces
  /\ hres \in {"none", "ok", "err"} /\ site \in {"refresh", "init"}
  /\ tried \in BOOLEAN
  /\ nextId \in Nat \ {0} /\ lockId \in Nat /\ asked \in Nat /\ events \in Nat
  /\ cur \in Questions /\ (hpc = "wait" => cur.back # "none")

SystemTypeOK ==
  /\ lock \in {"free", "helper", "other"}
  /\ db \in {"untouched", "partial", "applied", "nothing"}
  /\ other \in {"idle", "busy", "crashed"}

\* Type invariant.
TypeOK == ParentTypeOK /\ PipeTypeOK /\ HelperTypeOK /\ SystemTypeOK

\* run_plan_with_helper reports success only for a plan that the helper has
\* applied in full, or that asked for nothing, whatever was lost on the way.
OkMeansDone == outcome = "ok" => db \in {"applied", "nothing"}

\* When run_plan_with_helper returns, its helper is gone: the caller's next step
\* (the legacy pacman fallback, the next transaction) never runs beside it.
ReturnMeansHelperGone == ppc = "done" => HelperDead

\* The recovery goes on to remove db.lck only if there was no file when it looked,
\* or the user typed yes to this very question: a lost answer, a dead parent,
\* no_confirm or the answer to another question never removes a lock.
RemovalAgreed ==
  [][hpc # "remove" /\ hpc' = "remove" =>
       \/ hpc = "check" /\ lock = "free"
       \/ hpc = "wait" /\ cur.back = "lock" /\ cur.n \in agreed]_vars

\* Questions and answers stay in step: while the helper waits, nothing but the
\* answer to the question it waits for is on its way.  So it is harmless that
\* wait_parent_answer goes by the id alone, and that a fresh handle numbers its
\* questions from 1 again.
AnswersInStep ==
  hpc = "wait" => \A i \in 1..Len(toHelper) :
    toHelper[i].t = "answer" /\ toHelper[i].id = cur.id /\ toHelper[i].n = cur.n

\* Every way out of execute_plan_root gives db.lck back, whatever step failed: a
\* helper that was not killed leaves no lock behind.
LockGivenBack == hpc = "exited" => lock # "helper"

\* After an interrupted call has returned, no lock of the dead helper remains to
\* block the user's next transaction.
InterruptCleansLock == ppc = "done" /\ Interrupted => lock # "helper"

\* The session implements the promise of Transaction: the caller learns the
\* outcome when the call returns, or never if the parent dies first.
Returned == IF ppc = "dead" THEN "abandoned" ELSE IF ppc = "done" THEN outcome ELSE "none"

Promise == INSTANCE Transaction WITH outcome <- Returned

ImplementsTransaction == Promise!Spec

\* Every call ends: the parent returns and no helper stays behind, waiting for an
\* answer or holding the lock.
SessionEnds == <>Over

\* The parent always gets from the end of its loop to the join of the reader
\* thread, as the comment on that join says.
JoinReached == (ppc = "reap") ~> (ppc \in {"drain", "dead"})

\* An interrupt never kills the helper in the middle of trans_commit.
CommitNeverTorn == hpc = "killed" => db # "partial"

\* A call that was interrupted while it waited for its helper never comes back as an
\* ordinary failure, which the backend would repeat with pacman.
InterruptedIsReported == [](ppc = "loop" /\ intr => [](outcome # "failed"))

\* db.lck is never taken from a program that is using it, unless the user was asked
\* and agreed.
LiveLockTakenOnlyIfAgreed ==
  [][lock = "other" /\ other = "busy" =>
       lock' = "other" \/ other' = "idle" \/ asked \in agreed]_vars

=============================================================================
