------------------------------- MODULE Backend -------------------------------
(***************************************************************************)
(* backend::pacman: how a command of bah reaches the package database.     *)
(* Several bah processes call it, one call after the other.  A call goes   *)
(* to the transaction helper, to libalpm in the process itself (when bah   *)
(* runs as root) or to pacman, and to pacman once more when the first way  *)
(* failed.  What the helper does is taken from the module Transaction,     *)
(* which TxSession implements: here a call of run_plan_with_helper is      *)
(* that promise and nothing more.                                          *)
(***************************************************************************)
EXTENDS Naturals, Sequences

CONSTANTS
  Callers,       \* the bah processes
  Commands,      \* what they may be asked to do
  Settings,      \* the environments they may run in
  NoOne,         \* db.lck does not exist
  Stale,         \* db.lck was left behind by a program that is gone
  MaxCalls,      \* bound: calls of backend::pacman per process
  MayCrash,      \* a process may die with the lock in its hands
  MayInterrupt   \* the user may press Ctrl-C while the helper runs

KeyNames ==
  {"c", "clean", "cascade", "d", "nodeps", "n", "nosave", "s", "recursive", "u", "unneeded",
   "sysupgrade", "y", "refresh", "w", "downloadonly", "p", "print", "needed", "dbonly",
   "overwrite", "asdeps"}

Ops == {"sync", "remove", "upgrade", "query", "database"}

\* Args: the operation, how often each key was given, and whether there are targets.
Command == [op : Ops, keys : [KeyNames -> 0..2], targets : BOOLEAN]

\* BAH_BACKEND, BAH_BACKEND_STRICT and the effective uid.
Setting == [legacy : BOOLEAN, strict : BOOLEAN, root : BOOLEAN]

ASSUME BackendAssumption ==
  /\ Commands \subseteq Command /\ Commands # {} /\ Settings \subseteq Setting
  /\ NoOne \notin Callers /\ Stale \notin Callers /\ NoOne # Stale
  /\ MaxCalls \in Nat /\ MayCrash \in BOOLEAN /\ MayInterrupt \in BOOLEAN

VARIABLES
  pc,        \* where each process is in backend::pacman
  conf,      \* its environment
  call,      \* the command of the current call
  calls,     \* how many calls it has made
  status,    \* what the current call returned
  applied,   \* how the current call has changed the system: who did it, with which flags
  db, told,  \* the Transaction of the current call: its effect and its report
  sticky,    \* exec::INTERRUPTED of each process
  lock       \* db.lck: NoOne, Stale or the process that owns it

vars == <<pc, conf, call, calls, status, applied, db, told, sticky, lock>>

Promise(p) == INSTANCE Transaction WITH db <- db[p], outcome <- told[p]

\* The Transaction of p takes a step, and no other one.
Transact(p) ==
  \E d \in {"untouched", "partial", "applied", "nothing"},
     o \in {"none", "ok", "failed", "interrupted"} :
    /\ db' = [db EXCEPT ![p] = d]
    /\ told' = [told EXCEPT ![p] = o]

------------------------------------------------------------------------------
(* Options and flags *)

Count(c, short, long) == c.keys[short] + IF short = long THEN 0 ELSE c.keys[long]

Has(c, short, long) == Count(c, short, long) > 0

\* need_root: the operation of a command that changes the system.
NeedRoot(c) ==
  CASE c.op \in {"upgrade", "database"} -> TRUE
    [] c.op = "remove" -> ~Has(c, "p", "print")
    [] c.op = "sync" -> Has(c, "y", "refresh") \/ ~Has(c, "p", "print")
    [] OTHER -> FALSE

Flag(c, short, long, flag) == IF Has(c, short, long) THEN {flag} ELSE {}

Twice(c, short, long, flag) == IF Count(c, short, long) > 1 THEN {flag} ELSE {}

\* trans_flags_for_sync, trans_flags_for_upgrade.
InstallFlags(c) ==
  UNION {Flag(c, "w", "downloadonly", "DOWNLOAD_ONLY"), Flag(c, "d", "nodeps", "NO_DEPS"),
         Twice(c, "d", "nodeps", "NO_DEP_VERSION"), Flag(c, "needed", "needed", "NEEDED"),
         Flag(c, "dbonly", "dbonly", "DB_ONLY"), Flag(c, "overwrite", "overwrite", "NO_CONFLICTS")}

\* trans_flags_for_remove: the short forms -c, -n, -s and -u are not looked for.
RemoveFlags(c) ==
  UNION {Flag(c, "d", "nodeps", "NO_DEPS"), Flag(c, "cascade", "cascade", "CASCADE"),
         Flag(c, "nosave", "nosave", "NO_SAVE"), Flag(c, "dbonly", "dbonly", "DB_ONLY"),
         Flag(c, "recursive", "recursive", "RECURSE"),
         Twice(c, "recursive", "recursive", "RECURSE_ALL"),
         Flag(c, "unneeded", "unneeded", "UNNEEDED")}

RootFlags(c) == IF c.op = "remove" THEN RemoveFlags(c) ELSE InstallFlags(c)

\* Fault: the plan of a removal forgets the options of the dependencies.
PlanOfForgetful(c) ==
  [op |-> c.op, nodeps |-> Count(c, "d", "nodeps"), recursive |-> 0,
   set |-> {k \in {"needed", "dbonly", "overwrite", "cascade", "nosave", "unneeded"} : Has(c, k, k)}]

\* plan_from_args: the fields of the TransactionPlan.
PlanOf(c) ==
  [op |-> c.op,
   nodeps |-> IF c.op = "remove" THEN (IF Has(c, "d", "nodeps") THEN 1 ELSE 0)
                                 ELSE Count(c, "d", "nodeps"),
   recursive |-> Count(c, "recursive", "recursive"),
   set |-> {k \in {"needed", "dbonly", "overwrite", "cascade", "nosave", "unneeded"} : Has(c, k, k)}
           \cup Flag(c, "w", "downloadonly", "downloadonly")]

\* execute_plan_root: the flags of the transaction the helper starts.
PlanFlags(plan) ==
  LET flagOf == [downloadonly |-> "DOWNLOAD_ONLY", needed |-> "NEEDED", dbonly |-> "DB_ONLY",
                 overwrite |-> "NO_CONFLICTS", cascade |-> "CASCADE", nosave |-> "NO_SAVE",
                 unneeded |-> "UNNEEDED"]
      known == IF plan.op = "remove" THEN {"dbonly", "cascade", "nosave", "unneeded"}
                                     ELSE {"downloadonly", "needed", "dbonly", "overwrite"}
  IN  {flagOf[k] : k \in plan.set \cap known}
        \cup (IF plan.nodeps > 0 THEN {"NO_DEPS"} ELSE {})
        \cup (IF plan.nodeps > 1 THEN {"NO_DEP_VERSION"} ELSE {})
        \cup (IF plan.op = "remove" /\ plan.recursive > 0 THEN {"RECURSE"} ELSE {})
        \cup (IF plan.op = "remove" /\ plan.recursive > 1 THEN {"RECURSE_ALL"} ELSE {})

\* What pacman itself makes of the same options.
PacmanFlags(c) ==
  IF c.op = "remove"
    THEN UNION {Flag(c, "c", "cascade", "CASCADE"), Flag(c, "n", "nosave", "NO_SAVE"),
                Flag(c, "dbonly", "dbonly", "DB_ONLY"), Flag(c, "s", "recursive", "RECURSE"),
                Twice(c, "s", "recursive", "RECURSE_ALL"), Flag(c, "u", "unneeded", "UNNEEDED"),
                Flag(c, "d", "nodeps", "NO_DEP_VERSION"), Twice(c, "d", "nodeps", "NO_DEPS")}
    ELSE UNION {Flag(c, "w", "downloadonly", "DOWNLOAD_ONLY"), Flag(c, "needed", "needed", "NEEDED"),
                Flag(c, "dbonly", "dbonly", "DB_ONLY"), Flag(c, "overwrite", "overwrite", "OVERWRITE"),
                Flag(c, "d", "nodeps", "NO_DEP_VERSION"), Twice(c, "d", "nodeps", "NO_DEPS"),
                Flag(c, "asdeps", "asdeps", "ALL_DEPS")}

PrintOnly(c) == Has(c, "p", "print")

------------------------------------------------------------------------------
(* One call *)

Init ==
  /\ pc = [p \in Callers |-> "idle"]
  /\ conf \in [Callers -> Settings]
  /\ call = [p \in Callers |-> CHOOSE c \in Commands : TRUE]
  /\ calls = [p \in Callers |-> 0]
  /\ status = [p \in Callers |-> "none"]
  /\ applied = [p \in Callers |-> <<>>]
  /\ db = [p \in Callers |-> "untouched"]
  /\ told = [p \in Callers |-> "none"]
  /\ sticky \in [Callers -> {FALSE, MayInterrupt}]  \* by a call of the same process before
  /\ lock = NoOne

frame == <<conf, call, calls>>
transaction == <<db, told, sticky>>

Goto(p, label) == pc' = [pc EXCEPT ![p] = label] /\ UNCHANGED status

Return(p, result) ==
  /\ pc' = [pc EXCEPT ![p] = "done"]
  /\ status' = [status EXCEPT ![p] = result]

Change(p, by, flags) ==
  applied' = [applied EXCEPT ![p] = Append(@, [by |-> by, flags |-> flags])]

\* libalpm creates db.lck, or fails.
Take(p) == lock = NoOne /\ lock' = p

\* The file is deleted by its name: it need not be the one that the process has created.
Unlink == lock' = NoOne

\* The owner dies without deleting the file.
Leave(p) == lock' = IF lock = p THEN Stale ELSE lock

Call(p) ==
  /\ pc[p] \in {"idle", "done"}
  /\ calls[p] < MaxCalls
  /\ pc' = [pc EXCEPT ![p] = "dispatch"]
  /\ \E c \in Commands : call' = [call EXCEPT ![p] = c]
  /\ calls' = [calls EXCEPT ![p] = @ + 1]
  /\ status' = [status EXCEPT ![p] = "none"]
  /\ applied' = [applied EXCEPT ![p] = <<>>]
  /\ db' = [db EXCEPT ![p] = "untouched"]
  /\ told' = [told EXCEPT ![p] = "none"]
  /\ UNCHANGED <<conf, sticky, lock>>

\* Where a call goes first; "error" is an Err of the alpm backend.
Route(c, s) ==
  IF s.legacy \/ (c.op = "sync" /\ Has(c, "c", "clean")) THEN "wait"
  ELSE IF c.op \in {"query", "database"} THEN "error"
  ELSE IF NeedRoot(c) /\ ~s.root THEN "helper"
  ELSE IF c.op = "sync" /\ Has(c, "y", "refresh") THEN "refresh" ELSE "init"

Dispatch(p) ==
  /\ pc[p] = "dispatch"
  /\ Goto(p, Route(call[p], conf[p]))
  /\ UNCHANGED <<frame, transaction, applied, lock>>

\* Fault: BAH_BACKEND_STRICT is not looked at.
FallbackAlways(p) ==
  /\ pc[p] = "error"
  /\ Goto(p, "wait")
  /\ UNCHANGED <<frame, transaction, applied, lock>>

\* Fault: with BAH_BACKEND_STRICT the error is printed and then forgotten.
FallbackForgets(p) ==
  /\ pc[p] = "error"
  /\ Goto(p, IF conf[p].strict THEN "done" ELSE "wait")
  /\ UNCHANGED <<frame, transaction, applied, lock>>

\* Any error but InterruptedError is answered with pacman, unless BAH_BACKEND_STRICT is set.
Fallback(p) ==
  /\ pc[p] = "error"
  /\ IF conf[p].strict THEN Return(p, "error") ELSE Goto(p, "wait")
  /\ UNCHANGED <<frame, transaction, applied, lock>>

------------------------------------------------------------------------------
(* libalpm in the process itself: run_sync, run_remove, run_upgrade *)

\* syncdbs.update takes db.lck, or fails.
RootRefresh(p) ==
  /\ pc[p] = "refresh"
  /\ \/ Take(p) /\ Goto(p, "refreshing")
     \/ Goto(p, "error") /\ UNCHANGED lock
  /\ UNCHANGED <<frame, transaction, applied>>

\* It holds the lock while the databases are downloaded; -Sy alone is then finished.
RootRefreshed(p) ==
  /\ pc[p] = "refreshing"
  /\ Unlink
  /\ \/ IF ~Has(call[p], "u", "sysupgrade") /\ ~call[p].targets
          THEN Return(p, "ok") ELSE Goto(p, "init")
     \/ Goto(p, "error")
  /\ UNCHANGED <<frame, transaction, applied>>

\* trans_init: there is no recovery of a stale lock here, and no lock for a plain user.
RootInit(p) ==
  /\ pc[p] = "init"
  /\ \/ conf[p].root /\ Take(p) /\ Goto(p, "prepare")
     \/ Goto(p, "error") /\ UNCHANGED lock
  /\ UNCHANGED <<frame, transaction, applied>>

\* Targets, trans_prepare and the checks before a commit; --print ends here.
RootPrepare(p) ==
  /\ pc[p] = "prepare"
  /\ \/ ~PrintOnly(call[p]) /\ Goto(p, "commit") /\ UNCHANGED lock
     \/ PrintOnly(call[p]) /\ Return(p, "ok") /\ Unlink
     \/ Goto(p, "error") /\ Unlink
  /\ UNCHANGED <<frame, transaction, applied>>

\* Fault: trans_release is left out, the lock outlives the transaction.
RootCommitKeepsLock(p) ==
  /\ pc[p] = "commit"
  /\ \/ Change(p, "root", RootFlags(call[p])) /\ (Return(p, "ok") \/ Goto(p, "error"))
     \/ Goto(p, "error") /\ UNCHANGED applied
  /\ UNCHANGED <<frame, transaction, lock>>

\* trans_commit, then trans_release whatever came of it.  A hook that fails after the
\* packages were changed is an error as well.
RootCommit(p) ==
  /\ pc[p] = "commit"
  /\ \/ Change(p, "root", RootFlags(call[p])) /\ (Return(p, "ok") \/ Goto(p, "error"))
     \/ Goto(p, "error") /\ UNCHANGED applied
  /\ Unlink
  /\ UNCHANGED <<frame, transaction>>

------------------------------------------------------------------------------
(* The helper: the steps of Transaction, and db.lck *)

HelperLocks(p) ==
  /\ pc[p] = "helper"
  /\ Take(p)
  /\ Goto(p, "locked")
  /\ UNCHANGED <<frame, transaction, applied>>

\* confirm_stale_db_lock_removal: it refuses only if the file names a process that is alive, and
\* libalpm writes no pid.  The user may agree whoever holds the lock.
HelperConfirms(p) ==
  /\ pc[p] = "helper" /\ lock # NoOne
  /\ Goto(p, "recover")
  /\ UNCHANGED <<frame, transaction, applied, lock>>

\* recover_from_stale_lock: the file is removed some time after the question.
HelperRemovesLock(p) ==
  /\ pc[p] = "recover"
  /\ Unlink
  /\ Goto(p, "helper")
  /\ UNCHANGED <<frame, transaction, applied>>

HelperBegins(p) ==
  /\ pc[p] = "locked" /\ ~PrintOnly(call[p])
  /\ Transact(p) /\ Promise(p)!Begin
  /\ UNCHANGED <<pc, frame, sticky, status, applied, lock>>

HelperApplies(p) ==
  /\ pc[p] = "locked"
  /\ Transact(p) /\ Promise(p)!Apply
  /\ Change(p, "helper", PlanFlags(PlanOf(call[p])))
  /\ UNCHANGED <<pc, frame, sticky, status, lock>>

\* A plan that only prints, or that finds nothing to do.
HelperSkips(p) ==
  /\ pc[p] = "locked"
  /\ Transact(p) /\ Promise(p)!Skip
  /\ UNCHANGED <<pc, frame, sticky, status, applied, lock>>

\* The helper ends, in good order or with an error, whatever it has done so far.
HelperEnds(p) ==
  /\ \/ pc[p] \in {"helper", "recover"} /\ UNCHANGED lock
     \/ pc[p] = "locked" /\ Unlink
  /\ Goto(p, "answer")
  /\ UNCHANGED <<frame, transaction, applied>>

\* Ctrl-C: the helper dies where it is, and INTERRUPTED stays set in the caller.
Interrupt(p) ==
  /\ MayInterrupt
  /\ pc[p] \in {"helper", "recover", "locked"} /\ ~sticky[p]
  /\ sticky' = [sticky EXCEPT ![p] = TRUE]
  /\ Goto(p, "answer")
  /\ Leave(p)
  /\ UNCHANGED <<frame, db, told, applied>>

\* InterruptCleanupGuard: with the flag set, db.lck is removed on the way out.
DropGuards(p) == IF sticky[p] THEN Unlink ELSE UNCHANGED lock

\* Fault: a helper that ended without a result is taken for a success.
HelperSucceedsBlindly(p) ==
  /\ pc[p] = "answer"
  /\ told' = [told EXCEPT ![p] = "ok"]
  /\ DropGuards(p)
  /\ Return(p, "ok")
  /\ UNCHANGED <<frame, db, sticky, applied>>

HelperSucceeds(p) ==
  /\ pc[p] = "answer"
  /\ Transact(p) /\ Promise(p)!ReturnOk
  /\ DropGuards(p)
  /\ Return(p, "ok")
  /\ UNCHANGED <<frame, sticky, applied>>

\* InterruptedError goes to the user, any other error to the fallback.
HelperFails(p) ==
  /\ pc[p] = "answer"
  /\ Transact(p) /\ Promise(p)!ReturnError
  /\ told'[p] = "interrupted" => sticky[p]
  /\ DropGuards(p)
  /\ IF told'[p] = "interrupted" THEN Return(p, "interrupted") ELSE Goto(p, "error")
  /\ UNCHANGED <<frame, sticky, applied>>

------------------------------------------------------------------------------
(* pacman *)

\* wait_for_lock, which only commands that need root go through.
Wait(p) ==
  /\ pc[p] = "wait"
  /\ NeedRoot(call[p]) => lock = NoOne
  /\ Goto(p, "exec")
  /\ UNCHANGED <<frame, transaction, applied, lock>>

\* pacman takes the lock itself, if another program was not faster.
PacmanStarts(p) ==
  /\ pc[p] = "exec"
  /\ IF ~NeedRoot(call[p]) \/ PrintOnly(call[p])
       THEN Return(p, "ok") /\ UNCHANGED lock
       ELSE \/ Take(p) /\ Goto(p, "pacman")
            \/ lock # NoOne /\ Return(p, "failed") /\ UNCHANGED lock
  /\ UNCHANGED <<frame, transaction, applied>>

PacmanEnds(p) ==
  /\ pc[p] = "pacman"
  /\ \/ Change(p, "pacman", PacmanFlags(call[p])) /\ Return(p, "ok")
     \/ Return(p, "failed") /\ UNCHANGED applied
  /\ Unlink
  /\ UNCHANGED <<frame, transaction>>

------------------------------------------------------------------------------
(* The processes *)

\* A program that owns db.lck is killed: bah itself, its helper or its pacman.
Killed(p) ==
  /\ MayCrash
  /\ \/ pc[p] \in {"refreshing", "prepare", "commit"} /\ Goto(p, "dead")
     \/ pc[p] = "locked" /\ Goto(p, "answer")
     \/ pc[p] = "pacman" /\ Return(p, "failed")
  /\ Leave(p)
  /\ UNCHANGED <<frame, transaction, applied>>

InProcess(p) ==
  RootRefresh(p) \/ RootRefreshed(p) \/ RootInit(p) \/ RootPrepare(p) \/ RootCommit(p)

Helper(p) ==
  \/ HelperLocks(p) \/ HelperConfirms(p) \/ HelperRemovesLock(p)
  \/ HelperBegins(p) \/ HelperApplies(p) \/ HelperSkips(p) \/ HelperEnds(p)
  \/ HelperSucceeds(p) \/ HelperFails(p)

\* What a process does without waiting for another one.
Work(p) ==
  Dispatch(p) \/ Fallback(p) \/ InProcess(p) \/ Helper(p) \/ PacmanStarts(p) \/ PacmanEnds(p)

Stuck(p) == pc[p] = "wait" /\ lock = Stale

Over ==
  \A p \in Callers :
    pc[p] = "dead" \/ Stuck(p) \/ (pc[p] \in {"idle", "done"} /\ calls[p] = MaxCalls)

Terminated == Over /\ UNCHANGED vars

Next ==
  \/ \E p \in Callers : Call(p) \/ Work(p) \/ Wait(p) \/ Interrupt(p) \/ Killed(p)
  \/ Terminated

Spec == Init /\ [][Next]_vars

\* Every process runs, and the lock is polled again and again.
LiveSpec == Spec /\ \A p \in Callers : WF_vars(Work(p)) /\ WF_vars(Wait(p))

------------------------------------------------------------------------------
(* Properties *)

Labels ==
  {"idle", "dispatch", "error", "refresh", "refreshing", "init", "prepare", "commit",
   "helper", "recover", "locked", "answer", "wait", "exec", "pacman", "done", "dead"}

FlagNames ==
  {"DOWNLOAD_ONLY", "NO_DEPS", "NO_DEP_VERSION", "NEEDED", "DB_ONLY", "NO_CONFLICTS", "CASCADE",
   "NO_SAVE", "RECURSE", "RECURSE_ALL", "UNNEEDED", "OVERWRITE", "ALL_DEPS"}

Deeds == [by : {"root", "helper", "pacman"}, flags : SUBSET FlagNames]

CallTypeOK ==
  /\ pc \in [Callers -> Labels]
  /\ status \in [Callers -> {"none", "ok", "failed", "error", "interrupted"}]
  /\ \A p \in Callers : pc[p] = "done" => status[p] # "none"

EffectTypeOK ==
  /\ applied \in [Callers -> Seq(Deeds)]
  /\ db \in [Callers -> {"untouched", "partial", "applied", "nothing"}]
  /\ told \in [Callers -> {"none", "ok", "failed", "interrupted"}]

WorldTypeOK ==
  /\ conf \in [Callers -> Settings] /\ call \in [Callers -> Commands]
  /\ calls \in [Callers -> 0..MaxCalls]
  /\ sticky \in [Callers -> BOOLEAN]
  /\ lock \in Callers \cup {NoOne, Stale}

\* Every variable has its type, also the Transaction of each call; a call that is over has
\* returned something (backend::pacman).
TypeOK == CallTypeOK /\ EffectTypeOK /\ WorldTypeOK

\* An operation is carried out a second time only by the fallback: the first time ended
\* with an error although its changes were made.  With BAH_BACKEND_STRICT this cannot be.
RepeatedByFallback ==
  \A p \in Callers :
    /\ Len(applied[p]) <= 2
    /\ Len(applied[p]) = 2 => applied[p][2].by = "pacman" /\ applied[p][1].by # "pacman"
    /\ conf[p].strict /\ ~conf[p].legacy /\ call[p].op \in {"remove", "upgrade"} =>
         \A i \in DOMAIN applied[p] : applied[p][i].by # "pacman"

\* A call that succeeds has made the changes that were asked for, or there were none to
\* make, whichever way it went.
OkMeansApplied ==
  \A p \in Callers : status[p] = "ok" =>
    \/ applied[p] # <<>> \/ db[p] = "nothing"
    \/ PrintOnly(call[p]) \/ ~NeedRoot(call[p])
    \/ call[p].op = "sync" /\ ~call[p].targets /\ ~Has(call[p], "u", "sysupgrade")

\* Options that the helper, the process itself and pacman understand alike.
Common(c) ==
  /\ \A k \in {"d", "nodeps", "overwrite", "asdeps"} : c.keys[k] = 0
  /\ c.op = "remove" => \A k \in {"c", "n", "s", "u"} : c.keys[k] = 0

\* The way that a call takes makes no difference to what is done: helper, process and
\* fallback act with the flags that pacman would use.
SameEffect ==
  \A p \in Callers : Common(call[p]) =>
    \A i \in DOMAIN applied[p] : applied[p][i].flags = PacmanFlags(call[p])

\* A call ends, unless it waits for a lock that a program left behind when it died: a
\* lock that is in use is given back and waited for.
CallsEnd ==
  \A p \in Callers :
    pc[p] = "dispatch" ~> (pc[p] \in {"done", "dead"} \/ Stuck(p))

==============================================================================
