--------------------------- MODULE Backend_proofs ---------------------------
(***************************************************************************)
(* Theorems about Backend, for any set of processes, commands and          *)
(* environments.  They rest on a ledger: at each place of a call, the      *)
(* changes that the call can have made so far, and who made them.          *)
(***************************************************************************)
EXTENDS Backend, SequenceTheorems, TLAPS

-----------------------------------------------------------------------------
(* Flags *)

\* Whichever way a command takes, its flags are flags of libalpm.
LEMMA FlagsKnown ==
  ASSUME NEW c
  PROVE  /\ RootFlags(c) \in SUBSET FlagNames
         /\ PlanFlags(PlanOf(c)) \in SUBSET FlagNames
         /\ PacmanFlags(c) \in SUBSET FlagNames
<1>1. RootFlags(c) \in SUBSET FlagNames
  BY DEF RootFlags, RemoveFlags, InstallFlags, Flag, Twice, FlagNames
<1>2. PlanFlags(PlanOf(c)) \in SUBSET FlagNames
  <2> DEFINE known == IF PlanOf(c).op = "remove" THEN {"dbonly", "cascade", "nosave", "unneeded"}
                      ELSE {"downloadonly", "needed", "dbonly", "overwrite"}
             flagOf == [downloadonly |-> "DOWNLOAD_ONLY", needed |-> "NEEDED",
                        dbonly |-> "DB_ONLY", overwrite |-> "NO_CONFLICTS",
                        cascade |-> "CASCADE", nosave |-> "NO_SAVE", unneeded |-> "UNNEEDED"]
  <2>1. \A k \in known : flagOf[k] \in FlagNames
    BY DEF FlagNames
  <2>2. {flagOf[k] : k \in PlanOf(c).set \cap known} \subseteq FlagNames
    BY <2>1
  <2> QED
    BY <2>2 DEF PlanFlags, FlagNames
<1>3. PacmanFlags(c) \in SUBSET FlagNames
  BY DEF PacmanFlags, Flag, Twice, FlagNames
<1> QED
  BY <1>1, <1>2, <1>3

-----------------------------------------------------------------------------
(* Type correctness *)

LEMMA GotoType ==
  ASSUME CallTypeOK, NEW p \in Callers, NEW label \in Labels \ {"done"}, Goto(p, label)
  PROVE  CallTypeOK'
BY DEF CallTypeOK, Goto

LEMMA ReturnType ==
  ASSUME CallTypeOK, NEW p \in Callers, NEW result \in {"ok", "failed", "error", "interrupted"},
         Return(p, result)
  PROVE  CallTypeOK'
BY DEF CallTypeOK, Return, Labels

LEMMA ChangeType ==
  ASSUME EffectTypeOK, NEW p \in Callers, NEW by \in {"root", "helper", "pacman"},
         NEW flags \in SUBSET FlagNames, Change(p, by, flags)
  PROVE  applied' \in [Callers -> Seq(Deeds)]
<1>1. [by |-> by, flags |-> flags] \in Deeds
  BY DEF Deeds
<1>2. Append(applied[p], [by |-> by, flags |-> flags]) \in Seq(Deeds)
  BY <1>1, AppendProperties DEF EffectTypeOK
<1> QED
  BY <1>2 DEF EffectTypeOK, Change

LEMMA TransactType ==
  ASSUME EffectTypeOK, NEW p \in Callers, Transact(p)
  PROVE  /\ db' \in [Callers -> {"untouched", "partial", "applied", "nothing"}]
         /\ told' \in [Callers -> {"none", "ok", "failed", "interrupted"}]
BY DEF EffectTypeOK, Transact

\* What may happen to db.lck in one step.
LEMMA LockType ==
  ASSUME WorldTypeOK, NEW p \in Callers,
         Take(p) \/ Unlink \/ Leave(p) \/ DropGuards(p) \/ UNCHANGED lock
  PROVE  lock' \in Callers \cup {NoOne, Stale}
BY DEF WorldTypeOK, Take, Unlink, Leave, DropGuards

LEMMA RouteType ==
  ASSUME NEW c, NEW s
  PROVE  Route(c, s) \in Labels \ {"done"}
BY DEF Route, Labels

LEMMA WorkCallType ==
  ASSUME CallTypeOK, NEW p \in Callers, Work(p) \/ Wait(p) \/ Interrupt(p) \/ Killed(p)
  PROVE  CallTypeOK'
<1>1. (\E label \in Labels \ {"done"} : Goto(p, label))
        \/ (\E result \in {"ok", "failed", "error", "interrupted"} : Return(p, result))
        \/ UNCHANGED <<pc, status>>
  <2>1. CASE Dispatch(p)
    BY <2>1, RouteType DEF Dispatch
  <2>2. CASE Fallback(p)
    BY <2>2 DEF Fallback, Labels
  <2>3. CASE InProcess(p)
    BY <2>3 DEF InProcess, RootRefresh, RootRefreshed, RootInit, RootPrepare, RootCommit, Labels
  <2>4. CASE HelperBegins(p) \/ HelperApplies(p) \/ HelperSkips(p)
    BY <2>4 DEF HelperBegins, HelperApplies, HelperSkips
  <2>5. CASE HelperLocks(p) \/ HelperConfirms(p) \/ HelperRemovesLock(p) \/ HelperEnds(p)
    BY <2>5 DEF HelperLocks, HelperConfirms, HelperRemovesLock, HelperEnds, Labels
  <2>6. CASE HelperSucceeds(p) \/ HelperFails(p)
    BY <2>6 DEF HelperSucceeds, HelperFails, Labels
  <2>7. CASE PacmanStarts(p) \/ PacmanEnds(p) \/ Wait(p)
    BY <2>7 DEF PacmanStarts, PacmanEnds, Wait, Labels
  <2>8. CASE Interrupt(p) \/ Killed(p)
    BY <2>8 DEF Interrupt, Killed, Labels
  <2> QED
    BY <2>1, <2>2, <2>3, <2>4, <2>5, <2>6, <2>7, <2>8 DEF Work, Helper
<1>2. CASE UNCHANGED <<pc, status>>
  BY <1>2 DEF CallTypeOK
<1> QED
  BY <1>1, <1>2, GotoType, ReturnType

LEMMA WorkEffectType ==
  ASSUME EffectTypeOK, NEW p \in Callers, Work(p) \/ Wait(p) \/ Interrupt(p) \/ Killed(p)
  PROVE  EffectTypeOK'
<1>1. applied' \in [Callers -> Seq(Deeds)]
  <2>1. CASE UNCHANGED applied
    BY <2>1 DEF EffectTypeOK
  <2>2. CASE \E by \in {"root", "helper", "pacman"}, flags \in SUBSET FlagNames :
               Change(p, by, flags)
    BY <2>2, ChangeType
  <2>3. \/ UNCHANGED applied
        \/ \E by \in {"root", "helper", "pacman"}, flags \in SUBSET FlagNames :
             Change(p, by, flags)
    <3>1. CASE RootCommit(p)
      BY <3>1, FlagsKnown DEF RootCommit
    <3>2. CASE HelperApplies(p)
      BY <3>2, FlagsKnown DEF HelperApplies
    <3>3. CASE PacmanEnds(p)
      BY <3>3, FlagsKnown DEF PacmanEnds
    <3>4. CASE Dispatch(p) \/ Fallback(p) \/ RootRefresh(p) \/ RootRefreshed(p) \/ RootInit(p)
                 \/ RootPrepare(p)
      BY <3>4 DEF Dispatch, Fallback, RootRefresh, RootRefreshed, RootInit, RootPrepare
    <3>5. CASE HelperLocks(p) \/ HelperConfirms(p) \/ HelperRemovesLock(p) \/ HelperBegins(p)
                 \/ HelperSkips(p) \/ HelperEnds(p) \/ HelperSucceeds(p) \/ HelperFails(p)
      BY <3>5 DEF HelperLocks, HelperConfirms, HelperRemovesLock, HelperBegins, HelperSkips,
                  HelperEnds, HelperSucceeds, HelperFails
    <3>6. CASE Wait(p) \/ PacmanStarts(p) \/ Interrupt(p) \/ Killed(p)
      BY <3>6 DEF Wait, PacmanStarts, Interrupt, Killed
    <3> QED
      BY <3>1, <3>2, <3>3, <3>4, <3>5, <3>6 DEF Work, InProcess, Helper
  <2> QED
    BY <2>1, <2>2, <2>3
<1>2. UNCHANGED <<db, told>> \/ Transact(p)
  <2>1. CASE Dispatch(p) \/ Fallback(p) \/ InProcess(p)
    BY <2>1 DEF Dispatch, Fallback, InProcess, RootRefresh, RootRefreshed, RootInit, RootPrepare, RootCommit,
                transaction
  <2>2. CASE HelperLocks(p) \/ HelperConfirms(p) \/ HelperRemovesLock(p) \/ HelperEnds(p)
    BY <2>2 DEF HelperLocks, HelperConfirms, HelperRemovesLock, HelperEnds, transaction
  <2>3. CASE HelperBegins(p) \/ HelperApplies(p) \/ HelperSkips(p) \/ HelperSucceeds(p)
               \/ HelperFails(p)
    BY <2>3 DEF HelperBegins, HelperApplies, HelperSkips, HelperSucceeds, HelperFails
  <2>4. CASE Wait(p) \/ PacmanStarts(p) \/ PacmanEnds(p) \/ Interrupt(p) \/ Killed(p)
    BY <2>4 DEF Wait, PacmanStarts, PacmanEnds, Interrupt, Killed, transaction
  <2> QED
    BY <2>1, <2>2, <2>3, <2>4 DEF Work, Helper
<1> QED
  BY <1>1, <1>2, TransactType DEF EffectTypeOK

\* In a step of p, db.lck changes in one of four ways, and nothing else of the world but
\* the flag of an interrupt.
LEMMA WorldStep ==
  ASSUME NEW p \in Callers, Work(p) \/ Wait(p) \/ Interrupt(p) \/ Killed(p)
  PROVE  /\ Take(p) \/ Unlink \/ Leave(p) \/ DropGuards(p) \/ UNCHANGED lock
         /\ UNCHANGED frame
         /\ UNCHANGED sticky \/ sticky' = [sticky EXCEPT ![p] = TRUE]
<1>1. CASE Dispatch(p) \/ Fallback(p) \/ InProcess(p)
  BY <1>1 DEF Dispatch, Fallback, InProcess, RootRefresh, RootRefreshed, RootInit, RootPrepare, RootCommit,
              transaction
<1>2. CASE HelperLocks(p) \/ HelperConfirms(p) \/ HelperRemovesLock(p) \/ HelperEnds(p)
  BY <1>2 DEF HelperLocks, HelperConfirms, HelperRemovesLock, HelperEnds, transaction
<1>3. CASE HelperBegins(p) \/ HelperApplies(p) \/ HelperSkips(p) \/ HelperSucceeds(p)
             \/ HelperFails(p)
  BY <1>3 DEF HelperBegins, HelperApplies, HelperSkips, HelperSucceeds, HelperFails
<1>4. CASE Wait(p) \/ PacmanStarts(p) \/ PacmanEnds(p) \/ Interrupt(p) \/ Killed(p)
  BY <1>4 DEF Wait, PacmanStarts, PacmanEnds, Interrupt, Killed, transaction
<1> QED
  BY <1>1, <1>2, <1>3, <1>4 DEF Work, Helper

LEMMA WorkWorldType ==
  ASSUME WorldTypeOK, NEW p \in Callers, Work(p) \/ Wait(p) \/ Interrupt(p) \/ Killed(p)
  PROVE  WorldTypeOK'
<1>1. lock' \in Callers \cup {NoOne, Stale}
  BY WorldStep, LockType
<1>2. UNCHANGED <<conf, call, calls>> /\ sticky' \in [Callers -> BOOLEAN]
  BY WorldStep DEF WorldTypeOK, frame
<1> QED
  BY <1>1, <1>2 DEF WorldTypeOK

LEMMA CallType ==
  ASSUME TypeOK, NEW p \in Callers, Call(p)
  PROVE  TypeOK'
<1>1. CallTypeOK'
  BY DEF TypeOK, CallTypeOK, Call, Labels
<1>2. EffectTypeOK'
  BY DEF TypeOK, EffectTypeOK, Call
<1>3. WorldTypeOK'
  BY BackendAssumption DEF TypeOK, WorldTypeOK, Call
<1> QED
  BY <1>1, <1>2, <1>3 DEF TypeOK

LEMMA InitType == Init => TypeOK
<1> SUFFICES ASSUME Init PROVE TypeOK
  OBVIOUS
<1>1. CallTypeOK
  BY DEF Init, CallTypeOK, Labels
<1>2. EffectTypeOK
  BY DEF Init, EffectTypeOK
<1>3. WorldTypeOK
  <2>1. (CHOOSE c \in Commands : TRUE) \in Commands
    BY BackendAssumption
  <2>2. calls \in [Callers -> 0..MaxCalls] /\ call \in [Callers -> Commands]
    BY <2>1, BackendAssumption DEF Init
  <2>3. sticky \in [Callers -> BOOLEAN]
    BY BackendAssumption DEF Init
  <2> QED
    BY <2>2, <2>3 DEF Init, WorldTypeOK
<1> QED
  BY <1>1, <1>2, <1>3 DEF TypeOK

LEMMA NextType == TypeOK /\ [Next]_vars => TypeOK'
<1> SUFFICES ASSUME TypeOK, [Next]_vars PROVE TypeOK'
  OBVIOUS
<1>1. CASE UNCHANGED vars
  BY <1>1 DEF TypeOK, CallTypeOK, EffectTypeOK, WorldTypeOK, vars
<1>2. ASSUME NEW p \in Callers, Work(p) \/ Wait(p) \/ Interrupt(p) \/ Killed(p)
      PROVE  TypeOK'
  BY <1>2, WorkCallType, WorkEffectType, WorkWorldType DEF TypeOK
<1> QED
  BY <1>1, <1>2, CallType DEF Next, Terminated

\* Every variable of Backend keeps its type, for any number of processes, any commands and
\* any environments (backend::pacman).
THEOREM TypeCorrect == Spec => []TypeOK
<1> QED
  BY InitType, NextType, PTL DEF Spec

-----------------------------------------------------------------------------
(* Steps and who they concern *)

NoPacman(p) == \A i \in DOMAIN applied[p] : applied[p][i].by # "pacman"

LEMMA ChangeNoPacman ==
  ASSUME TypeOK, NEW p \in Callers, NoPacman(p), NEW by \in {"root", "helper"}, NEW flags,
         Change(p, by, flags)
  PROVE  NoPacman(p)'
<1> DEFINE deed == [by |-> by, flags |-> flags]
<1>1. applied[p] \in Seq(Deeds) /\ applied'[p] = Append(applied[p], deed)
  BY DEF TypeOK, EffectTypeOK, Change
<1>2. applied'[p] = applied[p] \o <<deed>>
  BY <1>1
<1>3. \A i \in DOMAIN applied'[p] : applied'[p][i] = deed \/ (i \in DOMAIN applied[p]
                                                           /\ applied'[p][i] = applied[p][i])
  BY <1>1
<1> QED
  BY <1>3 DEF NoPacman

\* A step of p is none of the other processes' business.
LEMMA OthersKeep ==
  ASSUME TypeOK, NEW p \in Callers, Work(p) \/ Wait(p) \/ Interrupt(p) \/ Killed(p),
         NEW r \in Callers \ {p}
  PROVE  UNCHANGED <<pc[r], status[r], applied[r], db[r], told[r]>>
<1> USE DEF TypeOK, CallTypeOK, EffectTypeOK, Goto, Return, Change, Transact, transaction
<1>1. CASE Dispatch(p) \/ Fallback(p)
  BY <1>1 DEF Dispatch, Fallback
<1>2. CASE InProcess(p)
  BY <1>2 DEF InProcess, RootRefresh, RootRefreshed, RootInit, RootPrepare, RootCommit
<1>3. CASE HelperLocks(p) \/ HelperConfirms(p) \/ HelperRemovesLock(p) \/ HelperEnds(p)
  BY <1>3 DEF HelperLocks, HelperConfirms, HelperRemovesLock, HelperEnds
<1>4. CASE HelperBegins(p) \/ HelperApplies(p) \/ HelperSkips(p)
  BY <1>4 DEF HelperBegins, HelperApplies, HelperSkips
<1>5. CASE HelperSucceeds(p) \/ HelperFails(p)
  BY <1>5 DEF HelperSucceeds, HelperFails
<1>6. CASE Wait(p) \/ PacmanStarts(p) \/ PacmanEnds(p)
  BY <1>6 DEF Wait, PacmanStarts, PacmanEnds
<1>7. CASE Interrupt(p) \/ Killed(p)
  BY <1>7 DEF Interrupt, Killed
<1> QED
  BY <1>1, <1>2, <1>3, <1>4, <1>5, <1>6, <1>7 DEF Work, Helper

\* What a step of p does to the call of p itself.
LEMMA OwnStep ==
  ASSUME TypeOK, NEW p \in Callers, Work(p) \/ Wait(p) \/ Interrupt(p) \/ Killed(p)
  PROVE  /\ pc[p] # "done"
         /\ told'[p] = "interrupted" => told[p] = "interrupted" \/ Return(p, "interrupted")
         /\ \/ UNCHANGED applied
            \/ \E by \in {"root", "helper"}, flags \in SUBSET FlagNames : Change(p, by, flags)
            \/ PacmanEnds(p)
<1>1. CASE Dispatch(p) \/ Fallback(p) \/ InProcess(p)
  BY <1>1, FlagsKnown DEF Dispatch, Fallback, InProcess, RootRefresh, RootRefreshed, RootInit, RootPrepare,
                          RootCommit, transaction
<1>2. CASE HelperLocks(p) \/ HelperConfirms(p) \/ HelperRemovesLock(p) \/ HelperEnds(p)
  BY <1>2 DEF HelperLocks, HelperConfirms, HelperRemovesLock, HelperEnds, transaction
<1>3. CASE HelperBegins(p) \/ HelperApplies(p) \/ HelperSkips(p)
  <2>1. told'[p] = told[p] /\ pc[p] = "locked"
    BY <1>3 DEF HelperBegins, HelperApplies, HelperSkips, Promise!Begin, Promise!Apply,
                Promise!Skip
  <2> QED
    BY <1>3, <2>1, FlagsKnown DEF HelperBegins, HelperApplies, HelperSkips
<1>4. CASE HelperSucceeds(p)
  BY <1>4 DEF HelperSucceeds, Promise!ReturnOk
<1>5. CASE HelperFails(p)
  BY <1>5 DEF HelperFails
<1>6. CASE Wait(p) \/ PacmanStarts(p) \/ Interrupt(p) \/ Killed(p)
  BY <1>6 DEF Wait, PacmanStarts, Interrupt, Killed, transaction
<1>7. CASE PacmanEnds(p)
  BY <1>7 DEF PacmanEnds, transaction
<1> QED
  BY <1>1, <1>2, <1>3, <1>4, <1>5, <1>6, <1>7 DEF Work, Helper

-----------------------------------------------------------------------------
(* What was done, and how often *)

FirstPlaces == {"idle", "dispatch", "refresh", "refreshing", "init", "prepare", "commit"}
HelperPlaces == {"helper", "recover", "locked", "answer"}
PacmanPlaces == {"wait", "exec", "pacman"}

\* A call that has no way to pacman.
NeverPacman(p) ==
  conf[p].strict /\ ~conf[p].legacy /\ call[p].op \in {"remove", "upgrade"}

\* A call that may succeed without a change.
NothingAsked(p) ==
  \/ PrintOnly(call[p]) \/ ~NeedRoot(call[p])
  \/ call[p].op = "sync" /\ ~call[p].targets /\ ~Has(call[p], "u", "sysupgrade")

\* The empty ledger has no entry, and one that has become two entries long had one.
LEMMA NoLength == Len(<<>>) = 0
  BY EmptySeq
LEMMA OneBefore == ASSUME NEW n \in Nat, NEW m, m = n + 1, m = 2 PROVE n = 1
  OBVIOUS

\* Until a call is over, it has made at most one change, and at each place the change that belongs to it.
Before(p) ==
  /\ status[p] = "none" /\ Len(applied[p]) <= 1 /\ NoPacman(p)
  /\ pc[p] \in FirstPlaces => applied[p] = <<>> /\ db[p] = "untouched"
  /\ pc[p] \in HelperPlaces => IF db[p] = "applied" THEN Len(applied[p]) = 1 ELSE applied[p] = <<>>
  /\ pc[p] \in {"refresh", "refreshing"} => call[p].op = "sync"
  /\ pc[p] \in PacmanPlaces => ~NeverPacman(p)

\* When it is over, a second change was made by pacman, and a success has made one.
After(p) ==
  /\ Len(applied[p]) <= 2
  /\ Len(applied[p]) = 2 => applied[p][2].by = "pacman" /\ applied[p][1].by # "pacman"
  /\ NeverPacman(p) => NoPacman(p)
  /\ status[p] = "ok" => applied[p] # <<>> \/ db[p] = "nothing" \/ NothingAsked(p)

LedgerOf(p) == IF pc[p] = "done" THEN After(p) ELSE Before(p)

Ledger == \A p \in Callers : LedgerOf(p)

LEMMA InitLedger == Init => Ledger
<1> SUFFICES ASSUME Init, NEW p \in Callers PROVE LedgerOf(p)
  BY DEF Ledger
<1>1. pc[p] = "idle" /\ status[p] = "none" /\ applied[p] = <<>> /\ db[p] = "untouched"
  BY DEF Init
<1> QED
  BY <1>1 DEF LedgerOf, Before, NoPacman, FirstPlaces, HelperPlaces, PacmanPlaces

\* One more change at the end of the ledger.
LEMMA ChangeAppends ==
  ASSUME TypeOK, NEW p \in Callers, NEW by, NEW flags, Change(p, by, flags), Len(applied[p]) <= 1
  PROVE  /\ Len(applied'[p]) = Len(applied[p]) + 1 /\ applied'[p] # <<>>
         /\ applied'[p][Len(applied[p]) + 1].by = by
         /\ \A i \in DOMAIN applied[p] : applied'[p][i] = applied[p][i]
<1> DEFINE deed == [by |-> by, flags |-> flags]
<1>1. applied[p] \in Seq(Deeds) /\ applied'[p] = Append(applied[p], deed)
  BY DEF TypeOK, EffectTypeOK, Change
<1> HIDE DEF deed
<1>2. Len(applied'[p]) = Len(applied[p]) + 1 /\ applied'[p][Len(applied[p]) + 1] = deed
      /\ \A i \in 1..Len(applied[p]) : applied'[p][i] = applied[p][i]
  BY <1>1
<1>3. DOMAIN applied[p] = 1..Len(applied[p]) /\ Len(applied[p]) \in Nat
  BY <1>1
<1>4. applied'[p] # <<>>
  BY <1>2, <1>3
<1> QED
  BY <1>2, <1>3, <1>4 DEF deed

\* The first change of a call.
LEMMA FirstChange ==
  ASSUME TypeOK, NEW p \in Callers, NEW by, NEW flags, Change(p, by, flags), applied[p] = <<>>
  PROVE  Len(applied'[p]) = 1 /\ applied'[p] # <<>>
<1>1. Len(applied[p]) = 0
  BY NoLength, Zenon
<1>2. Len(applied[p]) <= 1
  BY <1>1
<1>3. Len(applied'[p]) = Len(applied[p]) + 1 /\ applied'[p] # <<>>
  BY <1>2, ChangeAppends, Zenon
<1> QED
  BY <1>1, <1>3

\* The changes that end or interrupt nothing: the ledger stays as it is.
LEMMA QuietLedger ==
  ASSUME TypeOK, NEW p \in Callers, pc[p] # "done", Before(p),
         UNCHANGED <<applied[p], db[p], conf[p], call[p]>>,
         \/ pc'[p] # "done" /\ status'[p] = status[p]
         \/ pc'[p] = "done" /\ (status'[p] = "ok" => applied[p] # <<>> \/ db[p] = "nothing" \/ NothingAsked(p)),
         pc'[p] \in FirstPlaces => pc[p] \in FirstPlaces,
         pc'[p] \in HelperPlaces => pc[p] \in FirstPlaces \cup HelperPlaces,
         pc'[p] \in {"refresh", "refreshing"} => call[p].op = "sync",
         pc'[p] \in PacmanPlaces => ~NeverPacman(p)
  PROVE  LedgerOf(p)'
<1>1. NoPacman(p)' /\ NeverPacman(p)' = NeverPacman(p) /\ NothingAsked(p)' = NothingAsked(p)
  BY DEF Before, NoPacman, NeverPacman, NothingAsked
<1>2. applied[p] \in Seq(Deeds) /\ Len(applied[p]) \in Nat /\ Len(applied[p]) <= 1
  BY DEF TypeOK, EffectTypeOK, Before
<1>3. CASE pc'[p] # "done"
  BY <1>1, <1>2, <1>3 DEF LedgerOf, Before, FirstPlaces, HelperPlaces
<1>4. CASE pc'[p] = "done"
  BY <1>1, <1>2, <1>4 DEF LedgerOf, After
<1> QED
  BY <1>3, <1>4

LEMMA OwnLedger ==
  ASSUME TypeOK, NEW p \in Callers, LedgerOf(p), Work(p) \/ Wait(p) \/ Interrupt(p) \/ Killed(p)
  PROVE  LedgerOf(p)'
<1> USE DEF TypeOK, CallTypeOK, EffectTypeOK, Goto, Return, frame, transaction, FirstPlaces, HelperPlaces,
            PacmanPlaces
<1>1. pc[p] # "done"
  BY OwnStep
<1>2. Before(p)
  BY <1>1 DEF LedgerOf
<1>3. CASE Dispatch(p)
  <2>1. /\ pc'[p] = Route(call[p], conf[p]) /\ pc[p] = "dispatch"
        /\ UNCHANGED <<status, applied, db, conf, call>>
    BY <1>3 DEF Dispatch
  <2>2. /\ pc'[p] \in {"wait", "error", "helper", "refresh", "init"}
        /\ pc'[p] = "refresh" => call[p].op = "sync"
        /\ pc'[p] = "wait" => ~NeverPacman(p)
    BY <2>1 DEF Route, NeverPacman
  <2> QED
    BY <1>1, <1>2, <2>1, <2>2, QuietLedger
<1>4. CASE Fallback(p)
  <2>1. pc[p] = "error" /\ UNCHANGED <<applied, db, conf, call>>
    BY <1>4 DEF Fallback
  <2>2. \/ pc'[p] = "done" /\ status'[p] = "error"
        \/ pc'[p] = "wait" /\ status' = status /\ ~conf[p].strict
    BY <1>4 DEF Fallback
  <2>3. pc'[p] = "wait" => ~NeverPacman(p)
    BY <2>2 DEF NeverPacman
  <2> QED
    BY <1>1, <1>2, <2>1, <2>2, <2>3, QuietLedger
<1>5. CASE RootRefresh(p) \/ RootRefreshed(p)
  BY <1>1, <1>2, <1>5, QuietLedger DEF RootRefresh, RootRefreshed, NothingAsked, Before
<1>6. CASE RootInit(p)
  BY <1>1, <1>2, <1>6, QuietLedger DEF RootInit
<1>7. CASE RootPrepare(p)
  BY <1>1, <1>2, <1>7, QuietLedger DEF RootPrepare, NothingAsked
<1>8. CASE HelperLocks(p) \/ HelperConfirms(p) \/ HelperRemovesLock(p) \/ HelperEnds(p)
  BY <1>1, <1>2, <1>8, QuietLedger DEF HelperLocks, HelperConfirms, HelperRemovesLock, HelperEnds
<1>9. CASE Interrupt(p)
  BY <1>1, <1>2, <1>9, QuietLedger DEF Interrupt
<1>10. CASE Killed(p)
  BY <1>1, <1>2, <1>10, QuietLedger DEF Killed
<1>11. CASE Wait(p)
  BY <1>1, <1>2, <1>11, QuietLedger DEF Wait, Before
<1>12. CASE PacmanStarts(p)
  BY <1>1, <1>2, <1>12, QuietLedger DEF PacmanStarts, Before, NothingAsked
<1>13. CASE HelperFails(p)
  <2>1. pc[p] = "answer" /\ db'[p] = db[p] /\ UNCHANGED <<applied, conf, call>>
    BY <1>13 DEF HelperFails, Promise!ReturnError
  <2>2. \/ pc'[p] = "done" /\ status'[p] = "interrupted"
        \/ pc'[p] = "error" /\ status' = status
    BY <1>13 DEF HelperFails
  <2> QED
    BY <1>1, <1>2, <2>1, <2>2, QuietLedger
<1>14. CASE HelperSucceeds(p)
  <2>1. pc[p] = "answer" /\ db'[p] = db[p] /\ db[p] \in {"applied", "nothing"} /\ UNCHANGED <<applied, conf, call>>
    BY <1>14 DEF HelperSucceeds, Promise!ReturnOk, Promise!Done
  <2>2. pc'[p] = "done"
    BY <1>14 DEF HelperSucceeds
  <2>3. db[p] = "nothing" \/ applied[p] # <<>>
    <3>1. db[p] = "applied" => Len(applied[p]) = 1
      BY <1>2, <2>1 DEF Before
    <3>2. applied[p] = <<>> => Len(applied[p]) = 0
      BY NoLength, Zenon
    <3>3. Len(applied[p]) = 1 => applied[p] # <<>>
      <4>1. Len(applied[p]) = 1 => Len(applied[p]) # 0
        OBVIOUS
      <4> QED
        BY <3>2, <4>1, Zenon
    <3> QED
      BY <2>1, <3>1, <3>3, Zenon
  <2> QED
    BY <1>1, <1>2, <2>1, <2>2, <2>3, QuietLedger
<1>15. CASE HelperBegins(p) \/ HelperSkips(p)
  <2>1. /\ pc' = pc /\ status' = status /\ pc[p] = "locked" /\ db[p] = "untouched" /\ db'[p] # "applied"
        /\ UNCHANGED <<applied, conf, call>>
    BY <1>15 DEF HelperBegins, HelperSkips, Promise!Begin, Promise!Skip
  <2> QED
    BY <1>1, <1>2, <2>1 DEF LedgerOf, Before, NoPacman
<1>16. CASE HelperApplies(p)
  <2>1. /\ pc' = pc /\ status' = status /\ pc[p] = "locked" /\ db[p] = "partial" /\ db'[p] = "applied"
        /\ UNCHANGED <<conf, call>> /\ Change(p, "helper", PlanFlags(PlanOf(call[p])))
    BY <1>16 DEF HelperApplies, Promise!Apply
  <2>2. applied[p] = <<>> /\ NoPacman(p)
    BY <1>2, <2>1 DEF Before
  <2>3. Len(applied'[p]) = 1 /\ NoPacman(p)'
    <3>1. Len(applied'[p]) = 1
      BY <2>1, <2>2, FirstChange
    <3>2. NoPacman(p)'
      BY <2>1, <2>2, ChangeNoPacman
    <3> QED
      BY <3>1, <3>2
  <2> QED
    BY <1>1, <1>2, <2>1, <2>3 DEF LedgerOf, Before
<1>17. CASE RootCommit(p)
  <2>1. pc[p] = "commit" /\ applied[p] = <<>> /\ NoPacman(p) /\ UNCHANGED <<db, conf, call>>
    BY <1>2, <1>17 DEF RootCommit, Before
  <2>2. CASE UNCHANGED applied
    <3>1. pc'[p] = "error" /\ status' = status
      <4>1. ~Change(p, "root", RootFlags(call[p]))
        <5> SUFFICES ASSUME Change(p, "root", RootFlags(call[p])) PROVE FALSE
          OBVIOUS
        <5>1. applied'[p] # <<>>
          BY <2>1, FirstChange
        <5> QED
          BY <2>1, <2>2, <5>1
      <4> QED
        BY <1>17, <4>1 DEF RootCommit
    <3> QED
      BY <1>1, <1>2, <2>1, <2>2, <3>1, QuietLedger
  <2>3. CASE Change(p, "root", RootFlags(call[p]))
    <3>1. Len(applied'[p]) = 1 /\ applied'[p] # <<>> /\ NoPacman(p)'
      <4>1. Len(applied'[p]) = 1 /\ applied'[p] # <<>>
        BY <2>1, <2>3, FirstChange
      <4>2. NoPacman(p)'
        BY <2>1, <2>3, ChangeNoPacman
      <4> QED
        BY <4>1, <4>2
    <3>2. pc'[p] = "done" \/ (pc'[p] = "error" /\ status' = status)
      BY <1>17 DEF RootCommit
    <3> QED
      BY <1>2, <3>1, <3>2 DEF LedgerOf, Before, After
  <2> QED
    BY <1>17, <2>2, <2>3 DEF RootCommit
<1>18. CASE PacmanEnds(p)
  <2>1. pc[p] = "pacman" /\ pc'[p] = "done" /\ NoPacman(p) /\ ~NeverPacman(p) /\ UNCHANGED <<db, conf, call>>
    BY <1>2, <1>18 DEF PacmanEnds, Before
  <2>2. CASE UNCHANGED applied /\ status'[p] = "failed"
    BY <1>1, <1>2, <2>1, <2>2, QuietLedger
  <2>3. CASE Change(p, "pacman", PacmanFlags(call[p]))
    <3>1. Len(applied[p]) \in Nat /\ Len(applied[p]) <= 1 /\ DOMAIN applied[p] = 1..Len(applied[p])
      BY <1>2 DEF Before
    <3>2. /\ Len(applied'[p]) = Len(applied[p]) + 1 /\ applied'[p] # <<>>
          /\ applied'[p][Len(applied[p]) + 1].by = "pacman"
          /\ \A i \in DOMAIN applied[p] : applied'[p][i] = applied[p][i]
      BY <2>3, <3>1, ChangeAppends
    <3>3. Len(applied'[p]) = 2 => applied'[p][2].by = "pacman" /\ applied'[p][1].by # "pacman"
      <4> SUFFICES ASSUME Len(applied'[p]) = 2 PROVE applied'[p][2].by = "pacman" /\ applied'[p][1].by # "pacman"
        OBVIOUS
      <4>1. Len(applied[p]) = 1
        BY <3>1, <3>2, OneBefore
      <4>2. 1 \in DOMAIN applied[p]
        BY <3>1, <4>1
      <4>3. applied[p][1].by # "pacman"
        BY <2>1, <4>2 DEF NoPacman
      <4> QED
        BY <3>2, <4>1, <4>2, <4>3
    <3>4. ~NeverPacman(p)'
      BY <2>1 DEF NeverPacman
    <3>5. Len(applied'[p]) <= 2
      BY <3>1, <3>2
    <3> QED
      BY <2>1, <3>2, <3>3, <3>4, <3>5 DEF LedgerOf, After
  <2> QED
    BY <1>18, <2>2, <2>3 DEF PacmanEnds
<1> QED
  BY <1>3, <1>4, <1>5, <1>6, <1>7, <1>8, <1>9, <1>10, <1>11, <1>12, <1>13, <1>14, <1>15, <1>16, <1>17, <1>18
     DEF Work, InProcess, Helper

LEMMA NextLedger == TypeOK /\ Ledger /\ [Next]_vars => Ledger'
<1> SUFFICES ASSUME TypeOK, Ledger, [Next]_vars, NEW r \in Callers PROVE LedgerOf(r)'
  BY DEF Ledger
<1> USE DEF LedgerOf, Before, After, NoPacman, NeverPacman, NothingAsked
<1>1. CASE UNCHANGED vars
  BY <1>1 DEF vars, Ledger
<1>2. ASSUME NEW p \in Callers, Call(p) PROVE LedgerOf(r)'
  <2>1. CASE r = p
    <3>1. pc'[r] = "dispatch" /\ status'[r] = "none" /\ applied'[r] = <<>> /\ db'[r] = "untouched"
      BY <1>2, <2>1 DEF Call, TypeOK, CallTypeOK, EffectTypeOK
    <3> QED
      BY <3>1 DEF FirstPlaces, HelperPlaces, PacmanPlaces
  <2>2. CASE r # p
    <3>1. UNCHANGED <<pc[r], status[r], applied[r], db[r], call[r], conf>>
      BY <1>2, <2>2 DEF Call, TypeOK, CallTypeOK, EffectTypeOK, WorldTypeOK
    <3> QED
      BY <3>1 DEF Ledger
  <2> QED
    BY <2>1, <2>2
<1>3. ASSUME NEW p \in Callers, Work(p) \/ Wait(p) \/ Interrupt(p) \/ Killed(p) PROVE LedgerOf(r)'
  <2>1. CASE r = p
    <3> HIDE DEF LedgerOf
    <3> QED
      BY <1>3, <2>1, OwnLedger DEF Ledger
  <2>2. CASE r # p
    <3>1. UNCHANGED <<pc[r], status[r], applied[r], db[r], call, conf>>
      BY <1>3, <2>2, OthersKeep, WorldStep DEF frame
    <3> QED
      BY <3>1 DEF Ledger
  <2> QED
    BY <2>1, <2>2
<1> QED
  BY <1>1, <1>2, <1>3 DEF Next, Terminated

LEMMA LedgerHolds == Spec => [](TypeOK /\ Ledger)
<1>1. TypeOK /\ Ledger /\ [Next]_vars => TypeOK' /\ Ledger'
  BY NextType, NextLedger
<1> QED
  BY <1>1, InitType, InitLedger, PTL DEF Spec

\* For any processes, commands and environments: what is done twice is done by pacman the second
\* time, and never with BAH_BACKEND_STRICT (backend::pacman).
THEOREM RepeatedByFallbackHolds == Spec => []RepeatedByFallback
<1>1. TypeOK /\ Ledger => RepeatedByFallback
  <2> SUFFICES ASSUME TypeOK, Ledger, NEW p \in Callers
               PROVE  /\ Len(applied[p]) <= 2
                      /\ Len(applied[p]) = 2 => applied[p][2].by = "pacman" /\ applied[p][1].by # "pacman"
                      /\ NeverPacman(p) => NoPacman(p)
    BY DEF RepeatedByFallback, NeverPacman, NoPacman
  <2>1. Len(applied[p]) \in Nat /\ LedgerOf(p)
    BY DEF TypeOK, EffectTypeOK, Ledger
  <2> QED
    BY <2>1 DEF LedgerOf, Before, After
<1> QED
  BY <1>1, LedgerHolds, PTL

\* For any processes, commands and environments: a success has changed the system, or there was
\* nothing to change (backend::pacman).
THEOREM OkMeansAppliedHolds == Spec => []OkMeansApplied
<1>1. TypeOK /\ Ledger => OkMeansApplied
  BY DEF Ledger, LedgerOf, Before, After, NothingAsked, OkMeansApplied
<1> QED
  BY <1>1, LedgerHolds, PTL

-----------------------------------------------------------------------------
(* The flags *)

\* The three ways a command can take give the same flags to the transaction.
LEMMA SameFlags ==
  ASSUME NEW c \in Command, Common(c)
  PROVE  RootFlags(c) = PacmanFlags(c) /\ PlanFlags(PlanOf(c)) = PacmanFlags(c)
<1>1. /\ c.keys \in [KeyNames -> 0..2] /\ c.keys["d"] = 0 /\ c.keys["nodeps"] = 0
      /\ c.keys["overwrite"] = 0 /\ c.keys["asdeps"] = 0
      /\ c.op = "remove" => c.keys["c"] = 0 /\ c.keys["n"] = 0 /\ c.keys["s"] = 0 /\ c.keys["u"] = 0
  BY DEF Command, Common
<1>2. RootFlags(c) = PacmanFlags(c)
  <2>1. CASE c.op = "remove"
    BY <1>1, <2>1 DEF RootFlags, RemoveFlags, PacmanFlags, Flag, Twice, Has, Count, KeyNames
  <2>2. CASE c.op # "remove"
    BY <1>1, <2>2 DEF RootFlags, InstallFlags, PacmanFlags, Flag, Twice, Has, Count, KeyNames
  <2> QED
    BY <2>1, <2>2
<1>3. PlanFlags(PlanOf(c)) = PacmanFlags(c)
  <2>1. CASE c.op = "remove"
    BY <1>1, <2>1 DEF PlanFlags, PlanOf, PacmanFlags, Flag, Twice, Has, Count, KeyNames
  <2>2. CASE c.op # "remove"
    BY <1>1, <2>2 DEF PlanFlags, PlanOf, PacmanFlags, Flag, Twice, Has, Count, KeyNames
  <2> QED
    BY <2>1, <2>2
<1> QED
  BY <1>2, <1>3

\* A step changes the system in one of three ways.
LEMMA FlagsStep ==
  ASSUME NEW p \in Callers, Work(p) \/ Wait(p) \/ Interrupt(p) \/ Killed(p)
  PROVE  \/ UNCHANGED applied
         \/ Change(p, "root", RootFlags(call[p]))
         \/ Change(p, "helper", PlanFlags(PlanOf(call[p])))
         \/ Change(p, "pacman", PacmanFlags(call[p]))
<1>1. CASE Dispatch(p) \/ Fallback(p) \/ InProcess(p)
  BY <1>1 DEF Dispatch, Fallback, InProcess, RootRefresh, RootRefreshed, RootInit, RootPrepare, RootCommit
<1>2. CASE HelperLocks(p) \/ HelperConfirms(p) \/ HelperRemovesLock(p) \/ HelperEnds(p)
  BY <1>2 DEF HelperLocks, HelperConfirms, HelperRemovesLock, HelperEnds
<1>3. CASE HelperBegins(p) \/ HelperApplies(p) \/ HelperSkips(p) \/ HelperSucceeds(p)
             \/ HelperFails(p)
  BY <1>3 DEF HelperBegins, HelperApplies, HelperSkips, HelperSucceeds, HelperFails
<1>4. CASE Wait(p) \/ PacmanStarts(p) \/ PacmanEnds(p) \/ Interrupt(p) \/ Killed(p)
  BY <1>4 DEF Wait, PacmanStarts, PacmanEnds, Interrupt, Killed
<1> QED
  BY <1>1, <1>2, <1>3, <1>4 DEF Work, Helper

\* Each step keeps the flags of every change those of pacman.
LEMMA NextSameEffect == TypeOK /\ SameEffect /\ [Next]_vars => SameEffect'
<1> SUFFICES ASSUME TypeOK, SameEffect, [Next]_vars, NEW r \in Callers, Common(call'[r]),
                    NEW i \in DOMAIN applied'[r]
             PROVE  applied'[r][i].flags = PacmanFlags(call'[r])
  BY DEF SameEffect
<1>1. CASE UNCHANGED vars
  BY <1>1 DEF vars, SameEffect
<1>2. ASSUME NEW p \in Callers, Call(p) PROVE applied'[r][i].flags = PacmanFlags(call'[r])
  <2>1. CASE r = p
    BY <1>2, <2>1 DEF Call, TypeOK, EffectTypeOK
  <2>2. CASE r # p
    <3>1. applied'[r] = applied[r] /\ call'[r] = call[r]
      BY <1>2, <2>2 DEF Call, TypeOK, EffectTypeOK, WorldTypeOK
    <3> QED
      BY <3>1 DEF SameEffect
  <2> QED
    BY <2>1, <2>2
<1>3. ASSUME NEW p \in Callers, Work(p) \/ Wait(p) \/ Interrupt(p) \/ Killed(p)
      PROVE  applied'[r][i].flags = PacmanFlags(call'[r])
  <2>1. call' = call
    BY <1>3, WorldStep DEF frame
  <2>2. CASE applied'[r] = applied[r]
    BY <2>1, <2>2 DEF SameEffect
  <2>3. CASE applied'[r] # applied[r]
    <3>1. r = p
      BY <1>3, <2>3, OthersKeep
    <3>2. PICK by \in {"root", "helper", "pacman"},
               flags \in {RootFlags(call[p]), PlanFlags(PlanOf(call[p])), PacmanFlags(call[p])} :
            Change(p, by, flags)
      BY <1>3, <2>3, FlagsStep
    <3>3. flags = PacmanFlags(call[p])
      <4>1. call[p] \in Command
        BY BackendAssumption DEF TypeOK, WorldTypeOK
      <4> QED
        BY <2>1, <3>1, <3>2, <4>1, SameFlags
    <3> DEFINE deed == [by |-> by, flags |-> flags]
    <3>4. applied[p] \in Seq(Deeds) /\ applied'[p] = Append(applied[p], deed)
      BY <3>2 DEF TypeOK, EffectTypeOK, Change
    <3>5. applied'[p][i] = deed \/ (i \in DOMAIN applied[p] /\ applied'[p][i] = applied[p][i])
      BY <3>1, <3>4
    <3> QED
      BY <2>1, <3>1, <3>3, <3>5 DEF SameEffect
  <2> QED
    BY <2>2, <2>3
<1> QED
  BY <1>1, <1>2, <1>3 DEF Next, Terminated

\* Helper, libalpm in the process and the fallback act with the flags pacman would use, for every
\* command whose options they read alike (trans_flags_for_sync, trans_flags_for_remove,
\* plan_from_args, execute_plan_root).
THEOREM SameEffectHolds == Spec => []SameEffect
<1>1. Init => SameEffect
  BY DEF Init, SameEffect
<1>2. TypeOK /\ SameEffect /\ [Next]_vars => TypeOK' /\ SameEffect'
  BY NextType, NextSameEffect
<1> QED
  BY <1>1, <1>2, InitType, PTL DEF Spec

=============================================================================
