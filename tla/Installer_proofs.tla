-------------------------- MODULE Installer_proofs --------------------------
(***************************************************************************)
(* Proofs about the installer, for every set of plans and configurations   *)
(* and any number of failures: types; the install queue, of which nothing  *)
(* that was built is dropped and in which known conflicts are flagged; the *)
(* records, which follow what was installed; and what a success means.     *)
(***************************************************************************)
EXTENDS Installer, TLAPS

\* What the proofs use of a plan and of a configuration.
JobTyped ==
  /\ job.repo \in SUBSET Packages /\ job.order \in Seq(Bases)
  /\ job.pkgs \in [Bases -> SUBSET Packages]
  /\ job.installed \in [Packages -> Version] /\ job.reason \in [Packages -> {"exp", "dep"}]
  /\ job.files \in SUBSET Packages /\ job.synced \in SUBSET Packages
  /\ job.record \in [Bases -> Commit \ {"new"}]
  /\ conf.failFast \in BOOLEAN /\ conf.reason \in {"auto", "exp", "dep", "asdep"}

\* The plans a session may start from have the shape of Job.
LEMMA JobShape == job \in Jobs /\ conf \in Confs => JobTyped
  BY InstallerAssumption DEF JobTyped, Job, Conf

\* A base that is being handled is one of the plan.
LEMMA CurrentBase == TypeOK /\ at > 0 => Cur \in Bases
  BY JobShape DEF TypeOK, JobTyped, Cur

\* What dep_or_exp goes through is a part of the packages of the base.
LEMMA WantedArePackages == ASSUME TypeOK, NEW b \in Bases PROVE WantedOf(b) \subseteq Packages
  BY JobShape DEF TypeOK, JobTyped, WantedOf

\* What a failed flush changes, wherever do_install was called from.
LEMMA FlushFailsTypes ==
  ASSUME TypeOK, FlushFails
  PROVE  /\ failed' \in SUBSET Bases /\ err' \in BOOLEAN
         /\ result' \in {"none", "ok", "failed"} /\ pc' \in {"next", "cleanup", "done"}
  <1>1. JobTyped
    BY JobShape DEF TypeOK
  <1>2. CASE back = "build"
    <2>1. Cur \in Bases
      BY <1>2, CurrentBase DEF TypeOK
    <2>2. BaseFails /\ UNCHANGED result
      BY <1>2 DEF FlushFails
    <2>3. QED
      BY <1>1, <2>1, <2>2 DEF TypeOK, JobTyped, BaseFails
  <1>3. CASE back # "build"
    BY <1>3 DEF FlushFails, TypeOK, Finish
  <1>4. QED
    BY <1>2, <1>3

\* Each step keeps every variable in its type.
LEMMA TypeStep == TypeOK /\ [Next]_vars => TypeOK'
  <1> SUFFICES ASSUME TypeOK, [Next]_vars PROVE TypeOK'
    OBVIOUS
  <1>1. JobTyped
    BY JobShape DEF TypeOK
  <1>2. CASE UNCHANGED vars
    BY <1>2 DEF vars, TypeOK, queueVars, infoVars, localDb, repoVars
  <1>3. CASE RepoInstall
    BY <1>1, <1>3, CurrentBase, WantedArePackages, InstallerAssumption
    DEF TypeOK, JobTyped, Version, RepoInstall, Install, queueVars, infoVars, localDb, repoVars
  <1>4. CASE RepoReasons
    BY <1>1, <1>4, CurrentBase, WantedArePackages, InstallerAssumption
    DEF TypeOK, JobTyped, Version, RepoReasons, queueVars, infoVars, localDb, repoVars
  <1>5. CASE PrepareFails
    BY <1>1, <1>5, CurrentBase, WantedArePackages, InstallerAssumption
    DEF TypeOK, JobTyped, Version, PrepareFails, Install, SetReason, Fault, Finish, queueVars, infoVars, localDb, repoVars
  <1>6. CASE Start
    BY <1>1, <1>6, CurrentBase, WantedArePackages, InstallerAssumption
    DEF TypeOK, JobTyped, Version, Start, LoadRecords, Commit, queueVars, infoVars, localDb, repoVars
  <1>7. CASE StartFails
    BY <1>1, <1>7, CurrentBase, WantedArePackages, InstallerAssumption
    DEF TypeOK, JobTyped, Version, StartFails, LoadRecords, Commit, Fault, queueVars, infoVars, localDb, repoVars
  <1>8. CASE NextBase
    BY <1>1, <1>8, CurrentBase, WantedArePackages, InstallerAssumption
    DEF TypeOK, JobTyped, Version, NextBase, queueVars, infoVars, localDb, repoVars
  <1>9. CASE NoMoreBases
    BY <1>1, <1>9, CurrentBase, WantedArePackages, InstallerAssumption
    DEF TypeOK, JobTyped, Version, NoMoreBases, queueVars, infoVars, localDb, repoVars
  <1>10. CASE CheckQueue
    BY <1>1, <1>10, CurrentBase, WantedArePackages, InstallerAssumption
    DEF TypeOK, JobTyped, Version, CheckQueue, queueVars, infoVars, localDb, repoVars
  <1>11. CASE Build
    BY <1>1, <1>11, CurrentBase, WantedArePackages, InstallerAssumption
    DEF TypeOK, JobTyped, Version, Build, queueVars, infoVars, localDb, repoVars
  <1>12. CASE DepsMissing
    BY <1>1, <1>12, CurrentBase, WantedArePackages, InstallerAssumption
    DEF TypeOK, JobTyped, Version, DepsMissing, BaseFails, queueVars, infoVars, localDb, repoVars
  <1>13. CASE BuildFails
    BY <1>1, <1>13, CurrentBase, WantedArePackages, InstallerAssumption
    DEF TypeOK, JobTyped, Version, BuildFails, BaseFails, Fault, queueVars, infoVars, localDb, repoVars
  <1>14. CASE AddToRepo
    BY <1>1, <1>14, CurrentBase, WantedArePackages, InstallerAssumption
    DEF TypeOK, JobTyped, Version, AddToRepo, Record, Fault, Commit, queueVars, infoVars, localDb, repoVars
  <1>15. CASE AddFails
    BY <1>1, <1>15, CurrentBase, WantedArePackages, InstallerAssumption
    DEF TypeOK, JobTyped, Version, AddFails, BaseFails, Fault, queueVars, infoVars, localDb, repoVars
  <1>16. CASE RecordAdded
    BY <1>1, <1>16, CurrentBase, WantedArePackages, InstallerAssumption
    DEF TypeOK, JobTyped, Version, RecordAdded, queueVars, infoVars, localDb, repoVars
  <1>17. CASE RecordAddedFails
    BY <1>1, <1>17, CurrentBase, WantedArePackages, InstallerAssumption
    DEF TypeOK, JobTyped, Version, RecordAddedFails, BaseFails, Fault, queueVars, infoVars, localDb, repoVars
  <1>18. CASE QueuePackages
    BY <1>1, <1>18, CurrentBase, WantedArePackages, InstallerAssumption
    DEF TypeOK, JobTyped, Version, QueuePackages, Enqueue, Record, Commit, queueVars, infoVars, localDb, repoVars
  <1>19. CASE QueueFails
    BY <1>1, <1>19, CurrentBase, WantedArePackages, InstallerAssumption
    DEF TypeOK, JobTyped, Version, QueueFails, BaseFails, Fault, queueVars, infoVars, localDb, repoVars
  <1>20. CASE InstallQueue
    BY <1>1, <1>20, CurrentBase, WantedArePackages, InstallerAssumption
    DEF TypeOK, JobTyped, Version, InstallQueue, Install, queueVars, infoVars, localDb, repoVars
  <1>21. CASE InstallFails
    BY <1>1, <1>21, CurrentBase, WantedArePackages, InstallerAssumption, FlushFailsTypes
    DEF TypeOK, JobTyped, Version, InstallFails, Fault, Install, queueVars, infoVars, localDb, repoVars
  <1>22. CASE SaveRecords
    BY <1>1, <1>22, CurrentBase, WantedArePackages, InstallerAssumption
    DEF TypeOK, JobTyped, Version, SaveRecords, queueVars, infoVars, localDb, repoVars
  <1>23. CASE MarkDeps
    BY <1>1, <1>23, CurrentBase, WantedArePackages, InstallerAssumption
    DEF TypeOK, JobTyped, Version, MarkDeps, SetReason, queueVars, infoVars, localDb, repoVars
  <1>24. CASE MarkExplicit
    BY <1>1, <1>24, CurrentBase, WantedArePackages, InstallerAssumption
    DEF TypeOK, JobTyped, Version, MarkExplicit, SetReason, queueVars, infoVars, localDb, repoVars
  <1>25. CASE AfterInstallFails
    BY <1>1, <1>25, CurrentBase, WantedArePackages, InstallerAssumption, FlushFailsTypes
    DEF TypeOK, JobTyped, Version, AfterInstallFails, Fault, queueVars, infoVars, localDb, repoVars
  <1>26. CASE ChrootInstall
    BY <1>1, <1>26, CurrentBase, WantedArePackages, InstallerAssumption
    DEF TypeOK, JobTyped, Version, ChrootInstall, Sync, SyncReason, AfterSync, queueVars, infoVars, localDb, repoVars
  <1>27. CASE ChrootInstallFails
    BY <1>1, <1>27, CurrentBase, WantedArePackages, InstallerAssumption
    DEF TypeOK, JobTyped, Version, ChrootInstallFails, Sync, SyncReason, Fault, AfterSync, queueVars, infoVars, localDb, repoVars
  <1>28. CASE RemoveMakeDeps
    BY <1>1, <1>28, CurrentBase, WantedArePackages, InstallerAssumption
    DEF TypeOK, JobTyped, Version, RemoveMakeDeps, Cleanup, Finish, queueVars, infoVars, localDb, repoVars
  <1>29. CASE CleanupFails
    BY <1>1, <1>29, CurrentBase, WantedArePackages, InstallerAssumption
    DEF TypeOK, JobTyped, Version, CleanupFails, Cleanup, Finish, Fault, queueVars, infoVars, localDb, repoVars
  <1>30. QED
    BY <1>2, <1>3, <1>4, <1>5, <1>6, <1>7, <1>8, <1>9, <1>10, <1>11, <1>12, <1>13, <1>14, <1>15, <1>16, <1>17, <1>18, <1>19, <1>20, <1>21, <1>22, <1>23, <1>24, <1>25, <1>26, <1>27, <1>28, <1>29 DEF Next, Done

\* The type invariant of the installer, for all plans, configurations and bounds.
THEOREM TypeCorrect == Spec => []TypeOK
  <1>1. Init => TypeOK
    <2> SUFFICES ASSUME Init PROVE TypeOK
      OBVIOUS
    <2>1. JobTyped
      BY JobShape DEF Init
    <2>2. at \in 0..Len(job.order) /\ faults \in 0..MaxFaults
      BY <2>1, InstallerAssumption DEF Init, JobTyped
    <2>3. info \in [Bases -> Commit] /\ disk \in [Bases -> Commit]
      BY <2>1 DEF Init, JobTyped, Commit
    <2>4. QED
      BY <2>1, <2>2, <2>3 DEF Init, TypeOK, JobTyped
  <1>2. QED
    BY <1>1, TypeStep, PTL DEF Spec

-----------------------------------------------------------------------------
(* The install queue and the records *)

\* do_install goes on after the transaction only if the queue is installed.
QueueInstalled == pc \in {"save", "asdeps", "asexp"} => queue \subseteq New

\* Where a package ends up once its base has been handled.
Landed(b) == IF conf.localRepo THEN job.pkgs[b] \subseteq inRepo
             ELSE WantedOf(b) \subseteq queue \cup New

\* No record is ahead of the queue or the repository, and none is new at the start.
RecordsSound ==
  /\ pc \in {"add", "record"} => conf.localRepo
  /\ pc \in {"repo", "reasons", "start"} => \A b \in Bases : disk[b] # "new"
  /\ pc \notin {"cleanup", "done"} => \A b \in Bases : info[b] = "new" => Landed(b)

\* The steps that change the queue.
QueueStep == CheckQueue \/ QueuePackages \/ QueueFails \/ MarkExplicit

\* The steps that end the builds.
EndStep == pc' \in {"cleanup", "done"}

\* The plan and the configuration never change.
LEMMA PlanFixed == [Next]_vars => UNCHANGED <<job, conf>>
  BY DEF Next, vars, RepoInstall, RepoReasons, PrepareFails, Start, StartFails, NextBase,
         NoMoreBases, CheckQueue, Build, DepsMissing, BuildFails, AddToRepo, AddFails,
         RecordAdded, RecordAddedFails, QueuePackages, QueueFails, InstallQueue,
         InstallFails, SaveRecords, MarkDeps, MarkExplicit, AfterInstallFails,
         ChrootInstall, ChrootInstallFails, RemoveMakeDeps, CleanupFails, Done

\* Every other step leaves the queue alone.
LEMMA QueueKept == [Next]_vars /\ ~QueueStep => UNCHANGED <<queue, conflict, built>>
  BY DEF QueueStep, Next, vars, queueVars, RepoInstall, RepoReasons, PrepareFails, Start,
         StartFails, NextBase, NoMoreBases, Build, DepsMissing, BuildFails, AddToRepo,
         AddFails, RecordAdded, RecordAddedFails, InstallQueue, InstallFails, SaveRecords,
         MarkDeps, AfterInstallFails, ChrootInstall, ChrootInstallFails, RemoveMakeDeps,
         CleanupFails, Done

\* A closure is made of packages and has what it was built from.
LEMMA ClosureHas ==
  ASSUME NEW ps \in SUBSET Packages
  PROVE  ps \subseteq Closure(ps) /\ Closure(ps) \in SUBSET Packages
  BY DEF Closure

\* A transaction only adds new packages to the local database.
LEMMA InstallGrows ==
  ASSUME TypeOK, NEW ps \in SUBSET Packages, NEW asked, Install(ps, asked)
  PROVE  New \cup ps \subseteq New'
  BY DEF TypeOK, Install, New

\* Until the clean up, no step takes a new package away.
LEMMA NewKept == TypeOK /\ [Next]_vars /\ ~EndStep => New \subseteq New'
  <1> SUFFICES ASSUME TypeOK, [Next]_vars, ~EndStep PROVE New \subseteq New'
    OBVIOUS
  <1>1. JobTyped
    BY JobShape DEF TypeOK
  <1>2. CASE RepoInstall
    BY <1>1, <1>2 DEF RepoInstall, Install, localDb, New, JobTyped, TypeOK
  <1>3. CASE InstallQueue \/ InstallFails
    BY <1>3 DEF InstallQueue, InstallFails, Install, localDb, New, TypeOK
  <1>4. CASE ChrootInstall
    BY <1>4 DEF ChrootInstall, Sync, localDb, New, TypeOK
  <1>6. CASE ChrootInstallFails
    BY <1>6 DEF ChrootInstallFails, Sync, localDb, New, TypeOK
  <1>5. CASE ~(RepoInstall \/ InstallQueue \/ InstallFails \/ ChrootInstall \/ ChrootInstallFails)
    <2>1. UNCHANGED installed
      BY <1>5 DEF EndStep, Finish, Cleanup, localDb, Next, vars, RepoReasons, PrepareFails,
             Start, StartFails, NextBase, NoMoreBases, CheckQueue, Build, DepsMissing,
             BuildFails, AddToRepo, AddFails, RecordAdded, RecordAddedFails, QueuePackages,
             QueueFails, SaveRecords, MarkDeps, MarkExplicit, AfterInstallFails,
             RemoveMakeDeps, CleanupFails, Done
    <2>2. QED
      BY <2>1 DEF New
  <1>7. QED
    BY <1>2, <1>3, <1>4, <1>5, <1>6

\* The flag of a known conflict is kept as long as the package is queued.
LEMMA ConflictsFlaggedStep == ConflictsFlagged /\ [Next]_vars => ConflictsFlagged'
  <1> SUFFICES ASSUME ConflictsFlagged, [Next]_vars PROVE ConflictsFlagged'
    OBVIOUS
  <1>1. CASE CheckQueue
    BY <1>1 DEF ConflictsFlagged, CheckQueue
  <1>2. CASE QueuePackages \/ QueueFails
    BY <1>2 DEF ConflictsFlagged, QueuePackages, QueueFails, Enqueue
  <1>3. CASE MarkExplicit
    BY <1>3 DEF ConflictsFlagged, MarkExplicit
  <1>4. CASE ~QueueStep
    BY <1>4, PlanFixed, QueueKept DEF ConflictsFlagged
  <1>5. QED
    BY <1>1, <1>2, <1>3, <1>4 DEF QueueStep

\* The backend is called with --noconfirm only without a known conflict in the queue.
THEOREM ConflictsFlaggedHolds == Spec => []ConflictsFlagged
  <1>1. Init => ConflictsFlagged
    BY DEF Init, ConflictsFlagged
  <1>2. QED
    BY <1>1, ConflictsFlaggedStep, PTL DEF Spec

\* While do_install runs, the queue is not touched and what it installed stays.
LEMMA QueueInstalledStep == TypeOK /\ QueueInstalled /\ [Next]_vars => QueueInstalled'
  <1> SUFFICES ASSUME TypeOK, QueueInstalled, [Next]_vars, pc' \in {"save", "asdeps", "asexp"}
               PROVE  queue' \subseteq New'
    BY DEF QueueInstalled
  <1>1. CASE InstallQueue
    <2>1. New \cup Closure(queue) \subseteq New'
      BY <1>1, InstallGrows, ClosureHas DEF InstallQueue, TypeOK
    <2>2. QED
      BY <1>1, <2>1, ClosureHas DEF InstallQueue, TypeOK, queueVars
  <1>2. CASE SaveRecords \/ MarkDeps \/ UNCHANGED vars
    BY <1>2 DEF SaveRecords, MarkDeps, QueueInstalled, queueVars, localDb, vars, New
  <1>3. CASE ~(InstallQueue \/ SaveRecords \/ MarkDeps \/ UNCHANGED vars)
    BY <1>3 DEF Finish, Cleanup, FlushFails, BaseFails, AfterSync, Next, RepoInstall,
           RepoReasons, PrepareFails, Start, StartFails, NextBase, NoMoreBases, CheckQueue,
           Build, DepsMissing, BuildFails, AddToRepo, AddFails, RecordAdded,
           RecordAddedFails, QueuePackages, QueueFails, InstallFails, MarkExplicit,
           AfterInstallFails, ChrootInstall, ChrootInstallFails, RemoveMakeDeps,
           CleanupFails, Done
  <1>4. QED
    BY <1>1, <1>2, <1>3

\* The base that fails is remembered as failed, unless the session ends there.
LEMMA FailureRemembered == BaseFails => EndStep \/ failed' = failed \cup {Cur}
  BY DEF BaseFails, EndStep

\* Failed bases stay failed until the clean up.
LEMMA FailedGrows == [Next]_vars /\ ~EndStep => failed \subseteq failed'
  BY DEF EndStep, BaseFails, FlushFails, Finish, Cleanup, Next, vars, RepoInstall,
         RepoReasons, PrepareFails, Start, StartFails, NextBase, NoMoreBases, CheckQueue,
         Build, DepsMissing, BuildFails, AddToRepo, AddFails, RecordAdded,
         RecordAddedFails, QueuePackages, QueueFails, InstallQueue, InstallFails,
         SaveRecords, MarkDeps, MarkExplicit, AfterInstallFails, ChrootInstall,
         ChrootInstallFails, RemoveMakeDeps, CleanupFails, Done

\* What is wanted of a base is fixed by the plan.
LEMMA WantedFixed == ASSUME [Next]_vars, NEW b PROVE WantedOf(b)' = WantedOf(b)
  BY PlanFixed DEF WantedOf, Wanted

\* A package that was queued or installed stays so until the clean up.
LEMMA QueueOrNewKept ==
  TypeOK /\ QueueInstalled /\ [Next]_vars /\ ~EndStep => queue \cup New \subseteq queue' \cup New'
  <1> SUFFICES ASSUME TypeOK, QueueInstalled, [Next]_vars, ~EndStep
               PROVE  queue \cup New \subseteq queue' \cup New'
    OBVIOUS
  <1>1. New \subseteq New'
    BY NewKept
  <1>2. CASE CheckQueue \/ QueuePackages \/ QueueFails
    BY <1>1, <1>2 DEF CheckQueue, QueuePackages, QueueFails, Enqueue
  <1>3. CASE MarkExplicit
    BY <1>1, <1>3 DEF MarkExplicit, QueueInstalled
  <1>4. CASE ~QueueStep
    BY <1>1, <1>4, QueueKept
  <1>5. QED
    BY <1>2, <1>3, <1>4 DEF QueueStep

\* No step before the clean up drops a package that was built.
LEMMA NothingDroppedStep ==
  TypeOK /\ QueueInstalled /\ NothingDropped /\ [Next]_vars => NothingDropped'
  <1> SUFFICES ASSUME TypeOK, QueueInstalled, NothingDropped, [Next]_vars, ~EndStep,
                      NEW b \in (built' \ failed')
               PROVE  WantedOf(b)' \subseteq queue' \cup New'
    BY DEF NothingDropped, EndStep
  <1>1. queue \cup New \subseteq queue' \cup New'
    BY QueueOrNewKept
  <1>2. CASE b \in built
    <2>1. b \in built \ failed
      BY <1>2, FailedGrows
    <2>2. pc \notin {"cleanup", "done"}
      BY DEF EndStep, Finish, Cleanup, Next, vars, RepoInstall, RepoReasons, PrepareFails,
             Start, StartFails, NextBase, NoMoreBases, CheckQueue, Build, DepsMissing,
             BuildFails, AddToRepo, AddFails, RecordAdded, RecordAddedFails, QueuePackages,
             QueueFails, InstallQueue, InstallFails, SaveRecords, MarkDeps, MarkExplicit,
             AfterInstallFails, ChrootInstall, ChrootInstallFails, RemoveMakeDeps,
             CleanupFails, Done
    <2>3. WantedOf(b) \subseteq queue \cup New
      BY <2>1, <2>2 DEF NothingDropped
    <2>4. QED
      BY <1>1, <2>3, WantedFixed
  <1>3. CASE b \notin built
    <2>1. CASE QueuePackages
      <3>1. b = Cur /\ WantedOf(Cur) \subseteq queue'
        BY <1>3, <2>1 DEF QueuePackages, Enqueue
      <3>2. QED
        BY <3>1, WantedFixed
    <2>2. CASE QueueFails
      BY <1>3, <2>2, FailureRemembered DEF QueueFails
    <2>3. CASE CheckQueue \/ MarkExplicit
      BY <1>3, <2>3 DEF CheckQueue, MarkExplicit
    <2>4. CASE ~QueueStep
      BY <1>3, <2>4, QueueKept
    <2>5. QED
      BY <2>1, <2>2, <2>3, <2>4 DEF QueueStep
  <1>4. QED
    BY <1>2, <1>3

\* What was built waits in the queue or is installed, whatever fails on the way.
THEOREM NothingDroppedHolds == Spec => []NothingDropped
  <1>1. Init => QueueInstalled /\ NothingDropped
    BY DEF Init, QueueInstalled, NothingDropped
  <1>2. QED
    BY <1>1, TypeCorrect, QueueInstalledStep, NothingDroppedStep, PTL DEF Spec

\* What landed stays where it is until the clean up.
LEMMA LandedKept ==
  ASSUME TypeOK, QueueInstalled, [Next]_vars, ~EndStep, NEW b, Landed(b)
  PROVE  Landed(b)'
  <1>1. inRepo \subseteq inRepo'
    BY DEF repoVars, Next, vars, RepoInstall, RepoReasons, PrepareFails, Start, StartFails,
           NextBase, NoMoreBases, CheckQueue, Build, DepsMissing, BuildFails, AddToRepo,
           AddFails, RecordAdded, RecordAddedFails, QueuePackages, QueueFails, InstallQueue,
           InstallFails, SaveRecords, MarkDeps, MarkExplicit, AfterInstallFails,
           ChrootInstall, ChrootInstallFails, RemoveMakeDeps, CleanupFails, Done
  <1>2. queue \cup New \subseteq queue' \cup New'
    BY QueueOrNewKept
  <1>3. QED
    BY <1>1, <1>2, PlanFixed, WantedFixed DEF Landed

\* The steps that write the records in memory or on disk.
RecordStep == Start \/ StartFails \/ AddToRepo \/ QueuePackages \/ RecordAdded \/ SaveRecords

\* No other step does.
LEMMA RecordsKept == [Next]_vars /\ ~RecordStep => UNCHANGED <<info, disk>>
  BY DEF RecordStep, infoVars, Next, vars, RepoInstall, RepoReasons, PrepareFails,
         NextBase, NoMoreBases, CheckQueue, Build, DepsMissing, BuildFails,
         AddFails, RecordAddedFails, QueueFails, InstallQueue, InstallFails, MarkDeps,
         MarkExplicit, AfterInstallFails, ChrootInstall, ChrootInstallFails,
         RemoveMakeDeps, CleanupFails, Done

\* The repository is only written to in a session that has one.
LEMMA AddNeedsRepo ==
  (pc \in {"add", "record"} => conf.localRepo) /\ [Next]_vars
    => (pc' \in {"add", "record"} => conf'.localRepo)
  <1> SUFFICES ASSUME pc \in {"add", "record"} => conf.localRepo, [Next]_vars,
                      pc' \in {"add", "record"}
               PROVE  conf'.localRepo
    OBVIOUS
  <1>1. conf.localRepo
    BY DEF Finish, Cleanup, FlushFails, BaseFails, AfterSync, Next, vars, RepoInstall,
           RepoReasons, PrepareFails, Start, StartFails, NextBase, NoMoreBases, CheckQueue,
           Build, DepsMissing, BuildFails, AddToRepo, AddFails, RecordAdded,
           RecordAddedFails, QueuePackages, QueueFails, InstallQueue, InstallFails,
           SaveRecords, MarkDeps, MarkExplicit, AfterInstallFails, ChrootInstall,
           ChrootInstallFails, RemoveMakeDeps, CleanupFails, Done
  <1>2. QED
    BY <1>1, PlanFixed

\* Before the records are loaded the file is as it was found.
LEMMA DiskBeforeStart ==
  [Next]_vars /\ pc' \in {"repo", "reasons", "start"}
    => pc \in {"repo", "reasons", "start"} /\ disk' = disk
  BY DEF Finish, Cleanup, FlushFails, BaseFails, AfterSync, Next, vars, RepoInstall,
         RepoReasons, PrepareFails, Start, StartFails, NextBase, NoMoreBases, CheckQueue,
         Build, DepsMissing, BuildFails, AddToRepo, AddFails, RecordAdded,
         RecordAddedFails, QueuePackages, QueueFails, InstallQueue, InstallFails,
         SaveRecords, MarkDeps, MarkExplicit, AfterInstallFails, ChrootInstall,
         ChrootInstallFails, RemoveMakeDeps, CleanupFails, Done

\* The builds end once.
LEMMA EndIsFinal == [Next]_vars /\ ~EndStep => pc \notin {"cleanup", "done"}
  BY DEF EndStep, Finish, Cleanup, Next, vars, RepoInstall, RepoReasons, PrepareFails,
         Start, StartFails, NextBase, NoMoreBases, CheckQueue, Build, DepsMissing,
         BuildFails, AddToRepo, AddFails, RecordAdded, RecordAddedFails, QueuePackages,
         QueueFails, InstallQueue, InstallFails, SaveRecords, MarkDeps, MarkExplicit,
         AfterInstallFails, ChrootInstall, ChrootInstallFails, RemoveMakeDeps,
         CleanupFails, Done

\* A new record in memory comes with packages that landed.
LEMMA RecordsSoundStep ==
  TypeOK /\ QueueInstalled /\ RecordsSound /\ [Next]_vars => RecordsSound'
  <1> SUFFICES ASSUME TypeOK, QueueInstalled, RecordsSound, [Next]_vars PROVE RecordsSound'
    OBVIOUS
  <1>1. pc' \in {"add", "record"} => conf'.localRepo
    BY AddNeedsRepo DEF RecordsSound
  <1>2. pc' \in {"repo", "reasons", "start"} => \A b \in Bases : disk'[b] # "new"
    BY DiskBeforeStart DEF RecordsSound
  <1>3. ASSUME ~EndStep, NEW b \in Bases, info'[b] = "new" PROVE Landed(b)'
    <2>1. info[b] = "new" => Landed(b)'
      BY <1>3, EndIsFinal, LandedKept DEF RecordsSound
    <2>2. CASE Start
      BY <2>1, <2>2, <1>3 DEF Start, LoadRecords, RecordsSound, infoVars
    <2>3. CASE AddToRepo
      <3>1. info[b] = "new" \/ b = Cur
        BY <2>3, <1>3 DEF AddToRepo, Record, TypeOK
      <3>2. conf.localRepo /\ job.pkgs[Cur] \subseteq inRepo'
        BY <2>3 DEF AddToRepo, RecordsSound
      <3>3. QED
        BY <2>1, <3>1, <3>2, PlanFixed DEF Landed
    <2>4. CASE QueuePackages
      <3>1. info[b] = "new" \/ (b = Cur /\ ~conf.localRepo)
        BY <2>4, <1>3 DEF QueuePackages, Record, infoVars, TypeOK
      <3>2. WantedOf(Cur) \subseteq queue'
        BY <2>4 DEF QueuePackages, Enqueue
      <3>3. CASE b = Cur /\ ~conf.localRepo
        <4>1. WantedOf(b)' \subseteq queue'
          BY <3>2, <3>3, WantedFixed
        <4>2. QED
          BY <3>3, <4>1, PlanFixed DEF Landed
      <3>4. QED
        BY <2>1, <3>1, <3>3
    <2>5. CASE ~(Start \/ AddToRepo \/ QueuePackages)
      <3>1. info' = info
        BY <2>5, <1>3, RecordsKept DEF RecordStep, RecordAdded, SaveRecords, StartFails, EndStep, infoVars
      <3>2. QED
        BY <1>3, <2>1, <3>1
    <2>6. QED
      BY <2>2, <2>3, <2>4, <2>5
  <1>4. QED
    BY <1>1, <1>2, <1>3 DEF RecordsSound, EndStep

\* A commit that reaches the disk belongs to packages that are installed or added.
LEMMA RecordedAfterInstallStep ==
  ASSUME TypeOK, QueueInstalled, RecordsSound, [Next]_vars, NEW b \in Bases,
         disk'[b] = "new", disk[b] # "new"
  PROVE  IF conf.localRepo THEN job.pkgs[b] \subseteq inRepo ELSE WantedOf(b) \subseteq New
  <1>1. CASE Start \/ StartFails
    BY <1>1 DEF Start, StartFails, LoadRecords, RecordsSound, infoVars
  <1>2. CASE RecordAdded
    BY <1>2 DEF RecordAdded, RecordsSound, Landed
  <1>3. CASE SaveRecords
    <2>1. Landed(b) /\ queue \subseteq New
      BY <1>3 DEF SaveRecords, RecordsSound, QueueInstalled
    <2>2. QED
      BY <2>1 DEF Landed
  <1>4. CASE ~(Start \/ StartFails \/ RecordAdded \/ SaveRecords)
    BY <1>4, RecordsKept DEF RecordStep, AddToRepo, QueuePackages
  <1>5. QED
    BY <1>1, <1>2, <1>3, <1>4

\* A commit reaches devel.toml when everything that the session was to install of its base is
\* installed, or the local repository has it (do_install, add_pkg).
THEOREM RecordedAfterInstallHolds == Spec => RecordedAfterInstall
  <1>1. Init => QueueInstalled /\ RecordsSound
    BY JobShape DEF Init, QueueInstalled, RecordsSound, JobTyped
  <1>2. TypeOK /\ QueueInstalled /\ RecordsSound /\ [Next]_vars
          => [\A b \in Bases : disk'[b] = "new" /\ disk[b] # "new" =>
                IF conf.localRepo THEN job.pkgs[b] \subseteq inRepo
                ELSE WantedOf(b) \subseteq New]_vars
    BY RecordedAfterInstallStep
  <1>3. QED
    BY <1>1, <1>2, TypeCorrect, QueueInstalledStep, RecordsSoundStep, PTL
    DEF Spec, RecordedAfterInstall

-----------------------------------------------------------------------------
(* What a success means *)

\* Nothing has gone wrong so far, and the session is not over.
Going == failed = {} /\ ~err /\ pc # "done"

\* Inside do_install; inside the handling of a base; after the last base.
Flushing == pc \in {"install", "save", "asdeps", "asexp"}
InBase == pc \in {"check", "build", "add", "record", "queue"} \/ (Flushing /\ back = "build")
Ended == pc \in {"tail", "cleanup"} \/ (Flushing /\ back # "build")

\* Where the installer can be, and that every base before the current one has been queued.
Progress ==
  /\ pc \in {"repo", "reasons", "start"} => at = 0 /\ queue = {}
  /\ pc = "reasons" => ~conf.chroot
  /\ Flushing => IF conf.chroot THEN back = "tail" /\ ~conf.localRepo ELSE back \in {"build", "final"}
  /\ \A k \in 1..at : k < at \/ ~InBase => job.order[k] \in built
  /\ Ended => at = Len(job.order)
  /\ (pc = "tail" /\ ~conf.chroot) \/ (pc = "cleanup" /\ ~(conf.chroot /\ conf.localRepo)) => queue = {}

\* A package with the version and the reason that it has to have at the end.
Settled(p) == installed[p] = "new" /\ reason[p] = Owed(p)

\* Only `pacman -S` decides what is installed, and with which reason.
Synced == conf.chroot /\ conf.localRepo

Tagged(p) == p \in queue /\ (AsDep(p) => p \in deps) /\ (AsExp(p) => p \in exp)

\* What was built is queued with its reason, or installed with it.
Reasons ==
  /\ deps \subseteq {p \in Packages : AsDep(p)} /\ exp \subseteq {p \in Packages : AsExp(p)}
  /\ \A p \in Packages : job.installed[p] # "none" => installed[p] # "none"
  /\ \A p \in Packages \ job.repo : ~Synced /\ ~AsExp(p) /\ ~AsDep(p) => reason[p] = job.reason[p]
  /\ pc = "asexp" => \A p \in deps \cap Have : reason[p] = "dep"
  /\ \A b \in built : \A p \in WantedOf(b) : Tagged(p) \/ Settled(p)

\* With a chroot nothing is installed before the end.
Chroot ==
  conf.chroot =>
    /\ ~Flushing /\ pc # "cleanup" => installed = job.installed /\ reason = job.reason
    /\ conf.localRepo /\ pc = "cleanup" => \A p \in SyncTargets \cap job.target : Settled(p)

\* The current base has its record in memory, or on disk.
Recorded == \/ pc = "record" \/ (pc = "queue" /\ conf.localRepo) \/ ~InBase
Saved == pc = "queue" \/ ~InBase

\* Commits are looked up until the base is built, then recorded in memory and with a local
\* repository on disk, or on disk when the queue is flushed.
RecordOf(k) ==
  job.order[k] \in job.devel =>
    /\ k > at \/ (k = at /\ ~Recorded) => job.order[k] \in newInfo
    /\ k < at \/ (k = at /\ Recorded) => info[job.order[k]] = "new"
    /\ conf.localRepo /\ (k < at \/ (k = at /\ Saved)) => disk[job.order[k]] = "new"
    /\ ~conf.localRepo /\ (k < at \/ (k = at /\ ~InBase)) /\ WantedOf(job.order[k]) # {} =>
         disk[job.order[k]] = "new" \/ WantedOf(job.order[k]) \cap queue # {}

Records ==
  pc \notin {"repo", "reasons", "start"} /\ conf.devel =>
    /\ \A k \in 1..Len(job.order) : RecordOf(k)
    /\ pc \in {"asdeps", "asexp"} => disk = info

\* The packages of the repositories are there.
RepoHere == ~conf.chroot /\ pc # "repo" => job.repo \subseteq Have

\* The steps that go on.
GoingStep ==
  \/ RepoInstall \/ RepoReasons \/ Start \/ NextBase \/ NoMoreBases \/ CheckQueue \/ Build
  \/ AddToRepo \/ RecordAdded \/ QueuePackages \/ InstallQueue \/ SaveRecords \/ MarkDeps
  \/ MarkExplicit \/ ChrootInstall

\* What has gone wrong stays wrong: a failed base stays failed, and an error ends the builds.
LEMMA FailedForGood == BaseFails \/ FlushFails => ~Going'
  BY DEF BaseFails, FlushFails, Going, Finish

\* As long as nothing has gone wrong, the step was one that goes on.
LEMMA GoingSteps == [Next]_vars /\ Going' => Going /\ (GoingStep \/ UNCHANGED vars)
<1> SUFFICES ASSUME [Next]_vars, Going' PROVE Going /\ (GoingStep \/ UNCHANGED vars)
  OBVIOUS
<1>1. CASE PrepareFails \/ StartFails \/ ChrootInstallFails \/ RemoveMakeDeps \/ CleanupFails
  BY <1>1 DEF PrepareFails, StartFails, ChrootInstallFails, RemoveMakeDeps, CleanupFails, Cleanup,
              Finish, Going
<1>2. CASE DepsMissing \/ BuildFails \/ AddFails \/ RecordAddedFails \/ QueueFails \/ InstallFails
           \/ AfterInstallFails
  BY <1>2, FailedForGood DEF DepsMissing, BuildFails, AddFails, RecordAddedFails, QueueFails,
              InstallFails, AfterInstallFails
<1>3. CASE GoingStep
  <2>1. failed' = failed /\ err' = err
    BY <1>3 DEF GoingStep, RepoInstall, RepoReasons, Start, NextBase, NoMoreBases, CheckQueue, Build,
                AddToRepo, RecordAdded, QueuePackages, InstallQueue, SaveRecords, MarkDeps,
                MarkExplicit, ChrootInstall
  <2>2. pc # "done"
    BY <1>3 DEF GoingStep, RepoInstall, RepoReasons, Start, NextBase, NoMoreBases, CheckQueue, Build,
                AddToRepo, RecordAdded, QueuePackages, InstallQueue, SaveRecords, MarkDeps,
                MarkExplicit, ChrootInstall
  <2> QED
    BY <1>3, <2>1, <2>2 DEF Going
<1>4. CASE UNCHANGED vars
  BY <1>4 DEF vars, Going
<1> QED
  BY <1>1, <1>2, <1>3, <1>4 DEF Next, GoingStep, Done

\* Each step that goes on handles the bases in their order.
LEMMA ProgressStep ==
  ASSUME TypeOK, Progress, GoingStep \/ UNCHANGED vars
  PROVE  Progress'
<1>1. JobTyped /\ Len(job.order) \in Nat /\ at \in Nat
  BY JobShape DEF TypeOK, JobTyped
<1>2. CASE RepoInstall
  BY <1>1, <1>2 DEF RepoInstall, Progress, Flushing, InBase, Ended, queueVars
<1>3. CASE RepoReasons
  BY <1>1, <1>3 DEF RepoReasons, Progress, Flushing, InBase, Ended, queueVars
<1>4. CASE Start
  BY <1>1, <1>4 DEF Start, Progress, Flushing, InBase, Ended, queueVars
<1>5. CASE NextBase
  BY <1>1, <1>5 DEF NextBase, Progress, Flushing, InBase, Ended, queueVars
<1>6. CASE NoMoreBases
  BY <1>1, <1>6 DEF NoMoreBases, Progress, Flushing, InBase, Ended, queueVars
<1>7. CASE CheckQueue
  BY <1>1, <1>7 DEF CheckQueue, FlushFirst, Progress, Flushing, InBase, Ended
<1>8. CASE Build \/ AddToRepo \/ RecordAdded
  BY <1>1, <1>8 DEF Build, AddToRepo, RecordAdded, Progress, Flushing, InBase, Ended, queueVars
<1>9. CASE QueuePackages
  BY <1>1, <1>9 DEF QueuePackages, Enqueue, Progress, Flushing, InBase, Ended, Cur
<1>10. CASE InstallQueue \/ SaveRecords \/ MarkDeps
  BY <1>1, <1>10 DEF InstallQueue, SaveRecords, MarkDeps, Progress, Flushing, InBase, Ended, queueVars
<1>11. CASE MarkExplicit
  BY <1>1, <1>11 DEF MarkExplicit, Progress, Flushing, InBase, Ended
<1>12. CASE ChrootInstall
  BY <1>1, <1>12 DEF ChrootInstall, AfterSync, Progress, Flushing, InBase, Ended, queueVars
<1>13. CASE UNCHANGED vars
  BY <1>13 DEF vars, Progress, Flushing, InBase, Ended, queueVars
<1> QED
  BY <1>2, <1>3, <1>4, <1>5, <1>6, <1>7, <1>8, <1>9, <1>10, <1>11, <1>12, <1>13 DEF GoingStep

\* A package is asked to be explicit or a dependency, not both, whatever the step.
LEMMA ReasonFixed ==
  ASSUME [Next]_vars, NEW p
  PROVE  AsExp(p)' = AsExp(p) /\ AsDep(p)' = AsDep(p) /\ Owed(p)' = Owed(p)
  BY PlanFixed DEF AsExp, AsDep, Automatic, Owed

\* No package is asked to be both.
LEMMA OneReason == ASSUME NEW p PROVE ~(AsExp(p) /\ AsDep(p))
  BY DEF AsExp, AsDep, Automatic

\* Where do_install is used, the reason owed is the one dep_or_exp asks for.
LEMMA OwedReason ==
  ASSUME TypeOK, ~Synced, NEW p
  PROVE  Owed(p) = IF AsExp(p) THEN "exp" ELSE IF AsDep(p) THEN "dep" ELSE job.reason[p]
<1>1. conf.reason \in {"auto", "exp", "dep", "asdep"}
  BY JobShape DEF TypeOK, JobTyped
<1> QED
  BY <1>1 DEF Synced, Owed, AsExp, AsDep, Automatic

\* The queue is only flushed there.
LEMMA FlushNotSynced == ASSUME Progress, Flushing PROVE ~Synced
  BY DEF Progress, Synced

\* The packages of a base are not those of the repositories.
LEMMA WantedNotRepo == ASSUME TypeOK, NEW b \in Bases, NEW p \in WantedOf(b) PROVE p \notin job.repo
  BY InstallerAssumption DEF TypeOK, WantedOf

\* Without a local repository `pacman -S` leaves alone what is installed and not one of its targets.
LEMMA NotSynced ==
  ASSUME TypeOK, ~conf.localRepo, NEW p \in Have \ job.repo
  PROVE  p \notin Closure(SyncTargets)
<1> DEFINE S == Packages \ {p}
<1>1. SyncTargets \subseteq S
  BY JobShape DEF SyncTargets, TypeOK, JobTyped
<1>2. \A q \in S : job.depends[q] \ Have \subseteq S
  BY InstallerAssumption DEF TypeOK, Job
<1>3. Closure(SyncTargets) \subseteq S
  BY <1>1, <1>2 DEF Closure
<1> QED
  BY <1>3

\* What is settled stays so, and what is queued with its reason is settled when the queue is
\* cleared.
LEMMA SettledKept ==
  ASSUME TypeOK, Progress, Reasons, [Next]_vars, GoingStep \/ UNCHANGED vars,
         NEW p \in Packages \ job.repo, Settled(p)
  PROVE  Settled(p)'
<1>1. installed[p] = "new" /\ reason[p] = Owed(p)
  BY DEF Settled
<1>2. Owed(p)' = Owed(p)
  BY ReasonFixed
<1>3. CASE RepoInstall \/ InstallQueue
  BY <1>1, <1>2, <1>3 DEF RepoInstall, InstallQueue, Install, Settled, localDb, TypeOK
<1>4. CASE RepoReasons
  BY <1>1, <1>2, <1>4 DEF RepoReasons, RepoDeps, RepoExp, Settled, localDb, TypeOK
<1>5. CASE ChrootInstall
  <2>1. CASE Synced
    <3>1. installed'[p] = "new" /\ reason'[p] \in {reason[p], SyncReason(p)}
      BY <1>1, <1>5, <2>1 DEF ChrootInstall, Sync, Synced, TypeOK
    <3>2. SyncReason(p) = Owed(p)
      BY <1>1, <2>1, JobShape DEF SyncReason, Owed, Synced, TypeOK, JobTyped
    <3> QED
      BY <1>1, <1>2, <3>1, <3>2 DEF Settled
  <2>2. CASE conf.chroot /\ ~conf.localRepo
    <3>1. p \in Have /\ p \notin Closure(SyncTargets)
      BY <1>1, <2>2, NotSynced DEF Have
    <3> QED
      BY <1>1, <1>2, <1>5, <2>2, <3>1 DEF ChrootInstall, Sync, Settled, TypeOK
  <2>3. CASE ~conf.chroot
    BY <1>1, <1>2, <1>5, <2>3 DEF ChrootInstall, Settled, localDb
  <2> QED
    BY <2>1, <2>2, <2>3 DEF Synced
<1>6. CASE MarkDeps
  <2>1. p \in deps => Owed(p) = "dep"
    BY <1>6, OneReason, OwedReason, FlushNotSynced DEF Reasons, MarkDeps, Flushing
  <2> QED
    BY <1>1, <1>2, <1>6, <2>1 DEF MarkDeps, SetReason, Settled
<1>7. CASE MarkExplicit
  <2>1. p \in exp => Owed(p) = "exp"
    BY <1>7, OwedReason, FlushNotSynced DEF Reasons, MarkExplicit, Flushing
  <2> QED
    BY <1>1, <1>2, <1>7, <2>1 DEF MarkExplicit, SetReason, Settled
<1>8. CASE \/ Start \/ NextBase \/ NoMoreBases \/ CheckQueue \/ Build \/ AddToRepo \/ RecordAdded
           \/ QueuePackages \/ SaveRecords \/ UNCHANGED vars
  <2>1. installed' = installed /\ reason' = reason
    BY <1>8 DEF Start, NextBase, NoMoreBases, CheckQueue, Build, AddToRepo, RecordAdded,
                QueuePackages, SaveRecords, vars, localDb
  <2> QED
    BY <1>1, <1>2, <2>1 DEF Settled
<1> QED
  BY <1>3, <1>4, <1>5, <1>6, <1>7, <1>8 DEF GoingStep

\* Clearing the queue settles what is in it.
LEMMA SettledByFlush ==
  ASSUME TypeOK, QueueInstalled, Progress, Reasons, [Next]_vars, MarkExplicit,
         NEW p \in Packages \ job.repo, Tagged(p)
  PROVE  Settled(p)'
<1>0. ~Synced /\ Owed(p) = IF AsExp(p) THEN "exp" ELSE IF AsDep(p) THEN "dep" ELSE job.reason[p]
  BY OwedReason, FlushNotSynced DEF MarkExplicit, Flushing
<1>1. p \in New /\ installed'[p] = installed[p] /\ Owed(p)' = Owed(p)
  BY ReasonFixed DEF MarkExplicit, QueueInstalled, Tagged
<1>2. installed[p] = "new" /\ p \in Have
  BY <1>1 DEF New, Have
<1>3. reason'[p] = IF p \in exp THEN "exp" ELSE reason[p]
  BY <1>2 DEF MarkExplicit, SetReason
<1>4. CASE AsExp(p)
  BY <1>0, <1>1, <1>2, <1>3, <1>4 DEF Tagged, Settled
<1>5. CASE AsDep(p) /\ ~AsExp(p)
  <2>1. p \notin exp /\ p \in deps
    BY <1>5 DEF Reasons, Tagged
  <2>2. reason[p] = "dep"
    BY <1>2, <2>1 DEF Reasons, MarkExplicit
  <2> QED
    BY <1>0, <1>1, <1>2, <1>3, <1>5, <2>1, <2>2 DEF Settled
<1>6. CASE ~AsDep(p) /\ ~AsExp(p)
  BY <1>0, <1>1, <1>2, <1>3, <1>6 DEF Reasons, Settled
<1> QED
  BY <1>4, <1>5, <1>6

\* The queue keeps its reasons until it is cleared.
LEMMA TaggedKept ==
  ASSUME [Next]_vars, GoingStep \/ UNCHANGED vars, ~MarkExplicit, NEW p, Tagged(p)
  PROVE  Tagged(p)'
<1>1. queue \subseteq queue' /\ deps \subseteq deps' /\ exp \subseteq exp'
  BY DEF GoingStep, RepoInstall, RepoReasons, Start, NextBase, NoMoreBases, CheckQueue, Build,
         AddToRepo, RecordAdded, QueuePackages, Enqueue, InstallQueue, SaveRecords, MarkDeps,
         ChrootInstall, vars, queueVars
<1> QED
  BY <1>1, ReasonFixed DEF Tagged

\* What was built stays queued with its reason, or settled.
LEMMA BuiltSettled ==
  ASSUME TypeOK, QueueInstalled, Progress, Reasons, [Next]_vars, GoingStep \/ UNCHANGED vars,
         NEW b \in built', NEW p \in WantedOf(b)
  PROVE  Tagged(p)' \/ Settled(p)'
<1>1. CASE b \in built
  <2>1. p \in Packages \ job.repo
    BY <1>1, WantedArePackages, WantedNotRepo DEF TypeOK
  <2>2. Tagged(p) \/ Settled(p)
    BY <1>1 DEF Reasons
  <2>3. CASE MarkExplicit
    BY <2>1, <2>2, <2>3, SettledByFlush, SettledKept
  <2>4. CASE ~MarkExplicit
    BY <2>1, <2>2, <2>4, TaggedKept, SettledKept
  <2> QED
    BY <2>3, <2>4
<1>2. CASE b \notin built
  <2>1. QueuePackages
    BY <1>2 DEF GoingStep, RepoInstall, RepoReasons, Start, NextBase, NoMoreBases, CheckQueue, Build,
                AddToRepo, RecordAdded, InstallQueue, SaveRecords, MarkDeps, MarkExplicit,
                ChrootInstall, vars, queueVars
  <2>2. b = Cur
    BY <1>2, <2>1 DEF QueuePackages, Enqueue
  <2>3. /\ p \in queue' /\ (AsDep(p) => p \in deps') /\ (AsExp(p) => p \in exp')
    BY <2>1, <2>2 DEF QueuePackages, Enqueue
  <2> QED
    BY <2>3, ReasonFixed DEF Tagged
<1> QED
  BY <1>1, <1>2

\* Each step that goes on keeps what is known of the reasons.
LEMMA ReasonsStep ==
  ASSUME TypeOK, QueueInstalled, Progress, Reasons, [Next]_vars, GoingStep \/ UNCHANGED vars
  PROVE  Reasons'
<1>1. JobTyped /\ job' = job /\ conf' = conf
  BY JobShape, PlanFixed DEF TypeOK
<1>2. \A p : AsExp(p)' = AsExp(p) /\ AsDep(p)' = AsDep(p)
  BY ReasonFixed
<1>3. /\ deps' \subseteq {p \in Packages : AsDep(p)'} /\ exp' \subseteq {p \in Packages : AsExp(p)'}
  <2>1. CASE QueuePackages
    <3>1. Cur \in Bases
      BY <2>1, CurrentBase DEF QueuePackages, TypeOK
    <3>2. WantedOf(Cur) \subseteq Packages
      BY <3>1, WantedArePackages
    <3> QED
      BY <1>2, <2>1, <3>2 DEF QueuePackages, Enqueue, Reasons
  <2>2. CASE ~QueuePackages
    <3>1. deps' \subseteq deps /\ exp' \subseteq exp
      BY <2>2 DEF GoingStep, RepoInstall, RepoReasons, Start, NextBase, NoMoreBases, CheckQueue, Build,
                  AddToRepo, RecordAdded, InstallQueue, SaveRecords, MarkDeps, MarkExplicit,
                  ChrootInstall, vars, queueVars
    <3> QED
      BY <1>2, <3>1 DEF Reasons
  <2> QED
    BY <2>1, <2>2
<1>4. \A p \in Packages : job'.installed[p] # "none" => installed'[p] # "none"
  <2> SUFFICES ASSUME NEW p \in Packages, installed[p] # "none" PROVE installed'[p] # "none"
    BY <1>1 DEF Reasons
  <2>1. installed'[p] \in {installed[p], "new"}
    BY DEF GoingStep, RepoInstall, RepoReasons, Start, NextBase, NoMoreBases, CheckQueue, Build,
           AddToRepo, RecordAdded, QueuePackages, InstallQueue, SaveRecords, MarkDeps, MarkExplicit,
           ChrootInstall, Sync, Install, vars, localDb, TypeOK
  <2> QED
    BY <2>1
<1>5. \A p \in Packages \ job'.repo : ~Synced' /\ ~AsExp(p)' /\ ~AsDep(p)' => reason'[p] = job'.reason[p]
  <2> SUFFICES ASSUME NEW p \in Packages \ job.repo, ~Synced, ~AsExp(p), ~AsDep(p)
               PROVE  reason'[p] = reason[p]
    BY <1>1, <1>2 DEF Reasons, Synced
  <2>1. Automatic /\ job.installed[p] # "none"
    BY <1>1 DEF AsExp, AsDep, Automatic, JobTyped
  <2>2. installed[p] # "none" /\ p \in Have /\ p \notin deps /\ p \notin exp
    BY <2>1 DEF Reasons, Have
  <2>3. CASE ChrootInstall
    <3>1. conf.chroot => p \notin Closure(SyncTargets)
      BY <2>2, NotSynced DEF Synced
    <3> QED
      BY <2>3, <3>1 DEF ChrootInstall, Sync, localDb, TypeOK
  <2>4. CASE ~ChrootInstall
    BY <2>2, <2>4 DEF GoingStep, RepoInstall, RepoReasons, RepoDeps, RepoExp, Start, NextBase, NoMoreBases, CheckQueue,
           Build, AddToRepo, RecordAdded, QueuePackages, InstallQueue, SaveRecords, MarkDeps,
           MarkExplicit, Install, SetReason, vars, localDb, TypeOK
  <2> QED
    BY <2>3, <2>4
<1>6. pc' = "asexp" => \A p \in deps' \cap Have' : reason'[p] = "dep"
  <2> SUFFICES ASSUME pc' = "asexp", NEW p \in deps' \cap Have' PROVE reason'[p] = "dep"
    OBVIOUS
  <2>1. CASE MarkDeps
    BY <2>1 DEF MarkDeps, SetReason, queueVars, Have, TypeOK
  <2>2. CASE UNCHANGED vars
    BY <2>2 DEF vars, queueVars, localDb, Have, Reasons
  <2>3. CASE ~MarkDeps /\ ~UNCHANGED vars
    BY <2>3 DEF GoingStep, RepoInstall, RepoReasons, Start, NextBase, NoMoreBases, CheckQueue, Build,
                AddToRepo, RecordAdded, QueuePackages, InstallQueue, SaveRecords, MarkExplicit,
                ChrootInstall, AfterSync
  <2> QED
    BY <2>1, <2>2, <2>3
<1>7. \A b \in built' : \A p \in WantedOf(b)' : Tagged(p)' \/ Settled(p)'
  BY BuiltSettled, WantedFixed
<1> QED
  BY <1>3, <1>4, <1>5, <1>6, <1>7 DEF Reasons

\* After the chroot builds `pacman -S` settles its targets.
LEMMA SyncSettles ==
  ASSUME TypeOK, Progress, Chroot, ReasonsHonoured, [Next]_vars, ChrootInstall,
         conf.chroot, conf.localRepo, NEW p \in SyncTargets \cap job.target
  PROVE  Settled(p)'
<1>1. JobTyped /\ installed = job.installed /\ reason = job.reason
  BY JobShape DEF TypeOK, Chroot, ChrootInstall, Flushing
<1>2. SyncTargets \subseteq Packages
  <2>1. \A k \in 1..Len(job.order) : job.pkgs[job.order[k]] \subseteq Packages
    BY <1>1 DEF JobTyped
  <2> QED
    BY <1>1, <2>1 DEF SyncTargets, JobTyped
<1>3. p \in Packages /\ p \in Closure(SyncTargets)
  BY <1>2 DEF Closure
<1>4. installed'[p] = "new" /\ reason'[p] = SyncReason(p)
  BY <1>3 DEF ChrootInstall, Sync
<1>5. conf.legacy \/ conf.reason = "auto"
  BY DEF ReasonsHonoured, TypeOK
<1>6. SyncReason(p) = Owed(p)
  BY <1>1, <1>5 DEF SyncReason, Owed, JobTyped
<1>7. Owed(p)' = Owed(p)
  BY ReasonFixed
<1> QED
  BY <1>4, <1>6, <1>7 DEF Settled

\* With a chroot the local database waits for the end.
LEMMA ChrootStep ==
  ASSUME TypeOK, Progress, Reasons, Chroot, ReasonsHonoured, [Next]_vars, GoingStep \/ UNCHANGED vars
  PROVE  Chroot'
<1> SUFFICES ASSUME conf.chroot PROVE Chroot'
  BY PlanFixed DEF Chroot
<1>1. job' = job /\ conf' = conf
  BY PlanFixed
<1>2. ASSUME ~Flushing', pc' # "cleanup" PROVE installed' = job'.installed /\ reason' = job'.reason
  <2>1. ~Flushing /\ pc # "cleanup" /\ installed' = installed /\ reason' = reason
    BY <1>2 DEF GoingStep, RepoInstall, RepoReasons, Start, NextBase, NoMoreBases, CheckQueue, Build,
           AddToRepo, RecordAdded, QueuePackages, InstallQueue, SaveRecords, MarkDeps, MarkExplicit,
           ChrootInstall, AfterSync, Flushing, Progress, vars, localDb
  <2> QED
    BY <1>1, <2>1 DEF Chroot
<1>3. ASSUME conf.localRepo, pc' = "cleanup", NEW p \in (SyncTargets \cap job.target)'
      PROVE  Settled(p)'
  <2>1. failed' = failed
    BY DEF GoingStep, RepoInstall, RepoReasons, Start, NextBase, NoMoreBases, CheckQueue, Build,
           AddToRepo, RecordAdded, QueuePackages, InstallQueue, SaveRecords, MarkDeps, MarkExplicit,
           ChrootInstall, vars
  <2>2. p \in SyncTargets \cap job.target
    BY <1>1, <2>1 DEF SyncTargets
  <2>3. CASE ChrootInstall
    BY <1>3, <2>2, <2>3, SyncSettles
  <2>4. CASE UNCHANGED vars
    <3>1. Settled(p)
      BY <1>3, <2>2, <2>4 DEF Chroot, vars
    <3> QED
      BY <2>4, <3>1 DEF Settled, Owed, vars, localDb
  <2>5. CASE ~ChrootInstall /\ ~UNCHANGED vars
    BY <1>3, <2>5 DEF GoingStep, RepoInstall, RepoReasons, Start, NextBase, NoMoreBases, CheckQueue,
           Build, AddToRepo, RecordAdded, QueuePackages, InstallQueue, SaveRecords, MarkDeps,
           MarkExplicit, Progress, Flushing
  <2> QED
    BY <2>3, <2>4, <2>5
<1> QED
  BY <1>1, <1>2, <1>3 DEF Chroot

\* A session that ends well ends in its clean up.
LEMMA OkAtTheEnd ==
  ASSUME [Next]_vars, result' = "ok", result # "ok"
  PROVE  /\ pc = "cleanup" /\ Going /\ (RemoveMakeDeps \/ CleanupFails) /\ reason' = reason
         /\ \A p \in Packages \ RemoveMake : TypeOK => installed'[p] = installed[p]
<1>1. RemoveMakeDeps \/ CleanupFails
  BY DEF Next, vars, Finish, FlushFails, RepoInstall, RepoReasons, PrepareFails, Start, StartFails,
         NextBase, NoMoreBases, CheckQueue, Build, DepsMissing, BuildFails, AddToRepo, AddFails,
         RecordAdded, RecordAddedFails, QueuePackages, QueueFails, InstallQueue, InstallFails,
         SaveRecords, MarkDeps, MarkExplicit, AfterInstallFails, ChrootInstall, ChrootInstallFails, Done
<1>2. pc = "cleanup" /\ Going
  BY <1>1 DEF RemoveMakeDeps, CleanupFails, Cleanup, Finish, Going
<1>3. reason' = reason /\ \A p \in Packages \ RemoveMake : TypeOK => installed'[p] = installed[p]
  BY <1>1 DEF RemoveMakeDeps, CleanupFails, localDb, TypeOK
<1> QED
  BY <1>1, <1>2, <1>3

\* Before the clean up everything that is due is settled.
LEMMA DueSettled ==
  ASSUME TypeOK, Going, Progress, Reasons, Chroot, pc = "cleanup", NEW p \in Due
  PROVE  p \in Packages /\ Settled(p)
<1>1. JobTyped /\ at = Len(job.order) /\ ~InBase
  BY JobShape DEF TypeOK, Progress, Ended, InBase, Flushing
<1>2. PICK k \in 1..Len(job.order) : p \in job.pkgs[job.order[k]]
  BY DEF Due
<1>3. p \in WantedOf(job.order[k]) /\ job.order[k] \in Bases /\ job.order[k] \in built
  BY <1>1, <1>2 DEF Due, WantedOf, JobTyped, Progress
<1>4. p \in Packages
  BY <1>1, <1>2, <1>3 DEF JobTyped
<1>5. CASE conf.chroot /\ conf.localRepo
  <2>1. p \in job.target /\ conf.installTargets /\ failed = {}
    BY <1>5 DEF Due, Wanted, WantedBy, Going
  <2>2. p \in SyncTargets
    BY <1>2, <1>5, <2>1 DEF SyncTargets
  <2> QED
    BY <1>4, <1>5, <2>1, <2>2 DEF Chroot
<1>6. CASE ~(conf.chroot /\ conf.localRepo)
  <2>1. queue = {}
    BY <1>6 DEF Progress
  <2> QED
    BY <1>3, <1>4, <2>1, WantedNotRepo DEF Reasons, Tagged
<1> QED
  BY <1>5, <1>6

\* The step that ends a session well leaves what is due settled.
LEMMA OkMeansInstalledStep ==
  ASSUME TypeOK, Going => Progress /\ Reasons /\ Chroot, OkMeansInstalled, [Next]_vars,
         result = "ok" => pc = "done"
  PROVE  OkMeansInstalled'
<1> SUFFICES ASSUME result' = "ok", NEW p \in (Due \ RemoveMake)'
             PROVE  /\ installed'[p] = "new"
                    /\ reason'[p] = Owed(p)'
  BY DEF OkMeansInstalled
<1>1. job' = job /\ conf' = conf
  BY PlanFixed
<1>2. p \in Due \ RemoveMake
  BY <1>1 DEF Due, Wanted, RemoveMake
<1>3. Owed(p)' = Owed(p)
  BY ReasonFixed
<1>4. CASE result = "ok"
  <2>1. pc = "done"
    BY <1>4
  <2>2. UNCHANGED vars
    BY <2>1 DEF Next, Done, RepoInstall, RepoReasons, PrepareFails, Start, StartFails,
         NextBase, NoMoreBases, CheckQueue, Build, DepsMissing, BuildFails, AddToRepo, AddFails,
         RecordAdded, RecordAddedFails, QueuePackages, QueueFails, InstallQueue, InstallFails,
         SaveRecords, MarkDeps, MarkExplicit, AfterInstallFails, ChrootInstall, ChrootInstallFails,
         RemoveMakeDeps, CleanupFails
  <2> QED
    BY <1>1, <1>2, <1>3, <1>4, <2>2 DEF OkMeansInstalled, vars, localDb
<1>5. CASE result # "ok"
  <2>1. pc = "cleanup" /\ Going /\ reason' = reason
    BY <1>5, OkAtTheEnd
  <2>2. p \in Packages /\ Settled(p)
    BY <1>2, <2>1, DueSettled
  <2>3. installed'[p] = installed[p]
    BY <1>2, <1>5, <2>2, OkAtTheEnd
  <2> QED
    BY <1>1, <1>3, <2>1, <2>2, <2>3 DEF Settled
<1> QED
  BY <1>4, <1>5

\* A success is the end of the session.
OkLast == result = "ok" => pc = "done"

\* Nothing follows a success.
LEMMA OkIsDone == OkLast /\ [Next]_vars => OkLast'
<1> SUFFICES ASSUME result = "ok" => pc = "done", [Next]_vars, result' = "ok" PROVE pc' = "done"
  BY DEF OkLast
<1>1. CASE result = "ok"
  <2>1. UNCHANGED vars
    BY <1>1 DEF Next, Done, RepoInstall, RepoReasons, PrepareFails, Start, StartFails,
         NextBase, NoMoreBases, CheckQueue, Build, DepsMissing, BuildFails, AddToRepo, AddFails,
         RecordAdded, RecordAddedFails, QueuePackages, QueueFails, InstallQueue, InstallFails,
         SaveRecords, MarkDeps, MarkExplicit, AfterInstallFails, ChrootInstall, ChrootInstallFails,
         RemoveMakeDeps, CleanupFails
  <2> QED
    BY <1>1, <2>1 DEF vars
<1>2. CASE result # "ok"
  BY <1>2, OkAtTheEnd DEF RemoveMakeDeps, CleanupFails, Cleanup, Finish
<1> QED
  BY <1>1, <1>2

\* What holds as long as nothing has gone wrong.
GoingInv == Going => Progress /\ Reasons

\* It holds at first.
LEMMA GoingInit == Init => GoingInv /\ Chroot /\ OkLast
<1> SUFFICES ASSUME Init PROVE GoingInv /\ Chroot /\ OkLast
  OBVIOUS
<1>1. JobTyped
  BY JobShape DEF Init
<1> QED
  BY <1>1 DEF Init, OkLast, GoingInv, Progress, Reasons, Chroot, Flushing, InBase, Ended, Have, JobTyped

\* Each step keeps it.
LEMMA GoingInvStep == TypeOK /\ QueueInstalled /\ GoingInv /\ [Next]_vars => GoingInv'
<1> SUFFICES ASSUME TypeOK, QueueInstalled, GoingInv, [Next]_vars, Going' PROVE Progress' /\ Reasons'
  BY DEF GoingInv
<1>1. Going /\ (GoingStep \/ UNCHANGED vars)
  BY GoingSteps
<1>2. Progress /\ Reasons
  BY <1>1 DEF GoingInv
<1> QED
  BY <1>1, <1>2, ProgressStep, ReasonsStep

\* Each step keeps what is known of a session with a chroot.
LEMMA GoingChrootStep ==
  ASSUME ReasonsHonoured
  PROVE  TypeOK /\ GoingInv /\ (Going => Chroot) /\ [Next]_vars => (Going => Chroot)'
<1> SUFFICES ASSUME TypeOK, GoingInv, Going => Chroot, [Next]_vars, Going' PROVE Chroot'
  OBVIOUS
<1>1. Going /\ (GoingStep \/ UNCHANGED vars)
  BY GoingSteps
<1>2. Progress /\ Reasons /\ Chroot
  BY <1>1 DEF GoingInv
<1> QED
  BY <1>1, <1>2, ChrootStep

\* A session that succeeds has installed what is due in its new version and with the reason
\* asked for, however the queue was flushed on the way (dep_or_exp, do_install, chroot_install).
THEOREM OkMeansInstalledHolds ==
  ASSUME ReasonsHonoured
  PROVE  Spec => []OkMeansInstalled
<1>1. Init => QueueInstalled /\ GoingInv /\ (Going => Chroot) /\ OkLast
              /\ OkMeansInstalled
  BY GoingInit DEF Init, QueueInstalled, OkMeansInstalled
<1>2. TypeOK /\ QueueInstalled /\ GoingInv /\ (Going => Chroot) /\ OkLast
      /\ OkMeansInstalled /\ [Next]_vars => OkMeansInstalled'
  BY OkMeansInstalledStep DEF GoingInv, OkLast
<1>3. TypeOK /\ GoingInv /\ (Going => Chroot) /\ [Next]_vars => (Going => Chroot)'
  BY GoingChrootStep
<1> QED
  BY <1>1, <1>2, <1>3, TypeCorrect, QueueInstalledStep, GoingInvStep, OkIsDone, PTL DEF Spec

-----------------------------------------------------------------------------
(* The records and the make dependencies after a success *)

\* The current base is in the list once, and no step but its own touches its commit.
LEMMA OthersKept ==
  ASSUME TypeOK, OrdersDistinct, Record, at > 0, NEW k \in 1..Len(job.order)
  PROVE  /\ k # at => /\ info'[job.order[k]] = info[job.order[k]]
                      /\ job.order[k] \in newInfo' <=> job.order[k] \in newInfo
         /\ k = at /\ job.order[k] \in newInfo => info'[job.order[k]] = "new"
<1>1. JobTyped /\ at \in 1..Len(job.order)
  BY JobShape DEF TypeOK, JobTyped
<1>2. job.order[k] \in Bases /\ Cur = job.order[at] /\ (k # at => job.order[k] # Cur)
  BY <1>1 DEF JobTyped, Cur, OrdersDistinct, TypeOK
<1> QED
  BY <1>2 DEF Record, TypeOK

\* Each step that goes on carries the commits of the bases one stage further, or leaves them.
LEMMA RecordsStep ==
  ASSUME TypeOK, OrdersDistinct, LookupsFail = FALSE, Progress, RecordsSound, Records, [Next]_vars,
         GoingStep \/ UNCHANGED vars
  PROVE  Records'
<1>1. JobTyped /\ job' = job /\ conf' = conf /\ Len(job.order) \in Nat /\ at \in Nat
  BY JobShape, PlanFixed DEF TypeOK, JobTyped
<1>2. \A k : WantedOf(job.order[k])' = WantedOf(job.order[k])
  BY <1>1, WantedFixed
<1> SUFFICES ASSUME conf.devel, pc' \notin {"repo", "reasons", "start"}
             PROVE  /\ \A k \in 1..Len(job.order) : RecordOf(k)'
                    /\ pc' \in {"asdeps", "asexp"} => disk' = info'
  BY <1>1 DEF Records
<1>3. CASE RepoInstall \/ RepoReasons
  BY <1>3 DEF RepoInstall, RepoReasons
<1>4. CASE Start
  <2>1. at = 0
    BY <1>4 DEF Start, Progress
  <2>2. job.order # <<>> => newInfo' = {job.order[l] : l \in 1..Len(job.order)} \cap job.devel
    BY <1>4 DEF Start, LoadRecords
  <2>3. \A k \in 1..Len(job.order) : job.order # <<>> /\ k > at
    BY <1>1, <2>1 DEF JobTyped
  <2>4. at' = at /\ pc' \in {"tail", "next"}
    BY <1>4 DEF Start
  <2> QED
    BY <1>1, <2>1, <2>2, <2>3, <2>4 DEF RecordOf
<1>5. CASE NextBase
  <2>1. pc = "next" /\ pc' = "check" /\ at' = at + 1 /\ disk' = disk /\ info' = info
        /\ newInfo' = newInfo /\ queue' = queue
    BY <1>5 DEF NextBase, infoVars, queueVars
  <2> SUFFICES ASSUME NEW k \in 1..Len(job.order) PROVE RecordOf(k)'
    BY <2>1
  <2>2. RecordOf(k)
    BY <2>1 DEF Records
  <2>3. ~InBase /\ Recorded /\ Saved /\ InBase' /\ ~Recorded' /\ ~Saved'
    BY <2>1 DEF Recorded, Saved, InBase, Flushing
  <2>4. /\ k > at' \/ (k = at' /\ ~Recorded') => k > at
        /\ k < at' \/ (k = at' /\ (Recorded' \/ Saved' \/ ~InBase')) => k < at \/ k = at
    BY <1>1, <2>1, <2>3
  <2> QED
    BY <1>1, <1>2, <2>1, <2>2, <2>3, <2>4 DEF RecordOf
<1>6. CASE NoMoreBases
  BY <1>1, <1>2, <1>6 DEF NoMoreBases, Records, RecordOf, Recorded, Saved, InBase, Flushing, infoVars, queueVars
<1>7. CASE CheckQueue
  BY <1>1, <1>2, <1>7 DEF CheckQueue, Records, RecordOf, Recorded, Saved, InBase, Flushing, infoVars
<1>8. CASE Build
  BY <1>1, <1>2, <1>8 DEF Build, Records, RecordOf, Recorded, Saved, InBase, Flushing, infoVars, queueVars
<1>9. CASE AddToRepo
  <2>1. at > 0 /\ Record /\ pc = "add" /\ pc' = "record" /\ conf.localRepo
    BY <1>9 DEF AddToRepo, TypeOK, RecordsSound
  <2> SUFFICES ASSUME NEW k \in 1..Len(job.order) PROVE RecordOf(k)'
    BY <2>1
  <2>2. RecordOf(k) /\ disk' = disk /\ at' = at
    BY <1>9 DEF Records, AddToRepo
  <2>3. ~Recorded /\ Recorded' /\ ~Saved /\ ~Saved'
    BY <2>1 DEF Recorded, Saved, InBase, Flushing
  <2> QED
    BY <1>1, <2>1, <2>2, <2>3, OthersKept DEF RecordOf
<1>10. CASE RecordAdded
  <2>1. at > 0 /\ pc = "record" /\ pc' = "queue" /\ conf.localRepo /\ disk' = info /\ info' = info
        /\ newInfo' = newInfo /\ at' = at
    BY <1>10 DEF RecordAdded, TypeOK, RecordsSound, infoVars
  <2> SUFFICES ASSUME NEW k \in 1..Len(job.order) PROVE RecordOf(k)'
    BY <2>1
  <2>2. RecordOf(k)
    BY <1>10 DEF Records, RecordAdded
  <2>3. Recorded /\ Recorded'
    BY <1>1, <2>1 DEF Recorded
  <2> QED
    BY <1>1, <2>1, <2>2, <2>3 DEF RecordOf
<1>11. CASE QueuePackages
  <2>1. at > 0 /\ pc = "queue" /\ pc' = "next" /\ disk' = disk /\ at' = at /\ queue \subseteq queue'
        /\ WantedOf(Cur) \subseteq queue'
    BY <1>11 DEF QueuePackages, Enqueue, TypeOK
  <2> SUFFICES ASSUME NEW k \in 1..Len(job.order) PROVE RecordOf(k)'
    BY <2>1
  <2>2. RecordOf(k)
    BY <1>11 DEF Records, QueuePackages
  <2>3. (Recorded <=> conf.localRepo) /\ Saved /\ Recorded' /\ Saved' /\ InBase /\ ~InBase'
    BY <1>1, <2>1 DEF Recorded, Saved, InBase, Flushing
  <2>4. CASE conf.localRepo
    BY <1>1, <1>11, <2>1, <2>2, <2>3, <2>4 DEF QueuePackages, RecordOf, infoVars
  <2>5. CASE ~conf.localRepo
    <3>1. Record
      BY <1>11, <2>5 DEF QueuePackages
    <3>2. /\ k < at \/ k = at => info'[job.order[k]] = "new" \/ job.order[k] \notin job.devel
          /\ k > at => job.order[k] \in newInfo' \/ job.order[k] \notin job.devel
      BY <1>1, <2>1, <2>2, <2>3, <2>5, <3>1, OthersKept DEF RecordOf
    <3>3. WantedOf(job.order[k]) \cap queue \subseteq WantedOf(job.order[k]) \cap queue'
          /\ (k = at => WantedOf(job.order[k]) \subseteq queue')
      BY <2>1 DEF Cur
    <3> QED
      BY <1>1, <1>2, <2>1, <2>2, <2>3, <2>5, <3>2, <3>3 DEF RecordOf
  <2> QED
    BY <2>4, <2>5
<1>12. CASE InstallQueue \/ MarkDeps
  <2>1. pc = "asdeps" \/ pc' # "asexp"
    BY <1>12 DEF InstallQueue, MarkDeps
  <2> QED
    BY <1>1, <1>2, <1>12 DEF InstallQueue, MarkDeps, Records, RecordOf, Recorded, Saved, InBase, Flushing,
        infoVars, queueVars
<1>13. CASE SaveRecords
  <2>1. pc = "save" /\ pc' = "asdeps" /\ disk' = info /\ info' = info /\ newInfo' = newInfo /\ at' = at
        /\ back' = back
    BY <1>13 DEF SaveRecords, infoVars
  <2> SUFFICES ASSUME NEW k \in 1..Len(job.order) PROVE RecordOf(k)'
    BY <2>1
  <2>2. RecordOf(k)
    BY <2>1 DEF Records
  <2>3. InBase' = InBase /\ (Recorded' <=> ~InBase) /\ (Recorded <=> ~InBase) /\ (Saved' <=> ~InBase)
    BY <1>1, <2>1 DEF Recorded, Saved, InBase, Flushing
  <2> QED
    BY <1>1, <2>1, <2>2, <2>3 DEF RecordOf
<1>14. CASE MarkExplicit
  <2>1. pc = "asexp" /\ pc' \in {"build", "tail", "cleanup"} /\ disk' = disk /\ disk = info /\ info' = info
        /\ newInfo' = newInfo /\ at' = at /\ (pc' = "build" <=> back = "build")
    BY <1>14 DEF MarkExplicit, infoVars, Records
  <2> SUFFICES ASSUME NEW k \in 1..Len(job.order) PROVE RecordOf(k)'
    BY <2>1
  <2>2. RecordOf(k)
    BY <2>1 DEF Records
  <2>3. (InBase' <=> InBase) /\ (Recorded' <=> ~InBase) /\ (Recorded <=> ~InBase) /\ (Saved' <=> ~InBase)
    BY <1>1, <2>1 DEF Recorded, Saved, InBase, Flushing
  <2> QED
    BY <1>1, <2>1, <2>2, <2>3 DEF RecordOf
<1>15. CASE ChrootInstall
  BY <1>1, <1>2, <1>15 DEF ChrootInstall, AfterSync, Records, RecordOf, Recorded, Saved, InBase, Flushing,
      infoVars, queueVars
<1>16. CASE UNCHANGED vars
  BY <1>1, <1>2, <1>16 DEF vars, Records, RecordOf, Recorded, Saved, InBase, Flushing, infoVars, queueVars
<1> QED
  BY <1>3, <1>4, <1>5, <1>6, <1>7, <1>8, <1>9, <1>10, <1>11, <1>12, <1>13, <1>14, <1>15, <1>16 DEF GoingStep

\* The step that ends a session well finds the commits on disk.
LEMMA OkMeansRecordedStep ==
  ASSUME TypeOK, Going => Progress /\ Records, OkMeansRecorded, OkLast, [Next]_vars
  PROVE  OkMeansRecorded'
<1> SUFFICES ASSUME result' = "ok", conf'.devel, NEW k \in 1..Len(job'.order),
                    job'.order[k] \in job'.devel,
                    conf'.localRepo \/ WantedOf(job.order[k])' # {}
             PROVE  disk'[job'.order[k]] = "new"
  BY PlanFixed DEF OkMeansRecorded
<1>1. job' = job /\ conf' = conf /\ WantedOf(job.order[k])' = WantedOf(job.order[k])
  BY PlanFixed, WantedFixed
<1>2. CASE result = "ok"
  <2>1. disk' = disk
    BY <1>2 DEF OkLast, Next, Done, vars, RepoInstall, RepoReasons, PrepareFails, Start, StartFails,
         NextBase, NoMoreBases, CheckQueue, Build, DepsMissing, BuildFails, AddToRepo, AddFails,
         RecordAdded, RecordAddedFails, QueuePackages, QueueFails, InstallQueue, InstallFails,
         SaveRecords, MarkDeps, MarkExplicit, AfterInstallFails, ChrootInstall, ChrootInstallFails,
         RemoveMakeDeps, CleanupFails
  <2> QED
    BY <1>1, <1>2, <2>1 DEF OkMeansRecorded
<1>3. CASE result # "ok"
  <2>1. pc = "cleanup" /\ Going /\ disk' = disk
    BY <1>3, OkAtTheEnd DEF RemoveMakeDeps, CleanupFails
  <2>2. at = Len(job.order) /\ ~InBase /\ Saved
        /\ (conf.localRepo \/ queue = {})
    BY <2>1 DEF Progress, Ended, InBase, Flushing, Saved
  <2>3. RecordOf(k) /\ Len(job.order) \in Nat
    BY <1>1, <2>1, JobShape DEF Records, TypeOK, JobTyped
  <2> QED
    BY <1>1, <2>1, <2>2, <2>3 DEF RecordOf
<1> QED
  BY <1>2, <1>3

\* After a success the commits that were looked up are on disk for every devel base of which
\* something was installed or added, unless the lookup itself failed (build_install_pkgbuilds,
\* add_pkg, do_install).
THEOREM OkMeansRecordedHolds ==
  ASSUME OrdersDistinct, LookupsFail = FALSE
  PROVE  Spec => []OkMeansRecorded
<1>1. Init => QueueInstalled /\ RecordsSound /\ GoingInv /\ (Going => Records) /\ OkLast /\ OkMeansRecorded
  BY GoingInit, JobShape
  DEF Init, QueueInstalled, RecordsSound, JobTyped, Records, OkMeansRecorded
<1>2. TypeOK /\ GoingInv /\ RecordsSound /\ (Going => Records) /\ [Next]_vars => (Going => Records)'
  <2> SUFFICES ASSUME TypeOK, GoingInv, RecordsSound, Going => Records, [Next]_vars, Going'
               PROVE  Records'
    OBVIOUS
  <2>1. Going /\ (GoingStep \/ UNCHANGED vars)
    BY GoingSteps
  <2>2. Progress /\ Records
    BY <2>1 DEF GoingInv
  <2> QED
    BY <2>1, <2>2, RecordsStep
<1>3. TypeOK /\ GoingInv /\ (Going => Records) /\ OkLast /\ OkMeansRecorded /\ [Next]_vars
      => OkMeansRecorded'
  BY OkMeansRecordedStep DEF GoingInv
<1> QED
  BY <1>1, <1>2, <1>3, TypeCorrect, QueueInstalledStep, RecordsSoundStep, GoingInvStep, OkIsDone, PTL
  DEF Spec

\* The packages of the repositories are installed first and stay.
LEMMA HaveGrows ==
  ASSUME TypeOK, Reasons, [Next]_vars, GoingStep \/ UNCHANGED vars
  PROVE  Have \subseteq Have'
  BY DEF GoingStep, RepoInstall, RepoReasons, Start, NextBase, NoMoreBases, CheckQueue, Build,
         AddToRepo, RecordAdded, QueuePackages, InstallQueue, SaveRecords, MarkDeps, MarkExplicit,
         ChrootInstall, Sync, Install, vars, localDb, Have, TypeOK

\* Each step that goes on keeps the packages of the repositories.
LEMMA RepoHereStep ==
  ASSUME TypeOK, Reasons, RepoHere, [Next]_vars, GoingStep \/ UNCHANGED vars
  PROVE  RepoHere'
<1>1. job' = job /\ conf' = conf /\ Have \subseteq Have'
  BY PlanFixed, HaveGrows
<1>2. CASE RepoInstall
  BY <1>1, <1>2, JobShape DEF RepoInstall, Install, RepoHere, Have, TypeOK, JobTyped
<1>3. CASE ~RepoInstall
  <2>1. pc' # "repo" => pc # "repo"
    BY <1>3 DEF GoingStep, RepoReasons, Start, NextBase, NoMoreBases, CheckQueue, Build, AddToRepo,
           RecordAdded, QueuePackages, InstallQueue, SaveRecords, MarkDeps, MarkExplicit, ChrootInstall, vars
  <2> QED
    BY <1>1, <2>1 DEF RepoHere
<1> QED
  BY <1>2, <1>3

\* So does each step after which nothing has gone wrong.
LEMMA GoingRepoStep ==
  TypeOK /\ GoingInv /\ (Going => RepoHere) /\ [Next]_vars => (Going => RepoHere)'
<1> SUFFICES ASSUME TypeOK, GoingInv, Going => RepoHere, [Next]_vars, Going' PROVE RepoHere'
  OBVIOUS
<1>1. Going /\ (GoingStep \/ UNCHANGED vars)
  BY GoingSteps
<1>2. Reasons /\ RepoHere
  BY <1>1 DEF GoingInv
<1> QED
  BY <1>1, <1>2, RepoHereStep

\* Without failures the clean up can remove what it has to.
LEMMA CleanupWorks ==
  ASSUME TypeOK, MakeSound, Going, Progress, Reasons, Chroot, RepoHere, pc = "cleanup",
         conf.removeMake, ~conf.chroot, job.order # <<>>,
         NEW m \in job.make, job.installed[m] = "none"
  PROVE  /\ RemoveMake = job.make /\ RemoveMake \subseteq Have
         /\ \A p \in Have \ RemoveMake : job.depends[p] \cap RemoveMake = {}
<1>1. /\ \A p \in job.make :
           \/ p \in job.repo \/ job.installed[p] # "none"
           \/ /\ p \in UNION {job.pkgs[job.order[k]] : k \in 1..Len(job.order)}
              /\ p \in job.target => conf.installTargets
      /\ job.make \subseteq Packages
      /\ \A p \in Packages \ job.make : job.depends[p] \cap job.make = {}
  BY DEF MakeSound, TypeOK
<1>2. RemoveMake = job.make
  BY DEF RemoveMake
<1>3. ASSUME NEW p \in job.make PROVE p \in Have
  <2>1. p \in Packages /\ (job.installed[p] # "none" => installed[p] # "none")
    BY <1>1, <1>3 DEF Reasons
  <2>2. CASE p \in job.repo \/ job.installed[p] # "none"
    BY <2>1, <2>2 DEF RepoHere, Have
  <2>3. CASE p \notin job.repo /\ job.installed[p] = "none"
    <3>1. p \in UNION {job.pkgs[job.order[k]] : k \in 1..Len(job.order)}
          /\ (p \in job.target => conf.installTargets)
      BY <1>1, <1>3, <2>3
    <3>2. Wanted(p)
      BY <2>3, <3>1 DEF Wanted, WantedBy
    <3>3. p \in Due
      BY <3>1, <3>2 DEF Due
    <3>4. installed[p] = "new"
      BY <3>3, DueSettled DEF Settled
    <3> QED
      BY <2>1, <3>4 DEF Have
  <2> QED
    BY <2>2, <2>3
<1> QED
  BY <1>1, <1>2, <1>3 DEF Have

\* The step that ends a session well without failures removes the make dependencies.
LEMMA MakeDepsGoneStep ==
  ASSUME TypeOK, MakeSound, Going => Progress /\ Reasons /\ Chroot /\ RepoHere, OkLast,
         MakeDepsGone, [Next]_vars
  PROVE  MakeDepsGone'
<1> SUFFICES ASSUME result' = "ok", faults' = 0, conf.removeMake, ~conf.chroot, job.order # <<>>,
                    NEW m \in job.make \cap Have', job.installed[m] = "none"
             PROVE  FALSE
  BY PlanFixed DEF MakeDepsGone
<1>1. CASE result = "ok"
  <2>1. UNCHANGED vars
    BY <1>1 DEF OkLast, Next, Done, RepoInstall, RepoReasons, PrepareFails, Start, StartFails,
         NextBase, NoMoreBases, CheckQueue, Build, DepsMissing, BuildFails, AddToRepo, AddFails,
         RecordAdded, RecordAddedFails, QueuePackages, QueueFails, InstallQueue, InstallFails,
         SaveRecords, MarkDeps, MarkExplicit, AfterInstallFails, ChrootInstall, ChrootInstallFails,
         RemoveMakeDeps, CleanupFails
  <2> QED
    BY <1>1, <2>1 DEF MakeDepsGone, vars, localDb, Have
<1>2. CASE result # "ok"
  <2>1. pc = "cleanup" /\ Going /\ (RemoveMakeDeps \/ CleanupFails)
    BY <1>2, OkAtTheEnd
  <2>2. /\ RemoveMake = job.make /\ RemoveMake \subseteq Have
        /\ \A p \in Have \ RemoveMake : job.depends[p] \cap RemoveMake = {}
    BY <2>1, CleanupWorks
  <2>3. CASE CleanupFails
    <3>1. faults' = faults + 1
      BY <2>2, <2>3 DEF CleanupFails, Fault
    <3>2. faults \in Nat
      BY InstallerAssumption DEF TypeOK
    <3> QED
      BY <3>1, <3>2
  <2>4. CASE RemoveMakeDeps
    BY <2>2, <2>4 DEF RemoveMakeDeps, Have
  <2> QED
    BY <2>1, <2>3, <2>4
<1> QED
  BY <1>1, <1>2

\* A session that succeeds without a failure on the way leaves none of the make dependencies that
\* it brought in and was asked to remove (prepare_build, build_cleanup).
THEOREM MakeDepsGoneHolds ==
  ASSUME MakeSound, ReasonsHonoured
  PROVE  Spec => []MakeDepsGone
<1>1. Init => QueueInstalled /\ GoingInv /\ (Going => Chroot) /\ (Going => RepoHere) /\ OkLast
              /\ MakeDepsGone
  BY GoingInit DEF Init, QueueInstalled, RepoHere, MakeDepsGone
<1>2. TypeOK /\ GoingInv /\ (Going => RepoHere) /\ [Next]_vars => (Going => RepoHere)'
  BY GoingRepoStep
<1>3. TypeOK /\ GoingInv /\ (Going => Chroot) /\ (Going => RepoHere) /\ OkLast /\ MakeDepsGone
      /\ [Next]_vars => MakeDepsGone'
  BY MakeDepsGoneStep DEF GoingInv
<1>4. TypeOK /\ GoingInv /\ (Going => Chroot) /\ [Next]_vars => (Going => Chroot)'
  BY GoingChrootStep
<1> QED
  BY <1>1, <1>2, <1>3, <1>4, TypeCorrect, QueueInstalledStep, GoingInvStep, OkIsDone, PTL DEF Spec

-----------------------------------------------------------------------------
(* A session in which no command fails *)

\* The bases that were handled, and those of which the local repository has the packages.
Handled == {k \in 1..at : k < at \/ ~InBase}
Added == {k \in 1..at : conf.localRepo /\ (k < at \/ Recorded)}

\* What is queued has its file and was built, and the flags and the databases follow what was
\* handled.
Stocked ==
  /\ job.files \subseteq files
  /\ synced = job.synced \cup inRepo
  /\ inRepo = UNION {job.pkgs[job.order[k]] : k \in Added}
  /\ queue \subseteq files
  /\ queue \subseteq UNION {WantedOf(job.order[k]) : k \in Handled}
  /\ pc \in {"add", "record", "queue"} =>
       (IF conf.localRepo \/ conf.chroot THEN job.pkgs[Cur] ELSE WantedOf(Cur)) \subseteq files
  /\ pc = "build" /\ ~conf.chroot => queue = {} \/ Needs(Cur) \subseteq Have
  /\ conf.chroot => \A b \in built : WantedOf(b) \cap job.conflicts # {} => conflict
  /\ conf.chroot /\ ~conf.localRepo => \A b \in built : job.pkgs[b] \subseteq files

\* Nothing goes wrong.
Smooth == SkipsHarmless /\ faults = 0 => result # "failed" /\ (pc # "done" => Going /\ Stocked)
\* The plan again, in terms of the session.
Old == {p \in Packages : job.installed[p] # "none"}
Made(k) == UNION {job.pkgs[job.order[l]] : l \in 1..k}
Got(k) == {p \in Made(k) : Wanted(p)}

\* What PlansSound says of the plan of this session.
LEMMA PlanIsSound ==
  ASSUME TypeOK, PlansSound
  PROVE  /\ \A k \in 1..Len(job.order) : LET b == job.order[k] IN
              /\ ~conf.chroot => Needs(b) \subseteq Old \cup job.repo \cup Got(k - 1) \cup job.pkgs[b]
              /\ conf.chroot /\ conf.localRepo => Needs(b) \subseteq job.synced \cup Made(k)
              /\ \A p \in WantedOf(b) : job.depends[p] \subseteq Old \cup job.repo \cup Got(k)
              /\ ~job.build[b] => job.pkgs[b] \subseteq job.files
              /\ conf.localRepo /\ conf.needed /\ job.pkgs[b] \subseteq job.synced =>
                   job.pkgs[b] \subseteq job.files
         /\ job.repo \subseteq job.synced
         /\ \A p \in job.synced : job.depends[p] \subseteq job.synced \cup Old
         /\ conf.chroot /\ conf.legacy =>
              \A p \in job.conflicts \cap job.target :
                p \notin job.repo /\ (conf.installTargets => Wanted(p))
<1>1. job \in Jobs /\ conf \in Confs
  BY DEF TypeOK
<1> QED
  BY <1>1 DEF PlansSound, Old, Made, Got, Needs, Wanted, WantedOf

\* Bases and packages of the plan.
LEMMA PlanTyped ==
  ASSUME TypeOK
  PROVE  /\ Len(job.order) \in Nat /\ at \in Nat
         /\ \A k \in 1..Len(job.order) :
              /\ job.order[k] \in Bases /\ job.pkgs[job.order[k]] \subseteq Packages
              /\ WantedOf(job.order[k]) \subseteq Packages
         /\ job.repo \subseteq Packages /\ job.synced \subseteq Packages
         /\ \A p \in Packages : job.depends[p] \subseteq Packages
<1>1. JobTyped
  BY JobShape DEF TypeOK
<1>2. \A p \in Packages : job.depends[p] \subseteq Packages
  BY InstallerAssumption DEF TypeOK, Job
<1> QED
  BY <1>1, <1>2 DEF JobTyped, TypeOK, WantedOf

\* What was wanted of a base that was handled is queued or installed.
LEMMA HandledThere ==
  ASSUME TypeOK, Progress, Reasons, NEW k \in Handled, NEW p \in WantedOf(job.order[k])
  PROVE  p \in queue \cup Have
<1>1. k \in 1..Len(job.order) /\ job.order[k] \in built
  BY PlanTyped DEF Handled, Progress, TypeOK
<1>2. p \in Packages
  BY <1>1, PlanTyped
<1> QED
  BY <1>1, <1>2 DEF Reasons, Tagged, Settled, Have

\* No base misses what it needs: the queue is flushed before a base that needs what is in it.
LEMMA NeedsMet ==
  ASSUME TypeOK, PlansSound, Progress, Reasons, RepoHere, Stocked, pc = "build"
  PROVE  Missing = {}
<1>1. /\ at \in 1..Len(job.order) /\ Cur = job.order[at] /\ InBase
      /\ \A l \in 1..(at - 1) : l \in Handled
  BY PlanTyped DEF TypeOK, Cur, Handled, InBase
<1>2. CASE ~conf.chroot
  <2>1. Old \subseteq Have /\ job.repo \subseteq Have
    BY <1>2 DEF Old, Have, Reasons, RepoHere
  <2>2. Got(at - 1) \subseteq queue \cup Have
    <3> SUFFICES ASSUME NEW p \in Got(at - 1) PROVE p \in queue \cup Have
      OBVIOUS
    <3>1. PICK l \in 1..(at - 1) : p \in job.pkgs[job.order[l]] /\ Wanted(p)
      BY DEF Got, Made
    <3> QED
      BY <1>1, <3>1, HandledThere DEF WantedOf
  <2>3. queue = {} \/ Needs(Cur) \subseteq Have
    BY <1>2 DEF Stocked
  <2>4. Needs(Cur) \subseteq Old \cup job.repo \cup Got(at - 1) \cup job.pkgs[Cur]
    BY <1>1, <1>2, PlanIsSound
  <2> QED
    BY <1>2, <2>1, <2>2, <2>3, <2>4 DEF Missing
<1>3. CASE conf.chroot /\ conf.localRepo
  <2>1. Needs(Cur) \subseteq job.synced \cup Made(at)
    BY <1>1, <1>3, PlanIsSound
  <2>2. Made(at) \subseteq synced \cup job.pkgs[Cur]
    <3> SUFFICES ASSUME NEW p \in Made(at) PROVE p \in synced \cup job.pkgs[Cur]
      OBVIOUS
    <3>1. PICK l \in 1..at : p \in job.pkgs[job.order[l]]
      BY DEF Made
    <3>2. l = at \/ l \in Added
      BY <1>1, <1>3 DEF Added
    <3> QED
      BY <1>1, <3>1, <3>2 DEF Stocked
  <2>3. job.synced \subseteq synced
    BY DEF Stocked
  <2> QED
    BY <1>3, <2>1, <2>2, <2>3 DEF Missing
<1>4. CASE conf.chroot /\ ~conf.localRepo
  BY <1>4 DEF Missing
<1> QED
  BY <1>2, <1>3, <1>4

\* A closure is in each set that has its seed and what the packages of the set miss.
LEMMA ClosureLeast ==
  ASSUME NEW ps, NEW S \in SUBSET Packages, ps \subseteq S,
         \A p \in S : job.depends[p] \ Have \subseteq S
  PROVE  Closure(ps) \subseteq S
  BY DEF Closure

\* No transaction is refused because of what is queued.
LEMMA QueueInstallable ==
  ASSUME TypeOK, PlansSound, Progress, Reasons, Stocked, ConflictsFlagged
  PROVE  queue \subseteq files /\ Installable(queue)
<1> DEFINE S == queue \cup job.synced
<1>1. Old \subseteq Have /\ job.repo \subseteq job.synced /\ job.synced \subseteq synced
  BY PlanIsSound DEF Old, Have, Reasons, Stocked
<1>2. ASSUME NEW p \in queue PROVE job.depends[p] \ Have \subseteq S
  <2>1. PICK k \in Handled : p \in WantedOf(job.order[k])
    BY DEF Stocked
  <2>2. k \in 1..Len(job.order) /\ \A l \in 1..k : l \in Handled
    BY PlanTyped DEF Handled, TypeOK
  <2>3. job.depends[p] \subseteq Old \cup job.repo \cup Got(k)
    BY <2>1, <2>2, PlanIsSound
  <2>4. ASSUME NEW d \in Got(k) PROVE d \in queue \cup Have
    <3>1. PICK l \in 1..k : d \in job.pkgs[job.order[l]] /\ Wanted(d)
      BY <2>4 DEF Got, Made
    <3> QED
      BY <2>2, <3>1, HandledThere DEF WantedOf
  <2> QED
    BY <1>1, <2>3, <2>4
<1>3. ASSUME NEW p \in job.synced PROVE job.depends[p] \ Have \subseteq S
  BY <1>1, PlanIsSound
<1>4. S \in SUBSET Packages
  BY PlanTyped DEF TypeOK
<1>5. Closure(queue) \subseteq S
  BY <1>2, <1>3, <1>4, ClosureLeast
<1> QED
  BY <1>1, <1>5 DEF Installable, Stocked, ConflictsFlagged

\* Nor is what `pacman -S` is asked to install after the chroot builds.
LEMMA SyncAccepted ==
  ASSUME TypeOK, PlansSound, Going, Progress, Reasons, Stocked, pc = "tail", conf.chroot
  PROVE  ~SyncRefused
<1>1. /\ Old \subseteq Have /\ job.repo \subseteq job.synced /\ at = Len(job.order) /\ ~InBase
      /\ synced = job.synced \cup inRepo
  BY PlanIsSound DEF Old, Have, Reasons, Progress, Ended, InBase, Flushing, Stocked
<1>2. conf.localRepo => Added = 1..Len(job.order)
  BY <1>1 DEF Added, Recorded
<1>3. SyncTargets \subseteq synced
  BY <1>1, <1>2 DEF SyncTargets, Stocked
<1>4. ASSUME NEW p \in inRepo PROVE job.depends[p] \subseteq synced
  <2>1. PICK k \in Added : p \in job.pkgs[job.order[k]]
    BY <1>4 DEF Stocked
  <2>2. conf.localRepo /\ k \in 1..Len(job.order)
    BY <1>1, <2>1 DEF Added
  <2>3. job.depends[p] \subseteq Needs(job.order[k])
    BY <2>1 DEF Needs, NeedsOf
  <2>4. Needs(job.order[k]) \subseteq job.synced \cup Made(k)
    BY <2>2, PlanIsSound
  <2>5. Made(k) \subseteq inRepo
    BY <1>1, <1>2, <2>2, PlanTyped DEF Made, Stocked
  <2> QED
    BY <1>1, <2>3, <2>4, <2>5
<1>5. ASSUME NEW p \in job.synced PROVE job.depends[p] \ Have \subseteq synced
  BY <1>1, PlanIsSound
<1>6. synced \in SUBSET Packages
  BY DEF TypeOK
<1>7. Closure(SyncTargets) \subseteq synced
  BY <1>1, <1>3, <1>4, <1>5, <1>6, ClosureLeast
<1>8. ASSUME conf.legacy, NEW p \in SyncTargets \cap job.conflicts PROVE conflict
  <2>1. p \in job.target
    BY DEF SyncTargets
  <2>2. p \notin job.repo /\ (conf.installTargets => Wanted(p))
    BY <1>8, <2>1, PlanIsSound
  <2>3. PICK k \in 1..Len(job.order) : conf.installTargets /\ p \in job.pkgs[job.order[k]]
    BY <2>2 DEF SyncTargets
  <2>4. p \in WantedOf(job.order[k]) /\ job.order[k] \in built
    BY <1>1, <2>2, <2>3 DEF WantedOf, Progress
  <2> QED
    BY <2>4 DEF Stocked
<1> QED
  BY <1>7, <1>8 DEF SyncRefused
\* A base is handled when it is queued, and its packages are added before that.
LEMMA HandledStep ==
  ASSUME TypeOK, Progress, RecordsSound, [Next]_vars, GoingStep \/ UNCHANGED vars
  PROVE  /\ Handled' = IF QueuePackages THEN Handled \cup {at} ELSE Handled
         /\ Added' = IF AddToRepo THEN Added \cup {at} ELSE Added
<1>1. Len(job.order) \in Nat /\ at \in Nat /\ conf' = conf
  BY PlanTyped, PlanFixed
<1>2. CASE RepoInstall \/ RepoReasons \/ Start
  BY <1>1, <1>2 DEF RepoInstall, RepoReasons, Start, Progress, Handled, Added, QueuePackages, AddToRepo
<1>3. CASE NextBase
  BY <1>1, <1>3 DEF NextBase, Handled, Added, Recorded, InBase, Flushing, QueuePackages, AddToRepo
<1>4. CASE NoMoreBases \/ CheckQueue \/ InstallQueue \/ SaveRecords \/ MarkDeps
  BY <1>1, <1>4 DEF NoMoreBases, CheckQueue, InstallQueue, SaveRecords, MarkDeps, Handled, Added,
         Recorded, InBase, Flushing, QueuePackages, AddToRepo
<1>5. CASE Build
  BY <1>1, <1>5 DEF Build, Handled, Added, Recorded, InBase, Flushing, QueuePackages, AddToRepo
<1>6. CASE AddToRepo
  BY <1>1, <1>6 DEF AddToRepo, TypeOK, RecordsSound, Handled, Added, Recorded, InBase, Flushing,
         QueuePackages
<1>7. CASE RecordAdded
  BY <1>1, <1>7 DEF RecordAdded, RecordsSound, Handled, Added, Recorded, InBase, Flushing,
         QueuePackages, AddToRepo
<1>8. CASE QueuePackages
  BY <1>1, <1>8 DEF QueuePackages, TypeOK, Handled, Added, Recorded, InBase, Flushing, AddToRepo
<1>9. CASE MarkExplicit
  BY <1>1, <1>9 DEF MarkExplicit, Handled, Added, Recorded, InBase, Flushing, QueuePackages, AddToRepo
<1>10. CASE ChrootInstall
  BY <1>1, <1>10 DEF ChrootInstall, AfterSync, Handled, Added, Recorded, InBase, Flushing,
         QueuePackages, AddToRepo
<1>11. CASE UNCHANGED vars
  BY <1>1, <1>11 DEF vars, Handled, Added, Recorded, InBase, Flushing, QueuePackages, AddToRepo
<1> QED
  BY <1>2, <1>3, <1>4, <1>5, <1>6, <1>7, <1>8, <1>9, <1>10, <1>11 DEF GoingStep

\* After a build, or when none is needed, the packages to add or to queue have their files.
LEMMA BuiltFiles ==
  ASSUME TypeOK, PlansSound, SkipsHarmless, Stocked, Build
  PROVE  (IF conf.localRepo \/ conf.chroot THEN job.pkgs[Cur] ELSE WantedOf(Cur)) \subseteq files'
<1>1. /\ Cur \in Bases /\ at \in 1..Len(job.order) /\ Cur = job.order[at]
      /\ WantedOf(Cur) \subseteq job.pkgs[Cur]
  BY CurrentBase, PlanTyped DEF Build, TypeOK, Cur, WantedOf
<1>2. files \subseteq files' /\ job.files \subseteq files
  BY DEF Build, Stocked
<1>3. CASE ~job.build[Cur]
  BY <1>1, <1>2, <1>3, PlanIsSound
<1>4. CASE job.build[Cur] /\ NeedsBuild
  BY <1>1, <1>4 DEF Build
<1>5. CASE job.build[Cur] /\ ~NeedsBuild /\ job.pkgs[Cur] \subseteq files
  BY <1>1, <1>2, <1>5
<1>6. CASE job.build[Cur] /\ ~NeedsBuild /\ ~(job.pkgs[Cur] \subseteq files)
  <2>1. conf.needed /\ \E p \in job.pkgs[Cur] : UpToDate(p)
    BY <1>6 DEF NeedsBuild, UpToDate
  <2>2. \A p \in job.pkgs[Cur] : UpToDate(p)
    BY <1>1, <2>1 DEF SkipsHarmless, Uniform
  <2>3. CASE conf.localRepo
    BY <1>1, <1>2, <2>1, <2>2, <2>3, PlanIsSound DEF UpToDate
  <2>4. CASE ~conf.localRepo
    BY <2>1, <2>2, <2>4 DEF SkipsHarmless, UpToDate, WantedOf, Wanted, WantedBy
  <2> QED
    BY <2>3, <2>4
<1> QED
  BY <1>3, <1>4, <1>5, <1>6

\* What the files, the repository and the queue hold is kept by each step that goes on.
LEMMA StockedStep ==
  ASSUME TypeOK, PlansSound, SkipsHarmless, Progress, Reasons, RecordsSound, Stocked, [Next]_vars,
         GoingStep \/ UNCHANGED vars, faults' = faults
  PROVE  Stocked'
<1>1. /\ Len(job.order) \in Nat /\ at \in Nat /\ job' = job /\ conf' = conf
  BY PlanTyped, PlanFixed
<1>0. \A b : WantedOf(b)' = WantedOf(b)
  BY WantedFixed
<1>2. /\ Handled' = IF QueuePackages THEN Handled \cup {at} ELSE Handled
      /\ Added' = IF AddToRepo THEN Added \cup {at} ELSE Added
  BY HandledStep
<1>3. job'.files \subseteq files' /\ files \subseteq files'
  BY <1>1 DEF GoingStep, RepoInstall, RepoReasons, Start, NextBase, NoMoreBases, CheckQueue, Build,
         AddToRepo, RecordAdded, QueuePackages, InstallQueue, SaveRecords, MarkDeps, MarkExplicit,
         ChrootInstall, vars, repoVars, Stocked
<1>4. synced' = job'.synced \cup inRepo'
      /\ inRepo' = UNION {job'.pkgs[job'.order[k]] : k \in Added'}
  <2>1. CASE AddToRepo
    <3>1. inRepo' = inRepo \cup job.pkgs[job.order[at]] /\ synced' = synced \cup inRepo'
      <4>1. faults \in Nat
        BY InstallerAssumption DEF TypeOK
      <4> QED
        BY <2>1, <4>1 DEF AddToRepo, Fault, Cur
    <3> QED
      BY <1>1, <1>2, <2>1, <3>1 DEF Stocked
  <2>2. CASE ~AddToRepo
    <3>1. inRepo' = inRepo /\ synced' = synced
      BY <2>2 DEF GoingStep, RepoInstall, RepoReasons, Start, NextBase, NoMoreBases, CheckQueue,
             Build, RecordAdded, QueuePackages, InstallQueue, SaveRecords, MarkDeps, MarkExplicit,
             ChrootInstall, vars, repoVars
    <3> QED
      BY <1>1, <1>2, <2>2, <3>1 DEF Stocked
  <2> QED
    BY <2>1, <2>2
<1>5. queue' \subseteq files' /\ queue' \subseteq UNION {WantedOf(job.order[k]) : k \in Handled'}
  <2>1. CASE QueuePackages
    <3>1. queue' = queue \cup WantedOf(job.order[at]) /\ WantedOf(Cur) \subseteq job.pkgs[Cur]
          /\ pc = "queue" /\ Cur = job.order[at]
      BY <2>1 DEF QueuePackages, Enqueue, Cur, WantedOf
    <3>2. WantedOf(Cur) \subseteq files
      BY <3>1 DEF Stocked
    <3>3. Handled' = Handled \cup {at}
      BY <1>2, <2>1
    <3> QED
      BY <1>3, <3>1, <3>2, <3>3 DEF Stocked
  <2>2. CASE ~QueuePackages
    <3>1. queue' \in {queue, {}}
      BY <2>2 DEF GoingStep, RepoInstall, RepoReasons, Start, NextBase, NoMoreBases, CheckQueue,
             Build, AddToRepo, RecordAdded, InstallQueue, SaveRecords, MarkDeps, MarkExplicit,
             ChrootInstall, vars, queueVars
    <3>2. Handled' = Handled
      BY <1>2, <2>2
    <3> QED
      BY <1>3, <3>1, <3>2 DEF Stocked
  <2> QED
    BY <2>1, <2>2
<1>6. pc' \in {"add", "record", "queue"} =>
        (IF conf.localRepo \/ conf.chroot THEN job.pkgs[Cur'] ELSE WantedOf(Cur)') \subseteq files'
  <2>1. CASE Build
    <3>1. Cur' = Cur
      BY <1>1, <2>1 DEF Build, Cur
    <3> QED
      BY <1>1, <2>1, <3>1, BuiltFiles DEF Build, WantedOf, Wanted
  <2>2. CASE AddToRepo \/ RecordAdded \/ UNCHANGED vars
    <3>1. Cur' = Cur /\ (pc' \in {"add", "record", "queue"} => pc \in {"add", "record", "queue"})
      BY <2>2 DEF AddToRepo, RecordAdded, vars, Cur
    <3> QED
      BY <1>1, <1>3, <3>1 DEF Stocked, WantedOf, Wanted
  <2>3. CASE ~(Build \/ AddToRepo \/ RecordAdded \/ UNCHANGED vars)
    BY <2>3 DEF GoingStep, RepoInstall, RepoReasons, Start, NextBase, NoMoreBases, CheckQueue,
           QueuePackages, InstallQueue, SaveRecords, MarkDeps, MarkExplicit, ChrootInstall, AfterSync
  <2> QED
    BY <2>1, <2>2, <2>3
<1>7. pc' = "build" /\ ~conf'.chroot => queue' = {} \/ Needs(Cur)' \subseteq Have'
  <2>1. CASE CheckQueue
    BY <1>1, <2>1 DEF CheckQueue, FlushFirst, Needs, NeedsOf, Cur, Have, localDb
  <2>2. CASE MarkExplicit
    BY <2>2 DEF MarkExplicit
  <2>3. CASE UNCHANGED vars
    BY <2>3 DEF vars, queueVars, localDb, Stocked, Needs, Cur, Have
  <2>4. CASE ~(CheckQueue \/ MarkExplicit \/ UNCHANGED vars)
    BY <2>4 DEF GoingStep, RepoInstall, RepoReasons, Start, NextBase, NoMoreBases, Build, AddToRepo,
           RecordAdded, QueuePackages, InstallQueue, SaveRecords, MarkDeps, ChrootInstall, AfterSync
  <2> QED
    BY <2>1, <2>2, <2>3, <2>4
<1>8. conf'.chroot => \A b \in built' : WantedOf(b)' \cap job'.conflicts # {} => conflict'
  <2> SUFFICES ASSUME conf.chroot, NEW b \in built', WantedOf(b) \cap job.conflicts # {} PROVE conflict'
    BY <1>0, <1>1
  <2>1. CASE QueuePackages
    BY <2>1 DEF QueuePackages, Enqueue, Stocked
  <2>2. CASE ~QueuePackages
    <3>1. ~QueueStep => built' = built /\ conflict' = conflict
      BY QueueKept
    <3>2. CheckQueue \/ MarkExplicit => built' = built /\ (conflict => conflict')
      BY DEF CheckQueue, FlushFirst, MarkExplicit, Progress, Flushing
    <3>3. QueueFails => built' = built /\ conflict' = conflict
      BY <2>2 DEF QueueFails, queueVars, GoingStep, RepoInstall, RepoReasons, Start, NextBase, NoMoreBases, CheckQueue,
             Build, AddToRepo, RecordAdded, QueuePackages, InstallQueue, SaveRecords, MarkDeps,
             MarkExplicit, ChrootInstall, vars
    <3> QED
      BY <2>2, <3>1, <3>2, <3>3 DEF Stocked, QueueStep
  <2> QED
    BY <2>1, <2>2
<1>9. conf'.chroot /\ ~conf'.localRepo => \A b \in built' : job'.pkgs[b] \subseteq files'
  <2> SUFFICES ASSUME conf.chroot, ~conf.localRepo, NEW b \in built' PROVE job.pkgs[b] \subseteq files'
    BY <1>1
  <2>1. CASE b \in built
    BY <1>3, <2>1 DEF Stocked
  <2>2. CASE b \notin built
    <3>1. QueuePackages
      BY <2>2 DEF GoingStep, RepoInstall, RepoReasons, Start, NextBase, NoMoreBases, CheckQueue, Build,
                  AddToRepo, RecordAdded, InstallQueue, SaveRecords, MarkDeps, MarkExplicit,
                  ChrootInstall, vars, queueVars
    <3>2. b = Cur /\ pc = "queue"
      BY <2>2, <3>1 DEF QueuePackages, Enqueue
    <3> QED
      BY <1>3, <3>2 DEF Stocked
  <2> QED
    BY <2>1, <2>2
<1> QED
  BY <1>0, <1>1, <1>3, <1>4, <1>5, <1>6, <1>7, <1>8, <1>9 DEF Stocked

\* Failures are counted one by one.
LEMMA FaultsCount ==
  ASSUME TypeOK, [Next]_vars
  PROVE  faults' \in {faults, faults + 1} /\ faults \in Nat
<1>1. faults \in Nat
  BY InstallerAssumption DEF TypeOK
<1> SUFFICES faults' \in {faults, faults + 1}
  BY <1>1
<1>2. Fault => faults' = faults + 1
  BY DEF Fault
<1>3. CASE GoingStep \/ UNCHANGED vars
  <2>1. CASE AddToRepo
    BY <1>2, <2>1 DEF AddToRepo
  <2>2. CASE RepoInstall \/ RepoReasons \/ NextBase \/ NoMoreBases \/ CheckQueue \/ Build \/ UNCHANGED vars
    BY <2>2 DEF RepoInstall, RepoReasons, NextBase, NoMoreBases, CheckQueue, Build, vars
  <2>3. CASE RecordAdded \/ QueuePackages \/ InstallQueue \/ SaveRecords \/ MarkDeps \/ MarkExplicit
    BY <2>3 DEF RecordAdded, QueuePackages, InstallQueue, SaveRecords, MarkDeps, MarkExplicit
  <2>4. CASE Start \/ ChrootInstall
    BY <2>4 DEF Start, ChrootInstall
  <2> QED
    BY <1>3, <2>1, <2>2, <2>3, <2>4 DEF GoingStep
<1>4. CASE PrepareFails \/ StartFails \/ DepsMissing \/ BuildFails \/ AddFails \/ RecordAddedFails
  BY <1>2, <1>4 DEF PrepareFails, StartFails, DepsMissing, BuildFails, AddFails, RecordAddedFails
<1>5. CASE QueueFails \/ InstallFails \/ AfterInstallFails
  BY <1>2, <1>5 DEF QueueFails, InstallFails, AfterInstallFails
<1>6. CASE ChrootInstallFails \/ RemoveMakeDeps \/ CleanupFails
  BY <1>2, <1>6 DEF ChrootInstallFails, RemoveMakeDeps, CleanupFails
<1> QED
  BY <1>3, <1>4, <1>5, <1>6 DEF Next, GoingStep, Done

\* No step fails as long as no command does.
LEMMA NoFailure ==
  ASSUME TypeOK, PlansSound, Going, Progress, Reasons, RepoHere, RecordsSound, ConflictsFlagged,
         Stocked, [Next]_vars, faults' = faults
  PROVE  GoingStep \/ RemoveMakeDeps \/ CleanupFails \/ UNCHANGED vars
<1>1. ~Fault
  BY InstallerAssumption DEF TypeOK, Fault
<1>2. ~(PrepareFails \/ StartFails \/ BuildFails \/ RecordAddedFails \/ QueueFails \/ AfterInstallFails)
  BY <1>1 DEF PrepareFails, StartFails, BuildFails, RecordAddedFails, QueueFails, AfterInstallFails
<1>3. ~DepsMissing
  BY NeedsMet DEF DepsMissing, InputsThere, Stocked
<1>4. ~AddFails
  BY <1>1 DEF AddFails, RecordsSound, Stocked
<1>5. ~InstallFails
  BY <1>1, QueueInstallable DEF InstallFails
<1>6. ~ChrootInstallFails
  BY <1>1, SyncAccepted DEF ChrootInstallFails
<1> QED
  BY <1>2, <1>3, <1>4, <1>5, <1>6 DEF Next, GoingStep, Done

\* A session without failures goes on until its clean up, which succeeds.
LEMMA SmoothStep ==
  ASSUME TypeOK, PlansSound, GoingInv, Going => RepoHere, RecordsSound, ConflictsFlagged, Smooth,
         [Next]_vars
  PROVE  Smooth'
<1>1. job' = job /\ conf' = conf
  BY PlanFixed
<1> SUFFICES ASSUME SkipsHarmless, faults' = 0
             PROVE  (result # "failed")' /\ (pc' # "done" => Going' /\ Stocked')
  BY <1>1 DEF Smooth, SkipsHarmless, Uniform, UpToDate
<1>2. faults' = faults
  <2>1. faults' \in {faults, faults + 1} /\ faults \in Nat
    BY FaultsCount
  <2> QED
    BY <2>1
<1>3. result # "failed" /\ (pc # "done" => Going /\ Stocked)
  BY <1>2 DEF Smooth
<1>4. CASE pc = "done"
  <2>1. UNCHANGED vars
    BY <1>4 DEF Next, Done, RepoInstall, RepoReasons, PrepareFails, Start, StartFails,
         NextBase, NoMoreBases, CheckQueue, Build, DepsMissing, BuildFails, AddToRepo, AddFails,
         RecordAdded, RecordAddedFails, QueuePackages, QueueFails, InstallQueue, InstallFails,
         SaveRecords, MarkDeps, MarkExplicit, AfterInstallFails, ChrootInstall, ChrootInstallFails,
         RemoveMakeDeps, CleanupFails
  <2> QED
    BY <1>3, <1>4, <2>1 DEF vars
<1>5. CASE pc # "done"
  <2>1. Going /\ Stocked /\ Progress /\ Reasons /\ RepoHere
    BY <1>3, <1>5 DEF GoingInv
  <2>2. GoingStep \/ RemoveMakeDeps \/ CleanupFails \/ UNCHANGED vars
    BY <1>2, <2>1, NoFailure
  <2>3. CASE RemoveMakeDeps \/ CleanupFails
    <3>1. ~Fault
      BY <1>2, InstallerAssumption DEF TypeOK, Fault
    <3> QED
      BY <2>1, <2>3, <3>1 DEF RemoveMakeDeps, CleanupFails, Cleanup, Finish, Going
  <2>4. CASE GoingStep \/ UNCHANGED vars
    <3>1. failed' = failed /\ err' = err /\ result' = result
      BY <2>4 DEF GoingStep, RepoInstall, RepoReasons, Start, NextBase, NoMoreBases, CheckQueue, Build,
             AddToRepo, RecordAdded, QueuePackages, InstallQueue, SaveRecords, MarkDeps, MarkExplicit,
             ChrootInstall, vars
    <3> QED
      BY <1>2, <1>3, <2>1, <2>4, <3>1, StockedStep DEF Going
  <2> QED
    BY <2>2, <2>3, <2>4
<1> QED
  BY <1>4, <1>5

\* A session fails only if a command fails, a lookup of the network does or the user declines: the
\* flush policy leaves no base without its dependencies and no transaction is refused for what the
\* installer did before (build_install_pkgbuild, do_install, chroot_install).
THEOREM NoNeedlessFailureHolds ==
  ASSUME PlansSound
  PROVE  Spec => []NoNeedlessFailure
<1>1. Init => /\ QueueInstalled /\ RecordsSound /\ GoingInv /\ (Going => RepoHere)
              /\ ConflictsFlagged /\ Smooth
  <2> SUFFICES ASSUME Init
               PROVE  /\ QueueInstalled /\ RecordsSound /\ GoingInv /\ (Going => RepoHere)
                      /\ ConflictsFlagged /\ Smooth
    OBVIOUS
  <2>1. JobTyped /\ GoingInv
    BY GoingInit, JobShape DEF Init
  <2>2. QueueInstalled /\ RecordsSound /\ RepoHere /\ ConflictsFlagged
    BY <2>1 DEF Init, QueueInstalled, RecordsSound, JobTyped, RepoHere, ConflictsFlagged
  <2>3. Added = {} /\ Handled = {}
    BY DEF Init, Added, Handled
  <2>4. Going /\ Stocked /\ result # "failed"
    BY <2>3 DEF Init, Going, Stocked
  <2> QED
    BY <2>1, <2>2, <2>4 DEF Smooth
<1>2. TypeOK /\ GoingInv /\ (Going => RepoHere) /\ RecordsSound /\ ConflictsFlagged /\ Smooth
      /\ [Next]_vars => Smooth'
  BY SmoothStep
<1>3. TypeOK /\ GoingInv /\ (Going => RepoHere) /\ [Next]_vars => (Going => RepoHere)'
  BY GoingRepoStep
<1>4. TypeOK /\ Smooth => NoNeedlessFailure
  BY InstallerAssumption DEF TypeOK, Smooth, NoNeedlessFailure
<1> QED
  BY <1>1, <1>2, <1>3, <1>4, TypeCorrect, QueueInstalledStep, RecordsSoundStep, GoingInvStep,
     ConflictsFlaggedStep, PTL DEF Spec

=============================================================================
