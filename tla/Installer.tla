------------------------------ MODULE Installer ------------------------------
(***************************************************************************)
(* The installer of bah: the repository packages of a plan are installed,  *)
(* the bases are built one by one, built packages wait in an install queue *)
(* that is flushed through the backend, install reasons and the commits of *)
(* devel packages are recorded, and make dependencies are removed.         *)
(*                                                                         *)
(* The plan (`job`) is what the resolver returns; it is a parameter.  Every*)
(* call that leaves the process may fail: it counts as a fault.            *)
(***************************************************************************)
EXTENDS Naturals, Sequences, FiniteSets

CONSTANTS
  Packages, Bases,  \* names of packages and of package bases
  Jobs, Confs,      \* the plans and the configurations to consider
  MaxFaults,        \* bound: external failures in one session
  LookupsFail       \* whether `git ls-remote` can fail for a devel source

Version == {"none", "old", "new"}  \* "new": the version this plan builds
Commit == {"none", "old", "new"}   \* "new": the commit looked up by this session

Job == [repo: SUBSET Packages,              \* actions.install
        order: Seq(Bases),                  \* actions.build
        pkgs: [Bases -> SUBSET Packages], build: [Bases -> BOOLEAN],
        needs: [Bases -> SUBSET Packages],  \* make and check dependencies
        depends: [Packages -> SUBSET Packages],
        target: SUBSET Packages, make: SUBSET Packages,
        conflicts: SUBSET Packages,         \* Installer::conflicts
        installed: [Packages -> Version], reason: [Packages -> {"exp", "dep"}],
        files: SUBSET Packages,             \* package files in the cache
        synced: SUBSET Packages,            \* packages of the sync databases
        devel: SUBSET Bases, record: [Bases -> Commit \ {"new"}]]

Conf == [batch: BOOLEAN, failFast: BOOLEAN, devel: BOOLEAN, localRepo: BOOLEAN,
         chroot: BOOLEAN, installTargets: BOOLEAN, needed: BOOLEAN, rebuild: BOOLEAN,
         removeMake: BOOLEAN, legacy: BOOLEAN,
         reason: {"auto", "exp", "dep", "asdep"}]  \* the last is --asdep, see AsDep

ASSUME InstallerAssumption ==
  /\ Jobs \subseteq Job /\ Confs \subseteq Conf
  /\ MaxFaults \in Nat /\ LookupsFail \in BOOLEAN
  \* A package is taken from the repositories or built (check_actions).
  /\ \A j \in Jobs, b \in Bases : j.pkgs[b] \cap j.repo = {}

VARIABLES
  job, conf,
  pc, back,             \* where the installer is; where do_install returns to
  at,                   \* index in job.order of the current base
  queue, deps, exp, conflict, failed, built,  \* fields of Installer
  info, newInfo,        \* devel_info, new_devel_info
  err, result,
  faults,               \* external failures so far
  installed, reason,    \* the local database
  files, inRepo, synced, \* package files, the local repository, the sync databases
  disk                  \* devel.toml

queueVars == <<queue, deps, exp, conflict, built>>
infoVars == <<info, newInfo>>
localDb == <<installed, reason>>
repoVars == <<files, inRepo, synced>>
vars == <<job, conf, pc, back, at, queueVars, failed, infoVars, err, result, faults,
          localDb, repoVars, disk>>

Cur == job.order[at]
Have == {p \in Packages : installed[p] # "none"}
New == {p \in Packages : installed[p] = "new"}
NeedsOf(j, b) == j.needs[b] \cup UNION {j.depends[p] : p \in j.pkgs[b]}
Needs(b) == NeedsOf(job, b)

\* needs_install and the filters around dep_or_exp.  config.alpm keeps the local
\* database as it was when the session began: job.installed, not installed.
WantedBy(j, c, p) ==
  /\ p \in j.target => c.installTargets
  /\ c.needed => j.installed[p] # "new"
  /\ c.chroot => p \notin j.make
Wanted(p) == WantedBy(job, conf, p)
WantedOf(b) == {p \in job.pkgs[b] : Wanted(p)}

\* The install reason dep_or_exp asks for.  It looks for "asdeps" under two equal names, so that
\* --asdep, which every other function takes for --asdeps, is to it as if no reason was given.
Automatic == conf.reason \in {"auto", "asdep"}
AsExp(p) == \/ conf.reason = "exp"
            \/ Automatic /\ job.installed[p] = "none" /\ p \in job.target
AsDep(p) == \/ conf.reason = "dep"
            \/ Automatic /\ job.installed[p] = "none" /\ p \notin job.target

\* The packages of job.repo that repo_install marks as dependencies, and as explicit.
RepoDeps ==
  {p \in job.repo : \/ conf.reason \in {"dep", "asdep"}
                    \/ conf.reason = "auto" /\ job.installed[p] = "none" /\ p \notin job.target}
RepoExp ==
  {p \in job.repo : \/ conf.reason = "exp"
                    \/ conf.reason = "auto" /\ job.installed[p] = "none" /\ p \in job.target}

\* Fault: make dependencies that were built are forgotten.
RemoveRepoMakeOnly ==
  IF conf.removeMake /\ ~conf.chroot /\ job.order # <<>> THEN job.make \cap job.repo ELSE {}

\* The packages build_cleanup removes, chosen by prepare_build.
RemoveMake == IF conf.removeMake /\ ~conf.chroot /\ job.order # <<>> THEN job.make ELSE {}

Init ==
  /\ job \in Jobs /\ conf \in Confs
  /\ pc = "repo" /\ back = "none" /\ at = 0
  /\ queue = {} /\ deps = {} /\ exp = {} /\ conflict = FALSE /\ built = {} /\ failed = {}
  /\ info = [b \in Bases |-> "none"] /\ newInfo = {}
  /\ err = FALSE /\ result = "none" /\ faults = 0
  /\ installed = job.installed /\ reason = job.reason
  /\ files = job.files /\ inRepo = {} /\ synced = job.synced
  /\ disk = job.record

-----------------------------------------------------------------------------
(* Helpers of the actions *)

Fault == faults < MaxFaults /\ faults' = faults + 1

Finish(r) == pc' = "done" /\ result' = r

\* libalpm puts `ps` in the local database; of the packages that were not installed those that
\* were asked for are explicit.
Install(ps, asked) ==
  /\ installed' = [p \in Packages |-> IF p \in ps THEN "new" ELSE installed[p]]
  /\ reason' = [p \in Packages |-> IF p \in ps /\ installed[p] = "none"
                                   THEN IF p \in asked THEN "exp" ELSE "dep"
                                   ELSE reason[p]]

\* `ps` and the packages that are missing for what they depend on: the least such set.
Closure(ps) ==
  LET Satisfied(S) == ps \subseteq S /\ \A p \in S : job.depends[p] \ Have \subseteq S
  IN  {p \in Packages : \A S \in SUBSET Packages : Satisfied(S) => p \in S}

\* set_install_reason: packages that are not installed are skipped.
SetReason(ps, r) ==
  reason' = [p \in Packages |-> IF p \in ps \cap Have THEN r ELSE reason[p]]

\* An error in build_install_pkgbuild, as the loop over the bases handles it.
BaseFails ==
  /\ failed' = IF conf.failFast THEN failed ELSE failed \cup {Cur}
  /\ err' = conf.failFast
  /\ pc' = IF conf.failFast THEN "cleanup" ELSE "next"

\* An error of do_install, which has three callers.
FlushFails ==
  \/ /\ back = "build"
     /\ BaseFails
     /\ UNCHANGED result
  \/ /\ back = "final"
     /\ err' = TRUE /\ pc' = "cleanup"
     /\ UNCHANGED <<failed, result>>
  \/ /\ back = "tail"
     /\ Finish("failed")
     /\ UNCHANGED <<failed, err>>

\* The commit of the current base, looked up before the builds, becomes its record.
Record ==
  /\ info' = [info EXCEPT ![Cur] = IF Cur \in newInfo THEN "new" ELSE "none"]
  /\ newInfo' = newInfo \ {Cur}

-----------------------------------------------------------------------------
(* The repository packages, then the start of the builds *)

RepoInstall ==
  /\ pc = "repo"
  /\ IF conf.chroot \/ job.repo = {}
     THEN pc' = "start" /\ UNCHANGED localDb
     ELSE pc' = "reasons" /\ Install(job.repo, job.repo)
  /\ UNCHANGED <<job, conf, back, at, queueVars, failed, infoVars, err, result, faults,
                 repoVars, disk>>

\* asdeps, then asexp; asexp may still fail after asdeps.
RepoReasons ==
  /\ pc = "reasons"
  /\ reason' = [p \in Packages |-> IF p \in RepoExp THEN "exp"
                                   ELSE IF p \in RepoDeps THEN "dep" ELSE reason[p]]
  /\ pc' = "start"
  /\ UNCHANGED <<job, conf, back, at, queueVars, failed, infoVars, err, result, faults,
                 installed, repoVars, disk>>

\* prepare_build fails: nothing is built or cleaned up.
PrepareFails ==
  /\ \/ /\ pc = "repo" /\ ~conf.chroot /\ job.repo # {}
        /\ \E ps \in SUBSET job.repo : Install(ps, ps)
     \/ /\ pc = "reasons"
        /\ \/ UNCHANGED localDb
           \/ SetReason(RepoDeps, "dep") /\ UNCHANGED installed
  /\ Fault /\ Finish("failed")
  /\ UNCHANGED <<job, conf, back, at, queueVars, failed, infoVars, err, repoVars, disk>>

\* The devel records are loaded (records of packages that are gone are dropped, and
\* the file is written back) and the newest commits are looked up; a lookup that
\* fails is only reported.
LoadRecords ==
  /\ info' = [b \in Bases |->
                IF \E p \in job.pkgs[b] : \/ job.installed[p] # "none"
                                          \/ conf.localRepo /\ p \in job.synced
                THEN disk[b] ELSE "none"]
  /\ disk' = info'
  /\ \E lost \in SUBSET (IF LookupsFail THEN job.devel ELSE {}) :
       newInfo' = {job.order[k] : k \in 1..Len(job.order)} \cap (job.devel \ lost)

Start ==
  /\ pc = "start"
  /\ IF conf.devel /\ job.order # <<>> THEN LoadRecords ELSE UNCHANGED <<infoVars, disk>>
  /\ pc' = IF job.order = <<>> THEN "tail" ELSE "next"
  /\ UNCHANGED <<job, conf, back, at, queueVars, failed, err, result, faults, localDb,
                 repoVars>>

\* The records cannot be loaded, or after that the repository or the chroot cannot be set up.
StartFails ==
  /\ pc = "start" /\ job.order # <<>>
  /\ \/ conf.devel /\ LoadRecords
     \/ UNCHANGED <<infoVars, disk>>
  /\ Fault /\ err' = TRUE /\ pc' = "cleanup"
  /\ UNCHANGED <<job, conf, back, at, queueVars, failed, result, localDb, repoVars>>

-----------------------------------------------------------------------------
(* The loop over the bases: build_install_pkgbuilds, build_install_pkgbuild *)

\* Fault: the bound of the loop is off by one.
NextBasePastEnd ==
  /\ pc = "next" /\ at <= Len(job.order)
  /\ at' = at + 1 /\ pc' = "check"
  /\ UNCHANGED <<job, conf, back, queueVars, failed, infoVars, err, result, faults,
                 localDb, repoVars, disk>>

NextBase ==
  /\ pc = "next" /\ at < Len(job.order)
  /\ at' = at + 1 /\ pc' = "check"
  /\ UNCHANGED <<job, conf, back, queueVars, failed, infoVars, err, result, faults,
                 localDb, repoVars, disk>>

\* Fault: what is still queued after the last base is forgotten.
NoMoreBasesWithoutFlush ==
  /\ pc = "next" /\ at = Len(job.order)
  /\ pc' = "tail"
  /\ UNCHANGED <<job, conf, back, at, queueVars, failed, infoVars, err, result, faults,
                 localDb, repoVars, disk>>

NoMoreBases ==
  /\ pc = "next" /\ at = Len(job.order)
  /\ IF ~conf.chroot /\ queue # {}
     THEN pc' = "install" /\ back' = "final"
     ELSE pc' = "tail" /\ UNCHANGED back
  /\ UNCHANGED <<job, conf, at, queueVars, failed, infoVars, err, result, faults,
                 localDb, repoVars, disk>>

\* Fault: in batch mode the queue is never flushed before a build.
FlushUnlessBatch == ~conf.chroot /\ ~conf.batch

\* In batch mode the queue is only flushed when the base needs more than is installed.
FlushFirst == ~conf.chroot /\ (conf.batch => ~(Needs(Cur) \subseteq Have))

\* Fault: the conflict flag is cleared although the queue is kept.
CheckQueueClearing ==
  /\ pc = "check"
  /\ IF FlushFirst /\ queue # {}
     THEN pc' = "install" /\ back' = "build" /\ UNCHANGED conflict
     ELSE pc' = "build" /\ conflict' = FALSE /\ UNCHANGED back
  /\ UNCHANGED <<job, conf, at, queue, deps, exp, built, failed, infoVars, err, result,
                 faults, localDb, repoVars, disk>>

CheckQueue ==
  /\ pc = "check"
  /\ IF FlushFirst /\ queue # {}
     THEN pc' = "install" /\ back' = "build" /\ UNCHANGED conflict
     ELSE /\ pc' = "build"
          /\ conflict' = (conflict /\ ~FlushFirst)
          /\ UNCHANGED back
  /\ UNCHANGED <<job, conf, at, queue, deps, exp, built, failed, infoVars, err, result,
                 faults, localDb, repoVars, disk>>

Missing ==
  (IF ~conf.chroot THEN Needs(Cur) \ Have
   ELSE IF conf.localRepo THEN Needs(Cur) \ synced ELSE {}) \ job.pkgs[Cur]

UpToDate(p) == IF conf.localRepo THEN p \in job.synced ELSE job.installed[p] = "new"

\* needs_build: one package of the base that is up to date is enough to skip the
\* build under --needed; config.alpm is as old as the session here too.
NeedsBuild ==
  \/ conf.rebuild
  \/ /\ conf.needed => \A p \in job.pkgs[Cur] :
                         IF conf.localRepo THEN p \notin job.synced
                         ELSE job.installed[p] # "new"
     /\ ~(job.pkgs[Cur] \subseteq files)

\* Without a local repository makechrootpkg is given what was built before (-I): the files have
\* to be there.
InputsThere ==
  conf.chroot /\ ~conf.localRepo /\ job.build[Cur] =>
    \A b \in built : job.pkgs[b] \subseteq files

Build ==
  /\ pc = "build" /\ Missing = {} /\ InputsThere
  /\ files' = IF job.build[Cur] /\ NeedsBuild THEN files \cup job.pkgs[Cur] ELSE files
  /\ pc' = IF conf.localRepo THEN "add" ELSE "queue"
  /\ UNCHANGED <<job, conf, back, at, queueVars, failed, infoVars, err, result, faults,
                 localDb, inRepo, synced, disk>>

DepsMissing ==
  /\ pc = "build" /\ ~(Missing = {} /\ InputsThere)
  /\ BaseFails
  /\ UNCHANGED <<job, conf, back, at, queueVars, infoVars, result, faults, localDb,
                 repoVars, disk>>

\* makepkg, its package list, the chroot or gpg fails.
BuildFails ==
  /\ pc = "build" /\ Missing = {}
  /\ Fault /\ BaseFails
  /\ files' \in {files, files \cup job.pkgs[Cur]}
  /\ UNCHANGED <<job, conf, back, at, queueVars, infoVars, result, localDb, inRepo, synced,
                 disk>>

\* add_pkg with a local repository: repo-add needs the package files; the status of
\* the command that refreshes the sync databases is ignored.
AddToRepo ==
  /\ pc = "add" /\ job.pkgs[Cur] \subseteq files
  /\ inRepo' = inRepo \cup job.pkgs[Cur]
  /\ \/ synced' = synced \cup inRepo' /\ UNCHANGED faults
     \/ Fault /\ UNCHANGED synced
  /\ Record
  /\ pc' = IF conf.devel THEN "record" ELSE "queue"
  /\ UNCHANGED <<job, conf, back, at, queueVars, failed, err, result, localDb, files, disk>>

AddFails ==
  /\ pc = "add"
  /\ \/ ~(job.pkgs[Cur] \subseteq files) /\ UNCHANGED <<faults, inRepo>>
     \/ Fault /\ inRepo' \in {inRepo, inRepo \cup (job.pkgs[Cur] \cap files)}
  /\ BaseFails
  /\ UNCHANGED <<job, conf, back, at, queueVars, infoVars, result, localDb, files, synced,
                 disk>>

RecordAdded ==
  /\ pc = "record"
  /\ disk' = info /\ pc' = "queue"
  /\ UNCHANGED <<job, conf, back, at, queueVars, failed, infoVars, err, result, faults,
                 localDb, repoVars>>

RecordAddedFails ==
  /\ pc = "record"
  /\ Fault /\ BaseFails
  /\ UNCHANGED <<job, conf, back, at, queueVars, infoVars, result, localDb, repoVars, disk>>

\* queue_install, then dep_or_exp for packages `ps`.
Enqueue(ps) ==
  /\ built' = built \cup {Cur}
  /\ queue' = queue \cup ps
  /\ deps' = deps \cup {p \in ps : AsDep(p)}
  /\ exp' = exp \cup {p \in ps : AsExp(p)}
  /\ conflict' = (conflict \/ ps \cap job.conflicts # {})

\* Fault: the record is taken a second time after a local repository has it.
QueuePackagesTwice ==
  /\ pc = "queue"
  /\ Enqueue(WantedOf(Cur))
  /\ Record
  /\ pc' = "next"
  /\ UNCHANGED <<job, conf, back, at, failed, err, result, faults, localDb, repoVars, disk>>

\* Fault: the record is saved before the package is installed.
QueuePackagesSaving ==
  /\ pc = "queue"
  /\ Enqueue(WantedOf(Cur))
  /\ IF conf.localRepo THEN UNCHANGED infoVars ELSE Record
  /\ disk' = IF conf.devel THEN info' ELSE disk
  /\ pc' = "next"
  /\ UNCHANGED <<job, conf, back, at, failed, err, result, faults, localDb, repoVars>>

QueuePackages ==
  /\ pc = "queue"
  /\ Enqueue(WantedOf(Cur))
  /\ IF conf.localRepo THEN UNCHANGED infoVars ELSE Record
  /\ pc' = "next"
  /\ UNCHANGED <<job, conf, back, at, failed, err, result, faults, localDb, repoVars, disk>>

\* The package list of a base that is not built may lack a package: those before it
\* are queued already, and it has its reason but no file.
QueueFails ==
  /\ pc = "queue" /\ ~job.build[Cur]
  /\ \E p \in WantedOf(Cur), ps \in SUBSET WantedOf(Cur) :
       /\ p \notin ps
       /\ built' = built \cup {Cur}
       /\ queue' = queue \cup ps
       /\ deps' = deps \cup {q \in ps \cup {p} : AsDep(q)}
       /\ exp' = exp \cup {q \in ps \cup {p} : AsExp(q)}
       /\ conflict' = (conflict \/ ps \cap job.conflicts # {})
  /\ Fault /\ BaseFails
  /\ UNCHANGED <<job, conf, back, at, infoVars, result, localDb, repoVars, disk>>

-----------------------------------------------------------------------------
(* do_install *)

\* libalpm takes what is missing from the sync databases; the legacy backend refuses a known
\* conflict when it is called with --noconfirm, the helper asks the user.
Installable(ps) ==
  /\ Closure(ps) \subseteq ps \cup synced
  /\ conf.legacy /\ ~conflict => ps \cap job.conflicts = {}

\* What the transaction may have installed when it fails.
Installing == (queue \cap files) \cup (Closure(queue) \cap synced)

InstallQueue ==
  /\ pc = "install" /\ queue \subseteq files /\ Installable(queue)
  /\ Install(Closure(queue), queue)
  /\ pc' = IF conf.devel THEN "save" ELSE "asdeps"
  /\ UNCHANGED <<job, conf, back, at, queueVars, failed, infoVars, err, result, faults,
                 repoVars, disk>>

\* Fault: the queue is taken out of the installer before the transaction.
InstallFailsEmptying ==
  /\ pc = "install"
  /\ \/ ~(queue \subseteq files /\ Installable(queue)) /\ UNCHANGED <<faults, localDb>>
     \/ Fault /\ \E ps \in SUBSET Installing : Install(ps, queue)
  /\ FlushFails
  /\ queue' = {}
  /\ UNCHANGED <<job, conf, back, at, deps, exp, conflict, built, infoVars, repoVars, disk>>

\* The transaction is refused, or fails or is declined part of the way.
InstallFails ==
  /\ pc = "install"
  /\ \/ ~(queue \subseteq files /\ Installable(queue)) /\ UNCHANGED <<faults, localDb>>
     \/ Fault /\ \E ps \in SUBSET Installing : Install(ps, queue)
  /\ FlushFails
  /\ UNCHANGED <<job, conf, back, at, queueVars, infoVars, repoVars, disk>>

SaveRecords ==
  /\ pc = "save"
  /\ disk' = info /\ pc' = "asdeps"
  /\ UNCHANGED <<job, conf, back, at, queueVars, failed, infoVars, err, result, faults,
                 localDb, repoVars>>

MarkDeps ==
  /\ pc = "asdeps"
  /\ SetReason(deps, "dep") /\ pc' = "asexp"
  /\ UNCHANGED <<job, conf, back, at, queueVars, failed, infoVars, err, result, faults,
                 installed, repoVars, disk>>

\* asexp, then the queue is cleared and do_install returns; only the caller before a
\* build clears the conflict flag.
MarkExplicit ==
  /\ pc = "asexp"
  /\ SetReason(exp, "exp")
  /\ queue' = {} /\ deps' = {} /\ exp' = {}
  /\ conflict' = (conflict /\ back # "build")
  /\ pc' = IF back = "build" THEN "build" ELSE IF back = "final" THEN "tail" ELSE "cleanup"
  /\ UNCHANGED <<job, conf, back, at, built, failed, infoVars, err, result, faults,
                 installed, repoVars, disk>>

\* A step after the transaction fails: the queue keeps what was installed.
AfterInstallFails ==
  /\ pc \in {"save", "asdeps", "asexp"}
  /\ Fault /\ FlushFails
  /\ UNCHANGED <<job, conf, back, at, queueVars, infoVars, localDb, repoVars, disk>>

-----------------------------------------------------------------------------
(* The end of resolve_targets: chroot_install and build_cleanup *)

\* What `pacman -S` is asked to install once the chroot builds are done.
SyncTargets ==
  (job.repo \cap job.target)
  \cup (IF conf.localRepo /\ conf.installTargets
        THEN UNION {job.pkgs[job.order[k]] \cap job.target :
                      k \in {j \in 1..Len(job.order) : job.order[j] \notin failed}}
        ELSE {})

\* Unlike repo_install, noconfirm is decided by the packages that were queued.
SyncRefused ==
  \/ ~(Closure(SyncTargets) \subseteq synced)
  \/ /\ conf.legacy /\ built # {} /\ ~conflict
     /\ SyncTargets \cap job.conflicts # {}

\* The plan the helper gets has no --asdeps or --asexplicit; pacman gives that reason to all
\* that it installs.
SyncReason(p) ==
  IF conf.legacy /\ conf.reason # "auto" THEN IF conf.reason = "exp" THEN "exp" ELSE "dep"
  ELSE IF installed[p] # "none" THEN reason[p]
  ELSE IF p \in SyncTargets THEN "exp" ELSE "dep"

Sync(ps) ==
  /\ installed' = [p \in Packages |-> IF p \in ps THEN "new" ELSE installed[p]]
  /\ reason' = [p \in Packages |-> IF p \in ps THEN SyncReason(p) ELSE reason[p]]

AfterSync == IF ~conf.localRepo /\ queue # {} THEN "install" ELSE "cleanup"

ChrootInstall ==
  /\ pc = "tail"
  /\ IF conf.chroot
     THEN /\ ~SyncRefused
          /\ Sync(Closure(SyncTargets))
          /\ pc' = AfterSync /\ back' = "tail"
     ELSE pc' = "cleanup" /\ UNCHANGED <<localDb, back>>
  /\ UNCHANGED <<job, conf, at, queueVars, failed, infoVars, err, result, faults, repoVars,
                 disk>>

\* Without a local repository the queue is installed all the same.
ChrootInstallFails ==
  /\ pc = "tail" /\ conf.chroot /\ SyncTargets # {}
  /\ \/ SyncRefused /\ UNCHANGED <<faults, localDb>>
     \/ Fault /\ \E ps \in SUBSET (Closure(SyncTargets) \cap synced) : Sync(ps)
  /\ err' = TRUE /\ pc' = AfterSync /\ back' = "tail"
  /\ UNCHANGED <<job, conf, at, queueVars, failed, infoVars, result, repoVars, disk>>

\* The error of build_cleanup, if any, hides the error of the builds.
Cleanup(ret) == Finish(IF failed = {} /\ ~ret /\ ~err THEN "ok" ELSE "failed")

RemoveMakeDeps ==
  /\ pc = "cleanup" /\ RemoveMake \subseteq Have
  /\ \A p \in Have \ RemoveMake : job.depends[p] \cap RemoveMake = {}
  /\ installed' = [p \in Packages |-> IF p \in RemoveMake THEN "none" ELSE installed[p]]
  /\ Cleanup(FALSE) /\ UNCHANGED faults
  /\ UNCHANGED <<job, conf, back, at, queueVars, failed, infoVars, err, reason, repoVars,
                 disk>>

\* A removal that pacman refuses (the backend falls back to it) is not an error, one
\* that cannot be run is; clean_untracked may fail too.
CleanupFails ==
  /\ pc = "cleanup"
  /\ \/ ~(RemoveMake \subseteq Have) /\ Cleanup(FALSE) /\ UNCHANGED faults
     \/ /\ \E p \in Have \ RemoveMake : job.depends[p] \cap RemoveMake # {}
        /\ Cleanup(FALSE) /\ UNCHANGED faults
     \/ Fault /\ \E ret \in BOOLEAN : Cleanup(ret)
  /\ UNCHANGED <<job, conf, back, at, queueVars, failed, infoVars, err, localDb, repoVars,
                 disk>>

Done == pc = "done" /\ UNCHANGED vars

Next ==
  \/ RepoInstall \/ RepoReasons \/ PrepareFails \/ Start \/ StartFails
  \/ NextBase \/ NoMoreBases \/ CheckQueue \/ Build \/ DepsMissing \/ BuildFails
  \/ AddToRepo \/ AddFails \/ RecordAdded \/ RecordAddedFails
  \/ QueuePackages \/ QueueFails
  \/ InstallQueue \/ InstallFails \/ SaveRecords \/ MarkDeps \/ MarkExplicit
  \/ AfterInstallFails
  \/ ChrootInstall \/ ChrootInstallFails \/ RemoveMakeDeps \/ CleanupFails
  \/ Done

Spec == Init /\ [][Next]_vars

-----------------------------------------------------------------------------
(* What the resolver promises of a plan; theorems assume the part they need. *)

\* Each base is built once.
OrdersDistinct == \A j \in Jobs : \A k, l \in 1..Len(j.order) : j.order[k] = j.order[l] => k = l

\* Make dependencies were there before, or the session installs them all and nothing but they
\* themselves depends on them.
MakeSound ==
  \A j \in Jobs, c \in Confs :
    \/ \A p \in j.make : j.installed[p] # "none"
    \/ /\ \A p \in j.make :
            \/ p \in j.repo \/ j.installed[p] # "none"
            \/ /\ p \in UNION {j.pkgs[j.order[k]] : k \in 1..Len(j.order)}
               /\ p \in j.target => c.installTargets
       /\ j.make \subseteq Packages
       /\ \A p \in Packages \ j.make : j.depends[p] \cap j.make = {}

\* pacman gives the reason that was asked for, or none was (see SyncReason).
ReasonsHonoured == \A c \in Confs : c.chroot /\ c.localRepo => c.legacy \/ c.reason = "auto"

\* The plan is complete and in order: what a base needs is installed, in the repositories or made
\* by a base before it; what is not built is in the cache; the repositories have what their
\* packages depend on; and a conflict that --noconfirm would meet is one of a queued package.
PlansSound ==
  \A j \in Jobs, c \in Confs :
    LET Old == {p \in Packages : j.installed[p] # "none"}
        Made(k) == UNION {j.pkgs[j.order[l]] : l \in 1..k}
        Got(k) == {p \in Made(k) : WantedBy(j, c, p)}
    IN  /\ \A k \in 1..Len(j.order) :
             LET b == j.order[k] IN
             /\ ~c.chroot => NeedsOf(j, b) \subseteq Old \cup j.repo \cup Got(k - 1) \cup j.pkgs[b]
             /\ c.chroot /\ c.localRepo => NeedsOf(j, b) \subseteq j.synced \cup Made(k)
             /\ \A p \in j.pkgs[b] :
                  WantedBy(j, c, p) => j.depends[p] \subseteq Old \cup j.repo \cup Got(k)
             /\ ~j.build[b] => j.pkgs[b] \subseteq j.files
             /\ c.localRepo /\ c.needed /\ j.pkgs[b] \subseteq j.synced => j.pkgs[b] \subseteq j.files
        /\ j.repo \subseteq j.synced
        /\ \A p \in j.synced : j.depends[p] \subseteq j.synced \cup Old
        /\ c.chroot /\ c.legacy =>
             \A p \in j.conflicts \cap j.target :
               p \notin j.repo /\ (c.installTargets => WantedBy(j, c, p))

-----------------------------------------------------------------------------
(* Properties *)

TypeOK ==
  /\ job \in Jobs /\ conf \in Confs
  /\ pc \in {"repo", "reasons", "start", "next", "check", "build", "add", "record",
             "queue", "install", "save", "asdeps", "asexp", "tail", "cleanup", "done"}
  /\ back \in {"none", "build", "final", "tail"}
  /\ at \in 0..Len(job.order)
  /\ pc \in {"check", "build", "add", "record", "queue"} \/ back = "build" => at > 0
  /\ queue \in SUBSET Packages /\ deps \in SUBSET Packages /\ exp \in SUBSET Packages
  /\ conflict \in BOOLEAN /\ built \in SUBSET Bases /\ failed \in SUBSET Bases
  /\ info \in [Bases -> Commit] /\ newInfo \in SUBSET Bases /\ disk \in [Bases -> Commit]
  /\ err \in BOOLEAN /\ result \in {"none", "ok", "failed"} /\ faults \in 0..MaxFaults
  /\ installed \in [Packages -> Version] /\ reason \in [Packages -> {"exp", "dep"}]
  /\ files \in SUBSET Packages /\ inRepo \in SUBSET Packages /\ synced \in SUBSET Packages

\* The packages of the plan that a session has to leave in the local database: with a
\* chroot and a local repository, `pacman -S` installs the targets only.
Due == {p \in UNION {job.pkgs[job.order[k]] : k \in 1..Len(job.order)} :
          Wanted(p) /\ (conf.chroot /\ conf.localRepo => p \in job.target)}

\* The install reason a session owes package p: the one asked for, or else the one it had, or
\* else explicit for a target.  --asdep binds `pacman -S` after chroot builds only: what
\* dep_or_exp queues is left as if nothing was asked for (install.rs:333 against 250 and 1606).
Owed(p) ==
  IF conf.reason = "exp" THEN "exp"
  ELSE IF conf.reason = "dep" \/ (conf.reason = "asdep" /\ conf.chroot /\ conf.localRepo) THEN "dep"
  ELSE IF job.installed[p] # "none" THEN job.reason[p]
  ELSE IF p \in job.target THEN "exp" ELSE "dep"

\* Success means that every package due is installed in the new version, and that its
\* install reason is the one owed (dep_or_exp, do_install with its retries,
\* build_install_pkgbuilds, chroot_install).
OkMeansInstalled ==
  result = "ok" => \A p \in Due \ RemoveMake : installed[p] = "new" /\ reason[p] = Owed(p)

\* A base that was built and did not fail is in the queue or installed until the clean
\* up: a flush that fails at any of its steps loses no package (do_install, 356-400).
NothingDropped ==
  pc \notin {"cleanup", "done"} =>
    \A b \in built \ failed : WantedOf(b) \subseteq queue \cup New

\* The backend is called with --noconfirm only if no queued package has a known
\* conflict: the flag and the queue are cleared in different places (717, 397).
ConflictsFlagged == queue \cap job.conflicts # {} => conflict

\* needs_build looks at one package of the base only: bases of which a part is up to
\* date are told apart (see SkippedBuildsSucceed).
Uniform(b) == \/ \A p \in job.pkgs[b] : UpToDate(p)
              \/ \A p \in job.pkgs[b] : ~UpToDate(p)

\* Of a base that is skipped nothing is missed later: either all of it is installed or in the
\* local repository, or its packages are not handed to the builds after it.
SkipsHarmless ==
  conf.needed => (conf.chroot => conf.localRepo) /\ \A b \in Bases : Uniform(b)

\* If no command fails and the user declines nothing, the session succeeds: the flush
\* policy never leaves a base without its dependencies, and no transaction is refused
\* because of what the installer did before (713-718, 720-771, 782-815).
NoNeedlessFailure == result = "failed" /\ SkipsHarmless => faults > 0

\* The same for every plan: a build that is skipped leaves nothing to be missed later.
\* The manual says of the packages that are not built again that they are found in the
\* cache (man/bah.8:790-791); needs_build also skips others (install.rs:2196-2227).
SkippedBuildsSucceed == result = "failed" => faults > 0

\* When a new commit is recorded for a base, no package that the session was to install of that
\* base is still missing from the system, or from the local repository (389-391, 677-687).
\* It does not say that the commit is installed: of a base of which nothing is to be installed
\* (targets under --noinstall, make dependencies of chroot builds; 786, 328) the commit is
\* recorded by the next flush all the same.
RecordedAfterInstall ==
  [][\A b \in Bases : disk'[b] = "new" /\ disk[b] # "new" =>
       IF conf.localRepo THEN job.pkgs[b] \subseteq inRepo ELSE WantedOf(b) \subseteq New]_vars

\* After a successful session the looked-up commit of each devel base is on disk if any
\* package of that base was installed or added to the repository (819-827, 677-687).
OkMeansRecorded ==
  result = "ok" /\ conf.devel =>
    \A k \in 1..Len(job.order) :
      LET b == job.order[k] IN
      b \in job.devel /\ (conf.localRepo \/ WantedOf(b) # {}) => disk[b] = "new"

\* A session without failures leaves none of the make dependencies it brought in and
\* was asked to remove (prepare_build, 1244-1266; build_cleanup, 405-414).
MakeDepsGone ==
  result = "ok" /\ faults = 0 /\ conf.removeMake /\ ~conf.chroot /\ job.order # <<>> =>
    \A p \in job.make \cap Have : job.installed[p] # "none"

\* A devel base with an installed package never loses its record: without one, a later
\* `-Syu --devel` no longer looks for new commits (man/bah.8:936-937).
RecordKept ==
  \A b \in job.devel :
    /\ job.record[b] # "none"
    /\ \E p \in job.pkgs[b] : job.installed[p] # "none"
    => disk[b] # "none"

=============================================================================
