# Specifications of bah

bah is an AUR helper and a wrapper around pacman. It runs as an ordinary user, builds packages,
and changes the system through short privileged transactions: it starts itself through sudo as
`bah --helper-transaction` and talks to that helper over pipes. This directory holds TLA+ models of
the parts in which order, failure and concurrency decide whether the program is correct, TLC
configurations that check them on small instances, and TLAPS proofs for every instance.

Line numbers refer to the sources of this commit (`install.rs:387` is `src/src/install.rs:387`).

## 1. Inventory

| component | state it keeps | operations | what is hard | what makes it correct |
|---|---|---|---|---|
| helper transaction, parent side (`tx_helper.rs` 706-932, `exec.rs`) | message loop, error and result slots, pending question, `interrupted`, three threads | spawn, write the plan, receive, answer, poll, wait, join, clean up, return | three threads, signals, broken pipes, a wrapper (sudo) that cannot be killed | success only for a plan that was applied; nothing runs on after the return; every call ends |
| helper transaction, root side (`tx_helper.rs` 574-644, 1325-2201) | libalpm handle, question counter, retry flag, cleanup guard | `execute_plan_root`: open, refresh, init, resolve, verify, commit, set reasons, unlock; stale lock recovery; question callbacks | `db.lck` is shared with every other libalpm program, and each step can fail | the lock is given back, none is removed without consent, answers match questions, a commit is not torn |
| signals and commands (`exec.rs`, `lib.rs:142`) | `DEFAULT_SIGNALS`, `CAUGHT_SIGNAL`, `INTERRUPTED`, `RAISE_SIGPIPE` | `command_status`, sudo loop, `wait_for_lock` | process-wide flags, handlers between any two steps | an interrupt is noticed once, reported, and cleaned up after |
| backend and fallback (`backend/*.rs`) | none | `pacman()`, `plan_from_args` | an error of the helper runs the operation again with pacman | no operation runs twice, options survive the conversion |
| installer (`install.rs`, `chroot.rs`) | install queue, reasons, conflict flag, failed bases, devel records, built packages | repo install, build loop, queue, flush, chroot install, clean up | every step leaves the process and may fail, with the queue half done | nothing that was built is lost, reasons are right, no needless failure |
| devel database (`devel.rs`) | `devel.toml` | load, save, fetch, update check, gendb, migration | read-modify-write over a shared file without a lock | a record follows what is installed, updates are found, none is lost |
| local repositories (`repo.rs`) | repository directory, sync databases | init, add, remove, refresh, clean | two steps per change, a status that is ignored | repository and sync database agree |
| PKGBUILD repositories (`pkgbuild.rs`) | clones, srcinfo cache | refresh, review, merge, generate | several repositories, a review that is refused | nothing is used that was not reviewed |
| terminal rendering (`ui.rs`, `fmt.rs`) | active and frozen lines, cursor | progress, freeze, redraw, log, prompt | lines of text drawn by several sources | a redraw erases exactly what it drew |
| pure algorithms (`util.rs`, `order.rs`) | none | number menu, unneeded packages, target split, cycles | worklists, ranges, boundaries | equal to a reference definition |
| upgrades, downloads, keys (`upgrade.rs`, `download.rs`, `keys.rs`) | menu selection, fetched sources | upgrade menu, fetch, key import | partial failures | what was selected is what is done |
| cache cleaning (`clean.rs`) | none | clean AUR and pacman caches | deletes what others may be writing | keeps what the flags keep |
| resolver callbacks (`resolver.rs`) | none | callbacks of the aur-depends crate | external algorithm | - |
| configuration, command line, help, completion | `Config` | parse, dispatch | none: sequential | - |
| queries and information (`query.rs`, `info.rs`, `search.rs`, ...) | none | output | none | - |
| authentication, base types (`auth.rs`, `base.rs`) | none | choose sudo, data types | none | - |
| test support (`mock.rs`) | mock AUR | | | - |

How they interact. The installer, the remover and the commands call `backend::pacman`, which turns
arguments into a plan and calls `run_plan_with_helper`; if that fails with anything but
`InterruptedError` it runs pacman itself, after waiting for `db.lck`. Parent and helper share two
pipes (JSON lines), the terminal's signals, the local database and `db.lck`; the last two are shared
with every other program that uses libalpm. The installer, the remover, `--gendb` and the check
for updates all load `devel.toml` and write it back, without a lock; the installer and `-L` change the
local repository and the sync database. Before the installer starts, `prepare_build` reads, downloads,
merges and reviews the clones of PKGBUILDs, which outlive the run.

## 2. Modules

| module | extends or uses | models | proofs |
|---|---|---|---|
| `Transaction` | | what a call of `run_plan_with_helper` promises (abstract) | |
| `TxSession` | `Transaction` | one such call: parent, threads, helper, sudo, lock, signals | `TxSession_proofs`, `TxSession_refinement` |
| `Backend` | `Transaction` (`INSTANCE`, one per process) | `backend::pacman`: options, ways, fallback, `db.lck`, several processes | `Backend_proofs` |
| `Prepare` | | from the start of an install to the first build, run after run | `Prepare_proofs` |
| `Installer` | | from the resolved plan to the clean up | `Installer_proofs` |
| `Stores` | | `devel.toml` and the local repository, several processes | `Stores_proofs` |
| `Display` | | the callbacks of the helper, the pipe, the renderer and the terminal | `Display_proofs` |
| `Selection` | | `unneeded_pkgs`, `NumberMenu`, the menu of upgrades | `Selection_proofs` |

`MC<module>` gives the constants their values for TLC, and a `.cfg` is one run.

The modules meet at promises and at files. `TxSession` implements `Transaction`, and `Backend` uses
nothing else of a call of the helper, so what is checked of `Backend` holds for the detailed session.
`Installer` begins where `Prepare` ends (`build`), and takes a transaction as one step that succeeds,
fails or is interrupted half way, which is what `Backend` promises of a call. The records that
`Installer` keeps in memory are those whose file `Stores` is about.

Every invariant, action property and refinement that a passing run checks is also proved, for all values of
the constants or under the hypotheses that the sections name, with two exceptions left to TLC alone, which are liveness:
`SessionEnds` and `CallsEnd`.

What could follow: an abstract register that `Stores` implements as long as processes do not overlap,
overlapping runs in `Prepare`.

## 3. Transaction and TxSession

### State and actions

`TxSession` models one call. The variables are grouped as the processes are.

| variables | code |
|---|---|
| `ppc`, `perr`, `code`, `outcome`, `pending` | main thread of the parent: place in `run_plan_with_helper`, `loop_err`, the Result received, the return value, the question being shown |
| `sticky`, `caught`, `defaults` | `exec::INTERRUPTED`, `CAUGHT_SIGNAL`, `DEFAULT_SIGNALS` |
| `intr`, `sigThread` | `interrupted` and the thread that sets it |
| `reader`, `chan` | the reader thread and its channel |
| `pipe`, `toHelper` | the helper's stdout and stdin |
| `wrapper` | the sudo process: it outlives the helper unless it is killed |
| `hpc`, `hres`, `site`, `tried` | place in `execute_plan_root`, its result, which step met the lock, whether it was retried already |
| `nextId`, `lockId`, `cur`, `asked`, `events` | question numbers, the question the helper waits for, and the two bounds |
| `lock`, `db`, `other`, `signals` | `db.lck`, what the plan did, another libalpm program, interrupts so far |

`ParentStep`, `ReaderStep`, `SignalThreadStep`, `HelperStep`, `OtherStep`, `Signal`, the death of the
parent and the sudo loop are interleaved. Each line of the parent's loop that another process can
observe is an action (`ReceiveQuestion`, `RecvTimeout`, `ReapTimeout`, ...); each call
into libalpm that can fail or ask is one action of the helper. `PROJECT.json` maps every definition
to its lines. What is left out: the rendering of messages, the contents of questions, and libalpm
itself, whose calls succeed, fail or ask.

`Transaction` has two variables: what the plan did (`db`) and what the caller was told (`outcome`).
The refinement maps `outcome` to the return value once the parent is at `done`, and to `abandoned` if
it died.

### Bounds and switches

`MaxQuestions`, `MaxEvents` and `MaxSignals` bound prompts, other messages and interrupts. Two prompts
are enough to confuse one answer with another, one event to block or break the pipe, two interrupts
to hit both sides of every flag. `PidInLock`, `KillReaches`, `LongLines`, `ParentMayDie`,
`RmMayFail`, `SudoLoops` and `OtherArrives` switch parts of the environment on. `KillReaches = FALSE`
is the normal case: sudo runs as root, so `kill()` gives EPERM and is ignored (`tx_helper.rs:476`).
`PidInLock` is whether the lock file names its owner. `confirm_stale_db_lock_removal` looks for a pid in it,
which current releases of libalpm do not write: `FALSE` is the normal case, and then the lock of a running
program is offered for removal like a stale one. `tx_session` and the two violations about locks and
interrupts have it `FALSE`; `tx_interrupt` has it `TRUE`, so that both branches of the check are visited, and
passes with `FALSE` as well.

### Runs

| run | result | shows |
|---|---|---|
| `tx_session` | pass, 1,327,640 states | one plan for each path through `execute_plan_root`, with prompts, long lines, a failing `rm`, a dying parent and another program that may hold the lock at the start or start and take it at any time; its lock file is empty |
| `tx_interrupt` | pass, 474,029 states | two interrupts, the sudo loop and a newcomer at any moment; under fairness every call ends |
| `v_commit_torn` | violation | an interrupt kills the helper during `trans_commit` |
| `v_interrupt_failed` | violation | an interrupted call comes back as an ordinary failure, which the backend repeats with pacman |
| `v_lock_unasked` | violation | the lock of a program that has just started is removed although nobody was asked about it |

Properties of the passing runs: `TypeOK`; `OkMeansDone` (success means applied in full, or nothing to
do); `ReturnMeansHelperGone` (the caller's next step never runs beside the helper); `RemovalAgreed` (the helper goes
on to remove a lock file only if there was none when it looked, or the user of a running bah said yes to this
very question: not because an answer was lost, the parent died, `--noconfirm` was given or another question was
answered); `AnswersInStep` (an answer never reaches another
question, although a fresh handle numbers from 1 again); `LockGivenBack` (every exit of the helper
releases the lock); `ImplementsTransaction`; `InterruptCleansLock`; `SessionEnds`. Every one of them
has a mutant of the code in `PROJECT.json` that breaks it.

Deadlock is checked: a finished session stutters in `Terminated`, anything else must have a step.

### Fairness

`LiveSpec` assumes weak fairness of `ParentStep`, `ReaderStep`, `SignalThreadStep`, `Authenticate`,
`WrapperExits` and `HelperStep`: threads and processes that can run are scheduled, the user answers the
password prompt and the questions, libalpm calls return, and sudo ends after its command. No fairness
is assumed for signals, for the death of the parent, for the sudo loop or for the other program:
`SessionEnds` does not depend on them.

### Proofs

| theorem | for |
|---|---|
| `TypeCorrect` | all constants |
| `OkMeansDoneHolds` | all constants |
| `AnswersInStepHolds` | all constants |
| `LockGivenBackHolds` | all constants |
| `ReturnMeansHelperGoneHolds`, `SessionImplementsTransaction` | `KillReaches = FALSE` |
| `InterruptCleansLockHolds` | `KillReaches = FALSE`, `RmMayFail = FALSE` |
| `ConsentCorrect`, `RemovalAgreedHolds` | all constants |

The argument. A success travels from the helper's result over pipe and channel to the parent, so
`OkMeansDone` alone is not inductive. `ResultInv` says of each place on the way that a success found
there implies a finished helper and a plan that was carried out, and that otherwise none is on its way.
A question makes the same journey and its answer comes back. `StepInv` says that there is at most one,
in the pipe, in the channel, before the user or answered, and that it is the one in `cur`; so
the id alone cannot mislead, although a fresh handle starts its numbers again. It says nothing of the
questions a dead parent or a dead helper left behind: a helper that goes on with the default after its parent's
death may well leave its question in the pipe.
`GoneInv` says that the wrapper does not end before the helper and is waited for before the return.
`DbInv` ties the places of the helper to what it did, and with `GoneInv` makes each step a step of
`Transaction` or a stutter. `LockInv` says at which places the helper may own the lock. `ConsentInv` follows a yes back from the
helper over the pipe to the user, whose yes is in the history variable `agreed`; with `StepInv` it is
the yes to the question the helper waits for. Each invariant is proved action by action. The restriction
is needed: with `KillReaches = TRUE` the parent may kill sudo and leave an orphan helper at work.

That the helper and another program never both hold the database is not among the properties, because it
does not hold: with an empty lock file the user may agree to remove the lock of a running program, and
between the question and the removal the file may become another one. What does hold is `RemovalAgreed`,
and `v_lock_unasked` shows the rest.

`SessionEnds` is liveness and only model-checked. `JoinReached` is stated in the module and claimed by no
run: it does not hold (section 10).

## 4. Backend

### State and actions

`Callers` are bah processes; each makes up to `MaxCalls` calls of `backend::pacman`, each with one of
`Commands` in one of `Settings` (`BAH_BACKEND`, `BAH_BACKEND_STRICT`, the effective uid). `pc[p]` is the
place in the call. A command is its operation and how often each key was given, which is what `Args`
counts. `PlanOf` is `plan_from_args`, `PlanFlags` what `execute_plan_root` makes of the plan,
`RemoveFlags` and `InstallFlags` are what `run_remove`, `run_sync` and `run_upgrade` use when bah is
root, and `PacmanFlags` is what pacman understands.

`db[p]` and `told[p]` are the variables of the `Transaction` of the current call; every step of the
helper is one of that module, together with what it does to `db.lck`. `applied[p]` records who
changed the system in this call, and with which flags. `lock` is `NoOne`, `Stale` or an owner.

| action | code |
|---|---|
| `Dispatch`, `Fallback` | `backend/mod.rs`: the choice of a way, `BAH_BACKEND_STRICT`, the retry with pacman |
| `RootRefresh`, `RootRefreshed`, `RootInit`, `RootPrepare`, `RootCommit` | `backend/alpm.rs`: libalpm in the process itself; the databases are downloaded under `db.lck` |
| `HelperConfirms`, `HelperRemovesLock` | the recovery of a lock: whatever the file is, as it names no owner, the user may agree to its removal |
| `HelperLocks`, `HelperBegins` ... `HelperEnds`, `HelperSucceeds`, `HelperFails` | `run_plan_with_helper` as its promise |
| `Interrupt`, `Killed` | Ctrl-C in the helper, a lock owner that dies |
| `Wait`, `PacmanStarts`, `PacmanEnds` | `wait_for_lock` and pacman |

### Run, bounds, fairness

`backend` (pass, 253,548 states): two processes, five commands (a removal and an upgrade in the long form,
`--print`, `-Sy`, `database`), three environments, interrupts and kills. Two processes are what the lock
has to keep apart; one call each is enough because a process carries nothing from call to call but
`INTERRUPTED`, which may be set from the start. `LiveSpec` assumes weak fairness of what a process does
by itself and of `Wait`: processes are scheduled, users answer, pacman and libalpm return, and the lock is
polled for ever. Nothing is assumed of interrupts and kills.

Properties: `RepeatedByFallback` (an operation is done twice only by the fallback, never under
`BAH_BACKEND_STRICT`); `OkMeansApplied`; `SameEffect` (helper, process and pacman act alike on the options
they have in common); `CallsEnd` (a call ends unless it waits for a lock whose owner is dead: the code
has no limit there).

That two programs are never at work on the database at a time is not a property here: the recovery of a lock
and the clean up after an interrupt delete the file of whoever has it.

### Proofs

`TypeCorrect`, `RepeatedByFallbackHolds`, `OkMeansAppliedHolds` and `SameEffectHolds` hold for any processes,
commands and settings. The two in the middle rest on `Ledger`: until a call is over it has made at most one
change, none before the helper runs or libalpm commits, and exactly one once the helper's promise says `applied`; a strict call never reaches the places of
pacman. Neither property is inductive without it, because what `applied` may hold depends on the place the
call has reached. `SameEffect` rests on `SameFlags`, which compares the three translations for every command
with options that all of them read alike, not only for those of the runs, and on `FlagsStep`: what a step
adds to `applied` carries the flags of one of the three. `CallsEnd` is liveness and only model-checked.

## 5. Prepare

### State and actions

The state that outlives a run is that of the clones: `fetched` (the upstream branch), `tree` (what is
checked out), `seen` (the mark `AUR_SEEN` in git), `info` (the commit that the `.SRCINFO` of a base of a PKGBUILD
repository was made from) and the keyring. `remote` is what the servers have. A run `s` is chosen from
`Sessions`: what has to be built and which options are set. `pc` is the place in `install`,
`PkgbuildRepos::refresh`, `resolve_targets` and `prepare_build`. `accepted`, `first` and `asked` are history.

| action | code |
|---|---|
| `Start`, `EarlyRefresh` | `install.rs` 896-944 |
| `Fetch`, `Merge`, `ReposFetched`, `ReposMerged`, `GenerateSrcinfos` | `pkgbuild.rs` 325-411, `download.rs` 326-388 |
| `Resolve` | `resolve_targets` 947-1019, with `check_actions` and `read_pkgs` |
| `Confirm`, `Proceed`, `Refuse` | the prompts of `prepare_build` |
| `ReadSrcinfos`, `Fetched`, `Merged`, `Reread` | `download_pkgbuilds`, `new_aur_pkgbuilds` |
| `PreBuild`, `ReviewSilently`, `Accept`, `RefuseReview` | `review` |
| `CheckArch`, `CheckKeys`, `RepoInstall`, `Build` | the rest of `prepare_build`, `check_pgp_keys` |
| `Stop`, `Clean`, `Push` | any failure or kill, `-Sc --delete` between runs, new commits |

### Runs and bounds

`prepare` (pass, 3,735,452 states): two AUR bases, two PKGBUILD repositories (one with `SkipReview` and
`GenerateSrcinfo`), two commits, eight kinds of runs, three runs in a row, one failure or kill. Two
commits tell what was seen from what is new. A property of this module is broken by what one run
leaves and a second one finds; the third allows a clone to be built before both. Deadlock is not
checked: a machine on which bah is not run any more simply stops.

`NothingUnreviewed`: when a run installs and builds, every PKGBUILD it builds was agreed to, in this run
or before. A base that lies built in a local repository (`s.built`) is only installed and not reviewed
again (`install.rs:1184`). `BuiltIsResolved`: what is built is at least as new as what the AUR announced to this run.
Both must hold whatever earlier runs left behind: a run that is refused or killed between the fetch, the
merge and the mark must not hide a commit from the next review, and a clone that was fetched and not
merged must not pass for up to date. `v_stale_keys` (violation of `KeysAsked`): the keys asked for are those
of the commit that was there before the download.

### Proofs

For all bases, repositories, versions that do not decrease and kinds of runs: `TypeCorrect`,
`NothingUnreviewedHolds` and `BuiltIsResolvedHolds`. `IInv` says of each place what has been fetched, merged
and agreed to there; across runs it keeps two facts: `SeenAgreed` (a mark names a commit that was agreed
to, so that an entry which is not shown needs no new answer) and `RepoTrees` (a repository is merged only
after its review). `SrcinfoInv` gives that every file that keys are read from is there, which `TypeCorrect`
needs. For `BuiltIsResolved`, `CommitsInOrder` says that a checkout is never ahead of its branch, nor the
branch of the server, and `VersionInv` carries the comparison of `new_aur_pkgbuilds` from the reading of the
old file over fetch and merge to the build.

## 6. Installer

### State and actions

`job` is the plan the resolver returned and `conf` the configuration; both are constant in a behaviour
and chosen from the sets `Jobs` and `Confs`. `pc` is the place in `resolve_targets`,
`build_install_pkgbuilds`, `build_install_pkgbuild` or `do_install`; `back` is the caller `do_install`
returns to: `build` (716), `final` (890) or `tail` (1041). `queue`, `deps`, `exp`, `conflict`, `failed`,
`built`, `info` and `newInfo` are the fields of `Installer`. `installed` and `reason` are the local
database, `files`, `inRepo` and `synced` the cache, the local repository and the sync databases, `disk`
is `devel.toml`. `job.installed` is the local database as `config.alpm` read it: `needs_install`,
`needs_build` and `dep_or_exp` look at that one, `deps_not_satisfied` opens a fresh handle.

| action | code |
|---|---|
| `RepoInstall`, `RepoReasons`, `PrepareFails` | `repo_install` and its two calls of `set_install_reason` |
| `Start`, `StartFails` | `load_devel_info` (which writes the file back), `fetch_devel_info`, set-up of repository and chroot; the file may have been written when that fails |
| `NextBase`, `NoMoreBases` | the loop of `build_install_pkgbuilds` |
| `CheckQueue` | 711-718: flush before a build, or not |
| `Build`, `DepsMissing`, `BuildFails` | dependency check, makepkg, `needs_build`, package list, signing; a chroot without a local repository is given the files of all that was built before (`InputsThere`) |
| `AddToRepo`, `AddFails`, `RecordAdded`, `RecordAddedFails` | `add_pkg` with a local repository |
| `QueuePackages`, `QueueFails` | `queue_install`, `dep_or_exp`, the record of the base |
| `InstallQueue`, `InstallFails`, `SaveRecords`, `MarkDeps`, `MarkExplicit`, `AfterInstallFails` | the steps of `do_install`; a failure of any of them keeps the queue |
| `ChrootInstall`, `ChrootInstallFails` | `chroot_install` and the install after it |
| `RemoveMakeDeps`, `CleanupFails` | `build_cleanup` |

A *fault* is an external failure or a refusal by the user. A transaction that is impossible (a file
or a dependency is missing, a conflict under `--noconfirm`) fails without one. The queue is a set:
libalpm sorts it anyway, and a transaction that fails may have installed any part of it. `legacy` says
that pacman itself is the backend, which honours `--noconfirm`; the plan of the helper has no such
argument and the user is asked about conflicts. The fallback from the helper to pacman is taken to be
allowed, so a removal that is refused ends with a status and not with an error.

Left out: what comes before the plan (`Prepare`, `Selection`), debug packages, `--assume-installed`,
`--nodeps`, `--sysupgrade` inside `chroot_install`, the contents of builds.

### Runs

| run | result | shows |
|---|---|---|
| `installer` | pass, 46,132 states | ten plans, 25 configurations, up to three faults |

The plans: a run time dependency and a repository make dependency, a make dependency that is built, two
unrelated upgrades (one with two packages) with a conflict on either, a base that needs no build, a
make dependency that was installed before and is needed by others, a base of which a part is in the
local repository, a base that is up to date, with its package files and without them, repository packages
alone. Two bases are the fewest that can wait for each other in the queue; three faults allow a failed flush, a failed retry and a failed
clean up in one session. The configurations combine batch mode, local repository, chroot and backend
freely, and add fail-fast, `--noinstall` with and without devel records, `--needed`, rebuild and
`--asdeps`/`--asdep`/`--asexplicit` one by one.
`--asdeps` with a chroot is only combined with the pacman backend: the helper's plan drops it.

Properties: `TypeOK`; `OkMeansInstalled` (success means that every package due is installed with the
reason it is owed, `Owed`: `--asdep`, which `args.rs:17` accepts like `--asdeps`, is not heard by `dep_or_exp`,
see section 10); `NothingDropped` (what was built is queued or installed until the clean up);
`ConflictsFlagged` (never `--noconfirm` with a known conflict); `NoNeedlessFailure` (no fault, no
failure: in particular batch mode flushes early enough); `RecordedAfterInstall` (when a commit is recorded, nothing
that was to be installed of its base is missing; of a base of which nothing is to be installed, a target under
`--noinstall` or a make dependency of a chroot build, the next flush records the commit all the same, so
`devel.toml` can be ahead of the system) and `OkMeansRecorded`; `MakeDepsGone`. `NoNeedlessFailure` leaves
out the sessions in which `--needed` skips a base whose packages are needed later and not there
(`SkipsHarmless`): one of which only one package is up to date, or one whose files a later chroot build is
given. `SkippedBuildsSucceed` is the same property without the exception, and does not hold. `RecordKept`
would hold in `installer` only because lookups do not fail there (`LookupsFail = FALSE`). Neither is
claimed by a run (section 10).

### Proofs

`TypeCorrect`, `ConflictsFlaggedHolds`, `NothingDroppedHolds` and `RecordedAfterInstallHolds` hold for
all plans and configurations of the right shape and any number of faults; the only assumption is
`InstallerAssumption`, which is that shape. `ConflictsFlagged` is inductive. `NothingDropped` needs
`QueueInstalled`: between the transaction and the clearing of the queue everything queued is
installed, so clearing it loses nothing; the rest is that neither the queue nor the new packages shrink
before the clean up (`QueueOrNewKept`) and that a base that fails half queued is remembered as failed.
`RecordedAfterInstall` needs `RecordsSound`: a new record in memory comes with packages that landed in
the queue, the system or the repository, so that with `QueueInstalled` they are installed when
`do_install` saves.

What a success means, and when one has to come, depends on the plan and on the configuration, which
`Jobs` and `Confs` leave open. The theorems about it name what they need of them, in the section "What
the resolver promises of a plan"; `MCInstaller` assumes all of it of its plans and configurations, so
TLC evaluates it and the hypotheses are those of states that the run visits.

| hypothesis | says | why it is needed |
|---|---|---|
| `ReasonsHonoured` | no `--asdeps` or `--asexplicit` with chroot, local repository and the helper | the helper's plan has no such argument, `chroot_install` relies on `pacman -S` taking it |
| `OrdersDistinct` | no base is built twice | the commit of a base is taken when it is first built (822) |
| `LookupsFail = FALSE` | `git ls-remote` answers | without a commit the record is erased (section 10) |
| `MakeSound` | make dependencies were all there before, or all come with the session and only they depend on them | `pacman -R` is called once with all of them: one that is missing or needed keeps all the others (410) |
| `PlansSound` | what a base needs is installed, in the repositories or made by a base before it; packages that are not built are in the cache; repositories are closed under dependencies; a conflict of a target is one of a queued package | the installer does not check any of it before it starts |

All of them are about a session in which nothing has gone wrong so far (`Going`): what has gone wrong
stays so (`FailedForGood`), so a step after which the session is still `Going` is one of fifteen
(`GoingSteps`), and the invariants below are only needed while it is.

- `OkMeansInstalledHolds`, from `ReasonsHonoured`. `Progress` says where the installer can be: every
  base before the current one has been queued, `do_install` was called from the caller that belongs to
  the configuration, the queue is empty after the last flush. `Reasons` says that what was built is
  `Tagged` (queued, and in `deps` or `exp` if a reason is due) or `Settled` (installed with its
  reason); clearing the queue is what turns one into the other (`SettledByFlush`), and no later
  transaction takes a reason back (`SettledKept`). With a chroot nothing touches the local database
  before the end (`Chroot`), so `pacman -S` gives the reasons of packages that were not installed.
- `OkMeansRecordedHolds`, from `OrdersDistinct` and `LookupsFail = FALSE`. `RecordOf` follows the commit
  of one base: looked up, then in memory, then on disk, or still in memory while a package of the base
  is queued, in which case the flush that is to come saves it.
- `MakeDepsGoneHolds`, from `MakeSound` and `ReasonsHonoured`. When the clean up starts the make
  dependencies are installed (from `RepoHere` and `Settled`) and nothing else needs them, so the
  removal cannot be refused.
- `NoNeedlessFailureHolds`, from `PlansSound`. `Stocked` ties the files, the local repository and the
  sync databases to the bases that were handled: what is queued has its file and is wanted of a base
  that was handled, a base is only built when the queue is empty or what it needs is installed, and
  with a chroot the conflict flag remembers every base. From it no base misses what it needs
  (`NeedsMet`) and neither the queue (`QueueInstallable`) nor the targets of the chroot
  (`SyncAccepted`) are refused; for both, the set of what is queued and what is in the repositories is
  closed under dependencies, and `Closure` is the least such set. `Smooth` puts this together: as long
  as no command has failed, the session has not.

These invariants were checked by TLC over the product of all configurations that satisfy the
hypotheses before they were proved. Nothing about this component is only model-checked except what
section 10 lists.

## 7. Selection

A behaviour is one computation. `unneeded_pkgs` is its worklist: `next`, `deps` and one step per package
looked into, in any order (the code takes them in the order of a list; the result must not depend on it). A
database is which packages are explicit and, for each, the packages that satisfy its dependencies by
name, by provision and optionally. The menu of `get_upgrades` has the loop that prints the numbers and the
loop that compares them with the answer as separate steps over one `index`.

`selection` (pass, 458,128 states): all graphs of named dependencies of three packages with all sets
of explicit ones and three choices each of provisions and optional dependencies; five menus of up to
four entries with every answer of up to two words out of twenty, the empty answer and one of commas alone,
`upgrade_menu` on and off. Three packages are enough for a cycle of orphans beside an explicit one; two words
for one that includes and one that excludes. Names are sequences of the parts between their dashes, because
`NumberMenu` keeps the first part only. Deadlock is not checked: a computation ends.

`UnneededExact` compares with the least closed set. `MenuObeyed`: after a clear answer a package is upgraded
exactly if one of its printed lines was not left out by number or by name; after any answer with words the
numbers and ranges are obeyed; and a package has two lines only if it comes from a PKGBUILD repository and has a
devel upgrade. An answer is clear (`Clear`) if it is empty or has words, and no name in it has a dash;
section 10 says what the others do.

`UnneededExactHolds` proves the first for every database. `Walked` says that what was looked into has no
candidate left among its dependencies, `Reached` that what is no candidate any more is in every closed set;
when nothing is left to look into, they are the two halves of the property.

`MenuObeyedHolds` proves the second for upgrades and answers of any length. `MenuInv` says how far each loop has come:
`Printed(low)` that the entries numbered above `low` were printed with their numbers, `Compared(low)` that
they were compared with the answer. `KeepIsNotLeftOut` shows that `NumberMenu` agrees with the words one by
one, and `OfferedOk` that only a devel upgrade of a PKGBUILD repository is a second entry of its package. The theorem
assumes `ListsDistinct` (a package is upgraded from one kind of repository, except that devel upgrades
repeat others: the code removes them from the AUR's and keeps them beside a PKGBUILD repository's),
`AnswersRead` (a name that is read as a number is none: no repository is called by a number) and
`SelectSeqSifts`, that the filter keeps exactly what passes and each once: what `SelectSeq` computes
for every list is induction over data. TLC evaluates all three for the menus of the run.

## 8. Stores

### State and actions

Each process of `Procs` runs a list of commands: `check` (`-Qu --devel`), `gendb`, `remove`, `build`, and
`delete`, `clean`, `refresh` of a local repository. `name` and `data` are the file system as far as
`save_devel_info` sees it: which file `devel.toml` and `devel.toml.tmp` name, and what each file holds, so
that truncating, writing and renaming a file that another process has open means what it means in
POSIX. `mem[p]`, `found[p]`, `updates[p]`, `open[p]` are the `DevelInfo` in memory, and the lookups that are
done and pending. `repo`, `files`, `synced` and `installed` are the database of the repository, its
directory, and what libalpm has of both; `view[p]` is what the handle of a process has read, once.

| action | code |
|---|---|
| `Load`, `Retain`, `Create`, `Write`, `Rename` | `load_devel_info`, `save_devel_info` |
| `List`, `Fetch`, `Fetched`, `Ask`, `Asked` | `gendb`, `fetch_devel_info`, `possible_devel_updates`, `pkg_has_update` with the answers of `ls_remote` in any order |
| `Remove` | `remove.rs` |
| `Make`, `RepoAdd`, `RecordAdded`, `Install` | the installer, as far as it touches these files |
| `Refresh`, `Select`, `RepoRemove`, `RemoveFiles`, `Uninstall` | `repo.rs` |
| `Crash`, `Push` | a process is killed, a commit appears upstream |

### Runs and bounds

`stores` (pass, 1,473,143 states): six pairs of command lists, two bases (a split base with two sources and
one with one), two faults, two pushes (of one source the second takes the first back, of the other the
first deletes the branch, so that the answer is empty), kills; packages and
sources that the user ignores, and a base that has the name of a package of the distribution. Two processes are what one temporary file can be shared
by; a split base is what the removal of one package needs, two sources what the race of answers needs.

`PublishedWhole`: `devel.toml` is never half-written, unless two processes save at the same time (the
temporary file has one name: `clash`). `KeepsRecords`: while processes do not overlap, nothing but a build or a
removal changes a record. `UpdatesFound`: updates that are reported are real, and without
failures a base is reported if a source of it has answered anything but the recorded commit since the check began.
It names what `possible_devel_updates` passes over: what the user ignores, bases with the name of a package of the
distribution and, with a local repository, bases that are not called like a package in it. `RepoHasFiles` and `SyncedAtRest`: what the repository lists is there, and libalpm sees it. The
exceptions (`clash`, `alone`) are the races that the code has: two processes lose each other's records.

### Proofs

`Stores_proofs` proves every property of the run `stores`, the action property `KeepsRecords` included, for any
finite set of processes, any lists of commands, packages, bases and sources and any number of faults and
pushes. `StoresAssumption` says that a package is made by one base and that the records are up to date at
first. `IInv` has a part for each thing that a process relies on between two of its steps:

- `Places`, `OneAtWork`: where a command can be; while processes do not overlap one is at work.
- `Writers`, `Contents`: without a clash one process saves, the file it has open is the one that is named
  `devel.toml.tmp`, which is not `devel.toml`, and it holds what is in memory before it is renamed. This makes
  `PublishedWhole` inductive: truncating the file of another process is what a clash is.
- `RepoPlaces`, `SyncPlaces`: what is added to the repository has its files, what loses its file is no longer
  listed, and the sync database is behind only where a refresh follows.
- `Records`, `CheckPlaces`: there is one record for each source, and one whose source has not answered it since
  the check began is among the updates or its lookup is open, so that `UpdatesFound` does not depend on the
  order of the answers.
- `FoundPlaces`, `KeepPlaces`: what was looked up belongs to the base that is built or to bases without a
  record, and what a process is going to write covers what `devel.toml` says, except for bases that are gone and
  those that the command is about.

## 9. Display

`trans_commit` reports to the callbacks of the helper; most of it goes through the pipe to the parent's
`TransactionRenderController`, while hook output goes straight to the terminal. `phase`, `at`, `done`, `todo`,
`running` are libalpm; `emitted`, `lastHook`, `hookFailed` are the state of the callbacks; `block` holds the
active and frozen lines and how many were drawn; `term` and `row` are the terminal. A line is its kind, its
key and whether it is final; its layout is left out. Both throttles (100 ms in the helper, 100 ms in the
renderer) are choices.

`display` (pass, 833,008 states): three transactions (two downloads at a time; a download with a size, one without,
a hook and a package;
hooks before and after), terminals of 2 and 9 rows, one retry, one log line, a pipe of two messages. Two active
lines and one frozen one are the least that a redraw can get wrong.

`CursorBelow`: when anyone prints next, the cursor is below everything printed. `FinalLinesStay` and
`EachShownOnce`: the final line of each key is drawn once and never overwritten; a file of which libalpm never knew
the size (`Sizeless`) has none, because neither its progress nor its completion is sent (`tx_helper.rs` 1785, 1808).
Signature files are not shown and not among the keys. `HooksBlamed`: a failure is put
on the hook that failed, and on no other. `OutputKept` (a line that a hook wrote stays) does not hold and is
claimed by no run (section 10).

### Proofs

`Display_proofs` proves every property of the run `display` for any packages, files, hooks, plans, heights of the
terminal, retries and lengths of the pipe; the assumption on the constants is their shape, and that no hook has the
name of an outcome. The argument:

- `BlocksRight`: what a block has drawn has as many lines as the block has now. The throttle may skip a redraw,
  but never one after a key became active or frozen, since both force it. So a redraw goes up by the right number
  of lines, and `CursorBelow` follows.
- `Windows`: the lines that a block may draw over are its active ones, which are not final.
  `DownloadsFirst`: when the block of packages begins, every download is frozen, so that the two blocks never
  have active lines at the same time. Both give `FinalLinesStay`.
- `FinalOnce` ties frozen keys to final lines; `Reported` says that a key that is complete is frozen or its
  message is in the pipe; `ResultLast` that nothing follows the result. These give `EachShownOnce`.
- `HookPhases`, `Steps` and `Blamed` follow `lastHook` and `hookFailed` through the phases: a hook that has not begun
  is not blamed, and `hookFailed` is about the hook that runs. These give `HooksBlamed`.

TLC checked `IInv` on the run's instance before it was proved.

## 10. Findings

Four runs expect a violation: `v_commit_torn`, `v_interrupt_failed`, `v_lock_unasked`, `v_stale_keys`. `PROJECT.json`
quotes the line of documentation each one contradicts.

Properties that are stated in the modules, do not hold, and are claimed by no run:

- `TxSession.JoinReached`: a prompt longer than an IPC line leaves parent and helper waiting for each
  other, where `tx_helper.rs:913` expects the reader to be joined.
- `Installer.RecordKept`: a failed `git ls-remote` erases the record of a devel base that is then built
  (`devel.rs:534`).
- `Installer.SkippedBuildsSucceed`: `--needed` skips the build of a base of which one package is up to
  date, and the session fails for want of the other (`install.rs:2203`).
- `Display.OutputKept`: `STDOUT_LOCK` (`tx_helper.rs:78`) keeps the threads of the helper apart, but the parent
  redraws from another process (`ui.rs:1174`, `ui.rs:1242`) and may overwrite a line of a hook.

Exceptions that properties make for what the code does:

- `Prepare.Agreed`: the first clone of a PKGBUILD repository is checked out before its review. If that is
  refused, the checkout stays and a later run without a refresh builds from it (`pkgbuild.rs` 342-411).
- `Selection.Clear`: `NumberMenu` cuts every word at its first `-` and keeps what is before it if that is no
  number (`util.rs` 275-287). So `core-testing` leaves out `core` and not `core-testing`, and the lines of devel
  upgrades, whose names get their suffix twice (`upgrade.rs:476`: `devel-devel`), cannot be left out by name, where
  `bah.conf.5:189-191` says that names of repositories may be typed. An answer of commas alone has no words and
  is not empty: it leaves out every line (`util.rs:334`, `upgrade.rs:450`).
- `Selection.MenuObeyed`: a package of a PKGBUILD repository with a devel upgrade has two lines
  (`upgrade.rs:262` has a TODO) and is upgraded unless both are left out.
- `Installer.Owed`: `dep_or_exp` looks for `asdeps` under two equal names (`install.rs:333`), where `chroot_install`
  (250) and `repo_install` (1606) look for `asdeps` and `asdep`: with `-S --asdep` an AUR target is marked explicit.
- `Installer.RecordedAfterInstall`, `SkipsHarmless`: see section 6.
- `Stores.UpdatesFound`: with a local repository a split base of which no package has the name of the base is never
  checked (`devel.rs:369`). And `git ls-remote` that succeeds and prints nothing, because the branch is gone,
  counts as an answer that differs (`devel.rs:278`): an update is reported.
- `Display.Sizeless`: see section 9.
- `Backend.Stuck`: `wait_for_lock` waits for a lock whose owner is dead without a limit.
- `Stores`: `clash` and `alone`, see section 8.

Read while modelling, not covered by a run:

- `README.md:33` says that what starts with `-` is left unchanged. The options of a removal are looked for in
  their long form only (`backend/alpm.rs` 207-224, 304-315): `-Rss` and `-Rn` reach the helper as a plain removal, and
  `--asdeps` of `-U` has no place in the plan.
- `man/bah.8:936-937` says that the devel file tracks VCS packages. `remove` drops the records of the bases of all
  targets (`remove.rs` 21-26, 61-70): with `-R` of one package of a split base the others are no longer tracked, and
  with `-Rp` nothing is removed and the record is dropped.
- After a signal, `INTERRUPTED` stays set: each later transaction of the process removes `db.lck` on its
  way out.
- Only `backend/mod.rs:68` looks at `InterruptedError`: an interrupted flush counts as a failed base and
  the installer goes on with the next one.
- `recv_timeout` and `try_wait` are not atomic: a Result that was sent may be dropped, and a success is
  reported as a failure. The promise allows this; pacman then runs the operation again.
- `SetInstallReason` writes the local database without holding `db.lck`.
- A long log line in the middle of a commit closes the pipe, and SIGPIPE ends the helper.
- `plan_from_args` drops `--noconfirm` and `--ask` as well; `copy_sync_args` and `do_install` both add `-d`.
- `chroot_install` decides about `--noconfirm` by the packages that were queued, not by its own targets.
- `build_cleanup` ignores the status of the removal, and removes a make dependency even if an old
  version of it was installed before the session.
- `install.rs:2188` rebuilds every package for `--rebuild=yes`, where the manual says targets only.
- `install.rs:907`: `!self.sysupgrade == 0` is a bitwise complement, so the check never fires.
- `select_boot_mountpoint` accepts any one of the mount points that `fstab` expects (`tx_helper.rs` 345-375).

## 11. Not modelled

- The returns of `run_plan_with_helper` with `?` while the helper may still run: the threads cannot be
  started (`tx_helper.rs:796`), or the kernel refuses to tell of the child (899, 908). `ReturnMeansHelperGone` does not
  cover them.
- `SessionEnds` is checked without lines longer than 16 KiB (`LongLines = FALSE`): after one the reader is gone,
  and a helper that waits for an answer and the parent that waits for the helper (`tx_helper.rs:477`) do so for ever.
- The resolver is a crate outside this repository (`resolver.rs` only gives it callbacks): its result is
  a parameter of `Installer` and `Prepare`.
- Configuration, command line, help and completion: sequential parsing whose only state is `Config`.
- Queries, searches and information: read-only.
- `auth.rs`, `base.rs`, `mock.rs`: the choice of sudo, data types, tests.
- Of the modelled components: the checks of `/boot` and of `NoScriptlet` before a commit are failures of a
  step; `validate_plan` and the contents of messages are left out; so are the layout of lines, the parsing of
  source URLs, `-G` and `--show`, the scan of PKGBUILD directories, the split of targets, and the removal of
  temporary downloads (`clean.rs:19`), which hurts only other programs.
- `Prepare` does not let two runs overlap, and leaves out edits made in the file manager and
  `save_changes`; errors of `-Sw` and of missing privileges that end a run early are covered by `Stop`.

## 12. How to run

    tlc -config tx_session.cfg MCTxSession.tla
    tlc -config backend.cfg MCBackend.tla
    tlapm TxSession_proofs.tla

and likewise for the other configurations and the modules whose names end in `_proofs` and `_refinement`. TLC stays below two minutes per run on two cores. Liveness and `ENABLED` are out of
the prover's reach, and the modules use no `RECURSIVE` operator.
