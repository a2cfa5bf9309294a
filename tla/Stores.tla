-------------------------------- MODULE Stores --------------------------------
(***************************************************************************)
(* What bah keeps on disk between its runs: devel.toml (the commits that   *)
(* devel packages were built from) and the local repositories, together    *)
(* with the databases of libalpm that both are compared with.  Nothing     *)
(* locks them: several processes may work on them at a time.  A process    *)
(* runs the commands it is given one after the other, each with a handle   *)
(* of libalpm of its own, which reads a database once.                     *)
(***************************************************************************)
EXTENDS Naturals, Sequences, FiniteSets

CONSTANTS
  Procs,       \* bah processes
  Bases, Packages, Sources,
  Made,        \* the packages of a base
  NameOf,      \* the package that has the name of its base, or NoPackage
  NoPackage,
  From,        \* the sources of a base that parse_url takes for a git remote
  Official,    \* the packages that a sync database of the distribution has
  Commits,     \* what git ls-remote may print, the empty output of a branch that is gone included
  Sha,         \* what it prints for a source after so many changes of it
  Scenarios,   \* bound: what is installed and built, and what each process is asked to do
  MaxPushes,   \* bound: changes of a source
  MaxFaults,   \* bound: failures of commands and lookups
  MayCrash     \* a process may be killed between two steps

\* A command line.
Requests == [op: {"check", "gendb", "remove", "build", "delete", "clean", "refresh"},
             pkgs: SUBSET Packages, base: Bases,
             localRepo: BOOLEAN, print: BOOLEAN, twice: BOOLEAN,
             ignore: SUBSET Packages, ignoreDevel: SUBSET Packages, ignoreSource: SUBSET Sources]

\* The records are up to date at first.
Scenario == [installed: SUBSET Packages, repo: SUBSET Packages,
             info: SUBSET {<<b, x, Sha[x][0]>> : b \in Bases, x \in Sources},
             todo: [Procs -> Seq(Requests)]]

ASSUME StoresAssumption ==
  /\ IsFiniteSet(Procs) /\ Scenarios \subseteq Scenario
  /\ Made \in [Bases -> SUBSET Packages] /\ From \in [Bases -> SUBSET Sources]
  /\ \A b, c \in Bases : b # c => Made[b] \cap Made[c] = {}
  /\ NameOf \in [Bases -> Packages \cup {NoPackage}] /\ NoPackage \notin Packages
  /\ Official \subseteq Packages /\ Sha \in [Sources -> [0..MaxPushes -> Commits]]
  /\ MaxPushes \in Nat /\ MaxFaults \in Nat /\ MayCrash \in BOOLEAN

Turns == 0..MaxPushes

\* DevelInfo: for a base, the sources that are recorded and their commits.
Info == SUBSET (Bases \X Sources \X Commits)

Inodes == 1..(Cardinality(Procs) + 2)

VARIABLES
  installed, synced,  \* what libalpm finds in the local and in the sync database
  repo, files,        \* the database of the local repository, and its directory
  remote,             \* how often each source has changed
  name, data,         \* devel.toml and devel.toml.tmp: the file behind each, its contents
  pc, then, todo,     \* each process: its place, the place after a subroutine, its commands
  mem,                \* the DevelInfo it holds
  found, updates,     \* what its lookups have found: commits, bases with an update
  open,               \* its lookups that are not answered
  view,               \* what its handle of libalpm has read
  fd,                 \* the file it is writing
  doomed,             \* the packages it is about to remove from the repository
  faults,
  was,                \* the state of the sources when the command of a process began
  alone,              \* no two processes have run at the same time so far
  clash               \* two processes have had the temporary file open at the same time

world == <<installed, synced, remote>>
repository == <<repo, files>>
disk == <<name, data>>
lookups == <<found, updates, open>>
private == <<mem, lookups, view, fd, doomed>>
history == <<faults, was, alone, clash>>
vars == <<world, repository, disk, pc, then, todo, private, history>>

------------------------------------------------------------------------------
(* Helpers *)

Command(p) == Head(todo[p])

Recorded(info) == {t[1] : t \in info}

Of(info, bases) == {t \in info : t[1] \in bases}

BasesOf(packages) == {b \in Bases : Made[b] \cap packages # {}}

\* A handle reads the databases when it needs them for the first time: the installer and gendb
\* at once, the others when they have opened devel.toml or list the repository.
Seen(c) == [local |-> installed, repo |-> IF c.localRepo THEN synced ELSE {}]

Look(p) ==
  view' = IF Command(p).op \in {"build", "gendb"} THEN view
                                                  ELSE [view EXCEPT ![p] = Seen(Command(p))]

\* The answer to a lookup of a source.
Answer(x) == Sha[x][remote[x]]

Lookups(bases) == {l \in bases \X Sources : l[2] \in From[l[1]]}

Goto(p, label) == pc' = [pc EXCEPT ![p] = label]

\* A subroutine: load, save or refresh.
Enter(p, label, after) == Goto(p, label) /\ then' = [then EXCEPT ![p] = after]

Fault == faults < MaxFaults /\ faults' = faults + 1 /\ UNCHANGED <<was, alone, clash>>

\* The failure of a step, which ends the command.
Fails(p) == Goto(p, "failed") /\ Fault

Idle(p) == pc[p] \in {"idle", "ok", "failed"}

Init ==
  \E s \in Scenarios :
    /\ installed = s.installed /\ repo = s.repo /\ files = s.repo /\ synced = s.repo
    /\ remote = [x \in Sources |-> 0]
    /\ name = [toml |-> IF s.info = {} THEN 0 ELSE 1, tmp |-> 0]
    /\ data = [i \in Inodes |-> [whole |-> TRUE, info |-> IF i = 1 THEN s.info ELSE {}]]
    /\ pc = [p \in Procs |-> "idle"] /\ then = pc
    /\ todo = s.todo
    /\ mem = [p \in Procs |-> {}] /\ found = mem /\ updates = mem /\ open = mem /\ doomed = mem
    /\ view = [p \in Procs |-> [local |-> {}, repo |-> {}]]
    /\ fd = [p \in Procs |-> 0]
    /\ faults = 0 /\ was = [p \in Procs |-> remote] /\ alone = TRUE /\ clash = FALSE

\* Somebody pushes to a source, takes a push back, or deletes the branch.
Push(s) ==
  /\ \A x \in Sources \ {s} : remote[x] = 0
  /\ remote[s] < MaxPushes
  /\ remote' = [remote EXCEPT ![s] = @ + 1]
  /\ UNCHANGED <<installed, synced, repository, disk, pc, then, todo, private, history>>

\* Where a command begins, and where it goes on after the subroutine it begins with.
First == [check |-> "load", gendb |-> "load", remove |-> "load", build |-> "load",
          delete |-> "select", clean |-> "refresh", refresh |-> "refresh"]
After == [check |-> "list", gendb |-> "list", remove |-> "backend", build |-> "fetch",
          delete |-> "unlist", clean |-> "select", refresh |-> "ok"]

\* A command begins.
Begin(p) ==
  /\ Idle(p)
  /\ LET rest == IF pc[p] = "idle" THEN todo[p] ELSE Tail(todo[p])
     IN  /\ rest # <<>>
         /\ todo' = [todo EXCEPT ![p] = rest]
         /\ Enter(p, First[Head(rest).op], After[Head(rest).op])
         /\ open' = [open EXCEPT ![p] = IF Head(rest).op = "build" THEN Lookups({Head(rest).base})
                                        ELSE {}]
         /\ view' = [view EXCEPT ![p] = Seen(Head(rest))]
  /\ mem' = [mem EXCEPT ![p] = {}] /\ found' = [found EXCEPT ![p] = {}]
  /\ updates' = [updates EXCEPT ![p] = {}] /\ was' = [was EXCEPT ![p] = remote]
  /\ fd' = [fd EXCEPT ![p] = 0] /\ doomed' = [doomed EXCEPT ![p] = {}]
  /\ alone' = (alone /\ \A q \in Procs \ {p} : Idle(q))
  /\ UNCHANGED <<world, repository, disk, faults, clash>>

------------------------------------------------------------------------------
(* devel.toml: load_devel_info and save_devel_info *)

\* No file: nothing is known, and nothing is written back.
Load(p) ==
  /\ pc[p] = "load"
  /\ \/ name.toml = 0 /\ Goto(p, then[p]) /\ Look(p) /\ UNCHANGED mem
     \/ /\ name.toml # 0 /\ data[name.toml].whole
        /\ mem' = [mem EXCEPT ![p] = data[name.toml].info]
        /\ Goto(p, "retain")
        /\ UNCHANGED view
     \/ name.toml # 0 /\ ~data[name.toml].whole /\ Goto(p, "failed") /\ UNCHANGED <<mem, view>>
  /\ UNCHANGED <<world, repository, disk, then, todo, lookups, fd, doomed, history>>

\* Fault: with a local repository, only what it has is kept.
RetainListed(p) ==
  /\ pc[p] = "retain"
  /\ Look(p)
  /\ mem' = [mem EXCEPT ![p] = Of(@, BasesOf(IF Command(p).localRepo THEN view'[p].repo
                                                                    ELSE view'[p].local))]
  /\ Goto(p, "create")
  /\ UNCHANGED <<world, repository, disk, then, todo, lookups, fd, doomed, history>>

\* Bases of which nothing is installed nor in a local repository are dropped, and the file
\* is written back.
Retain(p) ==
  /\ pc[p] = "retain"
  /\ Look(p)
  /\ mem' = [mem EXCEPT ![p] = Of(@, BasesOf(view'[p].local \cup view'[p].repo))]
  /\ Goto(p, "create")
  /\ UNCHANGED <<world, repository, disk, then, todo, lookups, fd, doomed, history>>

Unused == CHOOSE i \in Inodes : i \notin {name.toml, name.tmp} \cup {fd[q] : q \in Procs}

\* Fault: devel.toml itself is opened and truncated.
CreateInPlace(p) ==
  /\ pc[p] = "create"
  /\ LET i == IF name.toml = 0 THEN Unused ELSE name.toml IN
       /\ fd' = [fd EXCEPT ![p] = i]
       /\ name' = [toml |-> i, tmp |-> i]
       /\ data' = [data EXCEPT ![i] = [whole |-> TRUE, info |-> {}]]
       /\ UNCHANGED clash
  /\ Goto(p, "write")
  /\ UNCHANGED <<world, repository, then, todo, mem, lookups, view, doomed, faults, was, alone>>

\* Fault: a file of its own is created, and whatever devel.toml.tmp is there is renamed.
CreateElsewhere(p) ==
  /\ pc[p] = "create"
  /\ fd' = [fd EXCEPT ![p] = Unused]
  /\ name' = [name EXCEPT !.tmp = IF @ = 0 THEN Unused ELSE @]
  /\ data' = [data EXCEPT ![Unused] = [whole |-> TRUE, info |-> {}]]
  /\ Goto(p, "write")
  /\ UNCHANGED <<world, repository, then, todo, mem, lookups, view, doomed, history>>

\* OpenOptions: create and truncate, whoever has created the file.
Create(p) ==
  /\ pc[p] = "create"
  /\ LET i == IF name.tmp = 0 THEN Unused ELSE name.tmp IN
       /\ fd' = [fd EXCEPT ![p] = i]
       /\ name' = [name EXCEPT !.tmp = i]
       /\ data' = [data EXCEPT ![i] = [whole |-> TRUE, info |-> {}]]
       /\ clash' = (clash \/ \E q \in Procs \ {p} : fd[q] = i)
  /\ Goto(p, "write")
  /\ UNCHANGED <<world, repository, then, todo, mem, lookups, view, doomed, faults, was, alone>>

\* What was written into the same file before is overwritten, perhaps not up to its end.
Write(p) ==
  /\ pc[p] = "write"
  /\ \E whole \in {TRUE} \cup (IF data[fd[p]].info \in {{}, mem[p]} THEN {} ELSE {FALSE}) :
       data' = [data EXCEPT ![fd[p]] = [whole |-> whole, info |-> mem[p]]]
  /\ Goto(p, "rename")
  /\ UNCHANGED <<world, repository, name, then, todo, private, history>>

\* The file is renamed by its name: it need not be the one that was written.
Rename(p) ==
  /\ pc[p] = "rename"
  /\ fd' = [fd EXCEPT ![p] = 0]
  /\ IF name.tmp = 0
       THEN Goto(p, "failed") /\ UNCHANGED name
       ELSE Goto(p, then[p]) /\ name' = [toml |-> name.tmp, tmp |-> 0]
  /\ UNCHANGED <<world, repository, data, then, todo, mem, lookups, view, doomed, history>>

------------------------------------------------------------------------------
(* Lookups: ls_remote and its timeout, in fetch_devel_info and has_update *)

\* The bases of which every installed package is ignored.
Ignored(p) ==
  {b \in Bases : LET here == Made[b] \cap view[p].local IN
     here # {} /\ (here \subseteq Command(p).ignore \/ here \subseteq Command(p).ignoreDevel)}

\* possible_devel_updates: a base is looked up by its own name, in the local repository if there
\* is one, else in the sync databases, and what they have is not from the AUR.
Checked(p) ==
  {b \in Recorded(mem[p]) \ Ignored(p) :
     IF Command(p).localRepo THEN NameOf[b] \in view[p].repo ELSE NameOf[b] \notin Official}

\* split_repo_aur_pkgs: the installed packages that are from the AUR.
Foreign(p) ==
  {m \in view[p].local \ Official : Command(p).localRepo => m \in view[p].repo}

\* What is looked up: the records for an update, or the sources of the bases that are
\* installed and have none.
List(p) ==
  /\ pc[p] = "list"
  /\ open' = [open EXCEPT ![p] =
                IF Command(p).op = "check"
                  THEN {l \in {<<t[1], t[2]>> : t \in Of(mem[p], Checked(p))} :
                          l[2] \notin Command(p).ignoreSource}
                  ELSE Lookups(BasesOf(Foreign(p)) \ Recorded(mem[p]))]
  /\ Goto(p, IF Command(p).op = "check" THEN "ask" ELSE "fetch")
  /\ UNCHANGED <<world, repository, disk, then, todo, mem, found, updates, view, fd, doomed,
                 history>>

\* The answers come in any order.  One that fails is printed and left out of the record.
Fetch(p) ==
  /\ pc[p] = "fetch"
  /\ \E l \in open[p] :
       /\ open' = [open EXCEPT ![p] = @ \ {l}]
       /\ \/ found' = [found EXCEPT ![p] = @ \cup {<<l[1], l[2], Answer(l[2])>>}]
             /\ UNCHANGED history
          \/ Fault /\ UNCHANGED found
  /\ UNCHANGED <<world, repository, disk, pc, then, todo, mem, updates, view, fd, doomed>>

\* gendb adds what it has found to the records, the installer goes on to build.
Fetched(p) ==
  /\ pc[p] = "fetch" /\ open[p] = {}
  /\ IF Command(p).op = "gendb"
       THEN mem' = [mem EXCEPT ![p] = @ \cup found[p]] /\ Enter(p, "create", "ok")
       ELSE Goto(p, "make") /\ UNCHANGED <<mem, then>>
  /\ UNCHANGED <<world, repository, disk, todo, lookups, view, fd, doomed, history>>

\* Fault: the first answer decides, whatever it is.
AskFirst(p) ==
  /\ pc[p] = "ask"
  /\ \E l \in open[p] :
       /\ updates' = [updates EXCEPT ![p] =
                        @ \cup (IF <<l[1], l[2], Answer(l[2])>> \in mem[p] THEN {} ELSE {l[1]})]
       /\ open' = [open EXCEPT ![p] = {m \in @ : m[1] # l[1]}]
  /\ UNCHANGED <<world, repository, disk, pc, then, todo, mem, found, view, fd, doomed, history>>

\* pkg_has_update: the first answer that is not the commit on record decides (select_ok), be it
\* empty; one that is the same and a lookup that fails are alike.
Ask(p) ==
  /\ pc[p] = "ask"
  /\ \E l \in open[p] :
       \/ /\ <<l[1], l[2], Answer(l[2])>> \notin mem[p]
          /\ updates' = [updates EXCEPT ![p] = @ \cup {l[1]}]
          /\ open' = [open EXCEPT ![p] = {m \in @ : m[1] # l[1]}]
          /\ UNCHANGED history
       \/ /\ <<l[1], l[2], Answer(l[2])>> \in mem[p]
          /\ open' = [open EXCEPT ![p] = @ \ {l}]
          /\ UNCHANGED <<updates, history>>
       \/ /\ Fault
          /\ open' = [open EXCEPT ![p] = @ \ {l}]
          /\ UNCHANGED updates
  /\ UNCHANGED <<world, repository, disk, pc, then, todo, mem, found, view, fd, doomed>>

Asked(p) ==
  /\ pc[p] = "ask" /\ open[p] = {}
  /\ Goto(p, "ok")
  /\ UNCHANGED <<world, repository, disk, then, todo, private, history>>

------------------------------------------------------------------------------
(* Removing and building packages *)

\* remove.rs: pacman, then the records of the bases of the targets.
Remove(p) ==
  /\ pc[p] = "backend"
  /\ \/ /\ installed' = IF Command(p).print THEN installed ELSE installed \ Command(p).pkgs
        /\ mem' = [mem EXCEPT ![p] =
                     Of(@, Bases \ BasesOf(Command(p).pkgs \cap view[p].local))]
        /\ Enter(p, "create", "ok")
        /\ UNCHANGED history
     \/ Fails(p) /\ UNCHANGED <<installed, mem, then>>
  /\ UNCHANGED <<synced, remote, repository, disk, todo, lookups, view, fd, doomed>>

\* makepkg, which puts the packages into the directory of the repository.
Make(p) ==
  /\ pc[p] = "make"
  /\ \/ /\ IF Command(p).localRepo
             THEN files' = files \cup Made[Command(p).base] /\ Goto(p, "add")
             ELSE UNCHANGED files /\ Goto(p, "install")
        /\ UNCHANGED history
     \/ Fails(p) /\ UNCHANGED files
  /\ UNCHANGED <<world, repo, disk, then, todo, private>>

RepoAdd(p) ==
  /\ pc[p] = "add"
  /\ \/ repo' = repo \cup Made[Command(p).base] /\ Enter(p, "refresh", "added") /\ UNCHANGED history
     \/ Fails(p) /\ UNCHANGED <<repo, then>>
  /\ UNCHANGED <<world, files, disk, todo, private>>

\* The record is replaced by what the lookups have found, or erased when they failed.
Record(p) == mem' = [mem EXCEPT ![p] = Of(@, Bases \ {Command(p).base}) \cup found[p]]

RecordAdded(p) ==
  /\ pc[p] = "added"
  /\ Record(p)
  /\ Enter(p, "create", "install")
  /\ UNCHANGED <<world, repository, disk, todo, lookups, view, fd, doomed, history>>

Install(p) ==
  /\ pc[p] = "install"
  /\ \/ /\ installed' = installed \cup Made[Command(p).base]
        /\ IF Command(p).localRepo THEN UNCHANGED mem ELSE Record(p)
        /\ Enter(p, "create", "ok")
        /\ UNCHANGED history
     \/ Fails(p) /\ UNCHANGED <<installed, mem, then>>
  /\ UNCHANGED <<synced, remote, repository, disk, todo, lookups, view, fd, doomed>>

------------------------------------------------------------------------------
(* The local repository: refresh, delete, clean *)

\* The sync database is updated by a bah of root, whose exit status nobody looks at.
Refresh(p) ==
  /\ pc[p] = "refresh"
  /\ \/ synced' = repo /\ UNCHANGED history
     \/ Fault /\ UNCHANGED synced
  /\ Goto(p, then[p])
  /\ UNCHANGED <<installed, remote, repository, disk, then, todo, private>>

\* delete: the targets that the repository has.  clean: what is not installed; the databases
\* are read after the refresh, and the user has to agree.
Select(p) ==
  /\ pc[p] = "select"
  /\ Look(p)
  /\ IF Command(p).op = "delete"
       THEN /\ doomed' = [doomed EXCEPT ![p] = Command(p).pkgs \cap view'[p].repo]
            /\ IF doomed'[p] = {} THEN Enter(p, "refresh", "uninstall")
                                  ELSE Enter(p, "unlist", "uninstall")
       ELSE /\ doomed' = [doomed EXCEPT ![p] = view'[p].repo \ view'[p].local]
            /\ IF doomed'[p] = {} THEN Enter(p, "ok", "ok")
                                  ELSE Enter(p, "unlist", "ok") \/ Enter(p, "ok", "ok")
  /\ UNCHANGED <<world, repository, disk, todo, mem, lookups, fd, history>>

\* Fault: the status of repo-remove is not looked at.
RepoRemoveBlindly(p) ==
  /\ pc[p] = "unlist"
  /\ \/ repo' = repo \ doomed[p] /\ UNCHANGED history
     \/ Fault /\ UNCHANGED repo
  /\ Goto(p, "rmfiles")
  /\ UNCHANGED <<world, files, disk, then, todo, private>>

\* repo-remove fails if it does not find a package.
RepoRemove(p) ==
  /\ pc[p] = "unlist"
  /\ \/ /\ doomed[p] \subseteq repo
        /\ repo' = repo \ doomed[p]
        /\ Goto(p, "rmfiles")
        /\ UNCHANGED history
     \/ /\ ~(doomed[p] \subseteq repo)
        /\ repo' \in {repo, repo \ doomed[p]}
        /\ Goto(p, "failed")
        /\ UNCHANGED history
     \/ Fails(p) /\ UNCHANGED repo
  /\ UNCHANGED <<world, files, disk, then, todo, private>>

\* Fault: the sync database is not updated again.
RemoveFilesOnly(p) ==
  /\ pc[p] = "rmfiles"
  /\ files' = files \ doomed[p]
  /\ Goto(p, then[p])
  /\ UNCHANGED <<world, repo, disk, then, todo, private, history>>

\* delete removes the files that it finds; clean the names that the database has, and rm
\* fails for one that is gone.
RemoveFiles(p) ==
  /\ pc[p] = "rmfiles"
  /\ \/ /\ files' = files \ doomed[p]
        /\ IF Command(p).op = "delete" \/ doomed[p] \subseteq files THEN Goto(p, "refresh")
                                                              ELSE Goto(p, "failed")
        /\ UNCHANGED history
     \/ Fails(p) /\ UNCHANGED files
  /\ UNCHANGED <<world, repo, disk, then, todo, private>>

\* -Ldd: the targets that are installed are removed as well.
Uninstall(p) ==
  /\ pc[p] = "uninstall"
  /\ \/ /\ installed' = IF Command(p).twice THEN installed \ Command(p).pkgs ELSE installed
        /\ Goto(p, "ok")
        /\ UNCHANGED history
     \/ Command(p).twice /\ Fails(p) /\ UNCHANGED installed
  /\ UNCHANGED <<synced, remote, repository, disk, then, todo, private>>

------------------------------------------------------------------------------
(* The processes *)

\* A process is killed; the command is over and its file is closed where it is.
Crash(p) ==
  /\ MayCrash
  /\ ~Idle(p)
  /\ Fails(p)
  /\ fd' = [fd EXCEPT ![p] = 0]
  /\ UNCHANGED <<world, repository, disk, then, todo, mem, lookups, view, doomed>>

Step(p) ==
  \/ Begin(p) \/ Load(p) \/ Retain(p) \/ Create(p) \/ Write(p) \/ Rename(p)
  \/ List(p) \/ Fetch(p) \/ Fetched(p) \/ Ask(p) \/ Asked(p)
  \/ Remove(p) \/ Make(p) \/ RepoAdd(p) \/ RecordAdded(p) \/ Install(p)
  \/ Refresh(p) \/ Select(p) \/ RepoRemove(p) \/ RemoveFiles(p) \/ Uninstall(p)

Over == \A p \in Procs : Idle(p) /\ Len(todo[p]) <= (IF pc[p] = "idle" THEN 0 ELSE 1)

Terminated == Over /\ UNCHANGED vars

Next ==
  \/ \E p \in Procs : Step(p) \/ Crash(p)
  \/ \E s \in Sources : Push(s)
  \/ Terminated

Spec == Init /\ [][Next]_vars

------------------------------------------------------------------------------
(* Properties *)

Labels ==
  {"idle", "ok", "failed", "load", "retain", "create", "write", "rename", "list", "fetch", "ask",
   "backend", "make", "add", "added", "install", "refresh", "select", "unlist", "rmfiles",
   "uninstall"}

\* Every variable has its type.  A process that writes has a file open, and it is the one
\* of devel.toml.tmp unless two processes have clashed (save_devel_info).
TypeOK ==
  /\ installed \subseteq Packages /\ synced \subseteq Packages
  /\ repo \subseteq Packages /\ files \subseteq Packages
  /\ remote \in [Sources -> Turns] /\ was \in [Procs -> [Sources -> Turns]]
  /\ name \in [toml : Inodes \cup {0}, tmp : Inodes \cup {0}]
  /\ DOMAIN data = Inodes /\ \A i \in Inodes : data[i].whole \in BOOLEAN
  /\ pc \in [Procs -> Labels] /\ then \in [Procs -> Labels]
  /\ \A p \in Procs :
       /\ \A t \in mem[p] \cup found[p] : t \in Bases \X Sources \X Commits
       /\ updates[p] \subseteq Bases /\ open[p] \subseteq Bases \X Sources
       /\ doomed[p] \subseteq Packages
       /\ fd[p] \in Inodes \cup {0}
       /\ pc[p] \in {"write", "rename"} => fd[p] # 0 /\ (clash \/ fd[p] = name.tmp)
  /\ faults \in 0..MaxFaults /\ alone \in BOOLEAN /\ clash \in BOOLEAN

Published == IF name.toml = 0 THEN {} ELSE data[name.toml].info

\* devel.toml is never half-written and nobody writes to it in place, whichever process is
\* killed at whichever step, as long as no two processes save at the same time.
PublishedWhole ==
  ~clash /\ name.toml # 0 => data[name.toml].whole /\ \A p \in Procs : fd[p] # name.toml

\* The bases whose records a process may change.
Touched(p) ==
  CASE Command(p).op = "build" -> {Command(p).base}
    [] Command(p).op = "remove" -> BasesOf(Command(p).pkgs)
    [] OTHER -> {}

\* While processes do not overlap, the record of a base of which something is installed is
\* changed by nothing but building the base or removing a package of it: checks, gendb and
\* the repository commands write the file back as it was.
KeepsRecords ==
  [][alone' => \A t \in Published :
       \/ t \in Published' \/ t[1] \notin BasesOf(installed)
       \/ \E p \in Procs : pc[p] = "rename" /\ t[1] \in Touched(p)]_vars

\* What a source has answered since the command of a process began.
Since(p, x) == {Sha[x][n] : n \in was[p][x]..remote[x]}

\* A base that is reported has a source that did not answer the commit on record.  And if no
\* lookup failed, a base is reported when a source of it has answered anything but this commit
\* since the check began, in whatever order the answers came.  Not meant are a source and a base
\* that the user ignores, a base that has the name of a package of the distribution and, with a
\* local repository, a base that has not the name of a package in it: a split base of which no
\* package is called like the base is then never checked.
UpdatesFound ==
  \A p \in Procs : pc[p] = "ok" /\ Command(p).op = "check" =>
    /\ \A b \in updates[p] : \E t \in mem[p] : t[1] = b /\ Since(p, t[2]) # {t[3]}
    /\ faults = 0 => \A t \in mem[p] :
         /\ t[3] \notin Since(p, t[2])
         /\ t[2] \notin Command(p).ignoreSource
         /\ t[1] \notin Ignored(p)
         /\ ~Command(p).localRepo => NameOf[t[1]] \notin Official
         /\ Command(p).localRepo => NameOf[t[1]] \in view[p].repo
         => t[1] \in updates[p]

\* A package that the repository lists has its file in the directory, after any failure and
\* any crash, while processes do not overlap: files come first and go last.
RepoHasFiles == alone => repo \subseteq files

\* When nothing is running and no command failed, libalpm sees the repository as it is.
SyncedAtRest == alone /\ faults = 0 /\ (\A p \in Procs : Idle(p)) => synced = repo

==============================================================================
