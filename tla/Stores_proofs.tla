---------------------------- MODULE Stores_proofs ----------------------------
(***************************************************************************)
(* Theorems about what bah keeps on disk, for any number of processes,     *)
(* bases, packages, sources, commits and failures, and for any commands.   *)
(***************************************************************************)
EXTENDS Stores, SequenceTheorems, FiniteSetTheorems, FunctionTheorems, TLAPS

-----------------------------------------------------------------------------
(* The invariants *)

View == [local: SUBSET Packages, repo: SUBSET Packages]

\* The shape of every variable.
WorldTyped ==
  /\ installed \in SUBSET Packages /\ synced \in SUBSET Packages
  /\ repo \in SUBSET Packages /\ files \in SUBSET Packages
  /\ remote \in [Sources -> Turns]

DiskTyped ==
  /\ name \in [toml: Inodes \cup {0}, tmp: Inodes \cup {0}]
  /\ data \in [Inodes -> [whole: BOOLEAN, info: Info]]
  /\ fd \in [Procs -> Inodes \cup {0}]

ControlTyped ==
  /\ pc \in [Procs -> Labels] /\ then \in [Procs -> Labels]
  /\ todo \in [Procs -> Seq(Requests)]

MemoryTyped ==
  /\ mem \in [Procs -> Info] /\ found \in [Procs -> Info]
  /\ updates \in [Procs -> SUBSET Bases] /\ open \in [Procs -> SUBSET (Bases \X Sources)]
  /\ doomed \in [Procs -> SUBSET Packages] /\ view \in [Procs -> View]

HistoryTyped ==
  /\ was \in [Procs -> [Sources -> Turns]]
  /\ faults \in 0..MaxFaults /\ alone \in BOOLEAN /\ clash \in BOOLEAN

Typed == WorldTyped /\ DiskTyped /\ ControlTyped /\ MemoryTyped /\ HistoryTyped

\* Where a process can be with each command, and where it goes on after a subroutine.
PlacesOf(op, at, next) ==
  \/ /\ op = "check" /\ next = "list"
     /\ at \in {"load", "retain", "create", "write", "rename", "list", "ask", "ok", "failed"}
  \/ /\ op = "gendb" /\ next = "list"
     /\ at \in {"load", "retain", "create", "write", "rename", "list", "fetch", "failed"}
  \/ op = "gendb" /\ next = "ok" /\ at \in {"create", "write", "rename", "ok", "failed"}
  \/ /\ op = "remove" /\ next = "backend"
     /\ at \in {"load", "retain", "create", "write", "rename", "backend", "failed"}
  \/ op = "remove" /\ next = "ok" /\ at \in {"create", "write", "rename", "ok", "failed"}
  \/ /\ op = "build" /\ next = "fetch"
     /\ at \in {"load", "retain", "create", "write", "rename", "fetch", "make", "add", "install", "failed"}
  \/ op = "build" /\ next = "added" /\ at \in {"refresh", "added", "failed"}
  \/ op = "build" /\ next = "install" /\ at \in {"create", "write", "rename", "install", "failed"}
  \/ op = "build" /\ next = "ok" /\ at \in {"create", "write", "rename", "ok", "failed"}
  \/ op = "delete" /\ next = "unlist" /\ at \in {"select", "failed"}
  \/ /\ op = "delete" /\ next = "uninstall"
     /\ at \in {"unlist", "rmfiles", "refresh", "uninstall", "ok", "failed"}
  \/ op = "clean" /\ next = "select" /\ at \in {"refresh", "select", "failed"}
  \/ op = "clean" /\ next = "ok" /\ at \in {"unlist", "rmfiles", "refresh", "ok", "failed"}
  \/ op = "refresh" /\ next = "ok" /\ at \in {"refresh", "ok", "failed"}

\* A process that has begun has a command, and is at a place of it.
Places ==
  \A p \in Procs : pc[p] # "idle" => todo[p] # <<>> /\ PlacesOf(Command(p).op, pc[p], then[p])

\* Who saves has the file open; without a clash only one process does, and the file it writes
\* is the one that has the name devel.toml.tmp.
Writers ==
  /\ \A p \in Procs : fd[p] # 0 <=> pc[p] \in {"write", "rename"}
  /\ ~clash => \A p, q \in Procs : p # q => fd[p] = 0 \/ fd[q] = 0
  /\ ~clash => \A p \in Procs : fd[p] # 0 => fd[p] = name.tmp

\* Without a clash the file that a process writes is empty until it holds what the process
\* has in memory, and devel.toml is whole and another file.
Contents ==
  ~clash =>
    /\ name.toml # 0 => name.toml # name.tmp /\ data[name.toml].whole
    /\ \A p \in Procs :
         /\ pc[p] = "write" => data[fd[p]].whole /\ data[fd[p]].info = {}
         /\ pc[p] = "rename" => data[fd[p]].whole /\ data[fd[p]].info = mem[p]

\* While processes do not overlap at most one is at work.
OneAtWork ==
  alone => /\ \A p, q \in Procs : p # q => Idle(p) \/ Idle(q)
           /\ ~clash

\* What the process at work relies on between two of its steps: the files of what it lists,
\* and that nothing it removes from the directory is still listed.
RepoPlaces ==
  alone =>
    /\ repo \subseteq files
    /\ \A p \in Procs :
         /\ pc[p] = "add" => Made[Command(p).base] \subseteq files
         /\ pc[p] = "rmfiles" => doomed[p] \cap repo = {}

\* While nothing fails the sync database is behind only where a refresh follows, and what is
\* to be removed is there.
SyncPlaces ==
  alone /\ faults = 0 =>
    /\ (\A p \in Procs : pc[p] \notin {"refresh", "rmfiles"}) => synced = repo
    /\ \A p \in Procs :
         /\ pc[p] = "unlist" => doomed[p] \subseteq repo
         /\ pc[p] = "rmfiles" => doomed[p] \subseteq files

\* The records know of one commit for each source of a base.
RecordsOf(info) == \A t, u \in info : t[1] = u[1] /\ t[2] = u[2] => t[3] = u[3]

Records ==
  /\ \A i \in Inodes : RecordsOf(data[i].info)
  /\ \A p \in Procs :
       /\ RecordsOf(mem[p]) /\ RecordsOf(found[p])
       /\ \A s \in Sources : was[p][s] <= remote[s]
       /\ \A t \in found[p] : <<t[1], t[2]>> \notin open[p]

\* What a process has found belongs to the base it builds, or to bases without a record.
FoundAt(p) ==
  /\ Command(p).op = "check" => found[p] = {}
  /\ Command(p).op = "build" => /\ \A l \in open[p] : l[1] = Command(p).base
                                /\ \A t \in found[p] : t[1] = Command(p).base
  /\ Command(p).op = "gendb" /\ then[p] = "list" =>
       /\ pc[p] \notin {"fetch", "failed"} => found[p] = {}
       /\ pc[p] = "fetch" => /\ \A l \in open[p] : l[1] \notin Recorded(mem[p])
                             /\ \A t \in found[p] : t[1] \notin Recorded(mem[p])

FoundPlaces == \A p \in Procs : pc[p] # "idle" => FoundAt(p)

\* The records that a check has to report: looked at, and with other answers ever since it began.
Behind(p) ==
  {t \in mem[p] : /\ t[1] \in Checked(p) /\ t[2] \notin Command(p).ignoreSource
                  /\ t[3] \notin Since(p, t[2])}

\* A check compares each record with the answer to its lookup.
CheckAt(p) ==
  /\ pc[p] \in {"load", "retain", "create", "write", "rename", "list"} => updates[p] = {}
  /\ \A b \in updates[p] : \E t \in mem[p] : t[1] = b /\ Since(p, t[2]) # {t[3]}
  /\ pc[p] = "ask" => \A l \in open[p] : \E t \in mem[p] : t[1] = l[1] /\ t[2] = l[2]
  /\ pc[p] = "ok" => open[p] = {}
  /\ pc[p] \in {"ask", "ok"} /\ faults = 0 => \A t \in Behind(p) :
       t[1] \in updates[p] \/ <<t[1], t[2]>> \in open[p]

CheckPlaces == \A p \in Procs : pc[p] # "idle" /\ Command(p).op = "check" => CheckAt(p)

\* What a process is about to write has the records that devel.toml has, except for bases
\* that are gone and for those its command is about.
Covers(p) ==
  \A t \in Published : t \in mem[p] \/ t[1] \notin BasesOf(installed) \/ t[1] \in Touched(p)

\* From where a process goes on to write what it holds.
Keeping(p) ==
  \/ pc[p] \in {"create", "write", "rename", "list", "fetch", "ask", "backend", "make", "add",
                "added", "install"}
  \/ pc[p] = "refresh" /\ then[p] = "added"

KeepAt(p) ==
  /\ pc[p] \in {"load", "retain"} /\ Command(p).op \in {"build", "gendb"} => view[p].local = installed
  /\ pc[p] = "retain" => mem[p] = Published
  /\ Keeping(p) => Covers(p)

KeepPlaces == alone => \A p \in Procs : KeepAt(p)

-----------------------------------------------------------------------------
(* Helpers *)

\* There is no file number 0, and there are two more numbers than processes.
LEMMA InodesFinite ==
  /\ Cardinality(Procs) \in Nat /\ Inodes \subseteq Nat \ {0}
  /\ IsFiniteSet(Inodes) /\ Cardinality(Inodes) = Cardinality(Procs) + 2
<1>1. Cardinality(Procs) \in Nat
  BY FS_CardinalityType, StoresAssumption
<1>2. IsFiniteSet(Inodes) /\ Cardinality(Inodes) = Cardinality(Procs) + 2
  BY <1>1, FS_Interval DEF Inodes
<1> QED
  BY <1>1, <1>2 DEF Inodes

\* A pair of inodes is at most two.
LEMMA PairSmall ==
  ASSUME NEW x, NEW y
  PROVE  IsFiniteSet({x, y}) /\ Cardinality({x, y}) <= 2
<1>1. IsFiniteSet({x}) /\ Cardinality({x}) = 1
  BY FS_Singleton
<1>2. /\ IsFiniteSet({x} \cup {y})
      /\ Cardinality({x} \cup {y}) = IF y \in {x} THEN Cardinality({x}) ELSE Cardinality({x}) + 1
  BY <1>1, FS_AddElement
<1>3. {x} \cup {y} = {x, y}
  OBVIOUS
<1>4. Cardinality({x} \cup {y}) <= 2
  BY <1>1, <1>2
<1> QED
  BY <1>2, <1>3, <1>4

\* A process that creates a file finds a number that nobody uses.
LEMMA UnusedExists ==
  ASSUME Typed, Writers, NEW p \in Procs, pc[p] = "create"
  PROVE  /\ Unused \in Inodes /\ Unused # name.toml /\ Unused # name.tmp
         /\ \A q \in Procs : fd[q] # Unused
<1> DEFINE others == Procs \ {p}
           open_ == {fd[q] : q \in others}
           used == {name.toml, name.tmp} \cup open_
<1>1. IsFiniteSet(others) /\ Cardinality(others) = Cardinality(Procs) - 1
  BY FS_RemoveElement, StoresAssumption
<1>2. IsFiniteSet(open_) /\ Cardinality(open_) <= Cardinality(others)
  <2>1. [q \in others |-> fd[q]] \in Surjection(others, open_)
    BY DEF Surjection
  <2> QED
    BY <1>1, <2>1, FS_Surjection
<1>3. IsFiniteSet({name.toml, name.tmp}) /\ Cardinality({name.toml, name.tmp}) <= 2
  BY PairSmall
<1>4. IsFiniteSet(used) /\ Cardinality(used) < Cardinality(Inodes)
  <2> DEFINE both == {name.toml, name.tmp} \cap open_
  <2>1. IsFiniteSet(both) /\ Cardinality(both) \in Nat
    BY <1>3, FS_Intersection, FS_CardinalityType
  <2>2. Cardinality(used) = Cardinality({name.toml, name.tmp}) + Cardinality(open_) - Cardinality(both)
        /\ IsFiniteSet(used)
    BY <1>2, <1>3, FS_Union
  <2>3. Cardinality({name.toml, name.tmp}) \in Nat /\ Cardinality(open_) \in Nat
    BY <1>2, <1>3, FS_CardinalityType
  <2> HIDE DEF both, used, open_, others
  <2> QED
    BY <1>1, <1>2, <1>3, <2>1, <2>2, <2>3, InodesFinite
<1>5. \E i \in Inodes : i \notin used
  <2> SUFFICES ASSUME Inodes \subseteq used PROVE FALSE
    OBVIOUS
  <2>1. Cardinality(Inodes) <= Cardinality(used)
    BY <1>4, FS_Subset
  <2> HIDE DEF used
  <2> QED
    BY <1>4, <2>1, InodesFinite, FS_CardinalityType
<1>6. fd[p] = 0 /\ 0 \notin Inodes
  BY InodesFinite DEF Writers, Typed, DiskTyped
<1>7. \E i \in Inodes : i \notin {name.toml, name.tmp} \cup {fd[q] : q \in Procs}
  BY <1>5, <1>6
<1>8. Unused \in Inodes /\ Unused \notin {name.toml, name.tmp} \cup {fd[q] : q \in Procs}
  BY <1>7 DEF Unused
<1> QED
  BY <1>8

\* The command of a process that has begun.
LEMMA CommandType ==
  ASSUME Typed, Places, NEW p \in Procs, pc[p] # "idle"
  PROVE  /\ Command(p).base \in Bases /\ Command(p).pkgs \in SUBSET Packages
         /\ Made[Command(p).base] \in SUBSET Packages
<1>1. todo[p] \in Seq(Requests) /\ todo[p] # <<>>
  BY DEF Typed, ControlTyped, Places
<1>2. Command(p) \in Requests
  BY <1>1, HeadTailProperties DEF Command
<1> QED
  BY <1>2, StoresAssumption DEF Requests

\* What is looked up and kept of the records are records and bases.
LEMMA HelperTypes ==
  /\ {} \in Info
  /\ \A packages : BasesOf(packages) \subseteq Bases
  /\ \A bases \in SUBSET Bases : Lookups(bases) \in SUBSET (Bases \X Sources)
  /\ \A info \in Info : \A bases : Of(info, bases) \in Info
  /\ \A info \in Info : Recorded(info) \in SUBSET Bases
  /\ \A info, more \in Info : info \cup more \in Info
  /\ \A info \in Info : \A bases : {<<t[1], t[2]>> : t \in Of(info, bases)} \in SUBSET (Bases \X Sources)
BY DEF BasesOf, Lookups, Of, Recorded, Info

\* A record made from an answer.
LEMMA AnswerType ==
  ASSUME WorldTyped, NEW info \in Info, NEW l \in Bases \X Sources
  PROVE  info \cup {<<l[1], l[2], Answer(l[2])>>} \in Info
BY StoresAssumption DEF WorldTyped, Info, Answer, Turns

\* What a handle reads.
LEMMA SeenType == ASSUME WorldTyped, NEW c PROVE Seen(c) \in View
BY DEF WorldTyped, Seen, View

LEMMA LookType ==
  ASSUME WorldTyped, MemoryTyped, NEW p \in Procs, Look(p)
  PROVE  view' \in [Procs -> View] /\ view'[p] \in View
BY SeenType DEF MemoryTyped, Look

\* A command begins at one of its places.
LEMMA BeginPlaces ==
  ASSUME NEW op \in {"check", "gendb", "remove", "build", "delete", "clean", "refresh"}
  PROVE  /\ PlacesOf(op, First[op], After[op])
         /\ First[op] \in {"load", "select", "refresh"} /\ After[op] \in Labels
BY DEF PlacesOf, First, After, Labels

\* What a command begins with.
LEMMA BeginFacts ==
  ASSUME Typed, NEW p \in Procs, Begin(p)
  PROVE  /\ todo' = [todo EXCEPT ![p] = todo'[p]] /\ todo'[p] \in Seq(Requests) /\ todo'[p] # <<>>
         /\ Command(p)' \in Requests
         /\ pc' = [pc EXCEPT ![p] = pc'[p]] /\ then' = [then EXCEPT ![p] = then'[p]]
         /\ pc'[p] = First[Command(p)'.op] /\ then'[p] = After[Command(p)'.op]
         /\ PlacesOf(Command(p)'.op, pc'[p], then'[p]) /\ pc'[p] \in {"load", "select", "refresh"}
         /\ then'[p] \in Labels
         /\ open' = [open EXCEPT ![p] = open'[p]]
         /\ open'[p] = IF Command(p)'.op = "build" THEN Lookups({Command(p)'.base}) ELSE {}
         /\ view' = [view EXCEPT ![p] = Seen(Command(p)')]
<1> DEFINE rest == IF pc[p] = "idle" THEN todo[p] ELSE Tail(todo[p])
<1>1. rest # <<>> /\ todo' = [todo EXCEPT ![p] = rest]
  BY DEF Begin
<1>2. todo[p] \in Seq(Requests) /\ todo \in [Procs -> Seq(Requests)]
  BY DEF Typed, ControlTyped
<1>3. rest \in Seq(Requests) /\ todo'[p] = rest
  <2>1. CASE todo[p] = <<>>
    <3>1. CASE pc[p] = "idle"
      BY <1>1, <1>2, <3>1
    <3>2. CASE pc[p] # "idle"
      <4>1. Tail(todo[p]) = <<>>
        BY <2>1
      <4> QED
        BY <1>1, <3>2, <4>1
    <3> QED
      BY <3>1, <3>2
  <2>2. CASE todo[p] # <<>>
    BY <1>1, <1>2, <2>2, HeadTailProperties
  <2> QED
    BY <2>1, <2>2
<1>4. Command(p)' = Head(rest) /\ Head(rest) \in Requests
  BY <1>1, <1>3, HeadTailProperties DEF Command
<1> DEFINE c == Head(rest)
<1>5. /\ pc' = [pc EXCEPT ![p] = First[c.op]] /\ then' = [then EXCEPT ![p] = After[c.op]]
      /\ open' = [open EXCEPT ![p] = IF c.op = "build" THEN Lookups({c.base}) ELSE {}]
      /\ view' = [view EXCEPT ![p] = Seen(c)]
  BY DEF Begin, Enter, Goto
<1>6. /\ pc \in [Procs -> Labels] /\ then \in [Procs -> Labels] /\ DOMAIN open = Procs
  BY DEF Typed, ControlTyped, MemoryTyped
<1>7. c.op \in {"check", "gendb", "remove", "build", "delete", "clean", "refresh"}
  BY <1>4 DEF Requests
<1> HIDE DEF c, rest
<1>8. PlacesOf(c.op, First[c.op], After[c.op]) /\ First[c.op] \in {"load", "select", "refresh"}
      /\ After[c.op] \in Labels
  BY <1>7, BeginPlaces
<1>9. Command(p)' = c /\ c \in Requests
  BY <1>4 DEF c
<1> QED
  BY <1>1, <1>3, <1>5, <1>6, <1>8, <1>9

\* A step keeps every variable in its type.
LEMMA WorldStep ==
  ASSUME Typed, Places, NEW p \in Procs, Step(p) \/ Crash(p)
  PROVE  WorldTyped'
<1> USE CommandType DEF Typed, WorldTyped
<1>1. CASE Remove(p)
  BY <1>1 DEF Remove, world, repository
<1>2. CASE Make(p)
  BY <1>2 DEF Make, world, repository
<1>3. CASE RepoAdd(p)
  BY <1>3 DEF RepoAdd, world, repository
<1>4. CASE Install(p)
  BY <1>4 DEF Install, world, repository
<1>5. CASE Refresh(p)
  BY <1>5 DEF Refresh, world, repository
<1>6. CASE RepoRemove(p)
  BY <1>6 DEF RepoRemove, world, repository
<1>7. CASE RemoveFiles(p)
  BY <1>7 DEF RemoveFiles, world, repository
<1>8. CASE Uninstall(p)
  BY <1>8 DEF Uninstall, world, repository
<1>9. CASE UNCHANGED <<world, repository>>
  BY <1>9 DEF world, repository
<1> QED
  BY <1>1, <1>2, <1>3, <1>4, <1>5, <1>6, <1>7, <1>8, <1>9 DEF Step, Begin, Load, Retain, Create, Write, Rename, List, Fetch, Fetched, Ask, Asked, RecordAdded, Select, Crash

LEMMA DiskStep ==
  ASSUME Typed, Places, Writers, NEW p \in Procs, Step(p) \/ Crash(p)
  PROVE  DiskTyped'
<1> USE DEF Typed, DiskTyped
<1>1. CASE Begin(p)
  BY <1>1, HelperTypes DEF Begin, disk, private
<1>2. CASE Create(p)
  BY <1>2, HelperTypes, UnusedExists DEF Create, disk, private
<1>3. CASE Write(p)
  <2>1. fd[p] \in Inodes /\ mem[p] \in Info
    BY <1>3 DEF Write, MemoryTyped, Writers
  <2>2. \E whole \in BOOLEAN : data' = [data EXCEPT ![fd[p]] = [whole |-> whole, info |-> mem[p]]]
    BY <1>3 DEF Write
  <2>3. UNCHANGED <<name, fd>>
    BY <1>3 DEF Write, private
  <2> QED
    BY <2>1, <2>2, <2>3
<1>4. CASE Rename(p)
  BY <1>4, HelperTypes DEF Rename, disk, private
<1>5. CASE Crash(p)
  BY <1>5, HelperTypes DEF Crash, disk, private
<1>6. CASE UNCHANGED <<disk, fd>>
  BY <1>6 DEF disk
<1> QED
  BY <1>1, <1>2, <1>3, <1>4, <1>5, <1>6 DEF Step, private, Load, Retain, List, Fetch, Fetched, Ask, Asked, Remove, Make, RepoAdd, RecordAdded, Install, Refresh, Select, RepoRemove, RemoveFiles, Uninstall

LEMMA ControlStep ==
  ASSUME Typed, NEW p \in Procs, Step(p) \/ Crash(p)
  PROVE  ControlTyped'
<1>1. CASE Begin(p)
  <2>1. pc'[p] \in Labels
    BY <1>1, BeginFacts DEF Labels
  <2>2. then'[p] \in Labels /\ todo'[p] \in Seq(Requests)
    BY <1>1, BeginFacts
  <2>3. /\ pc' = [pc EXCEPT ![p] = pc'[p]] /\ then' = [then EXCEPT ![p] = then'[p]]
        /\ todo' = [todo EXCEPT ![p] = todo'[p]]
    BY <1>1, BeginFacts
  <2> QED
    BY <2>1, <2>2, <2>3 DEF Typed, ControlTyped
<1> USE DEF Typed, ControlTyped, Labels, Goto, Enter, Fails
<1>2. CASE Load(p)
  BY <1>2 DEF Load
<1>3. CASE Retain(p)
  BY <1>3 DEF Retain
<1>4. CASE Create(p)
  BY <1>4 DEF Create
<1>5. CASE Write(p)
  BY <1>5 DEF Write
<1>6. CASE Rename(p)
  BY <1>6 DEF Rename
<1>7. CASE List(p)
  BY <1>7 DEF List
<1>8. CASE Fetch(p)
  BY <1>8 DEF Fetch
<1>9. CASE Fetched(p)
  BY <1>9 DEF Fetched
<1>10. CASE Ask(p)
  BY <1>10 DEF Ask
<1>11. CASE Asked(p)
  BY <1>11 DEF Asked
<1>12. CASE Remove(p)
  BY <1>12 DEF Remove
<1>13. CASE Make(p)
  BY <1>13 DEF Make
<1>14. CASE RepoAdd(p)
  BY <1>14 DEF RepoAdd
<1>15. CASE RecordAdded(p)
  BY <1>15 DEF RecordAdded
<1>16. CASE Install(p)
  BY <1>16 DEF Install
<1>17. CASE Refresh(p)
  BY <1>17 DEF Refresh
<1>18. CASE Select(p)
  BY <1>18 DEF Select
<1>19. CASE RepoRemove(p)
  BY <1>19 DEF RepoRemove
<1>20. CASE RemoveFiles(p)
  BY <1>20 DEF RemoveFiles
<1>21. CASE Uninstall(p)
  BY <1>21 DEF Uninstall
<1>22. CASE Crash(p)
  BY <1>22 DEF Crash
<1> QED
  BY <1>1, <1>2, <1>3, <1>4, <1>5, <1>6, <1>7, <1>8, <1>9, <1>10, <1>11, <1>12, <1>13, <1>14, <1>15, <1>16, <1>17, <1>18, <1>19, <1>20, <1>21, <1>22 DEF Step

LEMMA MemoryStep ==
  ASSUME Typed, Places, NEW p \in Procs, Step(p) \/ Crash(p)
  PROVE  MemoryTyped'
<1> USE HelperTypes DEF Typed, MemoryTyped, lookups, private
<1>1. CASE Begin(p)
  <2>1. open'[p] \in SUBSET (Bases \X Sources)
    <3>1. Command(p)'.base \in Bases
      BY <1>1, BeginFacts DEF Requests
    <3>2. open'[p] \in {Lookups({Command(p)'.base}), {}}
      BY <1>1, BeginFacts
    <3> QED
      BY <3>1, <3>2
  <2>2. view' \in [Procs -> View]
    <3>1. Seen(Command(p)') \in View
      BY SeenType
    <3>2. view' = [view EXCEPT ![p] = Seen(Command(p)')]
      BY <1>1, BeginFacts
    <3> QED
      BY <3>1, <3>2
  <2> QED
    BY <1>1, <2>1, <2>2, BeginFacts DEF Begin
<1>2. CASE Load(p)
  BY <1>2, LookType DEF Load, DiskTyped
<1>3. CASE Retain(p)
  BY <1>3, LookType DEF Retain
<1>4. CASE List(p)
  BY <1>4 DEF List
<1>5. CASE Fetch(p)
  <2>1. PICK l \in open[p] :
          /\ open' = [open EXCEPT ![p] = open[p] \ {l}]
          /\ \/ found' = [found EXCEPT ![p] = found[p] \cup {<<l[1], l[2], Answer(l[2])>>}]
             \/ UNCHANGED found
    BY <1>5 DEF Fetch
  <2>2. l \in Bases \X Sources
    OBVIOUS
  <2>3. found[p] \cup {<<l[1], l[2], Answer(l[2])>>} \in Info
    BY <2>2, AnswerType
  <2>4. found' \in [Procs -> Info] /\ open' \in [Procs -> SUBSET (Bases \X Sources)]
    BY <2>1, <2>3
  <2> QED
    BY <1>5, <2>4 DEF Fetch
<1>6. CASE Fetched(p)
  BY <1>6 DEF Fetched
<1>7. CASE Ask(p)
  BY <1>7 DEF Ask
<1>8. CASE Remove(p)
  BY <1>8 DEF Remove
<1>9. CASE RecordAdded(p)
  BY <1>9 DEF RecordAdded, Record
<1>10. CASE Install(p)
  BY <1>10 DEF Install, Record
<1>11. CASE Select(p)
  BY <1>11, LookType, CommandType DEF Select, View
<1>12. CASE UNCHANGED <<mem, lookups, view, doomed>>
  BY <1>12
<1> QED
  BY <1>1, <1>2, <1>3, <1>4, <1>5, <1>6, <1>7, <1>8, <1>9, <1>10, <1>11, <1>12 DEF Step, private, Create, Write, Rename, Asked, Make, RepoAdd, Refresh, RepoRemove, RemoveFiles, Uninstall, Crash

LEMMA HistoryStep ==
  ASSUME Typed, NEW p \in Procs, Step(p) \/ Crash(p)
  PROVE  HistoryTyped'
<1> USE StoresAssumption DEF Typed, HistoryTyped, history, Fault, Fails
<1>1. CASE Begin(p)
  BY <1>1 DEF Begin, WorldTyped
<1>2. CASE Create(p)
  BY <1>2 DEF Create
<1>3. CASE UNCHANGED <<was, alone, clash>> /\ (UNCHANGED faults \/ Fault)
  BY <1>3
<1> QED
  BY <1>1, <1>2, <1>3 DEF Step, Load, Retain, Write, Rename, List, Fetch, Fetched, Ask, Asked, Remove, Make, RepoAdd, RecordAdded, Install, Refresh, Select, RepoRemove, RemoveFiles, Uninstall, Crash

\* What a push changes.
LEMMA PushStep == ASSUME Typed, NEW s \in Sources, Push(s) PROVE Typed'
<1>1. WorldTyped'
  BY StoresAssumption DEF Push, Typed, WorldTyped, repository, Turns
<1> QED
  BY <1>1 DEF Push, Typed, DiskTyped, ControlTyped, MemoryTyped, HistoryTyped, disk, private,
         lookups, history

\* The next-state relation, one process at a time.
LEMMA NextCases ==
  ASSUME [Next]_vars
  PROVE  \/ \E p \in Procs : Step(p) \/ Crash(p)
         \/ \E s \in Sources : Push(s)
         \/ UNCHANGED vars
BY DEF Next, Terminated

LEMMA TypedStep == ASSUME Typed, Places, Writers, [Next]_vars PROVE Typed'
<1>1. ASSUME NEW p \in Procs, Step(p) \/ Crash(p) PROVE Typed'
  BY <1>1, WorldStep, DiskStep, ControlStep, MemoryStep, HistoryStep DEF Typed
<1>2. CASE UNCHANGED vars
  BY <1>2 DEF vars, world, repository, disk, private, lookups, history,
         Typed, WorldTyped, DiskTyped, ControlTyped, MemoryTyped, HistoryTyped
<1> QED
  BY <1>1, <1>2, PushStep, NextCases

\* A step of a process changes nothing that belongs to another one.
LEMMA OthersKeep ==
  ASSUME Typed, NEW p \in Procs, NEW q \in Procs, q # p, Step(p) \/ Crash(p)
  PROVE  UNCHANGED <<pc[q], then[q], todo[q], mem[q], found[q], updates[q], open[q], doomed[q],
                     view[q], fd[q], was[q]>>
<1> USE DEF Typed, DiskTyped, ControlTyped, MemoryTyped, HistoryTyped, Goto, Enter, Fails, Fault,
        private, lookups, history
<1>1. CASE Begin(p)
  BY <1>1 DEF Begin
<1>2. CASE Load(p)
  BY <1>2 DEF Load, Look
<1>3. CASE Retain(p)
  BY <1>3 DEF Retain, Look
<1>4. CASE Create(p)
  BY <1>4 DEF Create
<1>5. CASE Write(p)
  BY <1>5 DEF Write
<1>6. CASE Rename(p)
  BY <1>6 DEF Rename
<1>7. CASE List(p)
  BY <1>7 DEF List
<1>8. CASE Fetch(p)
  BY <1>8 DEF Fetch
<1>9. CASE Fetched(p)
  BY <1>9 DEF Fetched
<1>10. CASE Ask(p)
  BY <1>10 DEF Ask
<1>11. CASE Asked(p)
  BY <1>11 DEF Asked
<1>12. CASE Remove(p)
  BY <1>12 DEF Remove
<1>13. CASE Make(p)
  BY <1>13 DEF Make
<1>14. CASE RepoAdd(p)
  BY <1>14 DEF RepoAdd
<1>15. CASE RecordAdded(p)
  BY <1>15 DEF RecordAdded, Record
<1>16. CASE Install(p)
  BY <1>16 DEF Install, Record
<1>17. CASE Refresh(p)
  BY <1>17 DEF Refresh
<1>18. CASE Select(p)
  BY <1>18 DEF Select, Look
<1>19. CASE RepoRemove(p)
  BY <1>19 DEF RepoRemove
<1>20. CASE RemoveFiles(p)
  BY <1>20 DEF RemoveFiles
<1>21. CASE Uninstall(p)
  BY <1>21 DEF Uninstall
<1>22. CASE Crash(p)
  BY <1>22 DEF Crash
<1> QED
  BY <1>1, <1>2, <1>3, <1>4, <1>5, <1>6, <1>7, <1>8, <1>9, <1>10, <1>11, <1>12, <1>13, <1>14, <1>15, <1>16, <1>17, <1>18, <1>19, <1>20, <1>21, <1>22 DEF Step

\* Only Begin changes the command of a process.
LEMMA CommandKept ==
  ASSUME NEW p \in Procs, (Step(p) /\ ~Begin(p)) \/ Crash(p)
  PROVE  todo' = todo
BY DEF Step, Crash, Load, Retain, Create, Write, Rename, List, Fetch, Fetched, Ask, Asked, Remove, Make, RepoAdd, RecordAdded, Install, Refresh, Select, RepoRemove, RemoveFiles, Uninstall

\* A process that takes a step other than the first of a command has begun.
LEMMA StepBusy ==
  ASSUME Typed, NEW p \in Procs, (Step(p) /\ ~Begin(p)) \/ Crash(p)
  PROVE  pc[p] \notin {"idle", "ok", "failed"}
BY DEF Idle, Step, Crash, Load, Retain, Create, Write, Rename, List, Fetch, Fetched, Ask, Asked, Remove, Make, RepoAdd, RecordAdded, Install, Refresh, Select, RepoRemove, RemoveFiles, Uninstall

\* A process goes from a place of its command to a place of it.
LEMMA OwnPlaces ==
  ASSUME Typed, Places, NEW p \in Procs, (Step(p) /\ ~Begin(p)) \/ Crash(p)
  PROVE  PlacesOf(Command(p).op, pc'[p], then'[p])
<1>1. PlacesOf(Command(p).op, pc[p], then[p])
  BY StepBusy DEF Places
<1>2. /\ DOMAIN pc = Procs /\ DOMAIN then = Procs
  BY DEF Typed, ControlTyped
<1> USE DEF Goto, Enter, Fails, PlacesOf
<1>3. CASE Load(p)
  BY <1>1, <1>2, <1>3 DEF Load
<1>4. CASE Retain(p)
  BY <1>1, <1>2, <1>4 DEF Retain
<1>5. CASE Create(p)
  BY <1>1, <1>2, <1>5 DEF Create
<1>6. CASE Write(p)
  BY <1>1, <1>2, <1>6 DEF Write
<1>7. CASE Rename(p)
  BY <1>1, <1>2, <1>7 DEF Rename
<1>8. CASE List(p)
  BY <1>1, <1>2, <1>8 DEF List
<1>9. CASE Fetch(p)
  BY <1>1, <1>2, <1>9 DEF Fetch
<1>10. CASE Fetched(p)
  BY <1>1, <1>2, <1>10 DEF Fetched
<1>11. CASE Ask(p)
  BY <1>1, <1>2, <1>11 DEF Ask
<1>12. CASE Asked(p)
  BY <1>1, <1>2, <1>12 DEF Asked
<1>13. CASE Remove(p)
  BY <1>1, <1>2, <1>13 DEF Remove
<1>14. CASE Make(p)
  BY <1>1, <1>2, <1>14 DEF Make
<1>15. CASE RepoAdd(p)
  BY <1>1, <1>2, <1>15 DEF RepoAdd
<1>16. CASE RecordAdded(p)
  BY <1>1, <1>2, <1>16 DEF RecordAdded
<1>17. CASE Install(p)
  BY <1>1, <1>2, <1>17 DEF Install
<1>18. CASE Refresh(p)
  BY <1>1, <1>2, <1>18 DEF Refresh
<1>19. CASE Select(p)
  BY <1>1, <1>2, <1>19 DEF Select
<1>20. CASE RepoRemove(p)
  BY <1>1, <1>2, <1>20 DEF RepoRemove
<1>21. CASE RemoveFiles(p)
  BY <1>1, <1>2, <1>21 DEF RemoveFiles
<1>22. CASE Uninstall(p)
  BY <1>1, <1>2, <1>22 DEF Uninstall
<1>23. CASE Crash(p)
  BY <1>1, <1>2, <1>23 DEF Crash
<1> QED
  BY <1>3, <1>4, <1>5, <1>6, <1>7, <1>8, <1>9, <1>10, <1>11, <1>12, <1>13, <1>14, <1>15, <1>16, <1>17, <1>18, <1>19, <1>20, <1>21, <1>22, <1>23 DEF Step

LEMMA PlacesStep == ASSUME Typed, Places, [Next]_vars PROVE Places'
<1>1. ASSUME NEW p \in Procs, Step(p) \/ Crash(p), NEW q \in Procs, pc'[q] # "idle"
      PROVE  todo'[q] # <<>> /\ PlacesOf(Command(q)'.op, pc'[q], then'[q])
  <2>1. CASE q # p
    <3>1. UNCHANGED <<pc[q], then[q], todo[q]>>
      BY <1>1, <2>1, OthersKeep
    <3> QED
      BY <1>1, <3>1 DEF Places, Command
  <2>2. CASE q = p /\ Begin(p)
    BY <2>2, BeginFacts
  <2>3. CASE q = p /\ ~Begin(p)
    <3>1. todo' = todo /\ Command(p)' = Command(p)
      BY <1>1, <2>3, CommandKept DEF Command
    <3>2. todo[p] # <<>>
      BY <1>1, <2>3, StepBusy DEF Places
    <3> QED
      BY <1>1, <2>3, <3>1, <3>2, OwnPlaces
  <2> QED
    BY <2>1, <2>2, <2>3
<1>2. ASSUME UNCHANGED <<pc, then, todo>> PROVE Places'
  BY <1>2 DEF Places, Command
<1> QED
  BY <1>1, <1>2, NextCases DEF Places, Push, vars

-----------------------------------------------------------------------------
(* devel.toml *)

\* Where a subroutine returns to.
LEMMA ReturnPlaces ==
  ASSUME Places, NEW p \in Procs, pc[p] # "idle"
  PROVE  then[p] \in {"list", "backend", "fetch", "added", "install", "unlist", "uninstall", "select", "ok"}
BY DEF Places, PlacesOf

\* The steps that have to do with the file.
SaveStep(p) == Begin(p) \/ Create(p) \/ Write(p) \/ Rename(p) \/ Crash(p)

LEMMA QuietStep ==
  ASSUME Typed, Places, NEW p \in Procs, Step(p), ~SaveStep(p)
  PROVE  /\ UNCHANGED <<name, data, fd, clash>>
         /\ pc[p] \notin {"write", "rename"} /\ pc'[p] \notin {"write", "rename"}
<1> USE DEF Goto, Enter, Fails, Fault, disk, private, history
<1>1. DOMAIN pc = Procs
  BY DEF Typed, ControlTyped
<1>2. CASE Load(p)
  BY <1>1, <1>2, ReturnPlaces DEF Load
<1>3. CASE Retain(p)
  BY <1>1, <1>3 DEF Retain
<1>4. CASE List(p)
  BY <1>1, <1>4 DEF List
<1>5. CASE Fetch(p)
  BY <1>1, <1>5 DEF Fetch
<1>6. CASE Fetched(p)
  BY <1>1, <1>6 DEF Fetched
<1>7. CASE Ask(p)
  BY <1>1, <1>7 DEF Ask
<1>8. CASE Asked(p)
  BY <1>1, <1>8 DEF Asked
<1>9. CASE Remove(p)
  BY <1>1, <1>9 DEF Remove
<1>10. CASE Make(p)
  BY <1>1, <1>10 DEF Make
<1>11. CASE RepoAdd(p)
  BY <1>1, <1>11 DEF RepoAdd
<1>12. CASE RecordAdded(p)
  BY <1>1, <1>12 DEF RecordAdded
<1>13. CASE Install(p)
  BY <1>1, <1>13 DEF Install
<1>14. CASE Refresh(p)
  BY <1>1, <1>14, ReturnPlaces DEF Refresh
<1>15. CASE Select(p)
  BY <1>1, <1>15 DEF Select
<1>16. CASE RepoRemove(p)
  BY <1>1, <1>16 DEF RepoRemove
<1>17. CASE RemoveFiles(p)
  BY <1>1, <1>17 DEF RemoveFiles
<1>18. CASE Uninstall(p)
  BY <1>1, <1>18 DEF Uninstall
<1> QED
  BY <1>2, <1>3, <1>4, <1>5, <1>6, <1>7, <1>8, <1>9, <1>10, <1>11, <1>12, <1>13, <1>14, <1>15, <1>16, <1>17, <1>18 DEF Step, SaveStep

\* Who saves has the file open.
LEMMA OwnWriter ==
  ASSUME Typed, Places, Writers, NEW p \in Procs, Step(p) \/ Crash(p)
  PROVE  fd'[p] # 0 <=> pc'[p] \in {"write", "rename"}
<1>1. DOMAIN pc = Procs /\ DOMAIN fd = Procs
  BY DEF Typed, ControlTyped, DiskTyped
<1>2. fd[p] # 0 <=> pc[p] \in {"write", "rename"}
  BY DEF Writers
<1>3. CASE Begin(p)
  <2>1. fd'[p] = 0
    BY <1>1, <1>3 DEF Begin
  <2> QED
    BY <1>3, <2>1, BeginFacts
<1>4. CASE Create(p)
  <2>1. Unused # 0
    BY <1>4, UnusedExists, InodesFinite DEF Create
  <2> QED
    BY <1>1, <1>4, <2>1 DEF Create, Goto
<1>5. CASE Write(p)
  BY <1>1, <1>2, <1>5 DEF Write, Goto, private
<1>6. CASE Rename(p)
  BY <1>1, <1>6, ReturnPlaces DEF Rename, Goto
<1>7. CASE Crash(p)
  BY <1>1, <1>7 DEF Crash, Fails, Goto
<1>8. CASE ~SaveStep(p)
  BY <1>2, <1>8, QuietStep DEF SaveStep
<1> QED
  BY <1>3, <1>4, <1>5, <1>6, <1>7, <1>8 DEF SaveStep

\* The file that Create truncates.
Chosen == IF name.tmp = 0 THEN Unused ELSE name.tmp

\* Create without a clash: nobody else saves, and devel.toml is another file.
LEMMA CreateFacts ==
  ASSUME Typed, Writers, Contents, NEW p \in Procs, Create(p), ~clash'
  PROVE  /\ ~clash /\ Chosen \in Inodes /\ Chosen # name.toml
         /\ \A q \in Procs \ {p} : fd[q] = 0
         /\ fd' = [fd EXCEPT ![p] = Chosen] /\ name' = [name EXCEPT !.tmp = Chosen]
         /\ data' = [data EXCEPT ![Chosen] = [whole |-> TRUE, info |-> {}]]
<1>1. pc[p] = "create" /\ ~clash /\ \A q \in Procs \ {p} : fd[q] # Chosen
  BY DEF Create, Chosen
<1>2. /\ fd' = [fd EXCEPT ![p] = Chosen] /\ name' = [name EXCEPT !.tmp = Chosen]
      /\ data' = [data EXCEPT ![Chosen] = [whole |-> TRUE, info |-> {}]]
  BY DEF Create, Chosen
<1>3. Unused \in Inodes /\ Unused # name.toml
  BY <1>1, UnusedExists
<1>4. Chosen \in Inodes
  BY <1>3 DEF Typed, DiskTyped, Chosen
<1>5. Chosen # name.toml
  BY <1>1, <1>3, <1>4, InodesFinite DEF Contents, Chosen
<1>6. ASSUME NEW q \in Procs \ {p} PROVE fd[q] = 0
  BY <1>1, <1>6 DEF Writers, Chosen
<1> QED
  BY <1>1, <1>2, <1>4, <1>5, <1>6

\* Rename without a clash: the file that was written becomes devel.toml.
LEMMA RenameFacts ==
  ASSUME Typed, Writers, Contents, NEW p \in Procs, Rename(p), ~clash
  PROVE  /\ fd[p] = name.tmp /\ fd[p] \in Inodes /\ fd[p] # 0
         /\ \A q \in Procs \ {p} : fd[q] = 0
         /\ name' = [toml |-> fd[p], tmp |-> 0] /\ fd' = [fd EXCEPT ![p] = 0]
         /\ pc' = [pc EXCEPT ![p] = then[p]] /\ UNCHANGED <<data, mem, clash>>
         /\ data[fd[p]].whole /\ data[fd[p]].info = mem[p]
<1>1. pc[p] = "rename"
  BY DEF Rename
<1>2. fd[p] # 0 /\ fd[p] = name.tmp
  BY <1>1 DEF Writers
<1>3. fd[p] \in Inodes
  BY <1>2 DEF Typed, DiskTyped
<1>4. \A q \in Procs \ {p} : fd[q] = 0
  BY <1>2 DEF Writers
<1>5. data[fd[p]].whole /\ data[fd[p]].info = mem[p]
  BY <1>1 DEF Contents
<1>6. name.tmp # 0
  BY <1>2
<1>7. /\ name' = [toml |-> name.tmp, tmp |-> 0] /\ fd' = [fd EXCEPT ![p] = 0]
      /\ pc' = [pc EXCEPT ![p] = then[p]] /\ UNCHANGED <<data, mem, clash>>
  BY <1>6 DEF Rename, Goto, history
<1> QED
  BY <1>2, <1>3, <1>4, <1>5, <1>7

LEMMA WritersStep == ASSUME Typed, Places, Writers, Contents, [Next]_vars PROVE Writers'
<1>1. ASSUME NEW p \in Procs, Step(p) \/ Crash(p) PROVE Writers'
  <2>1. \A q \in Procs : fd'[q] # 0 <=> pc'[q] \in {"write", "rename"}
    <3> SUFFICES ASSUME NEW q \in Procs PROVE fd'[q] # 0 <=> pc'[q] \in {"write", "rename"}
      OBVIOUS
    <3>1. CASE q = p
      BY <1>1, <3>1, OwnWriter
    <3>2. CASE q # p
      BY <1>1, <3>2, OthersKeep DEF Writers
    <3> QED
      BY <3>1, <3>2
  <2>2. ASSUME ~clash'
        PROVE  /\ \A q, r \in Procs : q # r => fd'[q] = 0 \/ fd'[r] = 0
               /\ \A q \in Procs : fd'[q] # 0 => fd'[q] = name'.tmp
    <3>1. DOMAIN fd = Procs /\ name \in [toml: Inodes \cup {0}, tmp: Inodes \cup {0}]
      BY DEF Typed, DiskTyped
    <3>2. CASE Create(p)
      BY <2>2, <3>1, <3>2, CreateFacts
    <3>3. CASE Rename(p)
      <4>1. ~clash
        BY <2>2, <3>3 DEF Rename, history
      <4> QED
        BY <3>1, <3>3, <4>1, RenameFacts
    <3>4. CASE Begin(p) \/ Crash(p)
      <4>1. ~clash /\ UNCHANGED name /\ fd' = [fd EXCEPT ![p] = 0]
        BY <2>2, <3>4 DEF Begin, Crash, Fails, Fault, disk
      <4> QED
        BY <3>1, <4>1 DEF Writers
    <3>5. CASE Write(p)
      BY <2>2, <3>5 DEF Write, Writers, private, history
    <3>6. CASE ~SaveStep(p)
      <4>1. UNCHANGED <<name, fd, clash>>
        BY <1>1, <3>6, QuietStep DEF SaveStep
      <4> QED
        BY <2>2, <4>1 DEF Writers
    <3> QED
      BY <3>2, <3>3, <3>4, <3>5, <3>6 DEF SaveStep
  <2> QED
    BY <2>1, <2>2 DEF Writers
<1>2. ASSUME UNCHANGED <<pc, disk, private, clash>> PROVE Writers'
  BY <1>2 DEF Writers, disk, private
<1> QED
  BY <1>1, <1>2, NextCases DEF Push, vars, history

LEMMA ContentsStep == ASSUME Typed, Places, Writers, Contents, [Next]_vars PROVE Contents'
<1>1. ASSUME NEW p \in Procs, Step(p) \/ Crash(p), ~clash'
      PROVE  /\ name'.toml # 0 => name'.toml # name'.tmp /\ data'[name'.toml].whole
             /\ \A q \in Procs :
                  /\ pc'[q] = "write" => data'[fd'[q]].whole /\ data'[fd'[q]].info = {}
                  /\ pc'[q] = "rename" => data'[fd'[q]].whole /\ data'[fd'[q]].info = mem'[q]
  <2>1. /\ name \in [toml: Inodes \cup {0}, tmp: Inodes \cup {0}] /\ DOMAIN fd = Procs
        /\ DOMAIN pc = Procs /\ data \in [Inodes -> [whole: BOOLEAN, info: Info]]
    BY DEF Typed, DiskTyped, ControlTyped
  <2>2. \A q \in Procs \ {p} : UNCHANGED <<pc[q], fd[q], mem[q]>>
    BY <1>1, OthersKeep
  <2>3. \A q \in Procs : fd[q] # 0 <=> pc[q] \in {"write", "rename"}
    BY DEF Writers
  <2>4. CASE Create(p)
    <3>1. pc'[p] = "write"
      BY <2>1, <2>4 DEF Create, Goto
    <3>2. ~clash => (name.toml # 0 => data[name.toml].whole)
      BY DEF Contents
    <3> QED
      BY <1>1, <2>1, <2>2, <2>3, <2>4, <3>1, <3>2, CreateFacts
  <2>5. CASE Write(p)
    <3>1. /\ ~clash /\ pc[p] = "write" /\ UNCHANGED <<name, fd, mem>> /\ pc'[p] = "rename"
          /\ \E whole \in {TRUE} \cup (IF data[fd[p]].info \in {{}, mem[p]} THEN {} ELSE {FALSE}) :
               data' = [data EXCEPT ![fd[p]] = [whole |-> whole, info |-> mem[p]]]
      BY <1>1, <2>1, <2>5 DEF Write, Goto, private, history
    <3>2. data[fd[p]].info = {} /\ fd[p] # 0 /\ fd[p] = name.tmp
      BY <3>1 DEF Contents, Writers
    <3>3. data' = [data EXCEPT ![fd[p]] = [whole |-> TRUE, info |-> mem[p]]] /\ fd[p] \in Inodes
      BY <2>1, <3>1, <3>2
    <3>4. \A q \in Procs \ {p} : fd[q] = 0
      BY <3>1, <3>2 DEF Writers
    <3>5. name.toml # 0 => name.toml # name.tmp /\ data[name.toml].whole
      BY <3>1 DEF Contents
    <3> QED
      BY <2>1, <2>2, <2>3, <3>1, <3>2, <3>3, <3>4, <3>5
  <2>6. CASE Rename(p)
    <3>1. ~clash
      BY <1>1, <2>6 DEF Rename, history
    <3>2. pc'[p] \notin {"write", "rename"}
      BY <2>1, <2>6, <3>1, RenameFacts, ReturnPlaces DEF Rename
    <3> QED
      BY <2>1, <2>2, <2>3, <2>6, <3>1, <3>2, RenameFacts
  <2>7. CASE Begin(p) \/ Crash(p)
    <3>1. ~clash /\ UNCHANGED <<name, data>>
      BY <1>1, <2>7 DEF Begin, Crash, Fails, Fault, disk
    <3>2. pc'[p] \notin {"write", "rename"}
      <4>1. CASE Begin(p)
        BY <4>1, BeginFacts
      <4>2. CASE Crash(p)
        BY <2>1, <4>2 DEF Crash, Fails, Goto
      <4> QED
        BY <2>7, <4>1, <4>2
    <3> QED
      BY <2>2, <3>1, <3>2 DEF Contents
  <2>8. CASE ~SaveStep(p)
    <3>1. UNCHANGED <<name, data, fd, clash>> /\ pc'[p] \notin {"write", "rename"}
      BY <1>1, <2>8, QuietStep DEF SaveStep
    <3> QED
      BY <1>1, <2>2, <3>1 DEF Contents
  <2> QED
    BY <2>4, <2>5, <2>6, <2>7, <2>8 DEF SaveStep
<1>2. ASSUME UNCHANGED <<pc, disk, private, clash>> PROVE Contents'
  BY <1>2 DEF Contents, disk, private
<1> QED
  BY <1>1, <1>2, NextCases DEF Contents, Push, vars, history

-----------------------------------------------------------------------------
(* One process at a time *)

\* While processes do not overlap, the others are idle before a step of a process and after it.
LEMMA Alone ==
  ASSUME Typed, OneAtWork, NEW p \in Procs, Step(p) \/ Crash(p), alone'
  PROVE  alone /\ ~clash /\ \A q \in Procs \ {p} : Idle(q) /\ Idle(q)'
<1>1. alone
  <2>1. CASE Begin(p)
    BY <2>1 DEF Begin
  <2>2. CASE ~Begin(p)
    BY <2>2 DEF Step, Crash, Fails, Fault, history, Load, Retain, Create, Write, Rename, List, Fetch, Fetched, Ask, Asked, Remove, Make, RepoAdd, RecordAdded, Install, Refresh, Select, RepoRemove, RemoveFiles, Uninstall
  <2> QED
    BY <2>1, <2>2
<1>2. \A q \in Procs \ {p} : Idle(q)
  <2>1. CASE Begin(p)
    BY <2>1 DEF Begin
  <2>2. CASE ~Begin(p)
    BY <1>1, <2>2, StepBusy DEF OneAtWork, Idle
  <2> QED
    BY <2>1, <2>2
<1>3. \A q \in Procs \ {p} : pc'[q] = pc[q]
  BY OthersKeep
<1> QED
  BY <1>1, <1>2, <1>3 DEF OneAtWork, Idle

LEMMA OneAtWorkStep ==
  ASSUME Typed, Places, Writers, Contents, OneAtWork, [Next]_vars
  PROVE  OneAtWork'
<1>1. ASSUME NEW p \in Procs, Step(p) \/ Crash(p), alone' PROVE OneAtWork'
  <2>1. alone /\ ~clash /\ \A q \in Procs \ {p} : Idle(q) /\ Idle(q)'
    BY <1>1, Alone
  <2>2. ~clash'
    <3>1. CASE Create(p)
      <4>1. Unused # 0 /\ 0 \notin Inodes
        BY <3>1, UnusedExists, InodesFinite DEF Create
      <4>2. \A q \in Procs \ {p} : fd[q] = 0
        BY <2>1 DEF Writers, Idle
      <4> QED
        BY <2>1, <3>1, <4>1, <4>2 DEF Create
    <3>2. CASE ~Create(p)
      BY <1>1, <2>1, <3>2 DEF Step, Crash, Fails, Fault, history, Begin, Load, Retain, Write, Rename, List, Fetch, Fetched, Ask, Asked, Remove, Make, RepoAdd, RecordAdded, Install, Refresh, Select, RepoRemove, RemoveFiles, Uninstall
    <3> QED
      BY <3>1, <3>2
  <2> QED
    BY <2>1, <2>2 DEF OneAtWork
<1>2. ASSUME UNCHANGED <<pc, alone, clash>> PROVE OneAtWork'
  BY <1>2 DEF OneAtWork, Idle
<1>3. CASE ~alone'
  BY <1>3 DEF OneAtWork
<1> QED
  BY <1>1, <1>2, <1>3, NextCases DEF Push, vars, history

-----------------------------------------------------------------------------
(* The local repository *)

\* The steps that have to do with the directory.
DirectoryStep(p) == Make(p) \/ RepoAdd(p) \/ RepoRemove(p) \/ RemoveFiles(p)

LEMMA DirectoryQuiet ==
  ASSUME Typed, Places, NEW p \in Procs, Step(p) \/ Crash(p), ~DirectoryStep(p)
  PROVE  UNCHANGED repository /\ pc'[p] \notin {"add", "rmfiles"}
<1> USE DEF Goto, Enter, Fails, repository
<1>1. DOMAIN pc = Procs
  BY DEF Typed, ControlTyped
<1>2. pc[p] # "idle" => then[p] \notin {"add", "rmfiles"}
  BY ReturnPlaces
<1>3. CASE Load(p)
  BY <1>1, <1>2, <1>3 DEF Load
<1>4. CASE Retain(p)
  BY <1>1, <1>2, <1>4 DEF Retain
<1>5. CASE Create(p)
  BY <1>1, <1>2, <1>5 DEF Create
<1>6. CASE Write(p)
  BY <1>1, <1>2, <1>6 DEF Write
<1>7. CASE Rename(p)
  BY <1>1, <1>2, <1>7 DEF Rename
<1>8. CASE List(p)
  BY <1>1, <1>2, <1>8 DEF List
<1>9. CASE Fetch(p)
  BY <1>1, <1>2, <1>9 DEF Fetch
<1>10. CASE Fetched(p)
  BY <1>1, <1>2, <1>10 DEF Fetched
<1>11. CASE Ask(p)
  BY <1>1, <1>2, <1>11 DEF Ask
<1>12. CASE Asked(p)
  BY <1>1, <1>2, <1>12 DEF Asked
<1>13. CASE Remove(p)
  BY <1>1, <1>2, <1>13 DEF Remove
<1>14. CASE RecordAdded(p)
  BY <1>1, <1>2, <1>14 DEF RecordAdded
<1>15. CASE Install(p)
  BY <1>1, <1>2, <1>15 DEF Install
<1>16. CASE Refresh(p)
  BY <1>1, <1>2, <1>16 DEF Refresh
<1>17. CASE Select(p)
  BY <1>1, <1>2, <1>17 DEF Select
<1>18. CASE Uninstall(p)
  BY <1>1, <1>2, <1>18 DEF Uninstall
<1>19. CASE Begin(p)
  BY <1>19, BeginFacts DEF Begin
<1>20. CASE Crash(p)
  BY <1>1, <1>20 DEF Crash
<1> QED
  BY <1>3, <1>4, <1>5, <1>6, <1>7, <1>8, <1>9, <1>10, <1>11, <1>12, <1>13, <1>14, <1>15, <1>16, <1>17, <1>18, <1>19, <1>20 DEF Step, DirectoryStep

LEMMA RepoPlacesStep ==
  ASSUME Typed, Places, OneAtWork, RepoPlaces, [Next]_vars
  PROVE  RepoPlaces'
<1>1. ASSUME NEW p \in Procs, Step(p) \/ Crash(p), alone' PROVE RepoPlaces'
  <2>1. alone /\ \A q \in Procs \ {p} : pc'[q] \notin {"add", "rmfiles"}
    BY <1>1, Alone DEF Idle
  <2>2. repo \subseteq files /\ DOMAIN pc = Procs
    BY <2>1 DEF RepoPlaces, Typed, ControlTyped
  <2>3. SUFFICES /\ repo' \subseteq files'
                 /\ pc'[p] = "add" => Made[Command(p).base]' \subseteq files'
                 /\ pc'[p] = "rmfiles" => doomed'[p] \cap repo' = {}
    BY <2>1 DEF RepoPlaces
  <2>4. CASE Make(p)
    BY <2>2, <2>4 DEF Make, Goto, Fails, Command
  <2>5. CASE RepoAdd(p)
    BY <2>1, <2>2, <2>5 DEF RepoAdd, RepoPlaces, Enter, Goto, Fails
  <2>6. CASE RepoRemove(p)
    BY <2>2, <2>6 DEF RepoRemove, Goto, Fails, private
  <2>7. CASE RemoveFiles(p)
    BY <2>1, <2>2, <2>7 DEF RemoveFiles, RepoPlaces, Goto, Fails
  <2>8. CASE ~DirectoryStep(p)
    BY <1>1, <2>2, <2>8, DirectoryQuiet DEF repository
  <2> QED
    BY <2>4, <2>5, <2>6, <2>7, <2>8 DEF DirectoryStep
<1>2. ASSUME UNCHANGED <<repository, pc, todo, private, alone>> PROVE RepoPlaces'
  BY <1>2 DEF RepoPlaces, repository, private, Command
<1>3. CASE ~alone'
  BY <1>3 DEF RepoPlaces
<1> QED
  BY <1>1, <1>2, <1>3, NextCases DEF Push, vars, history

\* The other steps neither touch the databases of the repository nor need them.
LEMMA SyncQuiet ==
  ASSUME Typed, Places, NEW p \in Procs, Step(p) \/ Crash(p),
         ~(DirectoryStep(p) \/ Refresh(p) \/ Select(p) \/ Begin(p) \/ Crash(p))
  PROVE  /\ UNCHANGED <<synced, repo, files>>
         /\ pc[p] \notin {"refresh", "rmfiles"} /\ pc'[p] \notin {"unlist", "rmfiles"}
<1> USE DEF Goto, Enter, Fails, world, repository
<1>1. DOMAIN pc = Procs
  BY DEF Typed, ControlTyped
<1>2. pc[p] \in {"load", "rename"} => then[p] \notin {"unlist", "rmfiles"}
  BY DEF Places, PlacesOf
<1>3. pc[p] # "idle" => then[p] # "rmfiles"
  BY ReturnPlaces
<1>4. CASE Load(p)
  BY <1>1, <1>2, <1>3, <1>4 DEF Load
<1>5. CASE Retain(p)
  BY <1>1, <1>2, <1>3, <1>5 DEF Retain
<1>6. CASE Create(p)
  BY <1>1, <1>2, <1>3, <1>6 DEF Create
<1>7. CASE Write(p)
  BY <1>1, <1>2, <1>3, <1>7 DEF Write
<1>8. CASE Rename(p)
  BY <1>1, <1>2, <1>3, <1>8 DEF Rename
<1>9. CASE List(p)
  BY <1>1, <1>2, <1>3, <1>9 DEF List
<1>10. CASE Fetch(p)
  BY <1>1, <1>2, <1>3, <1>10 DEF Fetch
<1>11. CASE Fetched(p)
  BY <1>1, <1>2, <1>3, <1>11 DEF Fetched
<1>12. CASE Ask(p)
  BY <1>1, <1>2, <1>3, <1>12 DEF Ask
<1>13. CASE Asked(p)
  BY <1>1, <1>2, <1>3, <1>13 DEF Asked
<1>14. CASE Remove(p)
  BY <1>1, <1>2, <1>3, <1>14 DEF Remove
<1>15. CASE RecordAdded(p)
  BY <1>1, <1>2, <1>3, <1>15 DEF RecordAdded
<1>16. CASE Install(p)
  BY <1>1, <1>2, <1>3, <1>16 DEF Install
<1>17. CASE Uninstall(p)
  BY <1>1, <1>2, <1>3, <1>17 DEF Uninstall
<1> QED
  BY <1>4, <1>5, <1>6, <1>7, <1>8, <1>9, <1>10, <1>11, <1>12, <1>13, <1>14, <1>15, <1>16, <1>17 DEF Step, DirectoryStep

\* A failure is counted, and the count never goes down.
LEMMA FaultsGrow ==
  ASSUME Typed, NEW p \in Procs, Step(p) \/ Crash(p), faults' = 0
  PROVE  faults = 0 /\ ~Fault
<1>1. faults \in Nat
  BY StoresAssumption DEF Typed, HistoryTyped
<1>2. faults' = faults \/ Fault
  BY DEF Step, Crash, Fails, history, Begin, Load, Retain, Create, Write, Rename, List, Fetch, Fetched, Ask, Asked, Remove, Make, RepoAdd, RecordAdded, Install, Refresh, Select, RepoRemove, RemoveFiles, Uninstall
<1> QED
  BY <1>1, <1>2 DEF Fault

LEMMA SyncPlacesStep ==
  ASSUME Typed, Places, OneAtWork, RepoPlaces, SyncPlaces, [Next]_vars
  PROVE  SyncPlaces'
<1>1. ASSUME NEW p \in Procs, Step(p) \/ Crash(p), alone', faults' = 0 PROVE SyncPlaces'
  <2>1. alone /\ faults = 0 /\ ~Fault
    BY <1>1, Alone, FaultsGrow
  <2>2. \A q \in Procs \ {p} : /\ pc[q] \notin {"refresh", "rmfiles"}
                               /\ pc'[q] \notin {"unlist", "rmfiles"}
    BY <1>1, Alone DEF Idle
  <2>3. /\ pc[p] \notin {"refresh", "rmfiles"} => synced = repo
        /\ pc[p] = "unlist" => doomed[p] \subseteq repo
        /\ pc[p] = "rmfiles" => doomed[p] \subseteq files
    BY <2>1, <2>2 DEF SyncPlaces
  <2>4. repo \subseteq files /\ DOMAIN pc = Procs
    BY <2>1 DEF RepoPlaces, Typed, ControlTyped
  <2>5. SUFFICES /\ pc'[p] \notin {"refresh", "rmfiles"} => synced' = repo'
                 /\ pc'[p] = "unlist" => doomed'[p] \subseteq repo'
                 /\ pc'[p] = "rmfiles" => doomed'[p] \subseteq files'
    BY <2>2 DEF SyncPlaces
  <2> USE DEF Goto, Enter, Fails, world, repository, private
  <2>6. CASE Make(p)
    BY <2>1, <2>3, <2>4, <2>6 DEF Make
  <2>7. CASE RepoAdd(p)
    BY <2>1, <2>3, <2>4, <2>7 DEF RepoAdd
  <2>8. CASE RepoRemove(p)
    BY <2>1, <2>3, <2>4, <2>8 DEF RepoRemove
  <2>9. CASE RemoveFiles(p)
    BY <2>1, <2>3, <2>4, <2>9 DEF RemoveFiles
  <2>10. CASE Refresh(p)
    <3>1. then[p] \notin {"unlist", "rmfiles"}
      BY <2>10 DEF Refresh, Places, PlacesOf
    <3> QED
      BY <2>1, <2>4, <2>10, <3>1 DEF Refresh
  <2>11. CASE Select(p)
    <3>1. pc[p] = "select" /\ synced = repo /\ UNCHANGED <<world, repository>>
      BY <2>3, <2>11 DEF Select
    <3>2. view'[p].repo \subseteq synced
      <4>1. view' = [view EXCEPT ![p] = Seen(Command(p))] /\ DOMAIN view = Procs
        BY <3>1, <2>11 DEF Select, Look, Typed, MemoryTyped, Places, PlacesOf
      <4> QED
        BY <4>1 DEF Seen
    <3>3. pc'[p] \in {"refresh", "unlist", "ok"}
      BY <2>4, <2>11 DEF Select
    <3>4. DOMAIN doomed = Procs
      BY DEF Typed, MemoryTyped
    <3>5. doomed'[p] \subseteq view'[p].repo
      BY <2>11, <3>4 DEF Select
    <3> QED
      BY <3>1, <3>2, <3>3, <3>5
  <2>12. CASE Begin(p)
    <3>1. pc'[p] \notin {"unlist", "rmfiles"}
      BY <2>12, BeginFacts
    <3> QED
      BY <2>3, <2>12, <3>1 DEF Begin, Idle
  <2>13. CASE Crash(p)
    BY <2>1, <2>13 DEF Crash
  <2>14. CASE ~(DirectoryStep(p) \/ Refresh(p) \/ Select(p) \/ Begin(p) \/ Crash(p))
    BY <1>1, <2>3, <2>14, SyncQuiet
  <2> QED
    BY <2>6, <2>7, <2>8, <2>9, <2>10, <2>11, <2>12, <2>13, <2>14 DEF DirectoryStep
<1>2. ASSUME UNCHANGED <<synced, repository, pc, private, alone, faults>> PROVE SyncPlaces'
  BY <1>2 DEF SyncPlaces, repository, private
<1>3. CASE ~(alone /\ faults = 0)'
  BY <1>3 DEF SyncPlaces
<1> QED
  BY <1>1, <1>2, <1>3, NextCases DEF Push, vars, history, world

-----------------------------------------------------------------------------
(* The records *)

\* Fewer records, and records of other bases together.
LEMMA RecordsSubset ==
  ASSUME NEW info, NEW more, RecordsOf(more), info \subseteq more PROVE RecordsOf(info)
BY DEF RecordsOf

LEMMA RecordsUnion ==
  ASSUME NEW info, NEW more, RecordsOf(info), RecordsOf(more),
         \A t \in info, u \in more : t[1] # u[1]
  PROVE  RecordsOf(info \cup more)
BY DEF RecordsOf

\* An answer is the only record for its source.
LEMMA RecordsAnswer ==
  ASSUME NEW info, RecordsOf(info), NEW l \in Bases \X Sources,
         \A t \in info : <<t[1], t[2]>> # l
  PROVE  RecordsOf(info \cup {<<l[1], l[2], Answer(l[2])>>})
<1>1. l = <<l[1], l[2]>>
  OBVIOUS
<1>2. \A t \in info : t[1] # l[1] \/ t[2] # l[2]
  BY <1>1
<1> QED
  BY <1>2 DEF RecordsOf

\* The sources go on and on.
LEMMA RemoteGrows ==
  ASSUME Typed, [Next]_vars
  PROVE  \A s \in Sources : remote[s] \in Nat /\ remote'[s] \in Nat /\ remote[s] <= remote'[s]
<1> SUFFICES ASSUME NEW x \in Sources
             PROVE  remote[x] \in Nat /\ remote'[x] \in Nat /\ remote[x] <= remote'[x]
  OBVIOUS
<1>1. DOMAIN remote = Sources /\ remote[x] \in Nat
  BY StoresAssumption DEF Typed, WorldTyped, Turns
<1>2. ASSUME UNCHANGED remote PROVE remote'[x] = remote[x]
  BY <1>2
<1>3. ASSUME NEW s \in Sources, Push(s) PROVE remote'[x] \in {remote[x], remote[x] + 1}
  BY <1>1, <1>3 DEF Push
<1>4. ASSUME NEW p \in Procs, Step(p) \/ Crash(p) PROVE UNCHANGED remote
  BY <1>4 DEF Step, Crash, world, Begin, Load, Retain, Create, Write, Rename, List, Fetch, Fetched, Ask, Asked, Remove, Make, RepoAdd, RecordAdded, Install, Refresh, Select, RepoRemove, RemoveFiles, Uninstall
<1>5. remote'[x] \in {remote[x], remote[x] + 1}
  BY <1>2, <1>3, <1>4, NextCases DEF vars, world
<1> QED
  BY <1>1, <1>5

\* What a process holds in memory after a step are true records.
LEMMA MemoryRecords ==
  ASSUME Typed, Places, Writers, Records, FoundPlaces, NEW p \in Procs, Step(p) \/ Crash(p)
  PROVE  RecordsOf(mem'[p])
<1>1. RecordsOf(mem[p]) /\ RecordsOf(found[p]) /\ DOMAIN mem = Procs
  BY DEF Records, Typed, MemoryTyped
<1>2. RecordsOf({})
  BY DEF RecordsOf
<1>3. CASE Begin(p)
  BY <1>1, <1>2, <1>3 DEF Begin
<1>4. CASE Load(p)
  <2>1. CASE name.toml = 0
    BY <1>1, <1>4, <2>1 DEF Load
  <2>2. CASE name.toml # 0
    <3>1. name.toml \in Inodes
      BY <2>2 DEF Typed, DiskTyped
    <3>2. RecordsOf(data[name.toml].info)
      BY <3>1 DEF Records
    <3> QED
      BY <1>1, <1>4, <2>2, <3>2 DEF Load
  <2> QED
    BY <2>1, <2>2
<1>5. CASE Retain(p)
  <2>1. mem'[p] \subseteq mem[p]
    BY <1>1, <1>5 DEF Retain, Of
  <2> QED
    BY <1>1, <2>1, RecordsSubset
<1>6. CASE Fetched(p)
  <2>1. CASE Command(p).op = "gendb"
    <3>1. pc[p] = "fetch" /\ mem'[p] = mem[p] \cup found[p]
      BY <1>1, <1>6, <2>1 DEF Fetched
    <3>2. then[p] = "list"
      BY <2>1, <3>1 DEF Places, PlacesOf
    <3>3. \A t \in mem[p], u \in found[p] : t[1] # u[1]
      BY <2>1, <3>1, <3>2 DEF FoundPlaces, FoundAt, Recorded
    <3> QED
      BY <1>1, <3>1, <3>3, RecordsUnion
  <2>2. CASE Command(p).op # "gendb"
    BY <1>1, <1>6, <2>2 DEF Fetched
  <2> QED
    BY <2>1, <2>2
<1>7. CASE Remove(p)
  <2>1. mem'[p] \subseteq mem[p]
    BY <1>1, <1>7 DEF Remove, Of
  <2> QED
    BY <1>1, <2>1, RecordsSubset
<1>8. ASSUME pc[p] \in {"added", "install"}, Record(p) PROVE RecordsOf(mem'[p])
  <2>1. mem'[p] = Of(mem[p], Bases \ {Command(p).base}) \cup found[p]
    BY <1>1, <1>8 DEF Record
  <2>2. Command(p).op = "build"
    BY <1>8 DEF Places, PlacesOf
  <2>3. \A t \in Of(mem[p], Bases \ {Command(p).base}), u \in found[p] : t[1] # u[1]
    BY <1>8, <2>2 DEF FoundPlaces, FoundAt, Of
  <2>4. RecordsOf(Of(mem[p], Bases \ {Command(p).base}))
    <3>1. Of(mem[p], Bases \ {Command(p).base}) \subseteq mem[p]
      BY DEF Of
    <3> QED
      BY <1>1, <3>1, RecordsSubset
  <2> QED
    BY <1>1, <2>1, <2>3, <2>4, RecordsUnion
<1>9. CASE RecordAdded(p)
  BY <1>8, <1>9 DEF RecordAdded
<1>10. CASE Install(p)
  <2>1. pc[p] = "install" /\ (Record(p) \/ UNCHANGED mem)
    BY <1>10 DEF Install
  <2> QED
    BY <1>1, <1>8, <2>1
<1>11. CASE UNCHANGED mem
  BY <1>1, <1>11
<1> QED
  BY <1>3, <1>4, <1>5, <1>6, <1>7, <1>9, <1>10, <1>11 DEF Step, private, Create, Write, Rename, List, Fetch, Ask, Asked, Make, RepoAdd, Refresh, Select, RepoRemove, RemoveFiles, Uninstall, Crash

\* What a process has found are true records, each the answer to a lookup that is over.
LEMMA FoundRecords ==
  ASSUME Typed, Places, Records, FoundPlaces, NEW p \in Procs, Step(p) \/ Crash(p)
  PROVE  RecordsOf(found'[p]) /\ \A t \in found'[p] : <<t[1], t[2]>> \notin open'[p]
<1>1. /\ RecordsOf(found[p]) /\ \A t \in found[p] : <<t[1], t[2]>> \notin open[p]
      /\ DOMAIN found = Procs /\ DOMAIN open = Procs /\ open[p] \subseteq Bases \X Sources
  BY DEF Records, Typed, MemoryTyped
<1>2. CASE Begin(p)
  BY <1>1, <1>2 DEF Begin, RecordsOf
<1>3. CASE List(p)
  <2>1. pc[p] = "list" /\ UNCHANGED found
    BY <1>3 DEF List
  <2>2. found[p] = {}
    BY <2>1 DEF FoundPlaces, FoundAt, Places, PlacesOf
  <2> QED
    BY <1>1, <2>1, <2>2
<1>4. CASE Fetch(p)
  <2>1. PICK l \in open[p] :
          /\ open' = [open EXCEPT ![p] = open[p] \ {l}]
          /\ \/ found' = [found EXCEPT ![p] = found[p] \cup {<<l[1], l[2], Answer(l[2])>>}]
             \/ UNCHANGED found
    BY <1>4 DEF Fetch
  <2>2. open'[p] = open[p] \ {l} /\ l \in Bases \X Sources /\ l = <<l[1], l[2]>>
    BY <1>1, <2>1
  <2>3. CASE UNCHANGED found
    BY <1>1, <2>2, <2>3
  <2>4. CASE found' = [found EXCEPT ![p] = found[p] \cup {<<l[1], l[2], Answer(l[2])>>}]
    <3>1. found'[p] = found[p] \cup {<<l[1], l[2], Answer(l[2])>>}
      BY <1>1, <2>4
    <3>2. RecordsOf(found'[p])
      BY <1>1, <2>2, <3>1, RecordsAnswer
    <3> QED
      BY <1>1, <2>2, <3>1, <3>2
  <2> QED
    BY <2>1, <2>3, <2>4
<1>5. CASE Ask(p)
  <2>1. UNCHANGED found /\ \E l \in open[p] : \/ open' = [open EXCEPT ![p] = {m \in open[p] : m[1] # l[1]}]
                                              \/ open' = [open EXCEPT ![p] = open[p] \ {l}]
    BY <1>5 DEF Ask
  <2>2. open'[p] \subseteq open[p]
    BY <1>1, <2>1
  <2> QED
    BY <1>1, <2>1, <2>2
<1>6. CASE UNCHANGED <<found, open>>
  BY <1>1, <1>6
<1> QED
  BY <1>2, <1>3, <1>4, <1>5, <1>6 DEF Step, private, lookups, Load, Retain, Create, Write, Rename, Fetched, Asked, Remove, Make, RepoAdd, RecordAdded, Install, Refresh, Select, RepoRemove, RemoveFiles, Uninstall, Crash

\* What is in the files are true records.
LEMMA FileRecords ==
  ASSUME Typed, Places, Writers, Records, NEW p \in Procs, Step(p) \/ Crash(p)
  PROVE  \A i \in Inodes : RecordsOf(data'[i].info)
<1>1. /\ \A i \in Inodes : RecordsOf(data[i].info)
      /\ RecordsOf(mem[p]) /\ RecordsOf({}) /\ DOMAIN data = Inodes
  BY DEF Records, RecordsOf, Typed, DiskTyped
<1>2. CASE Create(p)
  BY <1>1, <1>2 DEF Create
<1>3. CASE Write(p)
  BY <1>1, <1>3 DEF Write
<1>4. CASE UNCHANGED data
  BY <1>1, <1>4
<1> QED
  BY <1>2, <1>3, <1>4 DEF Step, disk, Begin, Load, Retain, Rename, List, Fetch, Fetched, Ask, Asked, Remove, Make, RepoAdd, RecordAdded, Install, Refresh, Select, RepoRemove, RemoveFiles, Uninstall, Crash

LEMMA RecordsStep ==
  ASSUME Typed, Places, Writers, Records, FoundPlaces, [Next]_vars
  PROVE  Records'
<1>1. Typed'
  BY TypedStep
<1>2. /\ \A i \in Inodes : data'[i].info \in Info
      /\ \A q \in Procs : mem'[q] \in Info /\ found'[q] \in Info
      /\ was \in [Procs -> [Sources -> Turns]] /\ Turns \subseteq Nat
  BY <1>1, StoresAssumption DEF Typed, DiskTyped, MemoryTyped, HistoryTyped, Turns
<1>3. ASSUME NEW q \in Procs, NEW s \in Sources PROVE was[q][s] <= remote'[s]
  <2>1. was[q] \in [Sources -> Turns]
    BY DEF Typed, HistoryTyped
  <2>2. was[q][s] \in Nat
    BY <1>2, <2>1
  <2>3. was[q][s] <= remote[s]
    BY DEF Records
  <2>4. remote[s] \in Nat /\ remote'[s] \in Nat /\ remote[s] <= remote'[s]
    BY RemoteGrows
  <2> QED
    BY <2>2, <2>3, <2>4
<1>4. ASSUME NEW p \in Procs, Step(p) \/ Crash(p), NEW q \in Procs
      PROVE  /\ RecordsOf(mem'[q]) /\ RecordsOf(found'[q])
             /\ \A s \in Sources : was'[q][s] <= remote'[s]
             /\ \A t \in found'[q] : <<t[1], t[2]>> \notin open'[q]
  <2>1. CASE q # p
    <3>1. UNCHANGED <<mem[q], found[q], open[q], was[q]>>
      BY <1>4, <2>1, OthersKeep
    <3> QED
      BY <1>3, <3>1 DEF Records
  <2>2. CASE q = p
    <3>1. \A s \in Sources : was'[p][s] <= remote'[s]
      <4>1. CASE Begin(p)
        BY <1>2, <4>1, RemoteGrows DEF Begin, world
      <4>2. CASE ~Begin(p)
        <5>1. UNCHANGED was
          BY <1>4, <4>2 DEF Step, Crash, Fails, Fault, history, Load, Retain, Create, Write, Rename, List, Fetch, Fetched, Ask, Asked, Remove, Make, RepoAdd, RecordAdded, Install, Refresh, Select, RepoRemove, RemoveFiles, Uninstall
        <5> QED
          BY <1>3, <5>1
      <4> QED
        BY <4>1, <4>2
    <3> QED
      BY <1>4, <2>2, <3>1, MemoryRecords, FoundRecords
  <2> QED
    BY <2>1, <2>2
<1>5. ASSUME NEW p \in Procs, Step(p) \/ Crash(p)
      PROVE  \A i \in Inodes : RecordsOf(data'[i].info)
  BY <1>5, FileRecords
<1>6. ASSUME UNCHANGED <<data, mem, found, open, was>>
      PROVE  /\ \A i \in Inodes : RecordsOf(data'[i].info)
             /\ \A q \in Procs : /\ RecordsOf(mem'[q]) /\ RecordsOf(found'[q])
                                 /\ \A s \in Sources : was'[q][s] <= remote'[s]
                                 /\ \A t \in found'[q] : <<t[1], t[2]>> \notin open'[q]
  BY <1>6, <1>3 DEF Records
<1>7. /\ \A i \in Inodes : RecordsOf(data'[i].info)
      /\ \A q \in Procs : /\ RecordsOf(mem'[q]) /\ RecordsOf(found'[q])
                          /\ \A s \in Sources : was'[q][s] <= remote'[s]
                          /\ \A t \in found'[q] : <<t[1], t[2]>> \notin open'[q]
  BY <1>4, <1>5, <1>6, NextCases DEF Push, vars, history, disk, private, lookups
<1> QED
  BY <1>7 DEF Records, RecordsOf

-----------------------------------------------------------------------------
(* The lookups *)

\* The steps between the lookups of gendb are not at them.
LEMMA FoundQuiet ==
  ASSUME Typed, Places, NEW p \in Procs, Step(p),
         ~(Begin(p) \/ List(p) \/ Fetch(p) \/ Ask(p))
  PROVE  /\ UNCHANGED <<found, open>>
         /\ Command(p).op = "gendb" /\ then'[p] = "list" =>
              then[p] = "list" /\ pc[p] \notin {"fetch", "failed"} /\ pc'[p] # "fetch"
<1> USE DEF Goto, Enter, Fails, Fault, private, lookups
<1>1. DOMAIN pc = Procs /\ DOMAIN then = Procs
  BY DEF Typed, ControlTyped
<1>2. PlacesOf(Command(p).op, pc[p], then[p])
  BY StepBusy DEF Places
<1> USE DEF PlacesOf
<1>3. CASE Load(p)
  BY <1>1, <1>2, <1>3 DEF Load
<1>4. CASE Retain(p)
  BY <1>1, <1>2, <1>4 DEF Retain
<1>5. CASE Create(p)
  BY <1>1, <1>2, <1>5 DEF Create
<1>6. CASE Write(p)
  BY <1>1, <1>2, <1>6 DEF Write
<1>7. CASE Rename(p)
  BY <1>1, <1>2, <1>7 DEF Rename
<1>8. CASE Fetched(p)
  BY <1>1, <1>2, <1>8 DEF Fetched
<1>9. CASE Asked(p)
  BY <1>1, <1>2, <1>9 DEF Asked
<1>10. CASE Remove(p)
  BY <1>1, <1>2, <1>10 DEF Remove
<1>11. CASE Make(p)
  BY <1>1, <1>2, <1>11 DEF Make
<1>12. CASE RepoAdd(p)
  BY <1>1, <1>2, <1>12 DEF RepoAdd
<1>13. CASE RecordAdded(p)
  BY <1>1, <1>2, <1>13 DEF RecordAdded
<1>14. CASE Install(p)
  BY <1>1, <1>2, <1>14 DEF Install
<1>15. CASE Refresh(p)
  BY <1>1, <1>2, <1>15 DEF Refresh
<1>16. CASE Select(p)
  BY <1>1, <1>2, <1>16 DEF Select
<1>17. CASE RepoRemove(p)
  BY <1>1, <1>2, <1>17 DEF RepoRemove
<1>18. CASE RemoveFiles(p)
  BY <1>1, <1>2, <1>18 DEF RemoveFiles
<1>19. CASE Uninstall(p)
  BY <1>1, <1>2, <1>19 DEF Uninstall
<1> QED
  BY <1>3, <1>4, <1>5, <1>6, <1>7, <1>8, <1>9, <1>10, <1>11, <1>12, <1>13, <1>14, <1>15, <1>16, <1>17, <1>18, <1>19 DEF Step

LEMMA FoundPlacesStep ==
  ASSUME Typed, Places, FoundPlaces, [Next]_vars
  PROVE  FoundPlaces'
<1>1. ASSUME NEW p \in Procs, Step(p) \/ Crash(p), NEW q \in Procs, pc'[q] # "idle"
      PROVE  FoundAt(q)'
  <2>1. CASE q # p
    <3>1. UNCHANGED <<pc[q], then[q], todo[q], mem[q], found[q], open[q]>>
      BY <1>1, <2>1, OthersKeep
    <3> QED
      BY <1>1, <3>1 DEF FoundPlaces, FoundAt, Command
  <2>2. CASE q = p /\ Begin(p)
    <3>1. found'[p] = {} /\ pc'[p] # "fetch"
      BY <2>2, BeginFacts DEF Begin, Typed, MemoryTyped
    <3>2. Command(p)'.op = "build" => \A l \in open'[p] : l[1] = Command(p)'.base
      <4>1. Command(p)'.op = "build" => open'[p] = Lookups({Command(p)'.base})
        BY <2>2, BeginFacts
      <4> QED
        BY <4>1 DEF Lookups
    <3> QED
      BY <2>2, <3>1, <3>2 DEF FoundAt
  <2>3. CASE q = p /\ ~Begin(p)
    <3>1. UNCHANGED todo /\ Command(p)' = Command(p)
      BY <1>1, <2>3, CommandKept DEF Command
    <3>2. FoundAt(p) /\ PlacesOf(Command(p).op, pc[p], then[p])
      BY <1>1, <2>3, StepBusy DEF FoundPlaces, Places
    <3>3. /\ DOMAIN pc = Procs /\ DOMAIN open = Procs /\ DOMAIN found = Procs
          /\ open[p] \subseteq Bases \X Sources
      BY DEF Typed, ControlTyped, MemoryTyped
    <3>4. CASE List(p)
      <4>1. UNCHANGED <<found, mem, then>> /\ pc[p] = "list"
        BY <3>4 DEF List
      <4>2. Command(p).op \in {"check", "gendb"} /\ found[p] = {}
        BY <3>2, <4>1 DEF PlacesOf, FoundAt
      <4>3. Command(p).op = "gendb" => \A l \in open'[p] : l[1] \notin Recorded(mem[p])
        BY <3>3, <3>4 DEF List, Lookups
      <4> QED
        BY <2>3, <3>1, <4>1, <4>2, <4>3 DEF FoundAt
    <3>5. CASE Fetch(p)
      <4>1. PICK l \in open[p] :
              /\ open' = [open EXCEPT ![p] = open[p] \ {l}]
              /\ \/ found' = [found EXCEPT ![p] = found[p] \cup {<<l[1], l[2], Answer(l[2])>>}]
                 \/ UNCHANGED found
        BY <3>5 DEF Fetch
      <4>2. /\ open'[p] = open[p] \ {l}
            /\ found'[p] = found[p] \/ found'[p] = found[p] \cup {<<l[1], l[2], Answer(l[2])>>}
        BY <3>3, <4>1
      <4>3. UNCHANGED <<pc, then, mem>> /\ pc[p] = "fetch"
        BY <3>5 DEF Fetch
      <4>4. Command(p).op \in {"gendb", "build"}
        BY <3>2, <4>3 DEF PlacesOf
      <4> QED
        BY <2>3, <3>1, <3>2, <4>2, <4>3, <4>4 DEF FoundAt
    <3>6. CASE Ask(p)
      <4>1. UNCHANGED <<found, mem, then>> /\ pc[p] = "ask"
        BY <3>6 DEF Ask
      <4>2. Command(p).op = "check"
        BY <3>2, <4>1 DEF PlacesOf
      <4> QED
        BY <2>3, <3>1, <3>2, <4>1, <4>2 DEF FoundAt
    <3>7. CASE Crash(p)
      <4>1. UNCHANGED <<found, open>> /\ pc'[p] = "failed"
        BY <3>3, <3>7 DEF Crash, Fails, Goto, lookups
      <4> QED
        BY <2>3, <3>1, <3>2, <4>1 DEF FoundAt
    <3>8. CASE Step(p) /\ ~(List(p) \/ Fetch(p) \/ Ask(p))
      BY <2>3, <3>1, <3>2, <3>8, FoundQuiet DEF FoundAt
    <3> QED
      BY <1>1, <3>4, <3>5, <3>6, <3>7, <3>8
  <2> QED
    BY <2>1, <2>2, <2>3
<1>2. ASSUME UNCHANGED <<pc, then, todo, private>> PROVE FoundPlaces'
  BY <1>2 DEF FoundPlaces, FoundAt, Command, private, lookups
<1> QED
  BY <1>1, <1>2, NextCases DEF FoundPlaces, Push, vars

\* A source has answered what it answers now, and what it has answered stays said.
LEMMA AnswerSaid ==
  ASSUME Typed, Records, NEW p \in Procs, NEW x \in Sources
  PROVE  Answer(x) \in Since(p, x)
<1>1. remote[x] \in Nat /\ was[p][x] \in Nat
  BY StoresAssumption DEF Typed, WorldTyped, HistoryTyped, Turns
<1>2. was[p][x] <= remote[x]
  BY DEF Records
<1> QED
  BY <1>1, <1>2 DEF Since, Answer

LEMMA SinceGrows ==
  ASSUME Typed, Records, [Next]_vars, NEW p \in Procs, UNCHANGED was[p], NEW x \in Sources
  PROVE  Since(p, x) # {} /\ Since(p, x) \subseteq Since(p, x)'
<1>1. remote[x] \in Nat /\ remote'[x] \in Nat /\ remote[x] <= remote'[x] /\ was[p][x] \in Nat
  BY RemoteGrows, StoresAssumption DEF Typed, HistoryTyped, Turns
<1>2. Answer(x) \in Since(p, x)
  BY AnswerSaid
<1> QED
  BY <1>1, <1>2 DEF Since

\* A record of a check.
LEMMA RecordFacts ==
  ASSUME Typed, Records, NEW p \in Procs, NEW t \in mem[p]
  PROVE  /\ t = <<t[1], t[2], t[3]>> /\ t[1] \in Bases /\ t[2] \in Sources
         /\ \A c : <<t[1], t[2], c>> \in mem[p] => t[3] = c
<1>1. t \in Bases \X Sources \X Commits
  BY DEF Typed, MemoryTyped, Info
<1>2. RecordsOf(mem[p])
  BY DEF Records
<1>3. ASSUME NEW c, <<t[1], t[2], c>> \in mem[p] PROVE t[3] = c
  <2> DEFINE u == <<t[1], t[2], c>>
  <2>1. u \in mem[p] /\ u[1] = t[1] /\ u[2] = t[2] /\ u[3] = c
    BY <1>3
  <2> QED
    BY <1>2, <2>1 DEF RecordsOf
<1> QED
  BY <1>1, <1>3

\* One answer of a check.
LEMMA AskStep ==
  ASSUME Typed, Places, Records, NEW p \in Procs, Ask(p), CheckAt(p)
  PROVE  CheckAt(p)'
<1>1. /\ pc[p] = "ask" /\ UNCHANGED <<pc, todo, mem, view, was, remote>>
      /\ DOMAIN open = Procs /\ DOMAIN updates = Procs /\ open[p] \subseteq Bases \X Sources
  BY DEF Ask, Fault, history, world, Typed, MemoryTyped
<1>2. Behind(p)' = Behind(p) /\ \A x : Since(p, x)' = Since(p, x)
  BY <1>1 DEF Behind, Checked, Ignored, Since, Command
<1>3. PICK l \in open[p] :
        \/ /\ <<l[1], l[2], Answer(l[2])>> \notin mem[p]
           /\ updates' = [updates EXCEPT ![p] = updates[p] \cup {l[1]}]
           /\ open' = [open EXCEPT ![p] = {m \in open[p] : m[1] # l[1]}]
           /\ UNCHANGED history
        \/ /\ <<l[1], l[2], Answer(l[2])>> \in mem[p]
           /\ open' = [open EXCEPT ![p] = open[p] \ {l}]
           /\ UNCHANGED <<updates, history>>
        \/ /\ Fault
           /\ open' = [open EXCEPT ![p] = open[p] \ {l}]
           /\ UNCHANGED updates
  BY DEF Ask
<1>4. PICK r \in mem[p] : r[1] = l[1] /\ r[2] = l[2]
  BY <1>1, <1>3 DEF CheckAt
<1>5. l = <<l[1], l[2]>> /\ l[2] \in Sources
  BY <1>1, <1>3
<1>6. CASE /\ <<l[1], l[2], Answer(l[2])>> \notin mem[p]
           /\ updates' = [updates EXCEPT ![p] = updates[p] \cup {l[1]}]
           /\ open' = [open EXCEPT ![p] = {m \in open[p] : m[1] # l[1]}]
           /\ UNCHANGED history
  <2>1. updates'[p] = updates[p] \cup {l[1]} /\ open'[p] = {m \in open[p] : m[1] # l[1]}
    BY <1>1, <1>6
  <2>2. Since(p, r[2]) # {r[3]}
    <3>1. r[3] # Answer(r[2])
      BY <1>4, <1>6, RecordFacts
    <3>2. Answer(r[2]) \in Since(p, r[2])
      BY RecordFacts, AnswerSaid
    <3> QED
      BY <3>1, <3>2
  <2>3. UNCHANGED faults
    BY <1>6 DEF history
  <2>4. \A b \in updates'[p] : \E t \in mem[p] : t[1] = b /\ Since(p, t[2]) # {t[3]}
    BY <1>4, <2>1, <2>2 DEF CheckAt
  <2>5. faults = 0 => \A t \in Behind(p) : t[1] \in updates'[p] \/ <<t[1], t[2]>> \in open'[p]
    BY <1>1, <2>1 DEF CheckAt
  <2> QED
    BY <1>1, <1>2, <2>1, <2>3, <2>4, <2>5 DEF CheckAt
<1>7. CASE /\ <<l[1], l[2], Answer(l[2])>> \in mem[p]
           /\ open' = [open EXCEPT ![p] = open[p] \ {l}]
           /\ UNCHANGED <<updates, history>>
  <2>1. open'[p] = open[p] \ {l} /\ UNCHANGED <<updates, faults>>
    BY <1>1, <1>7 DEF history
  <2>2. \A t \in Behind(p) : <<t[1], t[2]>> # l
    <3> SUFFICES ASSUME NEW t \in Behind(p), <<t[1], t[2]>> = l PROVE FALSE
      OBVIOUS
    <3>1. t \in mem[p] /\ t[3] \notin Since(p, t[2]) /\ t[1] = l[1] /\ t[2] = l[2]
      BY <1>5 DEF Behind
    <3>2. t[3] = Answer(t[2])
      BY <1>7, <3>1, RecordFacts
    <3>3. Answer(t[2]) \in Since(p, t[2])
      BY <3>1, RecordFacts, AnswerSaid
    <3> QED
      BY <3>1, <3>2, <3>3
  <2> QED
    BY <1>1, <1>2, <2>1, <2>2 DEF CheckAt
<1>8. CASE /\ Fault
           /\ open' = [open EXCEPT ![p] = open[p] \ {l}]
           /\ UNCHANGED updates
  <2>1. open'[p] = open[p] \ {l} /\ UNCHANGED updates
    BY <1>1, <1>8
  <2>2. faults' # 0
    BY <1>8, StoresAssumption DEF Fault, Typed, HistoryTyped
  <2> QED
    BY <1>1, <1>2, <2>1, <2>2 DEF CheckAt
<1> QED
  BY <1>3, <1>6, <1>7, <1>8

LEMMA CheckPlacesStep ==
  ASSUME Typed, Places, Records, CheckPlaces, [Next]_vars
  PROVE  CheckPlaces'
<1>1. ASSUME NEW q \in Procs, pc[q] # "idle", Command(q).op = "check",
             UNCHANGED <<pc[q], todo[q], mem[q], updates[q], open[q], view[q], was[q]>>,
             faults' = 0 => faults = 0
      PROVE  CheckAt(q)'
  <2>1. CheckAt(q)
    BY <1>1 DEF CheckPlaces
  <2>2. \A t \in mem[q] : Since(q, t[2]) # {} /\ Since(q, t[2]) \subseteq Since(q, t[2])'
    BY <1>1, RecordFacts, SinceGrows
  <2>3. Behind(q)' \subseteq Behind(q)
    BY <1>1, <2>2 DEF Behind, Checked, Ignored, Command
  <2> QED
    BY <1>1, <2>1, <2>2, <2>3 DEF CheckAt
<1>2. ASSUME NEW p \in Procs, Step(p) \/ Crash(p), NEW q \in Procs, pc'[q] # "idle",
             Command(q)'.op = "check"
      PROVE  CheckAt(q)'
  <2>1. CASE q # p
    <3>1. UNCHANGED <<pc[q], todo[q], mem[q], updates[q], open[q], view[q], was[q]>>
      BY <1>2, <2>1, OthersKeep
    <3>2. faults' = 0 => faults = 0
      BY <1>2, FaultsGrow
    <3> QED
      BY <1>1, <1>2, <3>1, <3>2 DEF Command
  <2>2. CASE q = p /\ Begin(p)
    <3>1. updates'[p] = {} /\ pc'[p] \in {"load", "select", "refresh"}
      BY <2>2, BeginFacts DEF Begin, Typed, MemoryTyped
    <3> QED
      BY <2>2, <3>1 DEF CheckAt
  <2>3. CASE q = p /\ ~Begin(p)
    <3>1. UNCHANGED todo /\ Command(p).op = "check"
      BY <1>2, <2>3, CommandKept DEF Command
    <3>2. /\ pc[p] # "idle" /\ CheckAt(p) /\ then[p] = "list"
          /\ pc[p] \in {"load", "retain", "create", "write", "rename", "list", "ask", "ok", "failed"}
      BY <1>2, <2>3, <3>1, StepBusy DEF CheckPlaces, Places, PlacesOf
    <3>3. DOMAIN pc = Procs /\ DOMAIN open = Procs
      BY DEF Typed, ControlTyped, MemoryTyped
    <3>4. CASE Load(p) \/ Retain(p) \/ Create(p) \/ Write(p) \/ Rename(p)
      <4>1. updates[p] = {} /\ UNCHANGED updates
        BY <3>2, <3>4 DEF CheckAt, Load, Retain, Create, Write, Rename, private, lookups
      <4>2. pc'[p] \notin {"ask", "ok"}
        BY <3>2, <3>3, <3>4 DEF Load, Retain, Create, Write, Rename, Goto
      <4> QED
        BY <2>3, <4>1, <4>2 DEF CheckAt
    <3>5. CASE List(p)
      <4>1. /\ open'[p] = {l \in {<<t[1], t[2]>> : t \in Of(mem[p], Checked(p))} :
                              l[2] \notin Command(p).ignoreSource}
            /\ pc'[p] = "ask" /\ pc[p] = "list" /\ UNCHANGED <<todo, mem, updates, view, was, remote>>
        BY <3>1, <3>3, <3>5 DEF List, Goto, history, world
      <4>2. updates'[p] = {}
        BY <3>2, <4>1 DEF CheckAt
      <4>3. Behind(p)' = Behind(p)
        BY <4>1 DEF Behind, Checked, Ignored, Since, Command
      <4>4. \A t \in Behind(p) : <<t[1], t[2]>> \in open'[p]
        BY <4>1 DEF Behind, Of
      <4>5. \A l \in open'[p] : \E t \in mem[p] : t[1] = l[1] /\ t[2] = l[2]
        BY <4>1 DEF Of
      <4> QED
        BY <2>3, <4>1, <4>2, <4>3, <4>4, <4>5 DEF CheckAt
    <3>6. CASE Ask(p)
      BY <2>3, <3>2, <3>6, AskStep
    <3>7. CASE Asked(p)
      <4>1. /\ pc[p] = "ask" /\ pc'[p] = "ok" /\ open[p] = {}
            /\ UNCHANGED <<todo, mem, updates, open, view, was, remote, faults>>
        BY <3>3, <3>7 DEF Asked, Goto, history, world, private, lookups
      <4>2. Behind(p)' = Behind(p) /\ \A x : Since(p, x)' = Since(p, x)
        BY <4>1 DEF Behind, Checked, Ignored, Since, Command
      <4> QED
        BY <2>3, <3>2, <4>1, <4>2 DEF CheckAt
    <3>8. CASE Crash(p)
      <4>1. pc'[p] = "failed" /\ UNCHANGED <<mem, updates, remote, was>>
        BY <3>3, <3>8 DEF Crash, Fails, Fault, Goto, world, lookups
      <4>2. \A x : Since(p, x)' = Since(p, x)
        BY <4>1 DEF Since
      <4> QED
        BY <2>3, <3>2, <4>1, <4>2 DEF CheckAt
    <3> QED
      BY <1>2, <2>3, <3>1, <3>2, <3>4, <3>5, <3>6, <3>7, <3>8 DEF Step, Fetch, Fetched, Remove, Make, RepoAdd, RecordAdded, Install, Refresh, Select, RepoRemove, RemoveFiles, Uninstall
  <2> QED
    BY <2>1, <2>2, <2>3
<1>3. ASSUME UNCHANGED <<pc, todo, private, history>> PROVE CheckPlaces'
  <2> SUFFICES ASSUME NEW q \in Procs, pc'[q] # "idle", Command(q)'.op = "check"
               PROVE  CheckAt(q)'
    BY DEF CheckPlaces
  <2>1. Command(q)' = Command(q)
    BY <1>3 DEF Command
  <2>2. UNCHANGED <<pc[q], todo[q], mem[q], updates[q], open[q], view[q], was[q], faults>>
    BY <1>3 DEF private, lookups, history
  <2> QED
    BY <1>1, <2>1, <2>2
<1> QED
  BY <1>2, <1>3, NextCases DEF CheckPlaces, Push, vars

-----------------------------------------------------------------------------
(* The records are kept *)

\* The bases of fewer packages are fewer, and building a base adds no other one.
LEMMA BasesFacts ==
  /\ \A less, more : less \subseteq more => BasesOf(less) \subseteq BasesOf(more)
  /\ \A packages : \A c \in Bases : BasesOf(packages \cup Made[c]) \subseteq BasesOf(packages) \cup {c}
BY StoresAssumption DEF BasesOf

\* Without a clash devel.toml changes only when a file is renamed.
LEMMA PublishedKept ==
  ASSUME Typed, Places, Writers, Contents, ~clash, ~clash',
         NEW p \in Procs, Step(p) \/ Crash(p), ~Rename(p)
  PROVE  Published' = Published
<1>1. /\ name \in [toml: Inodes \cup {0}, tmp: Inodes \cup {0}] /\ DOMAIN data = Inodes
      /\ 0 \notin Inodes
  BY InodesFinite DEF Typed, DiskTyped
<1>2. CASE Create(p)
  BY <1>1, <1>2, CreateFacts DEF Published
<1>3. CASE Write(p)
  <2>1. pc[p] = "write" /\ UNCHANGED name
    BY <1>3 DEF Write
  <2>2. fd[p] = name.tmp /\ (name.toml # 0 => name.toml # name.tmp)
    BY <2>1 DEF Writers, Contents
  <2>3. name.toml # 0 => data'[name.toml] = data[name.toml]
    BY <1>1, <1>3, <2>2 DEF Write
  <2> QED
    BY <2>1, <2>3 DEF Published
<1>4. CASE Begin(p) \/ Crash(p)
  BY <1>4 DEF Begin, Crash, disk, Published
<1>5. CASE ~SaveStep(p)
  BY <1>5, QuietStep DEF SaveStep, Published
<1> QED
  BY <1>2, <1>3, <1>4, <1>5 DEF SaveStep

\* Rename publishes what the process holds.
LEMMA PublishedRenamed ==
  ASSUME Typed, Writers, Contents, ~clash, NEW p \in Procs, Rename(p)
  PROVE  Published' = mem[p] /\ UNCHANGED mem
BY RenameFacts DEF Published

\* A process covers what it covered, when the file is the same, nothing else is installed and
\* only records of what its command is about go.
LEMMA CoversKept ==
  ASSUME NEW p \in Procs, Covers(p), UNCHANGED <<Published, todo>>,
         \A c \in BasesOf(installed)' : c \in BasesOf(installed) \/ c \in Touched(p),
         \A t \in mem[p] : t \in mem'[p] \/ t[1] \in Touched(p)
  PROVE  Covers(p)'
<1>1. Touched(p)' = Touched(p)
  BY DEF Touched, Command, BasesOf
<1> QED
  BY <1>1 DEF Covers

\* The steps after which a process goes on to write nothing that it holds.
LEMMA KeepAtIdle ==
  ASSUME Typed, Places, NEW p \in Procs,
         Begin(p) \/ Select(p) \/ RepoRemove(p) \/ RemoveFiles(p) \/ Uninstall(p) \/ Crash(p)
  PROVE  KeepAt(p)'
<1>1. DOMAIN pc = Procs /\ DOMAIN then = Procs
  BY DEF Typed, ControlTyped
<1>2. CASE Begin(p)
  <2>1. PlacesOf(Command(p)'.op, pc'[p], then'[p]) /\ pc'[p] \in {"load", "select", "refresh"}
    BY <1>2, BeginFacts
  <2>2. pc'[p] = "refresh" => then'[p] # "added"
    <3>1. /\ pc'[p] = First[Command(p)'.op] /\ then'[p] = After[Command(p)'.op]
          /\ Command(p)'.op \in {"check", "gendb", "remove", "build", "delete", "clean", "refresh"}
      BY <1>2, BeginFacts DEF Requests
    <3> QED
      BY <3>1 DEF First, After
  <2>3. view'[p].local = installed'
    <3>1. view'[p] = Seen(Command(p)')
      BY <1>2, BeginFacts DEF Typed, MemoryTyped
    <3> QED
      BY <1>2, <3>1 DEF Begin, Seen, world
  <2> QED
    BY <2>1, <2>2, <2>3 DEF KeepAt, Keeping
<1>3. CASE ~Begin(p)
  <2>1. PlacesOf(Command(p).op, pc[p], then[p])
    BY <1>3, StepBusy DEF Places, Step
  <2> USE DEF Goto, Enter, Fails, PlacesOf, KeepAt, Keeping
  <2>2. CASE Select(p)
    BY <1>1, <2>1, <2>2 DEF Select
  <2>3. CASE RepoRemove(p)
    BY <1>1, <2>1, <2>3 DEF RepoRemove
  <2>4. CASE RemoveFiles(p)
    BY <1>1, <2>1, <2>4 DEF RemoveFiles
  <2>5. CASE Uninstall(p)
    BY <1>1, <2>1, <2>5 DEF Uninstall
  <2>6. CASE Crash(p)
    BY <1>1, <2>6 DEF Crash
  <2> QED
    BY <1>3, <2>2, <2>3, <2>4, <2>5, <2>6
<1> QED
  BY <1>2, <1>3

\* The steps that change nothing of what the process at work covers.
LEMMA CoversQuiet ==
  ASSUME Typed, NEW p \in Procs,
         Create(p) \/ Write(p) \/ List(p) \/ Fetch(p) \/ Ask(p) \/ Asked(p) \/ Make(p) \/ RepoAdd(p)
  PROVE  /\ UNCHANGED <<installed, mem>> /\ Keeping(p) /\ pc'[p] \notin {"load", "retain"}
<1> USE DEF Goto, Enter, Fails, world, private, Keeping
<1>1. DOMAIN pc = Procs
  BY DEF Typed, ControlTyped
<1>2. CASE Create(p)
  BY <1>1, <1>2 DEF Create
<1>3. CASE Write(p)
  BY <1>1, <1>3 DEF Write
<1>4. CASE List(p)
  BY <1>1, <1>4 DEF List
<1>5. CASE Fetch(p)
  BY <1>1, <1>5 DEF Fetch
<1>6. CASE Ask(p)
  BY <1>1, <1>6 DEF Ask
<1>7. CASE Asked(p)
  BY <1>1, <1>7 DEF Asked
<1>8. CASE Make(p)
  BY <1>1, <1>8 DEF Make
<1>9. CASE RepoAdd(p)
  BY <1>1, <1>9 DEF RepoAdd
<1> QED
  BY <1>2, <1>3, <1>4, <1>5, <1>6, <1>7, <1>8, <1>9

\* The record of the base that is built is replaced, the others are kept.
LEMMA RecordCovers ==
  ASSUME Typed, Places, NEW p \in Procs, pc[p] \in {"added", "install"}, Record(p)
  PROVE  /\ Command(p).op = "build" /\ Touched(p) = {Command(p).base}
         /\ \A t \in mem[p] : t \in mem'[p] \/ t[1] \in Touched(p)
<1>1. Command(p).op = "build"
  BY DEF Places, PlacesOf
<1>2. Touched(p) = {Command(p).base}
  BY <1>1 DEF Touched
<1>3. mem'[p] = Of(mem[p], Bases \ {Command(p).base}) \cup found[p] /\ mem[p] \in Info
  BY DEF Record, Typed, MemoryTyped
<1>4. \A t \in mem[p] : t[1] \in Bases
  BY <1>3 DEF Info
<1> QED
  BY <1>1, <1>2, <1>3, <1>4 DEF Of

\* A process that is between two steps of its work keeps what the next ones rely on.
LEMMA KeepAtStep ==
  ASSUME Typed, Places, Writers, Contents, ~clash, ~clash', NEW p \in Procs, KeepAt(p), Step(p),
         ~(Begin(p) \/ Select(p) \/ RepoRemove(p) \/ RemoveFiles(p) \/ Uninstall(p))
  PROVE  KeepAt(p)'
<1>1. DOMAIN pc = Procs /\ DOMAIN then = Procs /\ DOMAIN mem = Procs
  BY DEF Typed, ControlTyped, MemoryTyped
<1>2. PlacesOf(Command(p).op, pc[p], then[p]) /\ UNCHANGED todo /\ Command(p)' = Command(p)
  BY StepBusy, CommandKept DEF Places, Command
<1>3. ~Rename(p) => Published' = Published
  BY PublishedKept
<1>4. CASE Load(p)
  <2>1. pc[p] = "load" /\ UNCHANGED <<installed, name, data>> /\ then[p] \notin {"load", "retain"}
    BY <1>2, <1>4 DEF Load, world, disk, PlacesOf
  <2>2. CASE name.toml = 0
    <3>1. Published' = {}
      BY <2>1, <2>2 DEF Published
    <3>2. pc'[p] = then[p]
      BY <1>1, <1>4, <2>2 DEF Load, Goto
    <3> QED
      BY <2>1, <3>1, <3>2 DEF KeepAt, Covers
  <2>3. CASE name.toml # 0 /\ data[name.toml].whole
    <3>1. mem'[p] = Published' /\ pc'[p] = "retain" /\ UNCHANGED view
      BY <1>1, <1>4, <2>1, <2>3 DEF Load, Goto, Published
    <3> QED
      BY <1>2, <2>1, <3>1 DEF KeepAt, Keeping
  <2>4. CASE name.toml # 0 /\ ~data[name.toml].whole
    <3>1. pc'[p] = "failed"
      BY <1>1, <1>4, <2>4 DEF Load, Goto
    <3> QED
      BY <3>1 DEF KeepAt, Keeping
  <2> QED
    BY <2>2, <2>3, <2>4
<1>5. CASE Retain(p)
  <2>1. /\ pc[p] = "retain" /\ pc'[p] = "create" /\ UNCHANGED installed
        /\ mem'[p] = Of(mem[p], BasesOf(view'[p].local \cup view'[p].repo))
    BY <1>1, <1>5 DEF Retain, Goto, world
  <2>2. view'[p].local = installed
    <3>1. CASE Command(p).op \in {"build", "gendb"}
      BY <1>5, <2>1, <3>1 DEF KeepAt, Retain, Look
    <3>2. CASE Command(p).op \notin {"build", "gendb"}
      <4>1. view' = [view EXCEPT ![p] = Seen(Command(p))] /\ DOMAIN view = Procs
        BY <1>5, <3>2 DEF Retain, Look, Typed, MemoryTyped
      <4> QED
        BY <4>1 DEF Seen
    <3> QED
      BY <3>1, <3>2
  <2>3. BasesOf(installed) \subseteq BasesOf(view'[p].local \cup view'[p].repo)
    BY <2>2, BasesFacts
  <2>4. mem[p] = Published'
    BY <1>3, <1>5, <2>1 DEF KeepAt, Retain, Rename
  <2>5. Covers(p)'
    BY <2>1, <2>3, <2>4 DEF Covers, Of
  <2> QED
    BY <2>1, <2>5 DEF KeepAt
<1>6. CASE Rename(p)
  <2>1. Published' = mem'[p]
    BY <1>6, PublishedRenamed
  <2>2. pc'[p] \notin {"load", "retain"}
    <3>1. pc'[p] = then[p] \/ pc'[p] = "failed"
      BY <1>1, <1>6 DEF Rename, Goto
    <3>2. pc[p] = "rename"
      BY <1>6 DEF Rename
    <3> QED
      BY <3>1, <3>2, ReturnPlaces
  <2> QED
    BY <2>1, <2>2 DEF KeepAt, Covers
<1>7. ASSUME ~Rename(p), Keeping(p), pc'[p] \notin {"load", "retain"},
             \A c \in BasesOf(installed)' : c \in BasesOf(installed) \/ c \in Touched(p),
             \A t \in mem[p] : t \in mem'[p] \/ t[1] \in Touched(p)
      PROVE  KeepAt(p)'
  BY <1>2, <1>3, <1>7, CoversKept DEF KeepAt
<1>8. CASE Create(p) \/ Write(p) \/ List(p) \/ Fetch(p) \/ Ask(p) \/ Asked(p) \/ Make(p) \/ RepoAdd(p)
  <2>1. UNCHANGED <<installed, mem>> /\ Keeping(p) /\ pc'[p] \notin {"load", "retain"}
    BY <1>8, CoversQuiet
  <2>2. ~Rename(p)
    BY <1>8 DEF Rename, Create, Write, List, Fetch, Ask, Asked, Make, RepoAdd
  <2> QED
    BY <1>7, <2>1, <2>2 DEF BasesOf
<1>9. CASE Fetched(p)
  <2>1. /\ Keeping(p) /\ pc[p] = "fetch" /\ pc'[p] \notin {"load", "retain"} /\ UNCHANGED installed
        /\ mem[p] \subseteq mem'[p]
    BY <1>1, <1>9 DEF Fetched, Goto, Enter, Keeping, world
  <2> QED
    BY <1>7, <2>1 DEF BasesOf, Rename
<1>10. CASE Remove(p)
  <2>1. Keeping(p) /\ pc[p] = "backend" /\ pc'[p] \notin {"load", "retain"}
    BY <1>1, <1>10 DEF Remove, Goto, Enter, Fails, Keeping
  <2>2. BasesOf(installed)' \subseteq BasesOf(installed)
    BY <1>10 DEF Remove, BasesOf, Fails
  <2>3. Touched(p) = BasesOf(Command(p).pkgs)
    BY <1>2, <2>1 DEF PlacesOf, Touched
  <2>4. \A t \in mem[p] : t \in mem'[p] \/ t[1] \in Touched(p)
    <3>1. \A t \in mem[p] : t[1] \in Bases
      BY DEF Typed, MemoryTyped, Info
    <3>2. BasesOf(Command(p).pkgs \cap view[p].local) \subseteq Touched(p)
      BY <2>3, BasesFacts
    <3>3. mem'[p] = mem[p] \/ mem'[p] = Of(mem[p], Bases \ BasesOf(Command(p).pkgs \cap view[p].local))
      BY <1>1, <1>10 DEF Remove
    <3> QED
      BY <3>1, <3>2, <3>3 DEF Of
  <2> QED
    BY <1>7, <2>1, <2>2, <2>4 DEF Rename
<1>11. CASE RecordAdded(p)
  <2>1. /\ Keeping(p) /\ pc[p] = "added" /\ pc'[p] \notin {"load", "retain"} /\ UNCHANGED installed
        /\ Record(p)
    BY <1>1, <1>11 DEF RecordAdded, Goto, Enter, Keeping, world
  <2> QED
    BY <1>7, <2>1, RecordCovers DEF BasesOf, Rename
<1>12. CASE Install(p)
  <2>1. /\ Keeping(p) /\ pc[p] = "install" /\ pc'[p] \notin {"load", "retain"}
        /\ Record(p) \/ UNCHANGED mem
        /\ installed' = installed \/ installed' = installed \cup Made[Command(p).base]
    BY <1>1, <1>12 DEF Install, Goto, Enter, Fails, Keeping
  <2>2. Touched(p) = {Command(p).base} /\ Command(p).base \in Bases
    BY <1>2, <2>1, CommandType DEF PlacesOf, Touched
  <2>3. BasesOf(installed)' \subseteq BasesOf(installed) \cup Touched(p)
    <3>1. BasesOf(installed)' = BasesOf(installed')
      BY DEF BasesOf
    <3> QED
      BY <2>1, <2>2, <3>1, BasesFacts
  <2> QED
    BY <1>7, <2>1, <2>3, RecordCovers DEF Rename
<1>13. CASE Refresh(p)
  <2>1. /\ pc[p] = "refresh" /\ pc'[p] = then[p] /\ UNCHANGED <<installed, mem>>
        /\ then[p] \in {"added", "uninstall", "select", "ok"}
    BY <1>1, <1>2, <1>13 DEF Refresh, Goto, PlacesOf, private
  <2>2. CASE then[p] = "added"
    BY <1>7, <2>1, <2>2 DEF Keeping, BasesOf, Rename
  <2>3. CASE then[p] # "added"
    BY <2>1, <2>3 DEF KeepAt, Keeping
  <2> QED
    BY <2>2, <2>3
<1> QED
  BY <1>4, <1>5, <1>6, <1>8, <1>9, <1>10, <1>11, <1>12, <1>13 DEF Step

LEMMA KeepPlacesStep ==
  ASSUME Typed, Places, Writers, Contents, OneAtWork, KeepPlaces, OneAtWork', [Next]_vars
  PROVE  KeepPlaces'
<1>1. ASSUME NEW p \in Procs, Step(p) \/ Crash(p), alone', NEW q \in Procs PROVE KeepAt(q)'
  <2>1. alone /\ ~clash /\ ~clash' /\ \A r \in Procs \ {p} : Idle(r)'
    BY <1>1, Alone DEF OneAtWork
  <2>2. CASE q # p
    BY <2>1, <2>2 DEF Idle, KeepAt, Keeping
  <2>3. CASE q = p
    <3>1. KeepAt(p)
      BY <2>1 DEF KeepPlaces
    <3> QED
      BY <1>1, <2>1, <2>3, <3>1, KeepAtStep, KeepAtIdle
  <2> QED
    BY <2>2, <2>3
<1>2. ASSUME UNCHANGED <<installed, disk, pc, then, todo, mem, view, alone>> PROVE KeepPlaces'
  BY <1>2 DEF KeepPlaces, KeepAt, Keeping, Covers, Published, Touched, BasesOf, Command, disk
<1> QED
  BY <1>1, <1>2, NextCases DEF KeepPlaces, Push, vars, world, private, history

-----------------------------------------------------------------------------
(* The theorems *)

\* Everything together.
IInv ==
  /\ Typed /\ Places /\ Writers /\ Contents /\ OneAtWork /\ RepoPlaces /\ SyncPlaces
  /\ Records /\ FoundPlaces /\ CheckPlaces /\ KeepPlaces

LEMMA InitTyped == ASSUME Init PROVE Typed
<1>1. PICK s \in Scenarios :
        /\ installed = s.installed /\ repo = s.repo /\ files = s.repo /\ synced = s.repo
        /\ remote = [x \in Sources |-> 0]
        /\ name = [toml |-> IF s.info = {} THEN 0 ELSE 1, tmp |-> 0]
        /\ data = [i \in Inodes |-> [whole |-> TRUE, info |-> IF i = 1 THEN s.info ELSE {}]]
        /\ pc = [p \in Procs |-> "idle"] /\ then = pc
        /\ todo = s.todo
        /\ mem = [p \in Procs |-> {}] /\ found = mem /\ updates = mem /\ open = mem /\ doomed = mem
        /\ view = [p \in Procs |-> [local |-> {}, repo |-> {}]]
        /\ fd = [p \in Procs |-> 0]
        /\ faults = 0 /\ was = [p \in Procs |-> remote] /\ alone = TRUE /\ clash = FALSE
  BY DEF Init
<1>2. /\ s.installed \in SUBSET Packages /\ s.repo \in SUBSET Packages
      /\ s.info \in SUBSET {<<b, x, Sha[x][0]>> : b \in Bases, x \in Sources} /\ s.todo \in [Procs -> Seq(Requests)]
  BY StoresAssumption DEF Scenario
<1>3. 0 \in Turns /\ 1 \in Inodes
  BY StoresAssumption, InodesFinite DEF Turns, Inodes
<1>4. s.info \in Info
  BY <1>2, <1>3, StoresAssumption DEF Info, Turns
<1>5. WorldTyped
  BY <1>1, <1>2, <1>3 DEF WorldTyped
<1>6. DiskTyped
  BY <1>1, <1>3, <1>4, HelperTypes DEF DiskTyped
<1>7. ControlTyped
  BY <1>1, <1>2 DEF ControlTyped, Labels
<1>8. MemoryTyped
  BY <1>1, HelperTypes DEF MemoryTyped, View
<1>9. HistoryTyped
  <2>1. was \in [Procs -> [Sources -> Turns]]
    BY <1>1, <1>5 DEF WorldTyped
  <2>2. faults = 0 /\ alone /\ ~clash /\ alone \in BOOLEAN /\ clash \in BOOLEAN
    BY <1>1
  <2>3. 0 \in 0..MaxFaults
    BY StoresAssumption
  <2> QED
    BY <2>1, <2>2, <2>3 DEF HistoryTyped
<1> QED
  BY <1>5, <1>6, <1>7, <1>8, <1>9 DEF Typed

LEMMA InitRecords == ASSUME Init PROVE Records
<1>1. PICK s \in Scenarios :
        /\ remote = [x \in Sources |-> 0]
        /\ data = [i \in Inodes |-> [whole |-> TRUE, info |-> IF i = 1 THEN s.info ELSE {}]]
        /\ mem = [p \in Procs |-> {}] /\ found = mem /\ was = [p \in Procs |-> remote]
  BY DEF Init
<1>2. s.info \in SUBSET {<<b, x, Sha[x][0]>> : b \in Bases, x \in Sources}
  BY StoresAssumption DEF Scenario
<1>3. RecordsOf({})
  BY DEF RecordsOf
<1>4. RecordsOf(s.info)
  <2>1. \A t \in s.info : t[3] = Sha[t[2]][0]
    BY <1>2
  <2> QED
    BY <2>1 DEF RecordsOf
<1>5. \A p \in Procs : \A x \in Sources : was[p][x] <= remote[x]
  BY <1>1
<1>6. \A i \in Inodes : RecordsOf(data[i].info)
  BY <1>1, <1>3, <1>4
<1> QED
  BY <1>1, <1>3, <1>5, <1>6 DEF Records

LEMMA InitHolds == ASSUME Init PROVE IInv
<1>1. /\ \A p \in Procs : pc[p] = "idle" /\ fd[p] = 0
      /\ ~clash /\ alone /\ synced = repo /\ repo \subseteq files
      /\ name.toml # 0 => name.tmp = 0 /\ name.toml = 1 /\ data[name.toml].whole
  BY InodesFinite DEF Init, Inodes
<1>2. Places /\ Writers /\ Contents /\ OneAtWork /\ RepoPlaces /\ SyncPlaces
  BY <1>1 DEF Places, Writers, Contents, OneAtWork, RepoPlaces, SyncPlaces, Idle
<1>3. FoundPlaces /\ CheckPlaces /\ KeepPlaces
  BY <1>1 DEF FoundPlaces, CheckPlaces, KeepPlaces, KeepAt, Keeping
<1> QED
  BY <1>2, <1>3, InitTyped, InitRecords DEF IInv

LEMMA StepHolds == ASSUME IInv, [Next]_vars PROVE IInv'
<1>1. Typed /\ Places /\ Writers /\ Contents /\ OneAtWork /\ RepoPlaces /\ SyncPlaces /\ Records
      /\ FoundPlaces /\ CheckPlaces /\ KeepPlaces
  BY DEF IInv
<1>2. Typed' /\ Places' /\ Writers' /\ Contents'
  BY <1>1, TypedStep, PlacesStep, WritersStep, ContentsStep
<1>3. OneAtWork'
  BY <1>1, OneAtWorkStep
<1>4. RepoPlaces' /\ SyncPlaces'
  BY <1>1, RepoPlacesStep, SyncPlacesStep
<1>5. Records' /\ FoundPlaces' /\ CheckPlaces'
  BY <1>1, RecordsStep, FoundPlacesStep, CheckPlacesStep
<1>6. KeepPlaces'
  BY <1>1, <1>3, KeepPlacesStep
<1> QED
  BY <1>2, <1>3, <1>4, <1>5, <1>6 DEF IInv

LEMMA Invariant == Spec => []IInv
<1>1. Init => IInv
  BY InitHolds
<1>2. IInv /\ [Next]_vars => IInv'
  BY StepHolds
<1> QED
  BY <1>1, <1>2, PTL DEF Spec

\* Every variable has its type, and who writes has the file of devel.toml.tmp open unless two
\* processes have clashed.
THEOREM TypeCorrect == Spec => []TypeOK
<1>1. IInv => TypeOK
  <2> SUFFICES ASSUME IInv PROVE TypeOK
    OBVIOUS
  <2>1. Typed /\ Writers
    BY DEF IInv
  <2>2. ASSUME NEW p \in Procs
        PROVE  /\ \A t \in mem[p] \cup found[p] : t \in Bases \X Sources \X Commits
               /\ updates[p] \subseteq Bases /\ open[p] \subseteq Bases \X Sources
               /\ doomed[p] \subseteq Packages
               /\ fd[p] \in Inodes \cup {0}
               /\ pc[p] \in {"write", "rename"} => fd[p] # 0 /\ (clash \/ fd[p] = name.tmp)
    <3>1. mem[p] \in Info /\ found[p] \in Info
      BY <2>1 DEF Typed, MemoryTyped
    <3>2. \A t \in mem[p] \cup found[p] : t \in Bases \X Sources \X Commits
      BY <3>1 DEF Info
    <3>3. /\ updates[p] \subseteq Bases /\ open[p] \subseteq Bases \X Sources
          /\ doomed[p] \subseteq Packages /\ fd[p] \in Inodes \cup {0}
      BY <2>1 DEF Typed, MemoryTyped, DiskTyped
    <3>4. pc[p] \in {"write", "rename"} => fd[p] # 0 /\ (clash \/ fd[p] = name.tmp)
      BY <2>1 DEF Writers
    <3> QED
      BY <3>2, <3>3, <3>4
  <2>3. \A i \in Inodes : data[i].whole \in BOOLEAN
    BY <2>1 DEF Typed, DiskTyped
  <2> QED
    BY <2>1, <2>2, <2>3 DEF TypeOK, Typed, WorldTyped, DiskTyped, ControlTyped, HistoryTyped
<1> QED
  BY <1>1, Invariant, PTL

\* devel.toml is never half-written, whichever process is killed at whichever step, as long as
\* no two processes save at the same time (save_devel_info).
THEOREM PublishedWholeHolds == Spec => []PublishedWhole
<1>1. IInv => PublishedWhole
  <2> SUFFICES ASSUME IInv, ~clash, name.toml # 0
               PROVE  data[name.toml].whole /\ \A p \in Procs : fd[p] # name.toml
    BY DEF PublishedWhole
  <2> QED
    BY DEF IInv, Contents, Writers
<1> QED
  BY <1>1, Invariant, PTL

\* While processes do not overlap, a package that the repository lists has its file, after any
\* failure and any crash (build_install_pkgbuilds, delete, clean).
THEOREM RepoHasFilesHolds == Spec => []RepoHasFiles
<1>1. IInv => RepoHasFiles
  BY DEF IInv, RepoPlaces, RepoHasFiles
<1> QED
  BY <1>1, Invariant, PTL

\* When nothing is running and nothing failed, libalpm sees the repository as it is (refresh
\* after every repo-add and repo-remove).
THEOREM SyncedAtRestHolds == Spec => []SyncedAtRest
<1>1. IInv => SyncedAtRest
  BY DEF IInv, SyncPlaces, SyncedAtRest, Idle
<1> QED
  BY <1>1, Invariant, PTL

\* For any bases, sources, answers and commands: a base that a check reports has a source that
\* did not answer the commit on record; without failures a base that is looked at is reported when
\* a source has answered nothing but other commits since the check began, in whatever order the
\* answers come (possible_devel_updates, pkg_has_update).
THEOREM UpdatesFoundHolds == Spec => []UpdatesFound
<1>1. IInv => UpdatesFound
  <2> SUFFICES ASSUME IInv, NEW p \in Procs, pc[p] = "ok", Command(p).op = "check"
               PROVE  /\ \A b \in updates[p] : \E t \in mem[p] : t[1] = b /\ Since(p, t[2]) # {t[3]}
                      /\ faults = 0 => \A t \in mem[p] :
                           /\ t[3] \notin Since(p, t[2])
                           /\ t[2] \notin Command(p).ignoreSource
                           /\ t[1] \notin Ignored(p)
                           /\ ~Command(p).localRepo => NameOf[t[1]] \notin Official
                           /\ Command(p).localRepo => NameOf[t[1]] \in view[p].repo
                           => t[1] \in updates[p]
    BY DEF UpdatesFound
  <2>1. CheckAt(p)
    BY DEF IInv, CheckPlaces
  <2>2. open[p] = {} /\ (faults = 0 => \A t \in Behind(p) : t[1] \in updates[p])
    BY <2>1 DEF CheckAt
  <2>3. \A t \in mem[p] :
          /\ t[1] \notin Ignored(p)
          /\ ~Command(p).localRepo => NameOf[t[1]] \notin Official
          /\ Command(p).localRepo => NameOf[t[1]] \in view[p].repo
          => t[1] \in Checked(p)
    <3>1. \A t \in mem[p] : t[1] \in Recorded(mem[p])
      BY DEF Recorded
    <3> QED
      BY <3>1 DEF Checked
  <2> QED
    BY <2>1, <2>2, <2>3 DEF Behind, CheckAt
<1> QED
  BY <1>1, Invariant, PTL

\* While processes do not overlap, the record of a base of which something is installed is
\* changed by nothing but building the base or removing a package of it (load_devel_info,
\* save_devel_info and what each command does in between).
THEOREM KeepsRecordsHolds == Spec => KeepsRecords
<1> DEFINE Kept ==
      alone' => \A t \in Published :
        \/ t \in Published' \/ t[1] \notin BasesOf(installed)
        \/ \E p \in Procs : pc[p] = "rename" /\ t[1] \in Touched(p)
<1>1. ASSUME IInv, IInv', [Next]_vars PROVE Kept
  <2> SUFFICES ASSUME alone', NEW t \in Published
               PROVE  \/ t \in Published' \/ t[1] \notin BasesOf(installed)
                      \/ \E p \in Procs : pc[p] = "rename" /\ t[1] \in Touched(p)
    OBVIOUS
  <2>1. Typed /\ Places /\ Writers /\ Contents /\ OneAtWork /\ KeepPlaces /\ OneAtWork'
    BY <1>1 DEF IInv
  <2>2. ASSUME NEW p \in Procs, Step(p) \/ Crash(p)
        PROVE  \/ t \in Published' \/ t[1] \notin BasesOf(installed)
               \/ pc[p] = "rename" /\ t[1] \in Touched(p)
    <3>1. alone /\ ~clash /\ ~clash'
      BY <2>1, <2>2, Alone DEF OneAtWork
    <3>2. CASE Rename(p)
      <4>1. pc[p] = "rename" /\ Published' = mem[p]
        BY <2>1, <3>1, <3>2, PublishedRenamed DEF Rename
      <4>2. Covers(p)
        BY <2>1, <3>1, <4>1 DEF KeepPlaces, KeepAt, Keeping
      <4> QED
        BY <4>1, <4>2 DEF Covers
    <3>3. CASE ~Rename(p)
      BY <2>1, <2>2, <3>1, <3>3, PublishedKept
    <3> QED
      BY <3>2, <3>3
  <2>3. ASSUME UNCHANGED disk PROVE t \in Published'
    BY <2>3 DEF disk, Published
  <2> QED
    BY <1>1, <2>2, <2>3, NextCases DEF Push, vars
<1>2. IInv /\ IInv' /\ [Next]_vars => [Kept]_vars
  BY <1>1
<1>3. KeepsRecords <=> [][Kept]_vars
  BY DEF KeepsRecords
<1> HIDE DEF Kept
<1> QED
  BY <1>2, <1>3, Invariant, PTL DEF Spec

=============================================================================
