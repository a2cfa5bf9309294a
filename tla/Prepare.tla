-------------------------------- MODULE Prepare --------------------------------
(***************************************************************************)
(* What a run of bah does before it builds anything: refresh the PKGBUILD  *)
(* repositories, confirm, download and merge the PKGBUILDs of AUR bases,   *)
(* have them reviewed, ask for keys, install what comes from repositories. *)
(* A clone outlives the run, and so does the mark that git keeps of the    *)
(* commit that was seen; a run may be refused, fail or be killed at any    *)
(* step, and the next one starts from what is left.  Runs do not overlap.  *)
(***************************************************************************)
EXTENDS Naturals, FiniteSets

CONSTANTS
  Bases,        \* package bases of the AUR: a clone for each
  Repos,        \* PKGBUILD repositories with a URL: a clone and a base for each
  SkipReview,   \* the repositories that are configured with SkipReview
  ForceSrcinfo, \* and those with GenerateSrcinfo
  MaxCommit,    \* bound: commits 1..MaxCommit of each clone
  Version,      \* the package version that a commit declares
  KeysOf,       \* the validpgpkeys of a commit
  Foreign,      \* the commits of bases that are not for this architecture
  Sessions,     \* what a run may be asked to do, with its options
  MaxSessions,  \* bound: runs
  MaxFaults     \* bound: failed steps and kills

Clones == Bases \cup Repos
Commits == 1..MaxCommit
None == 0
Keys == UNION {KeysOf[c][v] : c \in Clones, v \in Commits}

ASSUME PrepareAssumption ==
  /\ Bases \cap Repos = {} /\ SkipReview \subseteq Repos /\ ForceSrcinfo \subseteq Repos
  /\ MaxCommit \in Nat \ {0} /\ MaxSessions \in Nat /\ MaxFaults \in Nat
  /\ Version \in [Clones -> [Commits -> Nat]]
  /\ Foreign \subseteq Bases \X Commits
  /\ Sessions \subseteq
       [build : SUBSET Clones,   \* the bases that are to be built or installed
        built : SUBSET Bases,    \* those of them whose packages a local repository has already
        targets : SUBSET Bases,  \* those of them that the user named
        install : BOOLEAN,       \* some packages come from a repository
        conflict : BOOLEAN,      \* and some conflict with each other or with what is installed
        refresh : BOOLEAN, noConfirm : BOOLEAN, skipReview : BOOLEAN, fileManager : BOOLEAN,
        redownload : {"no", "yes", "all"}, pgpFetch : BOOLEAN, chroot : BOOLEAN]

\* A version is that of its commit or a later one.
ASSUME VersionsGrow ==
  \A c \in Clones : \A v, w \in Commits : v <= w => Version[c][v] <= Version[c][w]

VARIABLES
  remote,     \* the newest commit on the server
  fetched,    \* the commit that the upstream branch of the clone is at
  tree,       \* the commit that is checked out
  seen,       \* the commit that AUR_SEEN names
  info,       \* the commit that the .SRCINFO of a base of a repository was made from
  keyring,
  pc, then,   \* the place in the run, and the one after a review
  s,          \* the run
  todo,       \* the clones that a download or a merge has still to do
  list,       \* the clones to be reviewed
  resolved,   \* the commits whose versions the AUR named to this run
  srcinfos,   \* the commits that the run has read .SRCINFO files of
  runs, faults,
  accepted,   \* history: the commits that the user has agreed to
  first,      \* history: the commit that a clone began with
  asked       \* history: the keys that this run has asked for

clones == <<fetched, tree, seen, info>>
run == <<then, s, todo, list, resolved, srcinfos>>
history == <<accepted, first, asked>>
vars == <<remote, clones, keyring, pc, run, runs, faults, history>>

Places == {"idle", "refresh", "fetch repos", "merge repos", "srcinfo", "resolve", "confirm", "proceed",
           "read", "fetch", "merge", "reread", "prebuild", "review", "arch", "keys", "install", "build"}

Some(S) == [S -> Commits \cup {None}]

TypeOK ==
  /\ remote \in [Clones -> Commits]
  /\ fetched \in Some(Clones) /\ tree \in Some(Clones) /\ seen \in Some(Clones) /\ first \in Some(Clones)
  /\ info \in Some(Repos) /\ keyring \subseteq Keys /\ asked \subseteq Keys
  /\ pc \in Places /\ then \in Places /\ s \in Sessions
  /\ todo \subseteq Clones /\ list \subseteq Clones
  /\ resolved \in Some(Bases) /\ srcinfos \in Some(Bases)
  /\ runs \in 0..MaxSessions /\ faults \in 0..MaxFaults
  /\ accepted \in [Clones -> SUBSET Commits]

AurBuild == s.build \cap Bases

Goto(place) == pc' = place

Fault == faults < MaxFaults /\ faults' = faults + 1

----------------------------------------------------------------------------
(* The beginning of a run, and its end.                                    *)

Start ==
  /\ pc = "idle" /\ runs < MaxSessions
  /\ runs' = runs + 1 /\ s' \in Sessions
  /\ Goto(IF s'.refresh THEN "refresh" ELSE "resolve")
  /\ then' = "idle" /\ todo' = {} /\ list' = {} /\ asked' = {}
  /\ resolved' = [b \in Bases |-> None] /\ srcinfos' = resolved'
  /\ UNCHANGED <<remote, clones, keyring, faults, accepted, first>>

\* An error, a command that fails, or a kill: what is on disk stays as it is.
Stop ==
  /\ pc # "idle" /\ Fault /\ Goto("idle")
  /\ UNCHANGED <<remote, clones, keyring, run, runs, history>>

\* A prompt that the user answers with no; --noconfirm answers every prompt itself.
Prompts ==
  \/ pc \in {"confirm", "proceed"}
  \/ pc = "arch" /\ \E b \in AurBuild : <<b, srcinfos[b]>> \in Foreign

Refuse ==
  /\ Prompts /\ ~s.noConfirm /\ Goto("idle")
  /\ UNCHANGED <<remote, clones, keyring, run, runs, faults, history>>

\* The user removes clones with -Sc --delete: which ones is decided by what is installed.
Clean ==
  /\ pc = "idle"
  /\ \E gone \in SUBSET {b \in Bases : tree[b] # None} :
       LET Without(f) == [c \in Clones |-> IF c \in gone THEN None ELSE f[c]]
       IN fetched' = Without(fetched) /\ tree' = Without(tree) /\ seen' = Without(seen)
  /\ UNCHANGED <<remote, info, keyring, pc, run, runs, faults, history>>

----------------------------------------------------------------------------
(* Review: PkgbuildRepos::refresh has it before the merge, prepare_build   *)
(* after it.                                                               *)

Unseen == {c \in list : seen[c] # fetched[c]}

Shown == IF s.fileManager THEN list ELSE Unseen

Marked == [c \in Clones |-> IF c \in list THEN fetched[c] ELSE seen[c]]

\* Nothing is shown: the marks are set all the same.
ReviewSilently ==
  /\ pc = "review" /\ (s.noConfirm \/ Shown = {})
  /\ seen' = Marked /\ Goto(then)
  /\ accepted' = IF s.noConfirm
                 THEN [c \in Clones |-> IF c \in list THEN accepted[c] \cup {fetched[c]} ELSE accepted[c]]
                 ELSE accepted
  /\ UNCHANGED <<remote, fetched, tree, info, keyring, run, runs, faults, first, asked>>

Accept ==
  /\ pc = "review" /\ ~s.noConfirm /\ Shown # {}
  /\ seen' = Marked /\ Goto(then)
  /\ accepted' = [c \in Clones |-> IF c \in Shown THEN accepted[c] \cup {fetched[c]} ELSE accepted[c]]
  /\ UNCHANGED <<remote, fetched, tree, info, keyring, run, runs, faults, first, asked>>

\* Fault: the marks are set before the question is answered.
RefuseReviewMarking ==
  /\ pc = "review" /\ ~s.noConfirm /\ Shown # {} /\ Goto("idle")
  /\ seen' = Marked
  /\ UNCHANGED <<remote, fetched, tree, info, keyring, run, runs, faults, history>>

RefuseReview ==
  /\ pc = "review" /\ ~s.noConfirm /\ Shown # {} /\ Goto("idle")
  /\ UNCHANGED <<remote, clones, keyring, run, runs, faults, history>>

----------------------------------------------------------------------------
(* Downloads and merges: git fetches one clone after the other in any      *)
(* order, and the first fetch, a clone, checks the commit out as well.     *)

Fetch(c) ==
  /\ pc \in {"fetch repos", "fetch"} /\ c \in todo
  /\ todo' = todo \ {c}
  /\ fetched' = [fetched EXCEPT ![c] = remote[c]]
  /\ IF fetched[c] = None
     THEN tree' = [tree EXCEPT ![c] = remote[c]] /\ first' = [first EXCEPT ![c] = remote[c]]
     ELSE UNCHANGED <<tree, first>>
  /\ UNCHANGED <<remote, seen, info, keyring, pc, then, s, list, resolved, srcinfos, runs, faults,
                 accepted, asked>>

Merge(c) ==
  /\ pc \in {"merge repos", "merge"} /\ c \in todo
  /\ todo' = todo \ {c}
  /\ tree' = [tree EXCEPT ![c] = fetched[c]]
  /\ UNCHANGED <<remote, fetched, seen, info, keyring, pc, then, s, list, resolved, srcinfos, runs,
                 faults, history>>

----------------------------------------------------------------------------
(* PkgbuildRepos::refresh: download, review, merge, .SRCINFO files.        *)

EarlyRefresh ==
  /\ pc = "refresh" /\ Goto("fetch repos") /\ todo' = Repos
  /\ UNCHANGED <<remote, clones, keyring, then, s, list, resolved, srcinfos, runs, faults, history>>

ReposFetched ==
  /\ pc = "fetch repos" /\ todo = {}
  /\ todo' = Repos /\ list' = Repos \ SkipReview /\ then' = "merge repos" /\ Goto("review")
  /\ UNCHANGED <<remote, clones, keyring, s, resolved, srcinfos, runs, faults, history>>

ReposMerged ==
  /\ pc = "merge repos" /\ todo = {} /\ Goto("srcinfo")
  /\ UNCHANGED <<remote, clones, keyring, run, runs, faults, history>>

\* generate_srcinfos: a file that is there is kept, and makepkg may fail for any repository.
GenerateSrcinfos ==
  /\ pc = "srcinfo" /\ Goto("resolve")
  /\ \E failed \in SUBSET Repos :
       /\ IF failed = {} THEN UNCHANGED faults ELSE Fault
       /\ info' = [r \in Repos |-> IF r \notin failed /\ (info[r] = None \/ r \in ForceSrcinfo)
                                   THEN tree[r] ELSE info[r]]
  /\ UNCHANGED <<remote, fetched, tree, seen, keyring, run, runs, history>>

----------------------------------------------------------------------------
(* resolve_targets and prepare_build up to the download.                   *)

Missing == \E r \in s.build \cap Repos : tree[r] = None

\* check_actions: conflicts are for the user to confirm, one by one.
Conflicting == s.conflict /\ s.noConfirm

\* read_pkgs makes a .SRCINFO that is not there; a base without one is not found.
Resolve ==
  /\ pc = "resolve"
  /\ info' = [r \in Repos |-> IF info[r] = None THEN tree[r] ELSE info[r]]
  /\ resolved' = [b \in Bases |-> remote[b]]
  /\ Goto(IF \/ Missing \/ Conflicting
             \/ s.build = {} /\ ~s.install
          THEN "idle" ELSE "confirm")
  /\ UNCHANGED <<remote, fetched, tree, seen, keyring, then, s, todo, list, srcinfos, runs, faults, history>>

AfterConfirm == IF s.build = {} THEN "install" ELSE "read"

Confirm ==
  /\ pc = "confirm"
  /\ Goto(IF ~s.skipReview /\ AurBuild # {} THEN "proceed" ELSE AfterConfirm)
  /\ UNCHANGED <<remote, clones, keyring, run, runs, faults, history>>

Proceed ==
  /\ pc = "proceed" /\ Goto(AfterConfirm)
  /\ UNCHANGED <<remote, clones, keyring, run, runs, faults, history>>

----------------------------------------------------------------------------
(* download_pkgbuilds and the checks of what was downloaded.               *)

Older(b, v) == srcinfos'[b] = None \/ Version[b][srcinfos'[b]] < Version[b][v]

\* Fault: a clone that is there is taken to be up to date.
WantedIfMissing == {b \in AurBuild : srcinfos'[b] = None}

Wanted ==
  IF s.redownload = "all" THEN AurBuild
  ELSE {b \in AurBuild : (s.redownload = "yes" /\ b \in s.targets) \/ Older(b, resolved[b])}

ReadSrcinfos ==
  /\ pc = "read"
  /\ srcinfos' = [b \in Bases |-> IF b \in AurBuild THEN tree[b] ELSE None]
  /\ todo' = Wanted /\ Goto("fetch")
  /\ UNCHANGED <<remote, clones, keyring, then, s, list, resolved, runs, faults, history>>

Fetched ==
  /\ pc = "fetch" /\ todo = {} /\ todo' = AurBuild /\ Goto("merge")
  /\ UNCHANGED <<remote, clones, keyring, then, s, list, resolved, srcinfos, runs, faults, history>>

Merged ==
  /\ pc = "merge" /\ todo = {} /\ Goto("reread")
  /\ UNCHANGED <<remote, clones, keyring, run, runs, faults, history>>

\* Only the files that were not read before are read now.
Reread ==
  /\ pc = "reread" /\ Goto("prebuild")
  /\ srcinfos' = [b \in Bases |-> IF b \in AurBuild /\ srcinfos[b] = None THEN tree[b] ELSE srcinfos[b]]
  /\ UNCHANGED <<remote, clones, keyring, then, s, todo, list, resolved, runs, faults, history>>

\* What has been built before is downloaded and merged like the others, but not reviewed.
PreBuild ==
  /\ pc = "prebuild"
  /\ list' = AurBuild \ s.built /\ then' = "arch" /\ Goto(IF s.skipReview THEN "arch" ELSE "review")
  /\ UNCHANGED <<remote, clones, keyring, s, todo, resolved, srcinfos, runs, faults, history>>

CheckArch ==
  /\ pc = "arch" /\ Goto(IF s.pgpFetch THEN "keys" ELSE "install")
  /\ UNCHANGED <<remote, clones, keyring, run, runs, faults, history>>

KnownAs(c) == IF c \in Bases THEN srcinfos[c] ELSE info[c]

NewKeys == UNION {KeysOf[c][KnownAs(c)] : c \in s.build} \ keyring

\* check_pgp_keys; an import that is declined does not stop the run.
CheckKeys ==
  /\ pc = "keys" /\ Goto("install") /\ asked' = NewKeys
  /\ keyring' \in {keyring \cup NewKeys} \cup (IF s.noConfirm THEN {} ELSE {keyring})
  /\ UNCHANGED <<remote, clones, run, runs, faults, accepted, first>>

\* repo_install, which chroot builds leave for later; the installer then builds.
RepoInstall ==
  /\ pc = "install" /\ Goto(IF s.build = {} THEN "idle" ELSE "build")
  /\ UNCHANGED <<remote, clones, keyring, run, runs, faults, history>>

Build ==
  /\ pc = "build" /\ Goto("idle")
  /\ UNCHANGED <<remote, clones, keyring, run, runs, faults, history>>

----------------------------------------------------------------------------
(* The servers.                                                            *)

Push(c) ==
  /\ remote[c] < MaxCommit /\ remote' = [remote EXCEPT ![c] = @ + 1]
  /\ UNCHANGED <<clones, keyring, pc, run, runs, faults, history>>

Init ==
  /\ remote = [c \in Clones |-> 1]
  /\ fetched = [c \in Clones |-> None] /\ tree = fetched /\ seen = fetched /\ first = fetched
  /\ info = [r \in Repos |-> None] /\ keyring = {}
  /\ pc = "idle" /\ then = "idle" /\ s \in Sessions /\ todo = {} /\ list = {}
  /\ resolved = [b \in Bases |-> None] /\ srcinfos = resolved
  /\ runs = 0 /\ faults = 0
  /\ accepted = [c \in Clones |-> {}] /\ asked = {}

Session ==
  \/ Start \/ Stop \/ Refuse
  \/ ReviewSilently \/ Accept \/ RefuseReview
  \/ EarlyRefresh \/ ReposFetched \/ ReposMerged \/ GenerateSrcinfos
  \/ \E c \in Clones : Fetch(c) \/ Merge(c)
  \/ Resolve \/ Confirm \/ Proceed
  \/ ReadSrcinfos \/ Fetched \/ Merged \/ Reread \/ PreBuild
  \/ CheckArch \/ CheckKeys \/ RepoInstall \/ Build

Next == Session \/ Clean \/ \E c \in Clones : Push(c)

Spec == Init /\ [][Next]_vars

----------------------------------------------------------------------------
(* Properties.                                                             *)

\* What is checked out is something that the user agreed to, unless no review was to be done.
\* The checkout of the first clone of a PKGBUILD repository is the exception: it is there
\* before the review, and stays when the review is refused.
Agreed(c) ==
  \/ tree[c] \in accepted[c]
  \/ c \in Bases /\ s.skipReview
  \/ c \in Repos /\ (c \in SkipReview \/ tree[c] = first[c])

\* When a run comes to change the system, to install what it needs and to build, every PKGBUILD
\* that it is to build has been agreed to, in this run or an earlier one, however those ended:
\* a refused, failed or killed run, or one that only installed the base, leaves downloads and
\* merged trees behind, but no mark that would hide them from the next review
\* (install.rs 1183-1235, pkgbuild.rs 325-411).
NothingUnreviewed ==
  pc \in {"install", "build"} => \A c \in s.build \ s.built : Agreed(c)

\* What is built is at least as new as what the AUR announced when the dependencies were
\* resolved, whatever an earlier run left in the clone (download.rs 394-430).
BuiltIsResolved ==
  pc = "build" => \A b \in AurBuild : Version[b][tree[b]] >= Version[b][resolved[b]]

\* bah.conf(5): the keys in the validpgpkeys field of each PKGBUILD that is built are known,
\* or were asked for.
KeysAsked ==
  pc = "build" /\ s.pgpFetch => \A c \in s.build : KeysOf[c][tree[c]] \subseteq keyring \cup asked

=============================================================================
