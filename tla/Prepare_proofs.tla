---------------------------- MODULE Prepare_proofs ----------------------------
(***************************************************************************)
(* Nothing is built that the user did not agree to, for any set of bases   *)
(* and repositories, any number of runs, failures, kills and new commits.  *)
(***************************************************************************)
EXTENDS Prepare, TLAPS

\* A mark names a commit that was agreed to.
SeenAgreed == \A c \in Clones \ SkipReview : seen[c] # None => seen[c] \in accepted[c]

\* A clone has something checked out as soon as it has something fetched.
CheckedOut == \A c \in Clones : tree[c] = None <=> fetched[c] = None

\* A repository is merged only after its review.
RepoTrees == \A r \in Repos \ SkipReview : tree[r] \in accepted[r] \/ tree[r] = first[r]

\* What is fetched and merged at each place of PkgbuildRepos::refresh.
RefreshInv ==
  /\ pc = "fetch repos" => todo \subseteq Repos /\ \A r \in Repos \ todo : fetched[r] # None
  /\ pc = "merge repos" =>
       todo \subseteq Repos /\ \A r \in Repos \ SkipReview : fetched[r] \in accepted[r]

\* The two reviews, and what their lists hold.
ReviewInv ==
  pc = "review" =>
    \/ /\ then = "merge repos" /\ list = Repos \ SkipReview /\ todo = Repos
       /\ \A r \in Repos : fetched[r] # None
    \/ /\ then = "arch" /\ list = AurBuild \ s.built
       /\ \A b \in AurBuild : fetched[b] # None /\ tree[b] = fetched[b]

\* What is fetched, merged and agreed to at each place of prepare_build.
PrepareInv ==
  /\ pc = "fetch" => todo \subseteq AurBuild /\ \A b \in AurBuild \ todo : fetched[b] # None
  /\ pc = "merge" =>
       /\ todo \subseteq AurBuild /\ \A b \in AurBuild : fetched[b] # None
       /\ \A b \in AurBuild \ todo : tree[b] = fetched[b]
  /\ pc \in {"reread", "prebuild"} => \A b \in AurBuild : fetched[b] # None /\ tree[b] = fetched[b]
  /\ pc \in {"arch", "keys", "install", "build"} =>
       \A b \in AurBuild \ s.built : tree[b] \in accepted[b] \/ s.skipReview

\* The .SRCINFO files that are looked at are there.
SrcinfoInv ==
  /\ pc \in {"confirm", "proceed", "read", "fetch", "merge", "reread", "prebuild", "arch", "keys"}
       \/ (pc = "review" /\ then = "arch") =>
       \A r \in s.build \cap Repos : info[r] # None
  /\ pc \in {"prebuild", "arch", "keys"} \/ (pc = "review" /\ then = "arch") =>
       \A b \in AurBuild : srcinfos[b] # None

IInv ==
  /\ TypeOK /\ SeenAgreed /\ CheckedOut /\ RepoTrees
  /\ RefreshInv /\ ReviewInv /\ PrepareInv /\ SrcinfoInv

USE DEF None

\* What a step to another place does not touch.
Rest == <<remote, clones, keyring, run, history>>

\* The runs and the faults stay in their bounds.
CountersOK == runs' \in 0..MaxSessions /\ faults' \in 0..MaxFaults

LEMMA SessionTypes ==
  ASSUME NEW x \in Sessions
  PROVE  x.build \subseteq Clones /\ x.targets \subseteq Bases
  BY PrepareAssumption

LEMMA CloneSets ==
  /\ Bases \cap Repos = {} /\ SkipReview \subseteq Repos
  /\ Bases \subseteq Clones /\ Repos \subseteq Clones /\ None \notin Commits
  /\ MaxCommit \in Nat \ {0} /\ MaxSessions \in Nat /\ MaxFaults \in Nat
  BY PrepareAssumption DEF Clones, Commits

\* A step that only moves on to another place keeps everything that is not about places.
LEMMA MoveKeeps ==
  ASSUME TypeOK, SeenAgreed, CheckedOut, RepoTrees, UNCHANGED Rest, pc' \in Places, CountersOK
  PROVE  TypeOK' /\ SeenAgreed' /\ CheckedOut' /\ RepoTrees'
  <1>1. TypeOK'
    BY DEF TypeOK, Rest, clones, run, history, CountersOK, Some
  <1>2. SeenAgreed' /\ CheckedOut' /\ RepoTrees'
    BY DEF SeenAgreed, CheckedOut, RepoTrees, Rest, clones, history
  <1>3. QED
    BY <1>1, <1>2

LEMMA InitIInv == Init => IInv
  <1> SUFFICES ASSUME Init PROVE IInv
    OBVIOUS
  <1>1. TypeOK
    BY CloneSets DEF Init, TypeOK, Some, Places, Commits
  <1>2. SeenAgreed /\ CheckedOut /\ RepoTrees
    BY CloneSets DEF Init, SeenAgreed, CheckedOut, RepoTrees
  <1>3. RefreshInv /\ ReviewInv /\ PrepareInv /\ SrcinfoInv
    BY DEF Init, RefreshInv, ReviewInv, PrepareInv, SrcinfoInv
  <1>4. QED
    BY <1>1, <1>2, <1>3 DEF IInv

\* The steps that end a run.
LEMMA EndIInv ==
  IInv /\ (Stop \/ Refuse \/ RefuseReview \/ Build) => IInv'
  <1> SUFFICES ASSUME IInv, Stop \/ Refuse \/ RefuseReview \/ Build PROVE IInv'
    OBVIOUS
  <1>1. pc' = "idle" /\ UNCHANGED Rest
    BY DEF Stop, Refuse, RefuseReview, Build, Rest, Goto
  <1>2. CountersOK
    BY CloneSets DEF Stop, Refuse, RefuseReview, Build, Fault, CountersOK, IInv, TypeOK
  <1>3. TypeOK' /\ SeenAgreed' /\ CheckedOut' /\ RepoTrees'
    BY <1>1, <1>2, MoveKeeps DEF IInv, Places
  <1>4. RefreshInv' /\ ReviewInv' /\ PrepareInv' /\ SrcinfoInv'
    BY <1>1 DEF RefreshInv, ReviewInv, PrepareInv, SrcinfoInv
  <1>5. QED
    BY <1>3, <1>4 DEF IInv

\* The steps between two places of prepare_build that change nothing else.
LEMMA MoveIInv ==
  IInv /\ (ReposMerged \/ Confirm \/ Proceed \/ Merged \/ CheckArch \/ RepoInstall) => IInv'
  <1> SUFFICES ASSUME IInv, ReposMerged \/ Confirm \/ Proceed \/ Merged \/ CheckArch \/ RepoInstall
               PROVE IInv'
    OBVIOUS
  <1>1. UNCHANGED Rest /\ pc' \in Places /\ CountersOK
    BY DEF ReposMerged, Confirm, Proceed, Merged, CheckArch, RepoInstall, Rest, Goto, Places, AfterConfirm,
           CountersOK, IInv, TypeOK
  <1>2. TypeOK' /\ SeenAgreed' /\ CheckedOut' /\ RepoTrees'
    BY <1>1, MoveKeeps DEF IInv
  <1>3. UNCHANGED AurBuild
    BY <1>1 DEF AurBuild, Rest, run
  <1>4. RefreshInv' /\ ReviewInv'
    BY DEF ReposMerged, Confirm, Proceed, Merged, CheckArch, RepoInstall, Goto, AfterConfirm,
           RefreshInv, ReviewInv
  <1>5. PrepareInv' /\ SrcinfoInv'
    <2>1. CASE ReposMerged
      BY <2>1 DEF ReposMerged, Goto, PrepareInv, SrcinfoInv
    <2>2. CASE Confirm \/ Proceed
      <3>1. pc' \in {"proceed", "read", "install"} /\ (pc' = "install" => AurBuild = {})
        BY <2>2 DEF Confirm, Proceed, Goto, AfterConfirm, AurBuild
      <3>2. \A r \in s.build \cap Repos : info[r] # None
        BY <2>2 DEF Confirm, Proceed, IInv, SrcinfoInv
      <3>3. QED
        BY <1>1, <1>3, <3>1, <3>2 DEF PrepareInv, SrcinfoInv, Rest, run, clones
    <2>3. CASE Merged
      BY <2>3, <1>1, <1>3 DEF Merged, Goto, IInv, PrepareInv, SrcinfoInv, Rest, run, clones
    <2>4. CASE CheckArch \/ RepoInstall
      BY <2>4, <1>1, <1>3 DEF CheckArch, RepoInstall, Goto, IInv, PrepareInv, SrcinfoInv, Rest, run, clones, history
    <2>5. QED
      BY <2>1, <2>2, <2>3, <2>4
  <1>6. QED
    BY <1>2, <1>4, <1>5 DEF IInv

\* What goes through a review has been agreed to, in this one or in an earlier one.
LEMMA ReviewAgrees ==
  ASSUME IInv, ReviewSilently \/ Accept
  PROVE  /\ \A c \in Clones : accepted[c] \subseteq accepted'[c]
         /\ \A c \in list \ SkipReview : fetched[c] \in accepted'[c]
  <1>1. list \subseteq Clones /\ accepted \in [Clones -> SUBSET Commits]
    BY DEF IInv, TypeOK
  <1>2. pc = "review"
    BY DEF ReviewSilently, Accept
  <1>3. \A c \in list : fetched[c] # None
    BY <1>2, CloneSets DEF IInv, ReviewInv
  <1>4. \A c \in list \ (SkipReview \cup Shown) : fetched[c] \in accepted[c]
    BY <1>1, <1>3 DEF Shown, Unseen, IInv, SeenAgreed
  <1>5. CASE ReviewSilently
    BY <1>5, <1>1, <1>4 DEF ReviewSilently
  <1>6. CASE Accept
    BY <1>6, <1>1, <1>4 DEF Accept
  <1>7. QED
    BY <1>5, <1>6

LEMMA ReviewIInv ==
  IInv /\ (ReviewSilently \/ Accept) => IInv'
  <1> SUFFICES ASSUME IInv, ReviewSilently \/ Accept PROVE IInv'
    OBVIOUS
  <1>1. /\ pc = "review" /\ pc' = then /\ seen' = Marked
        /\ UNCHANGED <<remote, fetched, tree, info, keyring, run, runs, faults, first, asked>>
    BY DEF ReviewSilently, Accept, Goto
  <1>2. /\ \A c \in Clones : accepted[c] \subseteq accepted'[c]
        /\ \A c \in list \ SkipReview : fetched[c] \in accepted'[c]
    BY ReviewAgrees
  <1>3. TypeOK'
    <2>1. \A c \in list : fetched[c] \in Commits
      BY <1>1, CloneSets DEF IInv, TypeOK, Some, ReviewInv
    <2>2. accepted' \in [Clones -> SUBSET Commits]
      BY <2>1 DEF ReviewSilently, Accept, Shown, Unseen, IInv, TypeOK
    <2>3. seen' \in Some(Clones)
      BY <1>1 DEF Marked, IInv, TypeOK, Some
    <2>4. QED
      BY <1>1, <2>2, <2>3 DEF IInv, TypeOK, run, Places
  <1>4. SeenAgreed' /\ CheckedOut' /\ RepoTrees'
    <2>1. SeenAgreed'
      BY <1>1, <1>2 DEF IInv, TypeOK, SeenAgreed, Marked
    <2>2. CheckedOut' /\ RepoTrees'
      BY <1>1, <1>2, CloneSets DEF IInv, CheckedOut, RepoTrees
    <2>3. QED
      BY <2>1, <2>2
  <1>5. UNCHANGED AurBuild
    BY <1>1 DEF AurBuild, run
  <1>6. CASE then = "merge repos"
    <2>1. list = Repos \ SkipReview /\ todo = Repos
      BY <1>6, <1>1 DEF IInv, ReviewInv
    <2>2. RefreshInv'
      BY <2>1, <1>1, <1>2, <1>6 DEF RefreshInv, run
    <2>3. ReviewInv' /\ PrepareInv' /\ SrcinfoInv'
      BY <1>1, <1>6 DEF ReviewInv, PrepareInv, SrcinfoInv
    <2>4. QED
      BY <1>3, <1>4, <2>2, <2>3 DEF IInv
  <1>7. CASE then = "arch"
    <2>1. list = AurBuild \ s.built /\ \A b \in AurBuild : tree[b] = fetched[b]
      BY <1>7, <1>1 DEF IInv, ReviewInv
    <2>2. \A b \in AurBuild : b \notin SkipReview
      BY CloneSets DEF AurBuild
    <2>3. PrepareInv'
      BY <2>1, <2>2, <1>1, <1>2, <1>5, <1>7 DEF PrepareInv, run
    <2>4. SrcinfoInv'
      BY <1>1, <1>5, <1>7 DEF IInv, SrcinfoInv, run
    <2>5. RefreshInv' /\ ReviewInv'
      BY <1>1, <1>7 DEF RefreshInv, ReviewInv
    <2>6. QED
      BY <1>3, <1>4, <2>3, <2>4, <2>5 DEF IInv
  <1>8. QED
    BY <1>1, <1>6, <1>7 DEF IInv, ReviewInv

LEMMA StartIInv == IInv /\ Start => IInv'
  <1> SUFFICES ASSUME IInv, Start PROVE IInv'
    OBVIOUS
  <1>1. /\ pc' \in {"refresh", "resolve"} /\ then' = "idle" /\ todo' = {} /\ list' = {} /\ asked' = {}
        /\ s' \in Sessions /\ runs' = runs + 1 /\ runs < MaxSessions
        /\ resolved' = [b \in Bases |-> None] /\ srcinfos' = resolved'
        /\ UNCHANGED <<remote, clones, keyring, faults, accepted, first>>
    BY DEF Start, Goto
  <1>2. TypeOK'
    <2>1. runs' \in 0..MaxSessions
      BY <1>1, CloneSets DEF IInv, TypeOK
    <2>2. resolved' \in Some(Bases) /\ srcinfos' \in Some(Bases)
      BY <1>1 DEF Some
    <2>3. pc' \in Places /\ then' \in Places /\ asked' \subseteq Keys
      BY <1>1 DEF Places
    <2>4. QED
      BY <1>1, <2>1, <2>2, <2>3 DEF IInv, TypeOK, clones
  <1>3. SeenAgreed' /\ CheckedOut' /\ RepoTrees'
    BY <1>1 DEF IInv, SeenAgreed, CheckedOut, RepoTrees, clones
  <1>4. RefreshInv' /\ ReviewInv' /\ PrepareInv' /\ SrcinfoInv'
    BY <1>1 DEF RefreshInv, ReviewInv, PrepareInv, SrcinfoInv
  <1>5. QED
    BY <1>2, <1>3, <1>4 DEF IInv

LEMMA CleanIInv == IInv /\ Clean => IInv'
  <1> SUFFICES ASSUME IInv, Clean PROVE IInv'
    OBVIOUS
  <1> DEFINE Without(f, gone) == [c \in Clones |-> IF c \in gone THEN None ELSE f[c]]
  <1>1. PICK gone \in SUBSET Bases :
          fetched' = Without(fetched, gone) /\ tree' = Without(tree, gone) /\ seen' = Without(seen, gone)
    BY DEF Clean
  <1>2. pc = "idle" /\ UNCHANGED <<remote, info, keyring, pc, run, runs, faults, history>>
    BY DEF Clean
  <1>3. TypeOK'
    BY <1>1, <1>2, CloneSets DEF IInv, TypeOK, Some, run, history
  <1>4. SeenAgreed' /\ CheckedOut' /\ RepoTrees'
    BY <1>1, <1>2, CloneSets DEF IInv, SeenAgreed, CheckedOut, RepoTrees, history
  <1>5. RefreshInv' /\ ReviewInv' /\ PrepareInv' /\ SrcinfoInv'
    BY <1>2 DEF RefreshInv, ReviewInv, PrepareInv, SrcinfoInv
  <1>6. QED
    BY <1>3, <1>4, <1>5 DEF IInv

\* New commits: no clone has them yet.
LEMMA PushIInv == ASSUME IInv, NEW c \in Clones, Push(c) PROVE IInv'
  <1>1. /\ remote[c] < MaxCommit /\ remote' = [remote EXCEPT ![c] = @ + 1]
        /\ UNCHANGED <<clones, keyring, pc, run, runs, faults, history>>
    BY DEF Push
  <1>2. remote' \in [Clones -> Commits]
    <2>1. remote \in [Clones -> Commits] /\ remote[c] \in Commits
      BY DEF IInv, TypeOK
    <2>2. remote[c] + 1 \in Commits
      BY <1>1, <2>1, CloneSets DEF Commits
    <2>3. QED
      BY <1>1, <2>1, <2>2
  <1>3. TypeOK'
    BY <1>1, <1>2 DEF IInv, TypeOK, clones, run, history
  <1>4. SeenAgreed' /\ CheckedOut' /\ RepoTrees'
    BY <1>1 DEF IInv, SeenAgreed, CheckedOut, RepoTrees, clones, history
  <1>5. UNCHANGED AurBuild
    BY <1>1 DEF AurBuild, run
  <1>6. RefreshInv' /\ ReviewInv' /\ PrepareInv' /\ SrcinfoInv'
    BY <1>1, <1>5 DEF IInv, RefreshInv, ReviewInv, PrepareInv, SrcinfoInv, clones, run, history
  <1>7. QED
    BY <1>3, <1>4, <1>6 DEF IInv

LEMMA FetchIInv == ASSUME IInv, NEW c \in Clones, Fetch(c) PROVE IInv'
  <1>1. /\ pc \in {"fetch repos", "fetch"} /\ c \in todo /\ todo' = todo \ {c}
        /\ fetched' = [fetched EXCEPT ![c] = remote[c]]
        /\ UNCHANGED <<remote, seen, info, keyring, pc, then, s, list, resolved, srcinfos, runs, faults,
                       accepted, asked>>
    BY DEF Fetch
  <1>2. IF fetched[c] = None
        THEN tree' = [tree EXCEPT ![c] = remote[c]] /\ first' = [first EXCEPT ![c] = remote[c]]
        ELSE UNCHANGED <<tree, first>>
    BY DEF Fetch
  <1>3. remote[c] \in Commits /\ fetched \in Some(Clones) /\ tree \in Some(Clones) /\ first \in Some(Clones)
    BY DEF IInv, TypeOK
  <1>4. fetched' \in Some(Clones) /\ tree' \in Some(Clones) /\ first' \in Some(Clones)
    BY <1>1, <1>2, <1>3 DEF Some
  <1>5. TypeOK'
    BY <1>1, <1>4 DEF IInv, TypeOK
  <1>6. CheckedOut' /\ RepoTrees'
    BY <1>1, <1>2, <1>3, CloneSets DEF IInv, CheckedOut, RepoTrees, Some
  <1>7. SeenAgreed'
    BY <1>1 DEF IInv, SeenAgreed
  <1>8. UNCHANGED AurBuild
    BY <1>1 DEF AurBuild
  <1>9. RefreshInv' /\ ReviewInv'
    BY <1>1, <1>3, CloneSets DEF IInv, RefreshInv, ReviewInv, Some
  <1>10. PrepareInv'
    <2>1. AurBuild \subseteq Clones
      BY CloneSets DEF AurBuild
    <2>2. QED
      BY <1>1, <1>3, <1>8, <2>1, CloneSets DEF IInv, PrepareInv, Some
  <1>11. SrcinfoInv'
    BY <1>1, <1>8 DEF IInv, SrcinfoInv
  <1>12. QED
    BY <1>5, <1>6, <1>7, <1>9, <1>10, <1>11 DEF IInv

LEMMA MergeIInv == ASSUME IInv, NEW c \in Clones, Merge(c) PROVE IInv'
  <1>1. /\ pc \in {"merge repos", "merge"} /\ c \in todo /\ todo' = todo \ {c}
        /\ tree' = [tree EXCEPT ![c] = fetched[c]]
        /\ UNCHANGED <<remote, fetched, seen, info, keyring, pc, then, s, list, resolved, srcinfos, runs,
                       faults, history>>
    BY DEF Merge
  <1>2. tree' \in Some(Clones) /\ tree \in Some(Clones)
    BY <1>1 DEF IInv, TypeOK, Some
  <1>3. TypeOK'
    BY <1>1, <1>2 DEF IInv, TypeOK, history
  <1>4. CheckedOut' /\ SeenAgreed'
    BY <1>1, <1>2 DEF IInv, CheckedOut, SeenAgreed, Some, history
  <1>5. RepoTrees'
    <2>1. CASE pc = "merge repos"
      BY <2>1, <1>1, <1>2, CloneSets DEF IInv, RepoTrees, RefreshInv, Some, history
    <2>2. CASE pc = "merge"
      <3>1. c \notin Repos
        BY <2>2, <1>1, CloneSets DEF IInv, PrepareInv, AurBuild
      <3>2. QED
        BY <3>1, <1>1, <1>2, CloneSets DEF IInv, RepoTrees, Some, history
    <2>3. QED
      BY <1>1, <2>1, <2>2
  <1>6. UNCHANGED AurBuild
    BY <1>1 DEF AurBuild
  <1>7. RefreshInv' /\ ReviewInv' /\ SrcinfoInv'
    BY <1>1, <1>6 DEF IInv, RefreshInv, ReviewInv, SrcinfoInv, history
  <1>8. PrepareInv'
    BY <1>1, <1>2, <1>6, CloneSets DEF IInv, PrepareInv, Some, AurBuild
  <1>9. QED
    BY <1>3, <1>4, <1>5, <1>7, <1>8 DEF IInv

\* The steps of PkgbuildRepos::refresh that change no clone.
LEMMA RefreshIInv ==
  IInv /\ (EarlyRefresh \/ ReposFetched) => IInv'
  <1> SUFFICES ASSUME IInv, EarlyRefresh \/ ReposFetched PROVE IInv'
    OBVIOUS
  <1>1. UNCHANGED <<remote, clones, keyring, s, resolved, srcinfos, runs, faults, history>> /\ todo' = Repos
    BY DEF EarlyRefresh, ReposFetched
  <1>2. then' \in Places /\ list' \subseteq Clones /\ pc' \in {"fetch repos", "review"}
    BY CloneSets DEF EarlyRefresh, ReposFetched, Goto, Places, IInv, TypeOK
  <1>3. TypeOK'
    BY <1>1, <1>2, CloneSets DEF IInv, TypeOK, clones, history, Places
  <1>4. SeenAgreed' /\ CheckedOut' /\ RepoTrees'
    BY <1>1 DEF IInv, SeenAgreed, CheckedOut, RepoTrees, clones, history
  <1>5. RefreshInv' /\ ReviewInv'
    BY <1>1 DEF EarlyRefresh, ReposFetched, Goto, IInv, RefreshInv, ReviewInv, clones
  <1>6. PrepareInv' /\ SrcinfoInv'
    BY DEF EarlyRefresh, ReposFetched, Goto, PrepareInv, SrcinfoInv
  <1>7. QED
    BY <1>3, <1>4, <1>5, <1>6 DEF IInv

\* The steps that make .SRCINFO files of the bases of repositories.
LEMMA SrcinfoIInv ==
  IInv /\ (GenerateSrcinfos \/ Resolve) => IInv'
  <1> SUFFICES ASSUME IInv, GenerateSrcinfos \/ Resolve PROVE IInv'
    OBVIOUS
  <1>1. /\ pc' \in {"idle", "resolve", "confirm"}
        /\ UNCHANGED <<remote, fetched, tree, seen, keyring, then, s, todo, list, srcinfos, runs, history>>
    BY DEF GenerateSrcinfos, Resolve, Goto, run
  <1>2. info' \in Some(Repos) /\ resolved' \in Some(Bases) /\ faults' \in 0..MaxFaults
    <2>1. CASE GenerateSrcinfos
      BY <2>1, CloneSets DEF GenerateSrcinfos, Fault, IInv, TypeOK, Some, run
    <2>2. CASE Resolve
      BY <2>2, CloneSets DEF Resolve, IInv, TypeOK, Some
    <2>3. QED
      BY <2>1, <2>2
  <1>3. TypeOK'
    BY <1>1, <1>2 DEF IInv, TypeOK, Places, history
  <1>4. SeenAgreed' /\ CheckedOut' /\ RepoTrees'
    BY <1>1 DEF IInv, SeenAgreed, CheckedOut, RepoTrees, history
  <1>5. RefreshInv' /\ ReviewInv' /\ PrepareInv'
    BY <1>1 DEF RefreshInv, ReviewInv, PrepareInv
  <1>6. SrcinfoInv'
    <2>1. CASE pc' # "confirm"
      BY <2>1, <1>1 DEF SrcinfoInv
    <2>2. CASE pc' = "confirm"
      <3>1. ~Missing /\ info' = [r \in Repos |-> IF info[r] = None THEN tree[r] ELSE info[r]]
        BY <2>2 DEF GenerateSrcinfos, Resolve, Goto
      <3>2. \A r \in s.build \cap Repos : info'[r] # None
        BY <3>1 DEF Missing
      <3>3. QED
        BY <3>2, <2>2, <1>1 DEF SrcinfoInv
    <2>3. QED
      BY <2>1, <2>2
  <1>7. QED
    BY <1>3, <1>4, <1>5, <1>6 DEF IInv

\* The steps that read the .SRCINFO files of AUR bases, and the one between downloads and merges.
LEMMA ReadIInv ==
  IInv /\ (ReadSrcinfos \/ Fetched \/ Reread) => IInv'
  <1> SUFFICES ASSUME IInv, ReadSrcinfos \/ Fetched \/ Reread PROVE IInv'
    OBVIOUS
  <1>1. /\ pc' \in {"fetch", "merge", "prebuild"}
        /\ UNCHANGED <<remote, clones, keyring, then, s, list, resolved, runs, faults, history>>
    BY DEF ReadSrcinfos, Fetched, Reread, Goto
  <1>2. AurBuild \subseteq Bases /\ AurBuild' = AurBuild
    BY <1>1 DEF AurBuild
  <1>3. todo' \subseteq Clones /\ srcinfos' \in Some(Bases)
    BY <1>2, CloneSets DEF ReadSrcinfos, Fetched, Reread, Wanted, IInv, TypeOK, Some
  <1>4. TypeOK'
    BY <1>1, <1>3 DEF IInv, TypeOK, Places, clones, history
  <1>5. SeenAgreed' /\ CheckedOut' /\ RepoTrees'
    BY <1>1 DEF IInv, SeenAgreed, CheckedOut, RepoTrees, clones, history
  <1>6. RefreshInv' /\ ReviewInv'
    BY <1>1 DEF RefreshInv, ReviewInv
  <1>7. PrepareInv'
    <2>1. CASE ReadSrcinfos
      <3>1. todo' = Wanted /\ pc' = "fetch" /\ srcinfos' = [b \in Bases |-> IF b \in AurBuild THEN tree[b] ELSE None]
        BY <2>1 DEF ReadSrcinfos, Goto
      <3>2. \A b \in AurBuild \ Wanted : tree[b] # None
        BY <3>1, <1>2 DEF Wanted, Older
      <3>3. Wanted \subseteq AurBuild
        BY DEF Wanted
      <3>4. \A b \in AurBuild \ todo' : fetched[b] # None
        BY <3>1, <3>2, <1>2, CloneSets DEF IInv, CheckedOut
      <3>5. QED
        BY <3>1, <3>3, <3>4, <1>1, <1>2 DEF PrepareInv, clones
    <2>2. CASE Fetched
      BY <2>2, <1>1, <1>2 DEF Fetched, Goto, IInv, PrepareInv, clones
    <2>3. CASE Reread
      BY <2>3, <1>1, <1>2 DEF Reread, Goto, IInv, PrepareInv, clones
    <2>4. QED
      BY <2>1, <2>2, <2>3
  <1>8. SrcinfoInv'
    <2>1. \A r \in s.build \cap Repos : info[r] # None
      BY DEF ReadSrcinfos, Fetched, Reread, IInv, SrcinfoInv
    <2>2. pc' = "prebuild" => \A b \in AurBuild : srcinfos'[b] # None
      BY <1>2 DEF ReadSrcinfos, Fetched, Reread, Goto, IInv, PrepareInv
    <2>3. QED
      BY <2>1, <2>2, <1>1, <1>2 DEF SrcinfoInv, clones
  <1>9. QED
    BY <1>4, <1>5, <1>6, <1>7, <1>8 DEF IInv

LEMMA PreBuildIInv == IInv /\ PreBuild => IInv'
  <1> SUFFICES ASSUME IInv, PreBuild PROVE IInv'
    OBVIOUS
  <1>1. /\ pc = "prebuild" /\ list' = AurBuild \ s.built /\ then' = "arch"
        /\ pc' = (IF s.skipReview THEN "arch" ELSE "review")
        /\ UNCHANGED <<remote, clones, keyring, s, todo, resolved, srcinfos, runs, faults, history>>
    BY DEF PreBuild, Goto
  <1>2. AurBuild \subseteq Clones /\ AurBuild' = AurBuild
    BY <1>1, CloneSets DEF AurBuild
  <1>3. TypeOK'
    BY <1>1, <1>2 DEF IInv, TypeOK, Places, clones, history
  <1>4. SeenAgreed' /\ CheckedOut' /\ RepoTrees'
    BY <1>1 DEF IInv, SeenAgreed, CheckedOut, RepoTrees, clones, history
  <1>5. \A b \in AurBuild : fetched[b] # None /\ tree[b] = fetched[b]
    BY <1>1 DEF IInv, PrepareInv
  <1>6. RefreshInv' /\ ReviewInv' /\ PrepareInv'
    BY <1>1, <1>2, <1>5 DEF RefreshInv, ReviewInv, PrepareInv, clones
  <1>7. SrcinfoInv'
    BY <1>1, <1>2 DEF IInv, SrcinfoInv, clones
  <1>8. QED
    BY <1>3, <1>4, <1>6, <1>7 DEF IInv

LEMMA CheckKeysIInv == IInv /\ CheckKeys => IInv'
  <1> SUFFICES ASSUME IInv, CheckKeys PROVE IInv'
    OBVIOUS
  <1>1. /\ pc = "keys" /\ pc' = "install" /\ asked' = NewKeys
        /\ keyring' = keyring \cup NewKeys \/ keyring' = keyring
        /\ UNCHANGED <<remote, clones, run, runs, faults, accepted, first>>
    BY DEF CheckKeys, Goto
  <1>2. NewKeys \subseteq Keys
    <2>1. ASSUME NEW c \in s.build PROVE c \in Clones /\ KnownAs(c) \in Commits
      <3>1. c \in Clones
        BY SessionTypes DEF IInv, TypeOK
      <3>2. CASE c \in Bases
        BY <3>1, <3>2, <1>1 DEF KnownAs, AurBuild, IInv, SrcinfoInv, TypeOK, Some
      <3>3. CASE c \in Repos
        BY <3>1, <3>3, <1>1, CloneSets DEF KnownAs, IInv, SrcinfoInv, TypeOK, Some
      <3>4. QED
        BY <3>1, <3>2, <3>3 DEF Clones
    <2>2. QED
      BY <2>1 DEF NewKeys, Keys
  <1>3. TypeOK'
    BY <1>1, <1>2 DEF IInv, TypeOK, Places, clones, run
  <1>4. SeenAgreed' /\ CheckedOut' /\ RepoTrees'
    BY <1>1 DEF IInv, SeenAgreed, CheckedOut, RepoTrees, clones
  <1>5. UNCHANGED AurBuild
    BY <1>1 DEF AurBuild, run
  <1>6. RefreshInv' /\ ReviewInv' /\ PrepareInv' /\ SrcinfoInv'
    BY <1>1, <1>5 DEF IInv, RefreshInv, ReviewInv, PrepareInv, SrcinfoInv, clones, run
  <1>7. QED
    BY <1>3, <1>4, <1>6 DEF IInv

LEMMA NextIInv == IInv /\ [Next]_vars => IInv'
  <1> SUFFICES ASSUME IInv, [Next]_vars PROVE IInv'
    OBVIOUS
  <1>1. CASE Session
    <2>1. CASE \E c \in Clones : Fetch(c) \/ Merge(c)
      BY <2>1, FetchIInv, MergeIInv
    <2>2. CASE ~\E c \in Clones : Fetch(c) \/ Merge(c)
      BY <1>1, <2>2, StartIInv, EndIInv, MoveIInv, ReviewIInv, RefreshIInv, SrcinfoIInv, ReadIInv,
         PreBuildIInv, CheckKeysIInv DEF Session
    <2>3. QED
      BY <2>1, <2>2
  <1>2. CASE Clean
    BY <1>2, CleanIInv
  <1>3. CASE \E c \in Clones : Push(c)
    BY <1>3, PushIInv
  <1>4. CASE UNCHANGED vars
    <2>1. UNCHANGED Rest /\ UNCHANGED <<pc, runs, faults>>
      BY <1>4 DEF vars, Rest
    <2>2. TypeOK' /\ SeenAgreed' /\ CheckedOut' /\ RepoTrees'
      BY <2>1, MoveKeeps DEF IInv, TypeOK, CountersOK
    <2>3. UNCHANGED AurBuild
      BY <2>1 DEF AurBuild, Rest, run
    <2>4. RefreshInv' /\ ReviewInv' /\ PrepareInv' /\ SrcinfoInv'
      BY <2>1, <2>3 DEF IInv, RefreshInv, ReviewInv, PrepareInv, SrcinfoInv, Rest, clones, run, history
    <2>5. QED
      BY <2>2, <2>4 DEF IInv
  <1>5. QED
    BY <1>1, <1>2, <1>3, <1>4 DEF Next

LEMMA IInvHolds == Spec => []IInv
  <1>1. QED
    BY InitIInv, NextIInv, PTL DEF Spec

\* TypeOK holds, and with it every .SRCINFO file is there when it is looked at.
THEOREM TypeCorrect == Spec => []TypeOK
  <1>1. IInv => TypeOK
    BY DEF IInv
  <1>2. QED
    BY <1>1, IInvHolds, PTL

\* Whatever is built has been agreed to, however the runs before ended.
THEOREM NothingUnreviewedHolds == Spec => []NothingUnreviewed
  <1>1. IInv => NothingUnreviewed
    <2> SUFFICES ASSUME IInv, pc \in {"install", "build"}, NEW c \in s.build \ s.built
                 PROVE  Agreed(c)
      BY DEF NothingUnreviewed
    <2>1. c \in Clones
      BY SessionTypes DEF IInv, TypeOK
    <2>2. CASE c \in Bases
      BY <2>2 DEF IInv, PrepareInv, AurBuild, Agreed
    <2>3. CASE c \in Repos
      BY <2>3 DEF IInv, RepoTrees, Agreed
    <2>4. QED
      BY <2>1, <2>2, <2>3 DEF Clones
  <1>2. QED
    BY <1>1, IInvHolds, PTL
----------------------------------------------------------------------------
(* What is built is at least as new as what was announced.                *)

\* Commits move from the server to the upstream branch and from there to the checkout, in order.
CommitsInOrder ==
  /\ \A c \in Clones : tree[c] <= fetched[c] /\ fetched[c] <= remote[c]
  /\ \A b \in Bases : resolved[b] <= remote[b]

AtLeastResolved(b, v) == Version[b][v] >= Version[b][resolved[b]]

AfterMerge ==
  pc \in {"reread", "prebuild", "arch", "keys", "install", "build"} \/ (pc = "review" /\ then = "arch")

\* What is fetched, and then what is merged, is at least what was announced.
VersionInv ==
  /\ AfterMerge \/ pc \in {"confirm", "proceed", "read", "fetch", "merge"} =>
       \A b \in AurBuild : resolved[b] # None
  /\ pc = "fetch" => \A b \in AurBuild \ todo : AtLeastResolved(b, fetched[b])
  /\ pc = "merge" => \A b \in AurBuild : AtLeastResolved(b, fetched[b])
  /\ AfterMerge => \A b \in AurBuild : AtLeastResolved(b, tree[b])

VInv == CommitsInOrder /\ VersionInv

LEMMA InitVInv == Init => VInv
  BY CloneSets DEF Init, VInv, CommitsInOrder, VersionInv, AfterMerge

\* Steps that touch neither commits nor what was announced, and pass nothing by.
LEMMA StepVInv ==
  ASSUME IInv, VInv, UNCHANGED <<remote, fetched, tree, s, resolved>>,
         ReposMerged \/ Confirm \/ Proceed \/ Merged \/ CheckArch \/ RepoInstall \/ ReviewSilently \/ Accept
           \/ EarlyRefresh \/ ReposFetched \/ GenerateSrcinfos \/ Fetched \/ Reread \/ PreBuild \/ CheckKeys
  PROVE  VInv'
  <1>1. CommitsInOrder'
    BY DEF VInv, CommitsInOrder
  <1>2. AurBuild' = AurBuild /\ \A b, v : AtLeastResolved(b, v)' = AtLeastResolved(b, v)
    BY DEF AurBuild, AtLeastResolved
  <1>3. CASE ReposMerged \/ EarlyRefresh \/ ReposFetched \/ GenerateSrcinfos
    <2>1. ~AfterMerge' /\ pc' \in {"srcinfo", "resolve", "fetch repos", "review"}
      BY <1>3 DEF ReposMerged, EarlyRefresh, ReposFetched, GenerateSrcinfos, Goto, AfterMerge
    <2>2. QED
      BY <1>1, <2>1 DEF VInv, VersionInv
  <1>4. CASE Confirm \/ Proceed
    <2>1. pc' \in {"proceed", "read", "install"} /\ (pc' = "install" => AurBuild = {})
      BY <1>4 DEF Confirm, Proceed, Goto, AfterConfirm, AurBuild
    <2>2. \A b \in AurBuild : resolved[b] # None
      BY <1>4 DEF Confirm, Proceed, VInv, VersionInv
    <2>3. AfterMerge' => AurBuild = {}
      BY <2>1 DEF AfterMerge
    <2>4. QED
      BY <1>1, <1>2, <2>1, <2>2, <2>3 DEF VInv, VersionInv
  <1>5. CASE ReviewSilently \/ Accept
    <2>1. pc = "review" /\ pc' = then
      BY <1>5 DEF ReviewSilently, Accept, Goto
    <2>2. CASE then = "merge repos"
      BY <1>1, <2>1, <2>2 DEF VInv, VersionInv, AfterMerge
    <2>3. CASE then = "arch"
      BY <1>1, <1>2, <2>1, <2>3 DEF VInv, VersionInv, AfterMerge
    <2>4. QED
      BY <2>1, <2>2, <2>3 DEF IInv, ReviewInv
  <1>6. CASE Fetched
    BY <1>6, <1>1, <1>2 DEF Fetched, Goto, VInv, VersionInv, AfterMerge
  <1>7. CASE Merged
    <2>1. pc = "merge" /\ pc' = "reread" /\ \A b \in AurBuild : tree[b] = fetched[b]
      BY <1>7 DEF Merged, Goto, IInv, PrepareInv
    <2>2. QED
      BY <1>1, <1>2, <2>1 DEF VInv, VersionInv, AfterMerge
  <1>8. CASE CheckArch \/ RepoInstall \/ Reread \/ PreBuild \/ CheckKeys
    <2>1. AfterMerge /\ (AfterMerge' \/ pc' = "idle") /\ pc' \notin {"fetch", "merge", "confirm", "proceed", "read"}
      BY <1>8 DEF CheckArch, RepoInstall, Reread, PreBuild, CheckKeys, Goto, AfterMerge
    <2>2. QED
      BY <1>1, <1>2, <2>1 DEF VInv, VersionInv
  <1>9. QED
    BY <1>3, <1>4, <1>5, <1>6, <1>7, <1>8

\* Steps after which no run is between its resolution and its end.
LEMMA OutsideVInv ==
  ASSUME IInv, VInv, Stop \/ Refuse \/ RefuseReview \/ Build \/ Clean \/ Start
  PROVE  VInv'
  <1>1. pc' \in {"idle", "refresh", "resolve"} /\ remote' = remote
    BY DEF Stop, Refuse, RefuseReview, Build, Clean, Start, Goto, clones
  <1>2. remote \in [Clones -> Commits] /\ fetched \in Some(Clones) /\ tree \in Some(Clones)
    BY DEF IInv, TypeOK
  <1>3. \A c \in Clones : remote[c] \in Nat /\ remote[c] >= 0
    BY <1>2, CloneSets DEF Commits
  <1>4. CommitsInOrder'
    <2>1. CASE Stop \/ Refuse \/ RefuseReview \/ Build
      BY <2>1 DEF Stop, Refuse, RefuseReview, Build, clones, run, VInv, CommitsInOrder
    <2>2. CASE Clean
      BY <2>2, <1>1, <1>3, CloneSets DEF Clean, run, VInv, CommitsInOrder
    <2>3. CASE Start
      BY <2>3, <1>1, <1>3, CloneSets DEF Start, clones, VInv, CommitsInOrder
    <2>4. QED
      BY <2>1, <2>2, <2>3
  <1>5. VersionInv'
    BY <1>1 DEF VersionInv, AfterMerge
  <1>6. QED
    BY <1>4, <1>5 DEF VInv

\* A later commit is at least as new: what was enough before still is.
LEMMA LaterIsEnough ==
  ASSUME IInv, NEW b \in Bases, NEW v \in Commits, NEW w \in Commits, v <= w, resolved[b] # None
  PROVE  AtLeastResolved(b, v) => AtLeastResolved(b, w)
  <1>1. b \in Clones /\ resolved[b] \in Commits
    BY CloneSets DEF IInv, TypeOK, Some
  <1>2. Version[b][v] \in Nat /\ Version[b][w] \in Nat /\ Version[b][resolved[b]] \in Nat
    BY <1>1, PrepareAssumption
  <1>3. Version[b][v] <= Version[b][w]
    BY <1>1, VersionsGrow
  <1>4. QED
    BY <1>2, <1>3 DEF AtLeastResolved

LEMMA PushVInv == ASSUME IInv, VInv, NEW c \in Clones, Push(c) PROVE VInv'
  <1>1. /\ remote' = [remote EXCEPT ![c] = @ + 1]
        /\ UNCHANGED <<fetched, tree, s, resolved, pc, then, todo>>
    BY DEF Push, clones, run
  <1>2. remote \in [Clones -> Commits] /\ fetched \in Some(Clones) /\ resolved \in Some(Bases)
    BY DEF IInv, TypeOK
  <1>3. \A d \in Clones : remote[d] \in Nat /\ remote'[d] \in Nat /\ remote[d] <= remote'[d]
    BY <1>1, <1>2, CloneSets DEF Commits
  <1>4. CommitsInOrder'
    <2>1. \A d \in Clones : fetched[d] <= remote'[d]
      BY <1>2, <1>3, CloneSets DEF VInv, CommitsInOrder, Some, Commits
    <2>2. \A b \in Bases : resolved[b] <= remote'[b]
      BY <1>2, <1>3, CloneSets DEF VInv, CommitsInOrder, Some, Commits
    <2>3. QED
      BY <1>1, <2>1, <2>2 DEF VInv, CommitsInOrder
  <1>5. AurBuild' = AurBuild /\ \A b, v : AtLeastResolved(b, v)' = AtLeastResolved(b, v)
    BY <1>1 DEF AurBuild, AtLeastResolved
  <1>6. VersionInv'
    BY <1>1, <1>5 DEF VInv, VersionInv, AfterMerge
  <1>7. QED
    BY <1>4, <1>6 DEF VInv

LEMMA FetchVInv == ASSUME IInv, VInv, NEW c \in Clones, Fetch(c) PROVE VInv'
  <1>1. /\ pc \in {"fetch repos", "fetch"} /\ c \in todo /\ todo' = todo \ {c}
        /\ fetched' = [fetched EXCEPT ![c] = remote[c]]
        /\ UNCHANGED <<remote, s, resolved, pc, then>>
        /\ tree' = tree \/ (fetched[c] = None /\ tree' = [tree EXCEPT ![c] = remote[c]])
    BY DEF Fetch
  <1>2. /\ remote \in [Clones -> Commits] /\ fetched \in Some(Clones) /\ tree \in Some(Clones)
        /\ resolved \in Some(Bases)
    BY DEF IInv, TypeOK
  <1>3. \A d \in Clones : remote[d] \in Nat /\ fetched[d] \in Nat /\ tree[d] \in Nat
    BY <1>2, CloneSets DEF Some, Commits
  <1>4. CommitsInOrder'
    <2>1. ASSUME NEW d \in Clones PROVE tree'[d] <= fetched'[d] /\ fetched'[d] <= remote'[d]
      <3>1. CASE d = c
        <4>1. fetched'[c] = remote[c] /\ (tree'[c] = tree[c] \/ tree'[c] = remote[c])
          BY <1>1, <1>2 DEF Some
        <4>2. tree[c] <= fetched[c] /\ fetched[c] <= remote[c]
          BY DEF VInv, CommitsInOrder
        <4>3. tree[c] \in Nat /\ fetched[c] \in Nat /\ remote[c] \in Nat
          BY <1>3
        <4>4. tree[c] <= remote[c] /\ remote[c] <= remote[c]
          BY <4>2, <4>3
        <4>5. remote'[c] = remote[c]
          BY <1>1
        <4>6. QED
          BY <3>1, <4>1, <4>4, <4>5
      <3>2. CASE d # c
        BY <3>2, <1>1, <1>2 DEF VInv, CommitsInOrder, Some
      <3>3. QED
        BY <3>1, <3>2
    <2>2. \A b \in Bases : resolved'[b] <= remote'[b]
      BY <1>1 DEF VInv, CommitsInOrder
    <2>3. QED
      BY <2>1, <2>2 DEF CommitsInOrder
  <1>5. AurBuild' = AurBuild /\ AurBuild \subseteq Bases
        /\ \A b, v : AtLeastResolved(b, v)' = AtLeastResolved(b, v)
    BY <1>1 DEF AurBuild, AtLeastResolved
  <1>6. ASSUME pc = "fetch" PROVE AtLeastResolved(c, remote[c]) /\ c \in Bases
    <2>1. c \in AurBuild /\ resolved[c] # None
      BY <1>1, <1>6 DEF IInv, PrepareInv, VInv, VersionInv
    <2>2. resolved[c] \in Commits /\ remote[c] \in Commits /\ resolved[c] <= remote[c]
      BY <1>2, <1>5, <2>1 DEF Some, VInv, CommitsInOrder
    <2>3. AtLeastResolved(c, resolved[c])
      BY <1>5, <2>1, <2>2, PrepareAssumption, CloneSets DEF AtLeastResolved
    <2>4. QED
      BY <1>5, <2>1, <2>2, <2>3, LaterIsEnough
  <1>7. VersionInv'
    <2>1. CASE pc = "fetch repos"
      BY <2>1, <1>1 DEF VersionInv, AfterMerge
    <2>2. CASE pc = "fetch"
      <3>1. \A b \in AurBuild \ todo' : AtLeastResolved(b, fetched'[b])
        BY <2>2, <1>1, <1>2, <1>5, <1>6, CloneSets DEF VInv, VersionInv, Some
      <3>2. QED
        BY <2>2, <3>1, <1>1, <1>5 DEF VInv, VersionInv, AfterMerge
    <2>3. QED
      BY <1>1, <2>1, <2>2
  <1>8. QED
    BY <1>4, <1>7 DEF VInv

LEMMA MergeVInv == ASSUME IInv, VInv, NEW c \in Clones, Merge(c) PROVE VInv'
  <1>1. /\ pc \in {"merge repos", "merge"} /\ todo' = todo \ {c}
        /\ tree' = [tree EXCEPT ![c] = fetched[c]]
        /\ UNCHANGED <<remote, fetched, s, resolved, pc, then>>
    BY DEF Merge
  <1>2. fetched \in Some(Clones) /\ tree \in Some(Clones)
    BY DEF IInv, TypeOK
  <1>3. \A d \in Clones : fetched[d] \in Nat
    BY <1>2, CloneSets DEF Some, Commits
  <1>4. CommitsInOrder'
    <2>1. ASSUME NEW d \in Clones PROVE tree'[d] <= fetched'[d]
      <3>1. tree'[d] = tree[d] \/ tree'[d] = fetched[d]
        BY <1>1, <1>2 DEF Some
      <3>2. fetched'[d] = fetched[d] /\ fetched[d] \in Nat /\ tree[d] <= fetched[d]
        BY <1>1, <1>3 DEF VInv, CommitsInOrder
      <3>3. QED
        BY <3>1, <3>2
    <2>2. QED
      BY <2>1, <1>1 DEF VInv, CommitsInOrder
  <1>5. AurBuild' = AurBuild /\ \A b, v : AtLeastResolved(b, v)' = AtLeastResolved(b, v)
    BY <1>1 DEF AurBuild, AtLeastResolved
  <1>6. VersionInv'
    BY <1>1, <1>5 DEF VInv, VersionInv, AfterMerge
  <1>7. QED
    BY <1>4, <1>6 DEF VInv

LEMMA ResolveVInv == ASSUME IInv, VInv, Resolve PROVE VInv'
  <1>1. /\ pc' \in {"idle", "confirm"} /\ resolved' = [b \in Bases |-> remote[b]]
        /\ UNCHANGED <<remote, fetched, tree, s>>
    BY DEF Resolve, Goto
  <1>2. \A c \in Clones : remote[c] \in Nat /\ remote[c] # None
    BY CloneSets DEF IInv, TypeOK, Commits
  <1>3. CommitsInOrder'
    BY <1>1, <1>2, CloneSets DEF VInv, CommitsInOrder
  <1>4. VersionInv'
    BY <1>1, <1>2, CloneSets DEF VersionInv, AfterMerge, AurBuild
  <1>5. QED
    BY <1>3, <1>4 DEF VInv

LEMMA ReadSrcinfosVInv == ASSUME IInv, VInv, ReadSrcinfos PROVE VInv'
  <1>1. /\ pc = "read" /\ pc' = "fetch" /\ todo' = Wanted
        /\ srcinfos' = [b \in Bases |-> IF b \in AurBuild THEN tree[b] ELSE None]
        /\ UNCHANGED <<remote, fetched, tree, s, resolved>>
    BY DEF ReadSrcinfos, Goto, clones
  <1>2. CommitsInOrder'
    BY <1>1 DEF VInv, CommitsInOrder
  <1>3. AurBuild' = AurBuild /\ AurBuild \subseteq Bases
        /\ \A b, v : AtLeastResolved(b, v)' = AtLeastResolved(b, v)
    BY <1>1 DEF AurBuild, AtLeastResolved
  <1>4. \A b \in AurBuild : resolved[b] # None
    BY <1>1 DEF VInv, VersionInv
  <1>5. ASSUME NEW b \in AurBuild \ Wanted PROVE AtLeastResolved(b, fetched[b])
    <2>1. tree[b] # None /\ ~(Version[b][tree[b]] < Version[b][resolved[b]])
      BY <1>1, <1>3 DEF Wanted, Older
    <2>2. tree[b] \in Commits /\ fetched[b] \in Commits /\ tree[b] <= fetched[b]
      BY <1>3, <2>1, CloneSets DEF IInv, TypeOK, CheckedOut, Some, VInv, CommitsInOrder
    <2>3. resolved[b] \in Commits
      BY <1>3, <1>4 DEF IInv, TypeOK, Some
    <2>4. Version[b][tree[b]] \in Nat /\ Version[b][resolved[b]] \in Nat
      BY <1>3, <2>2, <2>3, PrepareAssumption, CloneSets
    <2>5. AtLeastResolved(b, tree[b])
      BY <2>1, <2>4 DEF AtLeastResolved
    <2>6. QED
      BY <1>3, <1>4, <2>2, <2>5, LaterIsEnough
  <1>6. VersionInv'
    BY <1>1, <1>3, <1>4, <1>5 DEF VersionInv, AfterMerge
  <1>7. QED
    BY <1>2, <1>6 DEF VInv

LEMMA NextVInv == IInv /\ VInv /\ [Next]_vars => VInv'
  <1> SUFFICES ASSUME IInv, VInv, [Next]_vars PROVE VInv'
    OBVIOUS
  <1>1. CASE \E c \in Clones : Fetch(c) \/ Merge(c) \/ Push(c)
    BY <1>1, FetchVInv, MergeVInv, PushVInv
  <1>2. CASE Resolve \/ ReadSrcinfos
    BY <1>2, ResolveVInv, ReadSrcinfosVInv
  <1>3. CASE Stop \/ Refuse \/ RefuseReview \/ Build \/ Clean \/ Start
    BY <1>3, OutsideVInv
  <1>4. CASE ReposMerged \/ Confirm \/ Proceed \/ Merged \/ CheckArch \/ RepoInstall \/ ReviewSilently \/ Accept
               \/ EarlyRefresh \/ ReposFetched \/ GenerateSrcinfos \/ Fetched \/ Reread \/ PreBuild \/ CheckKeys
    <2>1. UNCHANGED <<remote, fetched, tree, s, resolved>>
      BY <1>4 DEF ReposMerged, Confirm, Proceed, Merged, CheckArch, RepoInstall, ReviewSilently, Accept,
           EarlyRefresh, ReposFetched, GenerateSrcinfos, Fetched, Reread, PreBuild, CheckKeys, clones, run
    <2>2. QED
      BY <1>4, <2>1, StepVInv
  <1>5. CASE UNCHANGED vars
    <2>1. UNCHANGED <<remote, fetched, tree, s, resolved, pc, then, todo>>
      BY <1>5 DEF vars, clones, run
    <2>2. AurBuild' = AurBuild /\ \A b, v : AtLeastResolved(b, v)' = AtLeastResolved(b, v)
      BY <2>1 DEF AurBuild, AtLeastResolved
    <2>3. QED
      BY <2>1, <2>2 DEF VInv, CommitsInOrder, VersionInv, AfterMerge
  <1>6. QED
    BY <1>1, <1>2, <1>3, <1>4, <1>5 DEF Next, Session

\* Nothing older than what was announced is built, whatever was left in the clone.
THEOREM BuiltIsResolvedHolds == Spec => []BuiltIsResolved
  <1>1. VInv => BuiltIsResolved
    BY DEF VInv, VersionInv, AfterMerge, BuiltIsResolved, AtLeastResolved
  <1>2. QED
    BY <1>1, InitVInv, NextVInv, IInvHolds, PTL DEF Spec
=============================================================================
