----------------------------- MODULE MCInstaller -----------------------------
(* Plans and configurations for model checking the installer. *)
EXTENDS Installer

CONSTANTS x, y,       \* bases
          p, q, r, m  \* packages

Nothing == [n \in Packages |-> {}]

\* Two bases: y needs x at run time and a repository package to build.
Chain ==
  [repo |-> {m}, order |-> <<x, y>>,
   pkgs |-> [b \in Bases |-> IF b = x THEN {p} ELSE {q}],
   build |-> [b \in Bases |-> TRUE],
   needs |-> [b \in Bases |-> IF b = y THEN {m} ELSE {}],
   depends |-> [Nothing EXCEPT ![q] = {p}],
   target |-> {q}, make |-> {m}, conflicts |-> {},
   installed |-> [n \in Packages |-> "none"], reason |-> [n \in Packages |-> "exp"],
   files |-> {}, synced |-> {m}, devel |-> {x, y}, record |-> [b \in Bases |-> "none"]]

\* y needs x only to be built.
MakeChain == [Chain EXCEPT !.repo = {}, !.needs = [b \in Bases |-> IF b = y THEN {p} ELSE {}],
                           !.depends = Nothing, !.make = {p}, !.devel = {x}]

\* An upgrade of unrelated bases, one of them with two packages of which one is new;
\* a package of the first base conflicts.
Upgrade(conflicting) ==
  [Chain EXCEPT !.repo = {}, !.pkgs = [b \in Bases |-> IF b = x THEN {p, r} ELSE {q}],
                !.needs = [b \in Bases |-> {}], !.depends = Nothing,
                !.target = {p, q}, !.make = {}, !.conflicts = conflicting,
                !.installed = [n \in Packages |-> IF n \in {p, q} THEN "old" ELSE "none"],
                !.reason = [n \in Packages |-> IF n = q THEN "dep" ELSE "exp"],
                !.record = [b \in Bases |-> IF b = x THEN "old" ELSE "none"]]

\* y is in the local repository or the cache already and is not built.
Built == [Upgrade({}) EXCEPT !.build = [b \in Bases |-> b = x], !.files = {q}]

\* The make dependency is an old version of a package that another one needs.
SharedMake == [Chain EXCEPT !.depends = [Nothing EXCEPT ![q] = {p}, ![r] = {m}],
                            !.installed = [n \in Packages |-> IF n \in {m, r} THEN "old"
                                                              ELSE "none"]]

\* x has a package that is in the local repository and one that is not.
Mixed == [Upgrade({}) EXCEPT !.synced = {p}]

\* x is up to date.
Current == [Chain EXCEPT !.installed = [n \in Packages |-> IF n = p THEN "new" ELSE "none"],
                          !.files = {p}]

\* The same, but its package file is no longer in the cache.
Cleaned == [Current EXCEPT !.files = {}]

RepoOnly == [Chain EXCEPT !.order = <<>>, !.target = {m}, !.make = {}]

AllJobs == {Chain, MakeChain, Upgrade({p}), Upgrade({q}), Built, SharedMake, Mixed,
            Current, Cleaned, RepoOnly}

Default == [batch |-> FALSE, failFast |-> FALSE, devel |-> TRUE, localRepo |-> FALSE,
            chroot |-> FALSE, installTargets |-> TRUE, needed |-> FALSE, rebuild |-> FALSE,
            removeMake |-> TRUE, legacy |-> FALSE, reason |-> "auto"]

AllConfs ==
  {[Default EXCEPT !.batch = f, !.localRepo = g, !.chroot = h, !.legacy = l] :
     f, g, h, l \in BOOLEAN}
  \cup {[Default EXCEPT !.batch = TRUE, !.failFast = TRUE],
        [Default EXCEPT !.batch = TRUE, !.installTargets = FALSE, !.devel = FALSE],
        [Default EXCEPT !.installTargets = FALSE],
        [Default EXCEPT !.batch = TRUE, !.reason = "asdep"],
        [Default EXCEPT !.chroot = TRUE, !.needed = TRUE, !.legacy = TRUE, !.reason = "asdep"],
        [Default EXCEPT !.batch = TRUE, !.needed = TRUE, !.reason = "exp"],
        [Default EXCEPT !.needed = TRUE, !.localRepo = TRUE],
        [Default EXCEPT !.rebuild = TRUE, !.reason = "dep"],
        [Default EXCEPT !.chroot = TRUE, !.localRepo = TRUE, !.legacy = TRUE, !.reason = "dep"]}

\* The plans of this run are of the kind that the theorems are about.
ASSUME OrdersDistinct /\ MakeSound /\ ReasonsHonoured /\ PlansSound
=============================================================================
