------------------------------- MODULE MCStores -------------------------------
(* Bases, packages and command sequences for model checking the stores. *)
EXTENDS Stores

CONSTANTS p, q,    \* processes
          x, y,    \* bases: x has two packages and two sources
          a, b, c, \* packages of x, x and y; c has the name of y
          s, t

MadeOf == [n \in Bases |-> IF n = x THEN {a, b} ELSE {c}]
Names == [n \in Bases |-> IF n = x THEN NoPackage ELSE c]
SourcesOf == [n \in Bases |-> IF n = x THEN {s, t} ELSE {t}]

Do(op) == [op |-> op, pkgs |-> {}, base |-> x, localRepo |-> FALSE, print |-> FALSE,
           twice |-> FALSE, ignore |-> {}, ignoreDevel |-> {}, ignoreSource |-> {}]
InRepo(command) == [command EXCEPT !.localRepo = TRUE]
On(command, packages) == [command EXCEPT !.pkgs = packages]
Build(n) == [Do("build") EXCEPT !.base = n]

\* A push to s is taken back; the branch of t is deleted, and made again from another commit.
Output == [n \in Sources |-> IF n = s THEN <<"old", "new", "old">> ELSE <<"old", "", "new">>]
Answers == [n \in Sources |-> [k \in 0..MaxPushes |-> Output[n][k + 1]]]

AllRecorded == {<<x, s, "old">>, <<x, t, "old">>, <<y, t, "old">>}

World(inst, listed, info, first, second) ==
  [installed |-> inst, repo |-> listed, info |-> info,
   todo |-> [r \in Procs |-> IF r = p THEN first ELSE second]]

Full == {a, b, c}

AllScenarios ==
  {World(Full, {}, AllRecorded, <<Do("check")>>, <<Build(x)>>),
   World({a, c}, {}, {<<y, t, "old">>}, <<Do("gendb"), Do("check")>>, <<On(Do("remove"), {a})>>),
   World(Full, {}, AllRecorded, <<[Do("check") EXCEPT !.ignore = {a}, !.ignoreSource = {t}]>>,
         <<[Do("check") EXCEPT !.ignoreDevel = {a, b}]>>),
   World(Full, {c}, AllRecorded, <<InRepo(Do("check"))>>, <<InRepo(Do("clean"))>>),
   World({b}, {a, c}, {}, <<InRepo(Build(x)), InRepo(Do("check"))>>, <<InRepo(Do("clean"))>>),
   World({a, c}, {a, c}, AllRecorded, <<[On(InRepo(Do("delete")), {c}) EXCEPT !.twice = TRUE],
                                        InRepo(Do("gendb"))>>,
         <<On(InRepo(Do("delete")), {a, b}), InRepo(Do("refresh"))>>)}
=============================================================================
