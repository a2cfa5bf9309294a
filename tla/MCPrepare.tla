------------------------------ MODULE MCPrepare ------------------------------
EXTENDS Prepare

CONSTANTS a, b, r, p, k1, k2

MCVersion == [c \in {a, b, r, p} |-> [v \in 1..MaxCommit |-> IF c = b THEN 1 ELSE v]]

MCKeysOf == [c \in {a, b, r, p} |-> [v \in 1..MaxCommit |->
               IF c = a /\ v > 1 THEN {k2} ELSE IF c \in {a, b} THEN {k1} ELSE {}]]

Plain == [build |-> {a}, built |-> {}, targets |-> {a}, install |-> TRUE, conflict |-> FALSE,
          refresh |-> FALSE, noConfirm |-> FALSE, skipReview |-> FALSE, fileManager |-> FALSE, redownload |-> "no",
          pgpFetch |-> TRUE, chroot |-> FALSE]

Few == {Plain}

Many ==
  {Plain,
   [Plain EXCEPT !.build = {a, b}, !.built = {a}, !.redownload = "yes", !.fileManager = TRUE],
   [Plain EXCEPT !.build = {b}, !.skipReview = TRUE, !.pgpFetch = FALSE],
   [Plain EXCEPT !.noConfirm = TRUE, !.redownload = "all", !.chroot = TRUE],
   [Plain EXCEPT !.conflict = TRUE, !.noConfirm = TRUE],
   [Plain EXCEPT !.build = {}, !.targets = {}],
   [Plain EXCEPT !.build = {r, p}, !.refresh = TRUE],
   [Plain EXCEPT !.build = {r}, !.targets = {}, !.install = FALSE]}

MCForeign == {<<a, 2>>}
=============================================================================
