------------------------------ MODULE MCBackend ------------------------------
(* Commands and environments for model checking the backend. *)
EXTENDS Backend, FiniteSets

CONSTANTS p, q  \* two bah processes

Bare(op) == [op |-> op, keys |-> [k \in KeyNames |-> 0], targets |-> TRUE]

Given(op, once, twice) ==
  [Bare(op) EXCEPT !.keys = [k \in KeyNames |-> IF k \in once THEN 1
                                                ELSE IF k \in twice THEN 2 ELSE 0]]

\* Commands whose options all ways read alike, and commands that take one of the other ways.
LongCommands ==
  {Given("remove", {"cascade", "nosave", "unneeded"}, {"recursive"}),
   [Given("sync", {"refresh", "sysupgrade", "needed", "dbonly"}, {}) EXCEPT !.targets = FALSE]}

OtherCommands ==
  {Given("sync", {"print"}, {}),
   [Given("sync", {"y"}, {}) EXCEPT !.targets = FALSE],
   Bare("database")}

AllCommands == LongCommands \cup OtherCommands

Environment(legacy, strict, root) == [legacy |-> legacy, strict |-> strict, root |-> root]

Default == {Environment(FALSE, FALSE, FALSE)}

AllSettings ==
  Default \cup {Environment(FALSE, TRUE, TRUE), Environment(TRUE, FALSE, FALSE)}
=============================================================================
