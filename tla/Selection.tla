------------------------------- MODULE Selection -------------------------------
(***************************************************************************)
(* Which packages a command acts upon, where bah computes that by itself:  *)
(* unneeded_pkgs finds what no explicitly installed package needs, and the *)
(* menu of -Su numbers the upgrades, reads the numbers, ranges and names   *)
(* of those to leave out, and goes through the lists a second time.  A     *)
(* behaviour is one such computation.                                      *)
(***************************************************************************)
EXTENDS Integers, Sequences, FiniteSets

CONSTANTS
  Packages,
  Systems,  \* the databases that unneeded_pkgs may find
  Parts,    \* what the names of repositories are made of, between one "-" and the next
  Menus     \* the upgrades and the answers that the menu may be given

ASSUME PartsAssumption == "devel" \in Parts

ASSUME SystemsAssumption ==
  Systems \subseteq
    [explicit : SUBSET Packages,
     named : [Packages -> SUBSET Packages],     \* the packages that a dependency names and that satisfy it
     provided : [Packages -> SUBSET Packages],  \* those that satisfy one by a provision
     optional : [Packages -> SUBSET Packages],  \* those that satisfy an optional dependency, in either way
     keepOptional : BOOLEAN]

VARIABLES
  task,        \* "unneeded" or "menu", and its input
  pc,
  next, deps,  \* unneeded_pkgs: the packages to be looked into, and those not reached
  offer,       \* the entries of the menu
  index,       \* the number of the next entry
  lines,       \* the entries as they were printed, with their numbers
  kept, repoSkip

reach == <<next, deps>>
menu == <<offer, index, lines, kept, repoSkip>>
vars == <<task, pc, reach, menu>>

sys == task.input

----------------------------------------------------------------------------
(* unneeded_pkgs.                                                          *)

Satisfying(p) ==
  sys.named[p] \cup sys.provided[p] \cup (IF sys.keepOptional THEN sys.optional[p] ELSE {})

\* Fault: the table of provisions is not consulted.
LookIntoNames(p) ==
  /\ pc = "unneeded" /\ p \in next
  /\ next' = (next \ {p}) \cup (sys.named[p] \cap deps)
  /\ deps' = deps \ sys.named[p]
  /\ UNCHANGED <<task, pc, menu>>

\* Every package that is found leaves deps for next, whatever found it first.
LookInto(p) ==
  /\ pc = "unneeded" /\ p \in next
  /\ next' = (next \ {p}) \cup (Satisfying(p) \cap deps)
  /\ deps' = deps \ Satisfying(p)
  /\ UNCHANGED <<task, pc, menu>>

NothingNext ==
  /\ pc = "unneeded" /\ next = {} /\ pc' = "done"
  /\ UNCHANGED <<task, reach, menu>>

----------------------------------------------------------------------------
(* NumberMenu.  A word of the answer is a number, a range or a name; "^"   *)
(* in front of it inverts it.  A name is the sequence of its parts between *)
(* "-", and only the first part is kept, also of a range whose end is not  *)
(* a number.                                                               *)

\* Fault: a range ends before its end.
RangeOfShort(t) == [from |-> t.from, past |-> IF t.kind = "number" THEN t.from + 1 ELSE t.to]

RangeOf(t) == [from |-> t.from, past |-> (IF t.kind = "number" THEN t.from ELSE t.to) + 1]

NumberMenu(answer) ==
  LET Ranges(inverted) == {RangeOf(t) : t \in {u \in answer : u.inverted = inverted /\ u.kind # "name"}}
      Words(inverted) == {<<t.word[1]>> : t \in {u \in answer : u.inverted = inverted /\ u.kind = "name"}}
  IN [inRange |-> Ranges(FALSE), exRange |-> Ranges(TRUE), inWord |-> Words(FALSE), exWord |-> Words(TRUE)]

InRanges(n, ranges) == \E r \in ranges : r.from <= n /\ n < r.past

Contains(m, n, word) ==
  \/ InRanges(n, m.inRange) \/ word \in m.inWord
  \/ /\ ~InRanges(n, m.exRange) /\ word \notin m.exWord
     /\ m.inRange = {} /\ m.inWord = {}

----------------------------------------------------------------------------
(* The menu of get_upgrades.                                               *)

Entry(list, pkg, word) == [list |-> list, pkg |-> pkg, word |-> word]

Entries(list, pkgs, words) == [i \in 1..Len(pkgs) |-> Entry(list, pkgs[i], words[pkgs[i]])]

\* The upgrades of the AUR that are no devel upgrades.
AurOffered(in) ==
  LET NotDevel(p) == \A i \in 1..Len(in.devel) : in.devel[i] # p
  IN SelectSeq(in.aur, NotDevel)

\* The name of a devel entry gets its suffix twice.
DevelNames(in) ==
  [p \in Packages |-> (IF p \in in.local THEN in.db[p] ELSE <<>>) \o <<"devel", "devel">>]

Offered ==
  LET in == task.input IN
  Entries("repo", in.repo, in.db) \o Entries("aur", AurOffered(in), in.db)
    \o Entries("devel", in.devel, DevelNames(in)) \o Entries("pkgbuild", in.pkgbuild, in.db)

At == Len(offer) - index + 1

GetUpgrades ==
  /\ pc = "upgrades"
  /\ offer' = Offered
  /\ IF offer' = <<>> \/ ~task.input.upgradeMenu
     THEN /\ kept' = {offer'[i].pkg : i \in 1..Len(offer')}
          /\ pc' = "done" /\ index' = index
     ELSE kept' = kept /\ pc' = "print" /\ index' = Len(offer')
  /\ UNCHANGED <<task, reach, lines, repoSkip>>

PrintUpgrade ==
  /\ pc = "print" /\ index > 0
  /\ lines' = lines \cup {[number |-> index, entry |-> offer[At]]}
  /\ index' = index - 1
  /\ UNCHANGED <<task, pc, reach, offer, kept, repoSkip>>

Ask ==
  /\ pc = "print" /\ index = 0
  /\ pc' = "select" /\ index' = Len(offer)
  /\ UNCHANGED <<task, reach, offer, lines, kept, repoSkip>>

\* Only an empty answer keeps everything: one of commas alone has no words.
Select ==
  /\ pc = "select" /\ index > 0
  /\ LET e == offer[At]
         keep == ~task.input.answered \/ ~Contains(NumberMenu(task.input.answer), index, e.word)
     IN /\ kept' = IF keep THEN kept \cup {e.pkg} ELSE kept
        /\ repoSkip' = IF ~keep /\ e.list = "repo" THEN repoSkip \cup {e.pkg} ELSE repoSkip
  /\ index' = index - 1
  /\ UNCHANGED <<task, pc, reach, offer, lines>>

Selected ==
  /\ pc = "select" /\ index = 0 /\ pc' = "done"
  /\ UNCHANGED <<task, reach, menu>>

----------------------------------------------------------------------------

Init ==
  /\ \/ /\ task \in [name : {"unneeded"}, input : Systems]
        /\ pc = "unneeded"
        /\ next = sys.explicit /\ deps = Packages \ sys.explicit
     \/ /\ task \in [name : {"menu"}, input : Menus]
        /\ pc = "upgrades" /\ next = {} /\ deps = {}
  /\ offer = <<>> /\ index = 0 /\ lines = {}
  /\ kept = {} /\ repoSkip = {}

Next ==
  \/ \E p \in Packages : LookInto(p)
  \/ NothingNext
  \/ GetUpgrades \/ PrintUpgrade \/ Ask \/ Select \/ Selected

Spec == Init /\ [][Next]_vars

----------------------------------------------------------------------------
(* Properties.                                                             *)

\* A set of packages that has what its members depend on.
Closed(S) == sys.explicit \subseteq S /\ \A p \in S : Satisfying(p) \subseteq S

\* What -c and -Qtd call unneeded is exactly what the explicitly installed packages do without:
\* the rest is closed under dependencies, and no smaller set is, whatever the order in which
\* packages and provisions are found, and cycles of orphans included (util.rs 210-255).
UnneededExact ==
  task.name = "unneeded" /\ pc = "done" =>
    LET needed == Packages \ deps
    IN Closed(needed) /\ \A S \in SUBSET Packages : Closed(S) => needed \subseteq S

\* A word of the answer says an entry: its number, a range with it, or the name of its repository.
Says(t, n, word) ==
  \/ t.kind = "number" /\ n = t.from
  \/ t.kind = "range" /\ n \in t.from..t.to
  \/ t.kind = "name" /\ t.word = word

\* What the user wants to leave out: what the plain words say; if all words are inverted,
\* what none of them says.
LeftOut(n, word) ==
  LET plain == {t \in task.input.answer : ~t.inverted}
  IN IF plain # {} THEN \E t \in plain : Says(t, n, word)
     ELSE task.input.answer # {} /\ ~\E t \in task.input.answer : Says(t, n, word)

\* The answers that are read as they are meant: the name of a repository with a "-" is not, it
\* stands for the one that is called like its first part; and commas alone leave out everything.
Clear ==
  /\ task.input.answered => task.input.answer # {}
  /\ \A t \in task.input.answer : t.kind = "name" => Len(t.word) = 1

\* A package is upgraded if and only if a line of it was printed that the user did not leave out, by
\* its number or its repository, although the lists are numbered downwards in one loop and compared
\* in another, and a package of the AUR with a devel upgrade is in two of them.  A package has two
\* lines only if it comes from a PKGBUILD repository and has a devel upgrade: it is upgraded unless
\* both are left out.  Of answers that are not clear only this is claimed: a number or a
\* range leaves out its lines, whatever else is said (upgrade.rs 283-509).
MenuObeyed ==
  task.name = "menu" /\ pc = "done" /\ task.input.upgradeMenu =>
    /\ \A i \in 1..Len(offer) :
         LET e == offer[i]
             Own == {l \in lines : l.entry.pkg = e.pkg}
         IN /\ Clear => (e.pkg \in kept <=> \E l \in Own : ~LeftOut(l.number, l.entry.word))
            /\ e.pkg \in kept =>
                 \E l \in Own : ~\E t \in task.input.answer :
                   ~t.inverted /\ t.kind # "name" /\ Says(t, l.number, l.entry.word)
            /\ e.list = "repo" => (e.pkg \in repoSkip <=> e.pkg \notin kept)
    /\ \A k, l \in lines : k.entry.pkg = l.entry.pkg =>
         k = l \/ {k.entry.list, l.entry.list} = {"devel", "pkgbuild"}

----------------------------------------------------------------------------
(* What the theorem about the menu takes for granted of the lists and of   *)
(* the answers.                                                            *)

Members(s) == {s[i] : i \in 1..Len(s)}

NoRepeats(s) == \A i, j \in 1..Len(s) : s[i] = s[j] => i = j

Word == [kind : {"number", "range", "name"}, from : Nat, to : Nat, word : Seq(Parts) \ {<<>>},
         inverted : BOOLEAN]

\* A repository has an upgrade once, and an installed package is upgraded from one kind of
\* repository, except that a devel upgrade may repeat one of the AUR or of a PKGBUILD repository.
ListsDistinct ==
  \A m \in Menus :
    /\ \A s \in {m.repo, m.aur, m.devel, m.pkgbuild} : s \in Seq(Packages) /\ NoRepeats(s)
    /\ Members(m.repo) \cap (Members(m.aur) \cup Members(m.devel) \cup Members(m.pkgbuild)) = {}
    /\ Members(m.aur) \cap Members(m.pkgbuild) = {}
    /\ m.db \in [Packages -> Seq(Parts)]

\* SelectSeq keeps what passes the test, and each once.
SelectSeqSifts ==
  \A m \in Menus :
    /\ AurOffered(m) \in Seq(Packages) /\ NoRepeats(AurOffered(m))
    /\ Members(AurOffered(m)) = Members(m.aur) \ Members(m.devel)

\* The answers are sets of words, and an empty one has none.
AnswersRead == \A m \in Menus : m.answer \subseteq Word /\ (~m.answered => m.answer = {})

=============================================================================
