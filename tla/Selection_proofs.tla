--------------------------- MODULE Selection_proofs ---------------------------
(***************************************************************************)
(* unneeded_pkgs is correct for every database: whatever the graph of      *)
(* dependencies and provisions, and in whatever order it is walked.        *)
(* The menu of upgrades does what its answer says, for lists of any length.*)
(***************************************************************************)
EXTENDS Selection, SequenceTheorems, TLAPS

Types ==
  /\ sys \in Systems /\ pc \in {"unneeded", "done"}
  /\ next \subseteq Packages /\ deps \subseteq Packages /\ next \cap deps = {}

\* What was looked into has nothing that it depends on among the candidates.
Walked == \A p \in Packages \ (deps \cup next) : Satisfying(p) \cap deps = {}

\* Nothing was taken out of the candidates that a closed set can do without.
Reached == \A S \in SUBSET Packages : Closed(S) => Packages \ deps \subseteq S

UnneededInv ==
  task.name = "unneeded" =>
    Types /\ Walked /\ Reached /\ sys.explicit \cap deps = {} /\ (pc = "done" => next = {})

\* A computation is of one kind from its beginning to its end.
KindInv == task.name = "unneeded" <=> pc = "unneeded" \/ (pc = "done" /\ task.name = "unneeded")

IInv == UnneededInv /\ KindInv

\* The sets of a database are sets of packages.
LEMMA SystemTypes ==
  ASSUME sys \in Systems
  PROVE  sys.explicit \subseteq Packages /\ \A p \in Packages : Satisfying(p) \subseteq Packages
  <1>1. /\ sys.explicit \subseteq Packages
        /\ sys.named \in [Packages -> SUBSET Packages] /\ sys.provided \in [Packages -> SUBSET Packages]
        /\ sys.optional \in [Packages -> SUBSET Packages]
    BY SystemsAssumption
  <1>2. QED
    BY <1>1 DEF Satisfying

LEMMA InitIInv == Init => IInv
  <1> SUFFICES ASSUME Init PROVE IInv
    OBVIOUS
  <1>1. CASE pc = "unneeded"
    <2>1. task.name = "unneeded" /\ sys \in Systems
      BY <1>1 DEF Init, sys
    <2>2. next = sys.explicit /\ deps = Packages \ sys.explicit
      BY <1>1 DEF Init
    <2>3. Types
      BY <1>1, <2>1, <2>2, SystemTypes DEF Types
    <2>4. Walked
      BY <2>2, <2>3 DEF Walked, Types
    <2>5. Reached
      BY <2>2, <2>3 DEF Reached, Closed, Types
    <2>6. QED
      BY <1>1, <2>1, <2>2, <2>3, <2>4, <2>5 DEF IInv, UnneededInv, KindInv
  <1>2. CASE pc = "upgrades"
    <2>1. task.name = "menu"
      BY <1>2 DEF Init
    <2>2. QED
      BY <1>2, <2>1 DEF IInv, UnneededInv, KindInv
  <1>3. QED
    BY <1>1, <1>2 DEF Init

LEMMA LookIntoIInv ==
  ASSUME IInv, NEW p \in Packages, LookInto(p)
  PROVE  IInv'
  <1>1. /\ pc = "unneeded" /\ p \in next /\ task' = task /\ pc' = pc
        /\ next' = (next \ {p}) \cup (Satisfying(p) \cap deps) /\ deps' = deps \ Satisfying(p)
    BY DEF LookInto
  <1>2. task.name = "unneeded" /\ Types /\ Walked /\ Reached /\ sys.explicit \cap deps = {}
    BY <1>1 DEF IInv, UnneededInv, KindInv
  <1>3. sys' = sys /\ \A q : Satisfying(q)' = Satisfying(q)
    BY <1>1 DEF sys, Satisfying
  <1>4. Types'
    BY <1>1, <1>2, <1>3, SystemTypes DEF Types
  <1>5. Walked'
    <2> SUFFICES ASSUME NEW q \in Packages \ (deps' \cup next') PROVE Satisfying(q) \cap deps' = {}
      BY <1>3 DEF Walked
    <2>1. CASE q = p
      BY <2>1, <1>1
    <2>2. CASE q # p
      <3>1. q \in Packages \ (deps \cup next)
        BY <1>1, <2>2
      <3>2. QED
        BY <3>1, <1>1, <1>2 DEF Walked
    <2>3. QED
      BY <2>1, <2>2
  <1>6. Reached'
    <2> SUFFICES ASSUME NEW S \in SUBSET Packages, Closed(S) PROVE Packages \ deps' \subseteq S
      BY <1>3 DEF Reached, Closed
    <2>1. Packages \ deps \subseteq S
      BY <1>2 DEF Reached
    <2>2. p \in S
      BY <1>1, <1>2, <2>1 DEF Types
    <2>3. Satisfying(p) \subseteq S
      BY <2>2 DEF Closed
    <2>4. QED
      BY <1>1, <2>1, <2>3
  <1>7. sys.explicit' \cap deps' = {}
    BY <1>1, <1>2, <1>3
  <1>8. QED
    BY <1>1, <1>2, <1>3, <1>4, <1>5, <1>6, <1>7 DEF IInv, UnneededInv, KindInv

LEMMA NothingNextIInv == IInv /\ NothingNext => IInv'
  <1> SUFFICES ASSUME IInv, NothingNext PROVE IInv'
    OBVIOUS
  <1>1. pc = "unneeded" /\ next = {} /\ pc' = "done" /\ task' = task /\ next' = next /\ deps' = deps
    BY DEF NothingNext, reach
  <1>2. task.name = "unneeded" /\ Types /\ Walked /\ Reached /\ sys.explicit \cap deps = {}
    BY <1>1 DEF IInv, UnneededInv, KindInv
  <1>3. sys' = sys /\ (\A q : Satisfying(q)' = Satisfying(q)) /\ \A S : Closed(S)' = Closed(S)
    BY <1>1 DEF sys, Satisfying, Closed
  <1>4. Types' /\ Walked' /\ Reached'
    BY <1>1, <1>2, <1>3 DEF Types, Walked, Reached
  <1>5. QED
    BY <1>1, <1>2, <1>3, <1>4 DEF IInv, UnneededInv, KindInv

\* The steps of the menu are taken by other computations.
LEMMA MenuIInv ==
  IInv /\ (GetUpgrades \/ PrintUpgrade \/ Ask \/ Select \/ Selected) => IInv'
  <1> SUFFICES ASSUME IInv, GetUpgrades \/ PrintUpgrade \/ Ask \/ Select \/ Selected PROVE IInv'
    OBVIOUS
  <1>1. pc \in {"upgrades", "print", "select"} /\ pc' \in {"print", "select", "done"} /\ task' = task
    BY DEF GetUpgrades, PrintUpgrade, Ask, Select, Selected
  <1>2. task.name # "unneeded"
    BY <1>1 DEF IInv, KindInv
  <1>3. QED
    BY <1>1, <1>2 DEF IInv, UnneededInv, KindInv

LEMMA NextIInv == IInv /\ [Next]_vars => IInv'
  <1> SUFFICES ASSUME IInv, [Next]_vars PROVE IInv'
    OBVIOUS
  <1>1. CASE \E p \in Packages : LookInto(p)
    BY <1>1, LookIntoIInv
  <1>2. CASE NothingNext
    BY <1>2, NothingNextIInv
  <1>3. CASE GetUpgrades \/ PrintUpgrade \/ Ask \/ Select \/ Selected
    BY <1>3, MenuIInv
  <1>4. CASE UNCHANGED vars
    <2>1. task' = task /\ pc' = pc /\ next' = next /\ deps' = deps
      BY <1>4 DEF vars, reach
    <2>2. sys' = sys /\ (\A q : Satisfying(q)' = Satisfying(q)) /\ \A S : Closed(S)' = Closed(S)
      BY <2>1 DEF sys, Satisfying, Closed
    <2>3. (Types' <=> Types) /\ (Walked' <=> Walked) /\ (Reached' <=> Reached)
      BY <2>1, <2>2 DEF Types, Walked, Reached
    <2>4. QED
      BY <2>1, <2>2, <2>3 DEF IInv, UnneededInv, KindInv
  <1>5. QED
    BY <1>1, <1>2, <1>3, <1>4 DEF Next

\* At the end the packages that are not among the candidates are closed, and no closed set is
\* smaller (unneeded_pkgs, util.rs 210-255).
LEMMA IInvExact == IInv => UnneededExact
  <1> SUFFICES ASSUME IInv, task.name = "unneeded", pc = "done"
               PROVE  LET needed == Packages \ deps
                      IN Closed(needed) /\ \A S \in SUBSET Packages : Closed(S) => needed \subseteq S
    BY DEF UnneededExact
  <1>1. Types /\ Walked /\ Reached /\ sys.explicit \cap deps = {} /\ next = {}
    BY DEF IInv, UnneededInv
  <1>2. Closed(Packages \ deps)
    BY <1>1, SystemTypes DEF Closed, Types, Walked
  <1>3. QED
    BY <1>1, <1>2 DEF Reached

\* unneeded_pkgs returns exactly the packages that the explicitly installed ones do without, for
\* every set of packages, every graph of dependencies and provisions and every order of the walk.
THEOREM UnneededExactHolds == Spec => []UnneededExact
  BY InitIInv, NextIInv, IInvExact, PTL DEF Spec

----------------------------------------------------------------------------
(* The entries of the menu.                                                *)

\* The entries of a menu.
MenuEntries == [list : {"repo", "aur", "devel", "pkgbuild"}, pkg : Packages, word : Seq(Parts)]

\* Two entries have the same package only if one is a devel upgrade and the other that of a PKGBUILD repository.
OfferedOnce(s) ==
  \A i, j \in 1..Len(s) :
    s[i].pkg = s[j].pkg => i = j \/ {s[i].list, s[j].list} = {"devel", "pkgbuild"}

\* A function on 1..n is a sequence.
LEMMA IsSequence ==
  ASSUME NEW S, NEW n \in Nat, NEW f \in [1..n -> S]
  PROVE  f \in Seq(S) /\ Len(f) = n
  <1>1. f \in Seq(S) /\ DOMAIN f = 1..n
    BY SeqDef
  <1>2. QED
    BY <1>1, LenProperties

\* The entries of a list.
LEMMA EntriesOf ==
  ASSUME NEW pkgs \in Seq(Packages), NoRepeats(pkgs),
         NEW list \in {"repo", "aur", "devel", "pkgbuild"}, NEW words \in [Packages -> Seq(Parts)]
  PROVE  /\ Entries(list, pkgs, words) \in Seq(MenuEntries)
         /\ OfferedOnce(Entries(list, pkgs, words))
         /\ \A i \in 1..Len(Entries(list, pkgs, words)) :
              /\ Entries(list, pkgs, words)[i].list = list
              /\ Entries(list, pkgs, words)[i].pkg \in Members(pkgs)
  <1> DEFINE es == Entries(list, pkgs, words)
  <1>1. Len(pkgs) \in Nat /\ \A i \in 1..Len(pkgs) : pkgs[i] \in Packages
    BY LenProperties
  <1>2. es \in [1..Len(pkgs) -> MenuEntries] /\ \A i \in 1..Len(pkgs) : es[i] = Entry(list, pkgs[i], words[pkgs[i]])
    BY <1>1 DEF Entries, Entry, MenuEntries
  <1> HIDE DEF es
  <1>3. es \in Seq(MenuEntries)
    BY <1>1, <1>2, IsSequence
  <1>5. Len(es) = Len(pkgs)
    BY <1>1, <1>2, IsSequence
  <1>6. \A i \in 1..Len(es) : es[i].list = list /\ es[i].pkg = pkgs[i]
    BY <1>2, <1>5 DEF Entry
  <1>7. OfferedOnce(es)
    BY <1>5, <1>6 DEF OfferedOnce, NoRepeats
  <1>8. \A i \in 1..Len(es) : es[i].pkg \in Members(pkgs)
    BY <1>5, <1>6 DEF Members
  <1>9. QED
    BY <1>3, <1>6, <1>7, <1>8 DEF es

\* Two lists of entries one after the other.
LEMMA EntriesTogether ==
  ASSUME NEW s \in Seq(MenuEntries), NEW t \in Seq(MenuEntries), OfferedOnce(s), OfferedOnce(t),
         \A i \in 1..Len(s), j \in 1..Len(t) :
           s[i].pkg = t[j].pkg => {s[i].list, t[j].list} = {"devel", "pkgbuild"}
  PROVE  /\ s \o t \in Seq(MenuEntries)
         /\ OfferedOnce(s \o t)
         /\ \A k \in 1..Len(s \o t) :
              \/ \E i \in 1..Len(s) : (s \o t)[k] = s[i]
              \/ \E j \in 1..Len(t) : (s \o t)[k] = t[j]
  <1>1. /\ s \o t \in Seq(MenuEntries) /\ Len(s \o t) = Len(s) + Len(t)
        /\ Len(s) \in Nat /\ Len(t) \in Nat
    BY ConcatProperties, LenProperties
  <1>2. \A k \in 1..Len(s \o t) :
          \/ k \in 1..Len(s) /\ (s \o t)[k] = s[k]
          \/ k - Len(s) \in 1..Len(t) /\ k > Len(s) /\ (s \o t)[k] = t[k - Len(s)]
    BY <1>1, ConcatProperties
  <1>3. OfferedOnce(s \o t)
    <2> SUFFICES ASSUME NEW k \in 1..Len(s \o t), NEW l \in 1..Len(s \o t),
                        (s \o t)[k].pkg = (s \o t)[l].pkg
                 PROVE  k = l \/ {(s \o t)[k].list, (s \o t)[l].list} = {"devel", "pkgbuild"}
      BY DEF OfferedOnce
    <2>1. CASE /\ k \in 1..Len(s) /\ (s \o t)[k] = s[k]
               /\ l \in 1..Len(s) /\ (s \o t)[l] = s[l]
      <3>1. s[k].pkg = s[l].pkg
        BY <2>1
      <3>2. k = l \/ {s[k].list, s[l].list} = {"devel", "pkgbuild"}
        BY <2>1, <3>1, Zenon DEF OfferedOnce
      <3>3. QED
        BY <2>1, <3>2, Zenon
    <2>2. CASE /\ k \in 1..Len(s) /\ (s \o t)[k] = s[k]
               /\ l - Len(s) \in 1..Len(t) /\ (s \o t)[l] = t[l - Len(s)]
      BY <2>2
    <2>3. CASE /\ k - Len(s) \in 1..Len(t) /\ (s \o t)[k] = t[k - Len(s)]
               /\ l \in 1..Len(s) /\ (s \o t)[l] = s[l]
      <3>1. {s[l].list, t[k - Len(s)].list} = {"devel", "pkgbuild"}
        BY <2>3
      <3>2. QED
        BY <2>3, <3>1
    <2>4. CASE /\ k - Len(s) \in 1..Len(t) /\ (s \o t)[k] = t[k - Len(s)]
               /\ l - Len(s) \in 1..Len(t) /\ (s \o t)[l] = t[l - Len(s)]
      <3>1. k - Len(s) = l - Len(s) \/ {t[k - Len(s)].list, t[l - Len(s)].list} = {"devel", "pkgbuild"}
        BY <2>4 DEF OfferedOnce
      <3>2. k - Len(s) = l - Len(s) => k = l
        BY <1>1
      <3>3. QED
        BY <2>4, <3>1, <3>2
    <2>5. QED
      BY <1>2, <2>1, <2>2, <2>3, <2>4
  <1>4. QED
    BY <1>1, <1>2, <1>3

\* The menu offers each package once, but for those that have a devel upgrade beside the
\* upgrade from a PKGBUILD repository.
LEMMA OfferedOk ==
  ASSUME ListsDistinct, SelectSeqSifts, task.input \in Menus
  PROVE  Offered \in Seq(MenuEntries) /\ OfferedOnce(Offered)
  <1> DEFINE in == task.input
             R == Entries("repo", in.repo, in.db)
             A == Entries("aur", AurOffered(in), in.db)
             D == Entries("devel", in.devel, DevelNames(in))
             P == Entries("pkgbuild", in.pkgbuild, in.db)
             Of(s, list, pkgs) == \A i \in 1..Len(s) : s[i].list = list /\ s[i].pkg \in Members(pkgs)
  <1>1. /\ in.repo \in Seq(Packages) /\ in.devel \in Seq(Packages) /\ in.pkgbuild \in Seq(Packages)
        /\ NoRepeats(in.repo) /\ NoRepeats(in.devel) /\ NoRepeats(in.pkgbuild)
        /\ Members(in.repo) \cap (Members(in.aur) \cup Members(in.devel) \cup Members(in.pkgbuild)) = {}
        /\ Members(in.aur) \cap Members(in.pkgbuild) = {}
    BY DEF ListsDistinct
  <1>13. in.db \in [Packages -> Seq(Parts)]
    BY DEF ListsDistinct
  <1>12. DevelNames(in) \in [Packages -> Seq(Parts)]
    <2>1. <<>> \in Seq(Parts) /\ <<"devel", "devel">> \in Seq(Parts)
      <3>1. <<>> \in Seq(Parts)
        BY EmptySeq
      <3>2. PICK x \in Parts : x = "devel"
        BY PartsAssumption
      <3>3. <<x, x>> \in Seq(Parts)
        OBVIOUS
      <3>4. QED
        BY <3>1, <3>2, <3>3
    <2>2. \A p \in Packages : (IF p \in in.local THEN in.db[p] ELSE <<>>) \in Seq(Parts)
      BY <1>13, <2>1
    <2>3. \A u \in Seq(Parts) : u \o <<"devel", "devel">> \in Seq(Parts)
      BY <2>1, ConcatProperties
    <2>4. QED
      BY <2>2, <2>3 DEF DevelNames
  <1>2. /\ AurOffered(in) \in Seq(Packages) /\ NoRepeats(AurOffered(in))
        /\ Members(AurOffered(in)) = Members(in.aur) \ Members(in.devel)
    BY DEF SelectSeqSifts
  <1>3. R \in Seq(MenuEntries) /\ OfferedOnce(R) /\ Of(R, "repo", in.repo)
    BY <1>1, <1>13, EntriesOf
  <1>4. A \in Seq(MenuEntries) /\ OfferedOnce(A) /\ Of(A, "aur", AurOffered(in))
    BY <1>2, <1>13, EntriesOf
  <1>5. D \in Seq(MenuEntries) /\ OfferedOnce(D) /\ Of(D, "devel", in.devel)
    BY <1>1, <1>12, EntriesOf
  <1>6. P \in Seq(MenuEntries) /\ OfferedOnce(P) /\ Of(P, "pkgbuild", in.pkgbuild)
    BY <1>1, <1>13, EntriesOf
  <1>7. Offered = ((R \o A) \o D) \o P
    BY DEF Offered
  <1> HIDE DEF in, R, A, D, P
  <1>8. /\ R \o A \in Seq(MenuEntries) /\ OfferedOnce(R \o A)
        /\ \A k \in 1..Len(R \o A) :
             (R \o A)[k].pkg \in Members(in.repo) \cup (Members(in.aur) \ Members(in.devel))
    <2>1. \A i \in 1..Len(R), j \in 1..Len(A) : R[i].pkg # A[j].pkg
      BY <1>1, <1>2, <1>3, <1>4
    <2>2. QED
      BY <1>2, <1>3, <1>4, <2>1, EntriesTogether
  <1>9. /\ (R \o A) \o D \in Seq(MenuEntries) /\ OfferedOnce((R \o A) \o D)
        /\ \A k \in 1..Len((R \o A) \o D) :
             \/ ((R \o A) \o D)[k].pkg \in Members(in.repo) \cup Members(in.aur)
             \/ ((R \o A) \o D)[k].pkg \in Members(in.devel) /\ ((R \o A) \o D)[k].list = "devel"
    <2>1. \A i \in 1..Len(R \o A), j \in 1..Len(D) : (R \o A)[i].pkg # D[j].pkg
      BY <1>1, <1>5, <1>8
    <2>2. /\ (R \o A) \o D \in Seq(MenuEntries) /\ OfferedOnce((R \o A) \o D)
          /\ \A k \in 1..Len((R \o A) \o D) :
               \/ \E i \in 1..Len(R \o A) : ((R \o A) \o D)[k] = (R \o A)[i]
               \/ \E j \in 1..Len(D) : ((R \o A) \o D)[k] = D[j]
      <3> DEFINE S == R \o A
      <3>1. S \in Seq(MenuEntries) /\ OfferedOnce(S)
            /\ \A i \in 1..Len(S), j \in 1..Len(D) : S[i].pkg # D[j].pkg
        BY <1>8, <2>1
      <3> HIDE DEF S
      <3>2. /\ S \o D \in Seq(MenuEntries) /\ OfferedOnce(S \o D)
            /\ \A k \in 1..Len(S \o D) :
                 \/ \E i \in 1..Len(S) : (S \o D)[k] = S[i]
                 \/ \E j \in 1..Len(D) : (S \o D)[k] = D[j]
        BY <1>5, <3>1, EntriesTogether
      <3>3. QED
        BY <3>2 DEF S
    <2>3. QED
      BY <1>5, <1>8, <2>2
  <1>10. \A i \in 1..Len((R \o A) \o D), j \in 1..Len(P) :
           ((R \o A) \o D)[i].pkg = P[j].pkg
             => {((R \o A) \o D)[i].list, P[j].list} = {"devel", "pkgbuild"}
    BY <1>1, <1>6, <1>9
  <1>11. QED
    BY <1>6, <1>7, <1>9, <1>10, EntriesTogether

----------------------------------------------------------------------------
(* What the user's words say.                                              *)

\* An answer as the menu takes it.
Keep(n, word) == ~task.input.answered \/ ~Contains(NumberMenu(task.input.answer), n, word)

\* A plain number or range of the answer says the number.
Numbered(n, word) ==
  \E t \in task.input.answer : ~t.inverted /\ t.kind # "name" /\ Says(t, n, word)

\* NumberMenu leaves out what the words say: ranges that include their end, names of
\* repositories, and the inversion that counts only without plain words.
LEMMA KeepIsNotLeftOut ==
  ASSUME AnswersRead, task.input \in Menus, NEW n \in Nat, NEW word \in Seq(Parts)
  PROVE  /\ Clear => (Keep(n, word) <=> ~LeftOut(n, word))
         /\ Keep(n, word) => ~Numbered(n, word)
  <1> DEFINE answer == task.input.answer
             Ranges(inv) == {RangeOf(t) : t \in {u \in answer : u.inverted = inv /\ u.kind # "name"}}
             Words(inv) == {<<t.word[1]>> : t \in {u \in answer : u.inverted = inv /\ u.kind = "name"}}
             Ranged(inv) == \E t \in answer : t.inverted = inv /\ t.kind # "name" /\ Says(t, n, word)
             Named(inv) == \E t \in answer : t.inverted = inv /\ t.kind = "name" /\ Says(t, n, word)
  <1>1. /\ \A t \in answer : /\ t.kind \in {"number", "range", "name"} /\ t.word \in Seq(Parts)
                             /\ t.from \in Nat /\ t.to \in Nat /\ t.inverted \in BOOLEAN
        /\ ~task.input.answered => answer = {}
    BY DEF AnswersRead, Word
  <1>2. ASSUME NEW inv \in BOOLEAN
        PROVE  InRanges(n, Ranges(inv)) <=> Ranged(inv)
    <2>1. ASSUME NEW t \in answer, t.kind # "name"
          PROVE  RangeOf(t).from <= n /\ n < RangeOf(t).past <=> Says(t, n, word)
      <3>1. CASE t.kind = "number"
        BY <1>1, <3>1 DEF RangeOf, Says
      <3>2. CASE t.kind = "range"
        BY <1>1, <3>2 DEF RangeOf, Says
      <3>3. QED
        BY <1>1, <2>1, <3>1, <3>2
    <2>2. InRanges(n, Ranges(inv)) <=>
            \E t \in answer : /\ t.inverted = inv /\ t.kind # "name"
                              /\ RangeOf(t).from <= n /\ n < RangeOf(t).past
      BY DEF InRanges
    <2>3. QED
      BY <2>1, <2>2
  <1>3. ASSUME NEW inv \in BOOLEAN, Clear
        PROVE  word \in Words(inv) <=> Named(inv)
    <2>1. ASSUME NEW t \in answer, t.kind = "name"
          PROVE  <<t.word[1]>> = word <=> Says(t, n, word)
      <3>1. t.word \in Seq(Parts) /\ Len(t.word) = 1
        BY <1>1, <1>3, <2>1 DEF Clear
      <3>2. t.word = <<t.word[1]>>
        BY <3>1
      <3>3. QED
        BY <2>1, <3>2 DEF Says
    <2>2. QED
      BY <2>1
  <1>4. /\ Ranges(FALSE) = {} <=> ~\E t \in answer : t.inverted = FALSE /\ t.kind # "name"
        /\ Words(FALSE) = {} <=> ~\E t \in answer : t.inverted = FALSE /\ t.kind = "name"
    OBVIOUS
  <1>5. NumberMenu(answer) = [inRange |-> Ranges(FALSE), exRange |-> Ranges(TRUE),
                              inWord |-> Words(FALSE), exWord |-> Words(TRUE)]
    BY DEF NumberMenu
  <1>6. Contains(NumberMenu(answer), n, word) <=>
          \/ InRanges(n, Ranges(FALSE)) \/ word \in Words(FALSE)
          \/ /\ ~InRanges(n, Ranges(TRUE)) /\ word \notin Words(TRUE)
             /\ Ranges(FALSE) = {} /\ Words(FALSE) = {}
    BY <1>5 DEF Contains
  <1> HIDE DEF Ranges, Words
  <1>7. Ranged(FALSE) => Contains(NumberMenu(answer), n, word)
    BY <1>2, <1>6
  <1>8. Clear => (Contains(NumberMenu(answer), n, word) <=>
          \/ Ranged(FALSE) \/ Named(FALSE)
          \/ ~Ranged(TRUE) /\ ~Named(TRUE) /\ ~\E t \in answer : t.inverted = FALSE)
    BY <1>2, <1>3, <1>4, <1>6
  <1>9. \A inv \in BOOLEAN :
          Ranged(inv) \/ Named(inv) <=> \E t \in answer : t.inverted = inv /\ Says(t, n, word)
    OBVIOUS
  <1>10. LeftOut(n, word) <=>
          IF \E t \in answer : ~t.inverted THEN \E t \in answer : ~t.inverted /\ Says(t, n, word)
          ELSE answer # {} /\ ~\E t \in answer : Says(t, n, word)
    BY DEF LeftOut
  <1>11. /\ Keep(n, word) <=> ~task.input.answered \/ ~Contains(NumberMenu(answer), n, word)
         /\ Numbered(n, word) <=> Ranged(FALSE)
         /\ Clear => (task.input.answered <=> answer # {})
    BY <1>1 DEF Keep, Numbered, Clear
  <1>12. Ranged(FALSE) => answer # {}
    OBVIOUS
  <1> HIDE DEF Ranged, Named
  <1>13. Keep(n, word) => ~Numbered(n, word)
    BY <1>1, <1>7, <1>11, <1>12
  <1>14. Clear => (Contains(NumberMenu(answer), n, word) <=>
           \/ \E t \in answer : t.inverted = FALSE /\ Says(t, n, word)
           \/ /\ ~\E t \in answer : t.inverted = TRUE /\ Says(t, n, word)
              /\ ~\E t \in answer : t.inverted = FALSE)
    BY <1>8, <1>9
  <1> HIDE DEF answer
  <1>15. QED
    BY <1>1, <1>10, <1>11, <1>13, <1>14

----------------------------------------------------------------------------
(* The two loops over the menu.                                            *)

\* The loops number the entries downwards.
EntryAt(n) == offer[Len(offer) - n + 1]

\* The entries with a number above `low` were printed with it.
Printed(low) == lines = {[number |-> n, entry |-> EntryAt(n)] : n \in low + 1..Len(offer)}

\* The entries with a number above `low` were compared with the answer.
Compared(low) ==
  \A p \in Packages :
    /\ p \in kept <=>
         \E n \in low + 1..Len(offer) : EntryAt(n).pkg = p /\ Keep(n, EntryAt(n).word)
    /\ p \in repoSkip <=>
         \E n \in low + 1..Len(offer) :
           EntryAt(n).pkg = p /\ ~Keep(n, EntryAt(n).word) /\ EntryAt(n).list = "repo"

\* What the variables of the menu hold.
MenuTypes ==
  /\ task.input \in Menus /\ pc \in {"upgrades", "print", "select", "done"}
  /\ offer \in Seq(MenuEntries) /\ OfferedOnce(offer)
  /\ index \in 0..Len(offer)

\* How far the loops have come, and what they have done by then.
MenuInv ==
  task.name = "menu" =>
    /\ MenuTypes
    /\ pc = "upgrades" => offer = <<>> /\ index = 0
    /\ pc \in {"upgrades", "print"} => Printed(index) /\ kept = {} /\ repoSkip = {}
    /\ pc = "select" => Printed(0) /\ Compared(index)
    /\ pc = "done" /\ task.input.upgradeMenu => Printed(0) /\ Compared(0)

\* A computation of the menu is one from its beginning to its end.
IsMenu ==
  task.name = "menu" <=>
    pc \in {"upgrades", "print", "select"} \/ (pc = "done" /\ task.name = "menu")

\* What is known at the end: the property, word by word.
LEMMA MenuInvObeyed ==
  ASSUME AnswersRead, MenuInv
  PROVE  MenuObeyed
  <1> SUFFICES ASSUME task.name = "menu", pc = "done", task.input.upgradeMenu PROVE MenuObeyed
    BY DEF MenuObeyed
  <1>1. MenuTypes /\ Printed(0) /\ Compared(0)
    BY DEF MenuInv
  <1>2. Len(offer) \in Nat /\ 0 + 1..Len(offer) = 1..Len(offer)
    BY <1>1, LenProperties DEF MenuTypes
  <1>3. /\ \A n \in 1..Len(offer) : /\ Len(offer) - n + 1 \in 1..Len(offer) /\ n \in Nat
                                    /\ EntryAt(n) = offer[Len(offer) - n + 1]
        /\ \A i \in 1..Len(offer) : /\ Len(offer) - i + 1 \in 1..Len(offer)
                                    /\ EntryAt(Len(offer) - i + 1) = offer[i]
        /\ \A m, n \in 1..Len(offer) : Len(offer) - m + 1 = Len(offer) - n + 1 => m = n
    BY <1>2 DEF EntryAt
  <1>4. \A n \in 1..Len(offer) : EntryAt(n) \in MenuEntries
    BY <1>1, <1>3, ElementOfSeq DEF MenuTypes
  <1>5. \A m, n \in 1..Len(offer) : EntryAt(m).pkg = EntryAt(n).pkg =>
          m = n \/ {EntryAt(m).list, EntryAt(n).list} = {"devel", "pkgbuild"}
    <2> SUFFICES ASSUME NEW m \in 1..Len(offer), NEW n \in 1..Len(offer), EntryAt(m).pkg = EntryAt(n).pkg
                 PROVE  m = n \/ {EntryAt(m).list, EntryAt(n).list} = {"devel", "pkgbuild"}
      OBVIOUS
    <2>1. PICK i \in 1..Len(offer) : i = Len(offer) - m + 1 /\ EntryAt(m) = offer[i]
      BY <1>3
    <2>2. PICK j \in 1..Len(offer) : j = Len(offer) - n + 1 /\ EntryAt(n) = offer[j]
      BY <1>3
    <2>5. offer[i].pkg = offer[j].pkg
      BY <2>1, <2>2
    <2>6. OfferedOnce(offer)
      BY <1>1 DEF MenuTypes
    <2>3. i = j \/ {offer[i].list, offer[j].list} = {"devel", "pkgbuild"}
      BY <2>5, <2>6 DEF OfferedOnce
    <2>8. CASE i = j
      <3>1. Len(offer) - m + 1 = Len(offer) - n + 1
        BY <2>8, <2>1, <2>2, Zenon
      <3>2. m = n
        BY <3>1, <1>3, Zenon
      <3>3. QED
        BY <3>2
    <2>9. CASE {offer[i].list, offer[j].list} = {"devel", "pkgbuild"}
      BY <2>9, <2>1, <2>2, Zenon
    <2>4. QED
      BY <2>3, <2>8, <2>9
  <1>6. lines = {[number |-> n, entry |-> EntryAt(n)] : n \in 1..Len(offer)}
    BY <1>1, <1>2 DEF Printed
  <1>7. \A k, l \in lines : k.entry.pkg = l.entry.pkg =>
          k = l \/ {k.entry.list, l.entry.list} = {"devel", "pkgbuild"}
    BY <1>5, <1>6
  <1>8. ASSUME NEW i \in 1..Len(offer)
        PROVE  LET e == offer[i]
                   Own == {l \in lines : l.entry.pkg = e.pkg}
               IN /\ Clear => (e.pkg \in kept <=> \E l \in Own : ~LeftOut(l.number, l.entry.word))
                  /\ e.pkg \in kept => \E l \in Own : ~Numbered(l.number, l.entry.word)
                  /\ e.list = "repo" => (e.pkg \in repoSkip <=> e.pkg \notin kept)
    <2> DEFINE e == offer[i]
               n0 == Len(offer) - i + 1
               Own == {l \in lines : l.entry.pkg = e.pkg}
    <2>1. n0 \in 1..Len(offer) /\ EntryAt(n0) = e /\ e.pkg \in Packages
      BY <1>3, <1>4 DEF MenuEntries
    <2>2. /\ e.pkg \in kept <=>
               \E n \in 1..Len(offer) : EntryAt(n).pkg = e.pkg /\ Keep(n, EntryAt(n).word)
          /\ e.pkg \in repoSkip <=>
               \E n \in 1..Len(offer) :
                 EntryAt(n).pkg = e.pkg /\ ~Keep(n, EntryAt(n).word) /\ EntryAt(n).list = "repo"
      BY <1>1, <1>2, <2>1 DEF Compared
    <2>3. \A n \in 1..Len(offer) :
            /\ Clear => (Keep(n, EntryAt(n).word) <=> ~LeftOut(n, EntryAt(n).word))
            /\ Keep(n, EntryAt(n).word) => ~Numbered(n, EntryAt(n).word)
      BY <1>1, <1>3, <1>4, KeepIsNotLeftOut DEF MenuTypes, MenuEntries
    <2>4. e.list = "repo" => \A n \in 1..Len(offer) : EntryAt(n).pkg = e.pkg => n = n0
      <3>1. \A x : {x, "repo"} # {"devel", "pkgbuild"}
        <4>1. \A x : "repo" \in {x, "repo"}
          OBVIOUS
        <4>2. "repo" \notin {"devel", "pkgbuild"}
          OBVIOUS
        <4>3. QED
          BY <4>1, <4>2
      <3>2. QED
        BY <1>5, <2>1, <3>1
    <2> HIDE DEF e, n0
    <2>5. \A n \in 1..Len(offer) : EntryAt(n).pkg = e.pkg =>
            \E l \in Own : l.number = n /\ l.entry = EntryAt(n)
      <3> SUFFICES ASSUME NEW n \in 1..Len(offer), EntryAt(n).pkg = e.pkg
                   PROVE  \E l \in Own : l.number = n /\ l.entry = EntryAt(n)
        OBVIOUS
      <3>1. PICK l : l = [number |-> n, entry |-> EntryAt(n)]
        OBVIOUS
      <3>2. l \in lines /\ l.number = n /\ l.entry = EntryAt(n)
        BY <1>6, <3>1
      <3>3. QED
        BY <3>2
    <2>6. \A l \in Own : /\ l.number \in 1..Len(offer) /\ l.entry = EntryAt(l.number)
                         /\ EntryAt(l.number).pkg = e.pkg
      BY <1>6
    <2> HIDE DEF Own
    <2>7. Clear => (e.pkg \in kept <=> \E l \in Own : ~LeftOut(l.number, l.entry.word))
      BY <2>2, <2>3, <2>5, <2>6
    <2>8. e.pkg \in kept => \E l \in Own : ~Numbered(l.number, l.entry.word)
      BY <2>2, <2>3, <2>5
    <2>9. e.list = "repo" => (e.pkg \in repoSkip <=> e.pkg \notin kept)
      BY <2>1, <2>2, <2>4
    <2>10. QED
      BY <2>7, <2>8, <2>9 DEF e, Own
  <1>9. QED
    BY <1>7, <1>8 DEF MenuObeyed, Numbered

\* At the beginning nothing is offered.
LEMMA InitMenuInv == Init => MenuInv /\ IsMenu
  <1> SUFFICES ASSUME Init PROVE MenuInv /\ IsMenu
    OBVIOUS
  <1>1. CASE task \in [name : {"unneeded"}, input : Systems] /\ pc = "unneeded"
    BY <1>1 DEF MenuInv, IsMenu
  <1>2. CASE task \in [name : {"menu"}, input : Menus] /\ pc = "upgrades"
    <2>1. /\ task.name = "menu" /\ task.input \in Menus /\ offer = <<>> /\ index = 0
          /\ lines = {} /\ kept = {} /\ repoSkip = {}
      BY <1>2 DEF Init
    <2>2. offer \in Seq(MenuEntries) /\ Len(offer) = 0
      BY <2>1, EmptySeq
    <2>3. MenuTypes
      BY <1>2, <2>1, <2>2 DEF MenuTypes, OfferedOnce
    <2>4. Printed(index)
      BY <2>1, <2>2 DEF Printed
    <2>5. QED
      BY <1>2, <2>1, <2>3, <2>4 DEF MenuInv, IsMenu
  <1>3. QED
    BY <1>1, <1>2 DEF Init

\* The upgrades are collected.
LEMMA GetUpgradesMenuInv ==
  ASSUME ListsDistinct, SelectSeqSifts, MenuInv, task.name = "menu", GetUpgrades
  PROVE  MenuInv'
  <1>1. /\ task' = task /\ lines' = lines /\ repoSkip' = repoSkip /\ offer' = Offered
        /\ pc = "upgrades" /\ pc' \in {"done", "print"}
    BY DEF GetUpgrades
  <1>2. MenuTypes /\ offer = <<>> /\ index = 0 /\ Printed(index) /\ kept = {} /\ repoSkip = {}
    BY <1>1 DEF MenuInv
  <1>3. offer' \in Seq(MenuEntries) /\ OfferedOnce(offer') /\ Len(offer') \in Nat
    BY <1>1, <1>2, OfferedOk, LenProperties DEF MenuTypes
  <1>4. CASE offer' = <<>> \/ ~task.input.upgradeMenu
    <2>1. pc' = "done" /\ index' = index
      BY <1>1, <1>4 DEF GetUpgrades
    <2>2. MenuTypes'
      BY <1>1, <1>2, <1>3, <2>1 DEF MenuTypes
    <2>3. Len(offer) = 0 /\ lines' = {} /\ repoSkip' = {}
      BY <1>1, <1>2, EmptySeq DEF Printed
    <2>4. task.input.upgradeMenu => Len(offer') = 0 /\ kept' = {}
      BY <1>4, EmptySeq DEF GetUpgrades
    <2>5. task.input.upgradeMenu => Printed(0)' /\ Compared(0)'
      BY <2>3, <2>4 DEF Printed, Compared
    <2>6. QED
      BY <1>1, <2>1, <2>2, <2>5 DEF MenuInv
  <1>5. CASE ~(offer' = <<>> \/ ~task.input.upgradeMenu)
    <2>1. pc' = "print" /\ index' = Len(offer') /\ kept' = kept
      BY <1>1, <1>5 DEF GetUpgrades
    <2>2. MenuTypes'
      BY <1>1, <1>2, <1>3, <2>1 DEF MenuTypes
    <2>3. lines = {}
      <3>1. Len(offer) = 0
        BY <1>2, EmptySeq
      <3>2. QED
        BY <1>2, <3>1 DEF Printed
    <2>4. Printed(index)'
      BY <1>1, <1>3, <2>1, <2>3 DEF Printed
    <2>5. QED
      BY <1>1, <1>2, <2>1, <2>2, <2>4 DEF MenuInv
  <1>6. QED
    BY <1>4, <1>5

\* The entry that a loop has come to.
LEMMA EntryReached ==
  ASSUME offer \in Seq(MenuEntries), index \in 1..Len(offer)
  PROVE  /\ At \in 1..Len(offer) /\ EntryAt(index) = offer[At] /\ offer[At] \in MenuEntries
         /\ index \in Nat /\ index - 1 \in 0..Len(offer)
         /\ \A n \in Nat : n \in (index - 1) + 1..Len(offer) <=> n = index \/ n \in index + 1..Len(offer)
         /\ \A n \in index + 1..Len(offer) : n # index /\ n \in Nat
  <1>1. Len(offer) \in Nat
    BY LenProperties
  <1>2. At \in 1..Len(offer) /\ EntryAt(index) = offer[At]
    BY <1>1 DEF At, EntryAt
  <1>3. offer[At] \in MenuEntries
    BY <1>2, ElementOfSeq
  <1>4. QED
    BY <1>1, <1>2, <1>3

\* The first loop adds the number of one entry.
LEMMA PrintUpgradeMenuInv ==
  ASSUME MenuInv, task.name = "menu", PrintUpgrade
  PROVE  MenuInv'
  <1>1. /\ UNCHANGED <<task, pc, offer, kept, repoSkip>> /\ pc = "print" /\ index' = index - 1 /\ index > 0
        /\ lines' = lines \cup {[number |-> index, entry |-> offer[At]]}
    BY DEF PrintUpgrade, reach
  <1>2. MenuTypes /\ Printed(index) /\ kept = {} /\ repoSkip = {}
    BY <1>1 DEF MenuInv
  <1>3. offer \in Seq(MenuEntries) /\ Len(offer) \in Nat /\ index \in 1..Len(offer)
    BY <1>1, <1>2, LenProperties DEF MenuTypes
  <1>4. /\ EntryAt(index) = offer[At]
        /\ (index - 1) + 1..Len(offer) = {index} \cup (index + 1..Len(offer))
    BY <1>3, EntryReached
  <1>5. MenuTypes'
    <2>1. index' \in 0..Len(offer)
      BY <1>1, <1>3
    <2>2. QED
      BY <1>1, <1>2, <2>1 DEF MenuTypes
  <1>6. Printed(index)'
    <2>1. lines = {[number |-> n, entry |-> EntryAt(n)] : n \in index + 1..Len(offer)}
      BY <1>2 DEF Printed
    <2>2. lines' = {[number |-> n, entry |-> EntryAt(n)] : n \in (index - 1) + 1..Len(offer)}
      BY <1>1, <1>4, <2>1
    <2>3. QED
      BY <1>1, <2>2 DEF Printed, EntryAt
  <1>7. QED
    BY <1>1, <1>2, <1>5, <1>6 DEF MenuInv

\* All entries are printed, and none is compared with the answer yet.
LEMMA AskMenuInv ==
  ASSUME MenuInv, task.name = "menu", Ask
  PROVE  MenuInv'
  <1>1. /\ UNCHANGED <<task, offer, lines, kept, repoSkip>> /\ pc = "print" /\ pc' = "select"
        /\ index = 0 /\ index' = Len(offer)
    BY DEF Ask, reach
  <1>2. MenuTypes /\ Printed(0) /\ kept = {} /\ repoSkip = {}
    BY <1>1 DEF MenuInv
  <1>3. Len(offer) \in Nat
    BY <1>2, LenProperties DEF MenuTypes
  <1>4. MenuTypes'
    BY <1>1, <1>2, <1>3 DEF MenuTypes
  <1>5. Printed(0)'
    BY <1>1, <1>2 DEF Printed, EntryAt
  <1>6. Compared(index)'
    BY <1>1, <1>2, <1>3 DEF Compared
  <1>7. QED
    BY <1>1, <1>4, <1>5, <1>6 DEF MenuInv

\* The second loop decides about one entry.
LEMMA SelectMenuInv ==
  ASSUME MenuInv, task.name = "menu", Select
  PROVE  MenuInv'
  <1> DEFINE e == offer[At]
             keep == Keep(index, e.word)
  <1>1. /\ UNCHANGED <<task, pc, offer, lines>> /\ pc = "select" /\ index' = index - 1 /\ index > 0
        /\ kept' = (IF keep THEN kept \cup {e.pkg} ELSE kept)
        /\ repoSkip' = (IF ~keep /\ e.list = "repo" THEN repoSkip \cup {e.pkg} ELSE repoSkip)
    BY DEF Select, reach, Keep
  <1>2. MenuTypes /\ Printed(0) /\ Compared(index)
    BY <1>1 DEF MenuInv
  <1>3. offer \in Seq(MenuEntries) /\ Len(offer) \in Nat /\ index \in 1..Len(offer)
    BY <1>1, <1>2, LenProperties DEF MenuTypes
  <1>4. MenuTypes'
    <2>1. index' \in 0..Len(offer)
      BY <1>1, <1>3
    <2>2. QED
      BY <1>1, <1>2, <2>1 DEF MenuTypes
  <1>5. Printed(0)'
    BY <1>1, <1>2 DEF Printed, EntryAt
  <1>6. Compared(index)'
    <2> SUFFICES ASSUME NEW p \in Packages
                 PROVE  /\ p \in kept' <=>
                             \E n \in (index - 1) + 1..Len(offer) : EntryAt(n).pkg = p /\ Keep(n, EntryAt(n).word)
                        /\ p \in repoSkip' <=>
                             \E n \in (index - 1) + 1..Len(offer) :
                               EntryAt(n).pkg = p /\ ~Keep(n, EntryAt(n).word) /\ EntryAt(n).list = "repo"
      BY <1>1 DEF Compared, EntryAt, Keep
    <2>1. EntryAt(index) = e /\ e.pkg \in Packages
      BY <1>3, EntryReached DEF MenuEntries
    <2> HIDE DEF e
    <2>2. /\ p \in kept' <=> p \in kept \/ (p = e.pkg /\ keep)
          /\ p \in repoSkip' <=> p \in repoSkip \/ (p = e.pkg /\ ~keep /\ e.list = "repo")
      BY <1>1
    <2>3. /\ p \in kept <=>
               \E n \in index + 1..Len(offer) : EntryAt(n).pkg = p /\ Keep(n, EntryAt(n).word)
          /\ p \in repoSkip <=>
               \E n \in index + 1..Len(offer) :
                 EntryAt(n).pkg = p /\ ~Keep(n, EntryAt(n).word) /\ EntryAt(n).list = "repo"
      BY <1>2 DEF Compared
    <2>4. /\ \A n \in (index - 1) + 1..Len(offer) : n = index \/ n \in index + 1..Len(offer)
          /\ index \in (index - 1) + 1..Len(offer)
          /\ \A n \in index + 1..Len(offer) : n \in (index - 1) + 1..Len(offer)
      BY <1>3
    <2>5. keep <=> Keep(index, EntryAt(index).word)
      BY <2>1
    <2> HIDE DEF keep
    <2>6. QED
      BY <2>1, <2>2, <2>3, <2>4, <2>5
  <1>7. QED
    BY <1>1, <1>4, <1>5, <1>6 DEF MenuInv

\* All entries are compared with the answer.
LEMMA SelectedMenuInv ==
  ASSUME MenuInv, task.name = "menu", Selected
  PROVE  MenuInv'
  <1>1. /\ UNCHANGED <<task, offer, index, lines, kept, repoSkip>>
        /\ pc = "select" /\ index = 0 /\ pc' = "done"
    BY DEF Selected, menu
  <1>2. MenuTypes /\ Printed(0) /\ Compared(0)
    BY <1>1 DEF MenuInv
  <1>3. MenuTypes' /\ Printed(0)' /\ Compared(0)'
    BY <1>1, <1>2 DEF MenuTypes, Printed, Compared, EntryAt, Keep
  <1>4. QED
    BY <1>1, <1>3 DEF MenuInv

\* Every step of either computation keeps the invariant.
LEMMA NextMenuInv ==
  ASSUME ListsDistinct, SelectSeqSifts, MenuInv, IsMenu, [Next]_vars
  PROVE  MenuInv' /\ IsMenu'
  <1>1. CASE GetUpgrades \/ PrintUpgrade \/ Ask \/ Select \/ Selected
    <2>1. /\ task' = task /\ pc \in {"upgrades", "print", "select"} /\ pc' \in {"print", "select", "done"}
      BY <1>1 DEF GetUpgrades, PrintUpgrade, Ask, Select, Selected
    <2>2. task.name = "menu" /\ IsMenu'
      BY <2>1 DEF IsMenu
    <2>3. QED
      BY <1>1, <2>2, GetUpgradesMenuInv, PrintUpgradeMenuInv, AskMenuInv, SelectMenuInv, SelectedMenuInv
  <1>2. CASE (\E p \in Packages : LookInto(p)) \/ NothingNext
    <2>1. task' = task /\ pc = "unneeded" /\ pc' \in {"unneeded", "done"}
      BY <1>2 DEF LookInto, NothingNext
    <2>2. QED
      BY <2>1 DEF MenuInv, IsMenu
  <1>3. CASE UNCHANGED vars
    <2>1. UNCHANGED <<task, pc, offer, index, lines, kept, repoSkip>>
      BY <1>3 DEF vars, menu
    <2>2. MenuTypes' <=> MenuTypes
      BY <2>1 DEF MenuTypes
    <2>3. (Printed(0)' <=> Printed(0)) /\ (Printed(index)' <=> Printed(index))
      BY <2>1 DEF Printed, EntryAt
    <2>4. (Compared(0)' <=> Compared(0)) /\ (Compared(index)' <=> Compared(index))
      BY <2>1 DEF Compared, EntryAt, Keep
    <2>5. QED
      BY <2>1, <2>2, <2>3, <2>4 DEF MenuInv, IsMenu
  <1>4. QED
    BY <1>1, <1>2, <1>3 DEF Next

\* What get_upgrades leaves out is what the user's words say of the printed numbers, for every
\* list of upgrades, however long, and every answer that is clear, if the lists share packages
\* only as ListsDistinct allows; a number or a range is obeyed in every answer.
THEOREM MenuObeyedHolds ==
  ASSUME ListsDistinct, SelectSeqSifts, AnswersRead
  PROVE  Spec => []MenuObeyed
  <1>1. Init => MenuInv /\ IsMenu
    BY InitMenuInv
  <1>2. MenuInv /\ IsMenu /\ [Next]_vars => MenuInv' /\ IsMenu'
    BY NextMenuInv
  <1>3. MenuInv => MenuObeyed
    BY MenuInvObeyed
  <1>4. QED
    BY <1>1, <1>2, <1>3, PTL DEF Spec

=============================================================================
