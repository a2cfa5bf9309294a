----------------------------- MODULE MCSelection -----------------------------
EXTENDS Selection, TLC

CONSTANTS a, b, c

MCParts == {"core", "testing", "aur", "devel", "custom", "1", "x", ""}

Few == {[p \in {a, b, c} |-> {}], [p \in {a, b, c} |-> IF p = a THEN {c} ELSE IF p = c THEN {b} ELSE {}],
        [p \in {a, b, c} |-> {a, b}]}

MCSystems ==
  [explicit : SUBSET {a, b, c}, named : [{a, b, c} -> SUBSET {a, b, c}], provided : Few, optional : Few,
   keepOptional : BOOLEAN]

Number(n, i) == [kind |-> "number", from |-> n, to |-> n, word |-> <<"">>, inverted |-> i]
Span(m, n, i) == [kind |-> "range", from |-> m, to |-> n, word |-> <<"">>, inverted |-> i]
Name(w, i) == [kind |-> "name", from |-> 0, to |-> 0, word |-> w, inverted |-> i]

\* Names with a "-", and a range whose end is not a number.
Words == UNION {{Number(1, i), Number(2, i), Span(1, 2, i), Span(2, 4, i), Span(3, 2, i),
                 Name(<<"aur">>, i), Name(<<"core">>, i), Name(<<"core", "testing">>, i),
                 Name(<<"devel", "devel">>, i), Name(<<"1", "x">>, i)} : i \in BOOLEAN}

\* Nothing, commas alone, up to two words.
Answers == {[words |-> {}, answered |-> i] : i \in BOOLEAN}
             \cup {[words |-> {v, w}, answered |-> TRUE] : v, w \in Words}

Db(x, y, z) == (a :> x) @@ (b :> y) @@ (c :> z)

Lists == {[repo |-> <<a>>, aur |-> <<b, c>>, devel |-> <<c>>, pkgbuild |-> <<>>, local |-> {c},
           db |-> Db(<<"core">>, <<"aur">>, <<"custom">>)],
          [repo |-> <<>>, aur |-> <<a, b>>, devel |-> <<a, b>>, pkgbuild |-> <<c>>, local |-> {},
           db |-> Db(<<"aur">>, <<"aur">>, <<"custom">>)],
          [repo |-> <<a, b>>, aur |-> <<>>, devel |-> <<>>, pkgbuild |-> <<c>>, local |-> {},
           db |-> Db(<<"core">>, <<"core", "testing">>, <<"custom">>)],
          [repo |-> <<>>, aur |-> <<a>>, devel |-> <<b>>, pkgbuild |-> <<b>>, local |-> {},
           db |-> Db(<<"aur">>, <<"custom">>, <<"custom">>)],
          [repo |-> <<>>, aur |-> <<>>, devel |-> <<>>, pkgbuild |-> <<>>, local |-> {},
           db |-> Db(<<"aur">>, <<"aur">>, <<"aur">>)]}

MCMenus ==
  {[repo |-> l.repo, aur |-> l.aur, devel |-> l.devel, pkgbuild |-> l.pkgbuild, local |-> l.local, db |-> l.db,
    answer |-> w.words, answered |-> w.answered, upgradeMenu |-> m]
     : l \in Lists, w \in Answers, m \in BOOLEAN}

\* The theorem about the menu assumes this.
ASSUME ListsDistinct /\ SelectSeqSifts /\ AnswersRead

=============================================================================
