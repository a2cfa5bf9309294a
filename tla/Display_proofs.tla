---------------------------- MODULE Display_proofs ----------------------------
(***************************************************************************)
(* Theorems about what the user sees of a transaction, for any packages,   *)
(* files, hooks, terminals and plans.                                      *)
(***************************************************************************)
EXTENDS Display, SequenceTheorems, FiniteSetTheorems, TLAPS

-----------------------------------------------------------------------------
(* The invariants *)

\* What a line or a message is about.
Subjects == Keys \cup Hooks \cup {NoHook}

Lines == [kind: {"bar", "step", "text", "out"}, key: Subjects, flag: BOOLEAN]

Messages == [kind: {"bar", "text", "step", "result", "error"}, key: Subjects, value: 0..Full]

Blocks == [known: SUBSET Keys, percent: [Keys -> 0..Full], active: Seq(Keys), frozen: Seq(Keys),
           drawnActive: Nat, drawnFrozen: Nat]

Names == {"download", "install"}

\* The shape of every variable.
AlpmTyped ==
  /\ plan \in Plans /\ phase \in {"download", "pre", "install", "post", "commit", "over"}
  /\ at \in [Keys -> 0..Full] /\ tries \in [Files -> 0..MaxTries] /\ logs \in 0..MaxLogs
  /\ done \in SUBSET Keys /\ todo \in Seq(Hooks) /\ running \in Hooks \cup {NoHook}
  /\ broken \in SUBSET Hooks

HelperTyped ==
  /\ warned \in SUBSET Hooks /\ emitted \in SUBSET Keys
  /\ lastHook \in Hooks \cup {NoHook} /\ hookFailed \in BOOLEAN
  /\ pipe \in Seq(Messages) /\ Len(pipe) <= PipeSize

ScreenTyped ==
  /\ block \in [Names -> Blocks] /\ term \in Seq(Lines) /\ row = Len(term)
  /\ height \in Nat \ {0} /\ outcome \in {"none", "ok"} \cup Hooks \cup {NoHook}

Typed == AlpmTyped /\ HelperTyped /\ ScreenTyped

\* A message about progress is about a key of the plan that has a size.
Barred == plan.keys \ Sizeless

BarsOfPlan == \A i \in DOMAIN pipe : pipe[i].kind = "bar" => pipe[i].key \in Barred

\* A key is active or frozen, at one position; what was drawn the last time is what is there,
\* and what is active is not complete.
BlockRight(b) ==
  /\ IsInjective(b.active) /\ IsInjective(b.frozen)
  /\ Range(b.active) \cap Range(b.frozen) = {} /\ Range(b.active) \cup Range(b.frozen) = b.known
  /\ b.drawnActive = Len(b.active) /\ b.drawnFrozen = Len(b.frozen)
  /\ \A k \in Range(b.active) : b.percent[k] # Full

BlocksRight ==
  \A name \in Names :
    /\ BlockRight(block[name])
    /\ \A k \in block[name].known : k \in Barred /\ BlockOf(k) = name

\* The frozen keys are those that have a final line, and they have one.
IsFrozen(k) == k \in Range(block[BlockOf(k)].frozen)

HasFinal(k, i) == Final(term[i]) /\ term[i].key = k

FinalOnce ==
  \A k \in Keys :
    /\ \A i, j \in DOMAIN term : HasFinal(k, i) /\ HasFinal(k, j) => i = j
    /\ IsFrozen(k) <=> \E i \in DOMAIN term : HasFinal(k, i)

\* The lines that a block may draw over are not final.
Windows ==
  \A name \in Names : \A i \in DOMAIN term :
    i > Len(term) - block[name].drawnActive => ~Final(term[i])

\* A key that is complete and has a size is frozen, or will be.
Completes(m, k) == m.kind = "bar" /\ m.key = k /\ m.value = Full

Pending(k) == \E i \in DOMAIN pipe : Completes(pipe[i], k)

Reported ==
  /\ \A k \in done \ Sizeless : IsFrozen(k) \/ Pending(k)
  /\ \A k \in Packages : at[k] = Full => IsFrozen(k) \/ Pending(k)

\* Every download is complete, and its message sent, before the first package.
Downloads == (plan.keys \cap Files) \ Sizeless

DownloadsFirst ==
  /\ phase \in {"pre", "install", "post"} => Downloads \subseteq done
  /\ \A i \in DOMAIN pipe : pipe[i].kind = "bar" /\ pipe[i].key \in Packages =>
       \A f \in Downloads : IsFrozen(f) \/ \E j \in 1 .. i - 1 : Completes(pipe[j], f)
  /\ block["install"].known # {} => \A f \in Downloads : IsFrozen(f)

\* The result is the last message.
Ends(m) == m.kind \in {"result", "error"}

ResultLast ==
  /\ outcome # "none" => phase = "over" /\ pipe = <<>>
  /\ \A i \in DOMAIN pipe : Ends(pipe[i]) => phase = "over" /\ i = Len(pipe)

\* The hooks that have not begun.
Future ==
  Range(todo) \cup (CASE phase = "download" -> Range(plan.pre) \cup Range(plan.post)
                      [] phase \in {"pre", "install"} -> Range(plan.post)
                      [] OTHER -> {})

\* Hooks run one after the other, each once, in their phase.
HookPhases ==
  /\ phase \notin {"pre", "post"} => running = NoHook /\ todo = <<>>
  /\ phase = "pre" => Range(todo) \subseteq Range(plan.pre) /\ running \in Range(plan.pre) \cup {NoHook}
  /\ phase = "post" => Range(todo) \subseteq Range(plan.post) /\ running \in Range(plan.post) \cup {NoHook}
  /\ IsInjective(todo) /\ running \notin Future
  /\ running # NoHook => lastHook = running /\ (hookFailed <=> running \in warned)

\* What has been said of a hook is about one that is over.
Over(h) == h \in Hooks /\ h \notin Future /\ h # running

Steps ==
  /\ warned \cap Future = {}
  /\ \A i \in DOMAIN pipe : pipe[i].kind = "step" =>
       Over(pipe[i].key) /\ (pipe[i].value = 1 <=> pipe[i].key \in warned)
  /\ \A i \in DOMAIN term : term[i].kind = "step" =>
       Over(term[i].key) /\ (term[i].flag <=> term[i].key \in warned)

\* An error that names a hook names the one that has ended the transaction.
Blamed ==
  /\ HookError => phase \in {"commit", "over"} /\ lastHook \in broken \cap AbortOnFail
  /\ \A i \in DOMAIN pipe :
       /\ pipe[i].kind = "error" => pipe[i].key \in (broken \cap AbortOnFail) \cup {NoHook}
       /\ Ends(pipe[i]) /\ HookError => pipe[i].kind = "error" /\ pipe[i].key \in broken \cap AbortOnFail
  /\ outcome \in Hooks => outcome \in broken \cap AbortOnFail
  /\ HookError /\ outcome # "none" => outcome \in Hooks

-----------------------------------------------------------------------------
(* Sequences of keys *)

\* A key that is not there yet is added at the end.
LEMMA Added ==
  ASSUME NEW S, NEW s \in Seq(S), NEW e \in S, e \notin Range(s), IsInjective(s)
  PROVE  /\ Append(s, e) \in Seq(S) /\ Len(Append(s, e)) = Len(s) + 1
         /\ IsInjective(Append(s, e)) /\ Range(Append(s, e)) = Range(s) \cup {e}
<1>1. /\ Append(s, e) \in Seq(S) /\ Len(Append(s, e)) = Len(s) + 1 /\ Len(s) \in Nat
      /\ \A i \in 1..Len(s) : Append(s, e)[i] = s[i]
      /\ Append(s, e)[Len(s) + 1] = e
  BY AppendProperties, LenProperties
<1>2. DOMAIN s = 1..Len(s) /\ DOMAIN Append(s, e) = 1..(Len(s) + 1)
  BY <1>1, LenProperties
<1>3. \A i \in 1..Len(s) : s[i] # e
  BY <1>2 DEF Range
<1>4. IsInjective(Append(s, e))
  BY <1>1, <1>2, <1>3 DEF IsInjective
<1>5. Range(Append(s, e)) = Range(s) \cup {e}
  <2>1. \A i \in 1..(Len(s) + 1) : i \in 1..Len(s) \/ i = Len(s) + 1
    BY <1>1
  <2>2. Len(s) + 1 \in 1..(Len(s) + 1) /\ 1..Len(s) \subseteq 1..(Len(s) + 1)
    BY <1>1
  <2> QED
    BY <1>1, <1>2, <2>1, <2>2 DEF Range
<1> QED
  BY <1>1, <1>4, <1>5

\* A key is taken out.
LEMMA TakenOut ==
  ASSUME NEW S, NEW s \in Seq(S), NEW e, IsInjective(s)
  PROVE  /\ Removed(s, e) \in Seq(S) /\ Len(Removed(s, e)) \in {Len(s), Len(s) - 1}
         /\ IsInjective(Removed(s, e)) /\ Range(Removed(s, e)) = Range(s) \ {e}
<1>1. CASE e \notin Range(s)
  BY <1>1, LenProperties DEF Removed
<1>2. CASE e \in Range(s)
  <2>1. DOMAIN s = 1..Len(s) /\ Len(s) \in Nat
    BY LenProperties
  <2>2. PICK i \in 1..Len(s) : s[i] = e /\ Removed(s, e) = RemoveAt(s, i)
    <3>1. \E i \in DOMAIN s : s[i] = e
      BY <1>2 DEF Range
    <3> QED
      BY <1>2, <2>1, <3>1 DEF Removed
  <2> DEFINE left == SubSeq(s, 1, i - 1)
             right == SubSeq(s, i + 1, Len(s))
  <2>3. /\ left \in Seq(S) /\ Len(left) = i - 1 /\ \A j \in 1..(i - 1) : left[j] = s[j]
    <3>1. 1 \in 1..(Len(s) + 1) /\ i - 1 \in 0..Len(s) /\ i - 1 \in Int /\ 1 \in Int
      BY <2>1
    <3>2. \A j \in 1..(i - 1) : j \in 1..Len(s) /\ 1 + j - 1 = j
      BY <2>1
    <3> QED
      BY <2>1, <3>1, <3>2, SubSeqProperties, ElementOfSeq
  <2>4. /\ right \in Seq(S) /\ Len(right) = Len(s) - i
        /\ \A j \in 1..(Len(s) - i) : right[j] = s[i + j]
    <3>1. i + 1 \in Int /\ Len(s) \in Int
      BY <2>1
    <3>2. \A j \in (i + 1)..Len(s) : j \in 1..Len(s)
      BY <2>1
    <3>3. right \in Seq(S)
      BY <3>1, <3>2, ElementOfSeq, SubSeqProperties
    <3>4. Len(right) = Len(s) - i /\ \A j \in 1..(Len(s) - i) : right[j] = s[i + j]
      BY <2>1, <3>2, SubSeqProperties
    <3> QED
      BY <3>3, <3>4
  <2> DEFINE r == left \o right
  <2> HIDE DEF left, right
  <2>5. /\ r \in Seq(S) /\ Len(r) = Len(s) - 1
        /\ \A j \in 1..(Len(s) - 1) : r[j] = IF j < i THEN s[j] ELSE s[j + 1]
    <3>1. r \in Seq(S) /\ Len(r) = Len(s) - 1
      <4>1. r \in Seq(S) /\ Len(r) = Len(left) + Len(right)
        BY <2>3, <2>4, ConcatProperties
      <4> QED
        BY <2>1, <2>3, <2>4, <4>1
    <3>2. ASSUME NEW j \in 1..(Len(s) - 1) PROVE r[j] = IF j < i THEN s[j] ELSE s[j + 1]
      <4>1. r[j] = IF j <= Len(left) THEN left[j] ELSE right[j - Len(left)]
        <5>1. j \in 1..(Len(left) + Len(right))
          BY <2>1, <2>3, <2>4
        <5> QED
          BY <2>3, <2>4, <5>1, ConcatProperties
      <4>2. CASE j < i
        BY <2>1, <2>3, <4>1, <4>2
      <4>3. CASE ~(j < i)
        <5>1. j - (i - 1) \in 1..(Len(s) - i) /\ i + (j - (i - 1)) = j + 1 /\ ~(j <= i - 1)
          BY <2>1, <4>3
        <5>2. right[j - (i - 1)] = s[j + 1]
          BY <2>4, <5>1
        <5> QED
          BY <2>3, <4>1, <4>3, <5>1, <5>2
      <4> QED
        BY <4>2, <4>3
    <3> QED
      BY <3>1, <3>2
  <2>6. Removed(s, e) = r
    BY <2>2 DEF RemoveAt, left, right
  <2> HIDE DEF r
  <2>7. DOMAIN r = 1..(Len(s) - 1)
    BY <2>5, LenProperties
  <2>8. \A a, b \in 1..Len(s) : s[a] = s[b] => a = b
    BY <2>1 DEF IsInjective
  <2>9. IsInjective(r)
    <3> SUFFICES ASSUME NEW a \in 1..(Len(s) - 1), NEW b \in 1..(Len(s) - 1), r[a] = r[b] PROVE a = b
      BY <2>7 DEF IsInjective
    <3> DEFINE m(x) == IF x < i THEN x ELSE x + 1
    <3>1. r[a] = s[m(a)] /\ r[b] = s[m(b)]
      BY <2>5
    <3>2. m(a) \in 1..Len(s) /\ m(b) \in 1..Len(s)
      BY <2>1
    <3>3. m(a) = m(b)
      BY <2>8, <3>1, <3>2
    <3> QED
      BY <2>1, <3>3
  <2>10. Range(r) = Range(s) \ {e}
    <3>1. ASSUME NEW x \in Range(r) PROVE x \in Range(s) /\ x # e
      <4>1. PICK a \in 1..(Len(s) - 1) : x = r[a]
        BY <2>7 DEF Range
      <4>2. PICK c \in 1..Len(s) : x = s[c] /\ c # i
        <5>1. CASE a < i
          BY <2>1, <2>5, <4>1, <5>1
        <5>2. CASE ~(a < i)
          <6>1. a + 1 \in 1..Len(s) /\ a + 1 # i
            BY <2>1, <5>2
          <6> QED
            BY <2>5, <4>1, <5>2, <6>1
        <5> QED
          BY <5>1, <5>2
      <4> QED
        BY <2>1, <2>2, <2>8, <4>2 DEF Range
    <3>2. ASSUME NEW x \in Range(s), x # e PROVE x \in Range(r)
      <4>1. PICK c \in 1..Len(s) : x = s[c] /\ c # i
        BY <2>1, <2>2, <3>2 DEF Range
      <4>2. CASE c < i
        <5>1. c \in 1..(Len(s) - 1)
          BY <2>1, <4>2
        <5> QED
          BY <2>5, <2>7, <4>1, <4>2, <5>1 DEF Range
      <4>3. CASE c > i
        <5>1. c - 1 \in 1..(Len(s) - 1) /\ ~(c - 1 < i) /\ c - 1 + 1 = c
          BY <2>1, <4>3
        <5> QED
          BY <2>5, <2>7, <4>1, <5>1 DEF Range
      <4> QED
        BY <2>1, <4>1, <4>2, <4>3
    <3> QED
      BY <3>1, <3>2
  <2> QED
    BY <2>1, <2>5, <2>6, <2>9, <2>10
<1> QED
  BY <1>1, <1>2

\* Two sequences without a common key.
LEMMA Joined ==
  ASSUME NEW S, NEW s \in Seq(S), NEW t \in Seq(S), IsInjective(s), IsInjective(t),
         Range(s) \cap Range(t) = {}
  PROVE  IsInjective(s \o t) /\ Range(s \o t) = Range(s) \cup Range(t)
<1>1. /\ DOMAIN s = 1..Len(s) /\ DOMAIN t = 1..Len(t) /\ Len(s) \in Nat /\ Len(t) \in Nat
      /\ s \o t \in Seq(S) /\ Len(s \o t) = Len(s) + Len(t) /\ DOMAIN (s \o t) = 1..(Len(s) + Len(t))
      /\ \A i \in 1..(Len(s) + Len(t)) :
           (s \o t)[i] = IF i <= Len(s) THEN s[i] ELSE t[i - Len(s)]
  BY LenProperties, ConcatProperties
<1>2. /\ \A i \in 1..Len(s), j \in 1..Len(t) : s[i] # t[j]
      /\ \A i, j \in 1..Len(s) : s[i] = s[j] => i = j
      /\ \A i, j \in 1..Len(t) : t[i] = t[j] => i = j
  <2>1. ASSUME NEW i \in 1..Len(s), NEW j \in 1..Len(t) PROVE s[i] # t[j]
    <3>1. s[i] \in Range(s) /\ t[j] \in Range(t)
      BY <1>1 DEF Range
    <3> QED
      BY <3>1
  <2> QED
    BY <1>1, <2>1 DEF IsInjective
<1>3. IsInjective(s \o t)
  <2> SUFFICES ASSUME NEW i \in 1..(Len(s) + Len(t)), NEW j \in 1..(Len(s) + Len(t)),
                      (s \o t)[i] = (s \o t)[j]
               PROVE  i = j
    BY <1>1 DEF IsInjective
  <2>1. CASE i <= Len(s) /\ j <= Len(s)
    BY <1>1, <1>2, <2>1
  <2>2. CASE i <= Len(s) /\ ~(j <= Len(s))
    BY <1>1, <1>2, <2>2
  <2>3. CASE ~(i <= Len(s)) /\ j <= Len(s)
    BY <1>1, <1>2, <2>3
  <2>4. CASE ~(i <= Len(s)) /\ ~(j <= Len(s))
    BY <1>1, <1>2, <2>4
  <2> QED
    BY <2>1, <2>2, <2>3, <2>4
<1> QED
  BY <1>3, RangeConcatenation

-----------------------------------------------------------------------------
(* Blocks *)

\* What on_download_progress and on_install_progress do to the keys of a block.
KeysRight(b) ==
  /\ IsInjective(b.active) /\ IsInjective(b.frozen)
  /\ Range(b.active) \cap Range(b.frozen) = {} /\ Range(b.active) \cup Range(b.frozen) = b.known
  /\ \A k \in Range(b.active) : b.percent[k] # Full

LEMMA EnteredFacts ==
  ASSUME NEW b \in Blocks, KeysRight(b), NEW key \in Keys, NEW percent \in 0..Full,
         NEW s, s = Shown(b, key, percent)
  PROVE  /\ s \in Blocks /\ s.known = b.known \cup {key} /\ s.frozen = b.frozen
         /\ s.drawnActive = b.drawnActive /\ s.drawnFrozen = b.drawnFrozen
         /\ s.percent = [b.percent EXCEPT ![key] = percent]
         /\ IsInjective(s.active) /\ IsInjective(s.frozen)
         /\ Range(s.active) \cap Range(s.frozen) = {}
         /\ Range(s.active) \cup Range(s.frozen) = s.known
         /\ s.active = IF key \in b.known THEN b.active ELSE Append(b.active, key)
<1>1. /\ b.active \in Seq(Keys) /\ b.frozen \in Seq(Keys) /\ b.known \subseteq Keys
      /\ b.percent \in [Keys -> 0..Full] /\ b.drawnActive \in Nat /\ b.drawnFrozen \in Nat
  BY DEF Blocks
<1>2. CASE key \in b.known
  <2>1. Entered(b, key) = b /\ s = [b EXCEPT !.percent = [b.percent EXCEPT ![key] = percent]]
    BY <1>2 DEF Entered, Shown, Blocks
  <2>2. /\ s.known = b.known /\ s.active = b.active /\ s.frozen = b.frozen
        /\ s.drawnActive = b.drawnActive /\ s.drawnFrozen = b.drawnFrozen
        /\ s.percent = [b.percent EXCEPT ![key] = percent] /\ s \in Blocks
    <3>1. [b.percent EXCEPT ![key] = percent] \in [Keys -> 0..Full]
      BY <1>1
    <3> DEFINE q == [b.percent EXCEPT ![key] = percent]
    <3>2. s = [b EXCEPT !.percent = q]
      BY <2>1
    <3> HIDE DEF q
    <3> QED
      BY <3>1, <3>2 DEF Blocks, q
  <2> QED
    BY <1>2, <2>2 DEF KeysRight
<1>3. CASE key \notin b.known
  <2>1. Entered(b, key) = [b EXCEPT !.known = b.known \cup {key}, !.active = Append(b.active, key)]
    BY <1>3 DEF Entered
  <2>2. s = [b EXCEPT !.known = b.known \cup {key}, !.active = Append(b.active, key),
                      !.percent = [b.percent EXCEPT ![key] = percent]]
    BY <2>1 DEF Shown, Blocks
  <2>3. key \notin Range(b.active) /\ key \notin Range(b.frozen)
    BY <1>3 DEF KeysRight
  <2>4. /\ Append(b.active, key) \in Seq(Keys) /\ IsInjective(Append(b.active, key))
        /\ Range(Append(b.active, key)) = Range(b.active) \cup {key}
    BY <1>1, <2>3, Added DEF KeysRight
  <2>5. /\ s.known = b.known \cup {key} /\ s.active = Append(b.active, key) /\ s.frozen = b.frozen
        /\ s.drawnActive = b.drawnActive /\ s.drawnFrozen = b.drawnFrozen
        /\ s.percent = [b.percent EXCEPT ![key] = percent] /\ s \in Blocks
    <3>1. [b.percent EXCEPT ![key] = percent] \in [Keys -> 0..Full] /\ b.known \cup {key} \subseteq Keys
      BY <1>1
    <3> DEFINE q == [b.percent EXCEPT ![key] = percent]
               a == Append(b.active, key)
               k == b.known \cup {key}
    <3>2. s = [b EXCEPT !.known = k, !.active = a, !.percent = q] /\ a \in Seq(Keys)
      BY <2>2, <2>4
    <3> HIDE DEF q, a, k
    <3>3. q \in [Keys -> 0..Full] /\ k \in SUBSET Keys
      BY <3>1 DEF q, k
    <3>4. /\ s.known = k /\ s.active = a /\ s.frozen = b.frozen /\ s.percent = q
          /\ s.drawnActive = b.drawnActive /\ s.drawnFrozen = b.drawnFrozen /\ s \in Blocks
      BY <3>2, <3>3 DEF Blocks
    <3> QED
      BY <3>4 DEF q, a, k
  <2> QED
    BY <1>3, <2>3, <2>4, <2>5 DEF KeysRight
<1> QED
  BY <1>2, <1>3

\* A block before and after a message: its keys are as they were, or the new one is active, or
\* it is frozen.
Stepped(b, key, percent, n) ==
  /\ n \in Blocks /\ KeysRight(n) /\ n.known = b.known \cup {key}
  /\ n.drawnActive = b.drawnActive /\ n.drawnFrozen = b.drawnFrozen
  /\ percent = Full => key \in Range(n.frozen)
  /\ \/ n.frozen = b.frozen /\ n.active = b.active /\ key \in b.known
     \/ n.frozen = b.frozen /\ n.active = Append(b.active, key) /\ key \notin b.known
     \/ /\ n.frozen = Append(b.frozen, key) /\ key \notin Range(b.frozen)
        /\ n.percent[key] = Full /\ Len(n.active) + 1 >= Len(b.active)

LEMMA ProgressedFacts ==
  ASSUME NEW b \in Blocks, KeysRight(b), NEW key \in Keys, NEW percent \in 0..Full
  PROVE  Stepped(b, key, percent, Progressed(b, key, percent))
<1> DEFINE n == Progressed(b, key, percent)
<1> SUFFICES Stepped(b, key, percent, n)
  OBVIOUS
<1>0. PICK s : s = Shown(b, key, percent)
  OBVIOUS
<1>1. /\ s \in Blocks /\ s.known = b.known \cup {key} /\ s.frozen = b.frozen
      /\ s.drawnActive = b.drawnActive /\ s.drawnFrozen = b.drawnFrozen
      /\ s.percent = [b.percent EXCEPT ![key] = percent]
      /\ IsInjective(s.active) /\ IsInjective(s.frozen)
      /\ Range(s.active) \cap Range(s.frozen) = {}
      /\ Range(s.active) \cup Range(s.frozen) = s.known
      /\ s.active = IF key \in b.known THEN b.active ELSE Append(b.active, key)
  BY <1>0, EnteredFacts
<1>2. n = IF percent = Full THEN Frozen(s, key) ELSE s
  BY <1>0 DEF Progressed
<1> HIDE DEF n
<1>3. /\ b.percent \in [Keys -> 0..Full] /\ s.active \in Seq(Keys) /\ s.frozen \in Seq(Keys)
      /\ b.active \in Seq(Keys) /\ s.percent[key] = percent
  BY <1>1 DEF Blocks
<1>4. \A k \in Range(s.active) \ {key} : s.percent[k] # Full
  <2> SUFFICES ASSUME NEW k \in Range(s.active), k # key PROVE s.percent[k] # Full
    OBVIOUS
  <2>1. k \in Range(b.active)
    <3>1. CASE key \in b.known
      BY <1>1, <3>1
    <3>2. CASE key \notin b.known
      <4>1. k \notin Range(b.frozen) /\ k \in b.known
        BY <1>1
      <4> QED
        BY <4>1 DEF KeysRight
    <3> QED
      BY <3>1, <3>2
  <2>2. b.percent[k] # Full /\ k \in Keys
    BY <1>1, <2>1 DEF KeysRight, Blocks
  <2> QED
    BY <1>1, <1>3, <2>2
<1>5. CASE percent # Full
  <2>1. n = s
    BY <1>2, <1>5
  <2>2. KeysRight(n)
    BY <1>1, <1>3, <1>4, <1>5, <2>1 DEF KeysRight
  <2> QED
    BY <1>1, <1>5, <2>1, <2>2 DEF Stepped
<1>6. CASE percent = Full /\ key \in Range(s.frozen)
  <2>1. n = s /\ key \notin Range(s.active) /\ key \in b.known
    BY <1>1, <1>2, <1>6 DEF Frozen, KeysRight
  <2>2. KeysRight(n)
    BY <1>1, <1>4, <2>1 DEF KeysRight
  <2> QED
    BY <1>1, <1>6, <2>1, <2>2 DEF Stepped
<1>7. CASE percent = Full /\ key \notin Range(s.frozen)
  <2>1. n = [s EXCEPT !.active = Removed(s.active, key), !.frozen = Append(s.frozen, key)]
    BY <1>2, <1>7 DEF Frozen
  <2>2. /\ Removed(s.active, key) \in Seq(Keys)
        /\ Len(Removed(s.active, key)) \in {Len(s.active), Len(s.active) - 1}
        /\ IsInjective(Removed(s.active, key))
        /\ Range(Removed(s.active, key)) = Range(s.active) \ {key}
    BY <1>1, <1>3, TakenOut
  <2>3. /\ Append(s.frozen, key) \in Seq(Keys) /\ IsInjective(Append(s.frozen, key))
        /\ Range(Append(s.frozen, key)) = Range(s.frozen) \cup {key}
    BY <1>1, <1>3, <1>7, Added
  <2>4. /\ n \in Blocks /\ n.active = Removed(s.active, key) /\ n.frozen = Append(s.frozen, key)
        /\ n.known = s.known /\ n.percent = s.percent
        /\ n.drawnActive = s.drawnActive /\ n.drawnFrozen = s.drawnFrozen
    BY <1>1, <2>1, <2>2, <2>3 DEF Blocks
  <2>5. KeysRight(n)
    <3>1. Range(n.active) \cap Range(n.frozen) = {} /\ Range(n.active) \cup Range(n.frozen) = n.known
      BY <1>1, <2>2, <2>3, <2>4
    <3>2. \A k \in Range(n.active) : n.percent[k] # Full
      BY <1>4, <2>2, <2>4
    <3> QED
      BY <2>2, <2>3, <2>4, <3>1, <3>2 DEF KeysRight
  <2>6. Len(n.active) + 1 >= Len(b.active)
    <3>1. Len(s.active) >= Len(b.active) /\ Len(s.active) \in Nat /\ Len(b.active) \in Nat
      <4>1. Len(b.active) \in Nat /\ Len(Append(b.active, key)) = Len(b.active) + 1
        BY <1>3, LenProperties, AppendProperties
      <4> QED
        BY <1>1, <4>1
    <3> QED
      BY <2>2, <2>4, <3>1
  <2> QED
    BY <1>1, <1>3, <1>7, <2>3, <2>4, <2>5, <2>6 DEF Stepped
<1> QED
  BY <1>5, <1>6, <1>7

\* The lines of a block: what is complete since the last time, then what is active.
LEMMA RenderedFacts ==
  ASSUME NEW b \in Blocks, b.drawnFrozen <= Len(b.frozen),
         NEW n, n = Len(b.frozen) - b.drawnFrozen
  PROVE  /\ Rendered(b) \in Seq(Lines) /\ n \in Nat /\ Len(b.active) \in Nat
         /\ Len(Rendered(b)) = n + Len(b.active)
         /\ \A i \in 1..n : Rendered(b)[i] =
              Line("bar", b.frozen[b.drawnFrozen + i], b.percent[b.frozen[b.drawnFrozen + i]] = Full)
         /\ \A i \in 1..Len(b.active) : Rendered(b)[n + i] =
              Line("bar", b.active[i], b.percent[b.active[i]] = Full)
<1>1. /\ b.active \in Seq(Keys) /\ b.frozen \in Seq(Keys) /\ b.drawnFrozen \in Nat
      /\ Len(b.active) \in Nat /\ Len(b.frozen) \in Nat /\ n \in Nat
  BY LenProperties DEF Blocks
<1> DEFINE left == SubSeq(b.frozen, b.drawnFrozen + 1, Len(b.frozen))
           keys == left \o b.active
<1>2. /\ left \in Seq(Keys) /\ Len(left) = n
      /\ \A i \in 1..n : left[i] = b.frozen[b.drawnFrozen + i]
  <2>1. \A i \in (b.drawnFrozen + 1)..Len(b.frozen) : i \in 1..Len(b.frozen)
    BY <1>1
  <2>2. \A i \in (b.drawnFrozen + 1)..Len(b.frozen) : b.frozen[i] \in Keys
    BY <1>1, <2>1, ElementOfSeq
  <2>3. b.drawnFrozen + 1 \in Int /\ Len(b.frozen) \in Int
    BY <1>1
  <2>4. /\ left \in Seq(Keys)
        /\ Len(left) = IF b.drawnFrozen + 1 <= Len(b.frozen)
                         THEN Len(b.frozen) - (b.drawnFrozen + 1) + 1 ELSE 0
        /\ \A i \in 1..(Len(b.frozen) - (b.drawnFrozen + 1) + 1) :
             left[i] = b.frozen[b.drawnFrozen + 1 + i - 1]
    BY <2>2, <2>3, SubSeqProperties
  <2>5. Len(b.frozen) - (b.drawnFrozen + 1) + 1 = n
    BY <1>1
  <2>6. \A i \in 1..n : b.drawnFrozen + 1 + i - 1 = b.drawnFrozen + i
    BY <1>1
  <2> HIDE DEF left
  <2> QED
    BY <1>1, <2>4, <2>5, <2>6
<1> HIDE DEF left
<1>3. /\ keys \in Seq(Keys) /\ Len(keys) = n + Len(b.active)
      /\ \A i \in 1..(n + Len(b.active)) : keys[i] = IF i <= n THEN left[i] ELSE b.active[i - n]
  <2>1. /\ keys \in Seq(Keys) /\ Len(keys) = Len(left) + Len(b.active)
        /\ \A i \in 1..(Len(left) + Len(b.active)) :
             keys[i] = IF i <= Len(left) THEN left[i] ELSE b.active[i - Len(left)]
    BY <1>1, <1>2, ConcatProperties
  <2> HIDE DEF keys
  <2> QED
    BY <1>2, <2>1
<1>4. DOMAIN keys = 1..(n + Len(b.active))
  BY <1>3, LenProperties
<1>5. Rendered(b) = [i \in DOMAIN keys |-> Line("bar", keys[i], b.percent[keys[i]] = Full)]
  BY DEF Rendered, left
<1> HIDE DEF keys
<1>6. \A i \in 1..(n + Len(b.active)) : Line("bar", keys[i], b.percent[keys[i]] = Full) \in Lines
  <2> SUFFICES ASSUME NEW i \in 1..(n + Len(b.active))
               PROVE  Line("bar", keys[i], b.percent[keys[i]] = Full) \in Lines
    OBVIOUS
  <2>1. keys[i] \in Subjects
    BY <1>3, ElementOfSeq DEF Subjects
  <2>2. (b.percent[keys[i]] = Full) \in BOOLEAN
    OBVIOUS
  <2> QED
    BY <2>1, <2>2 DEF Line, Lines
<1>7. Rendered(b) \in Seq(Lines) /\ Len(Rendered(b)) = n + Len(b.active)
  <2>1. Rendered(b) \in [1..(n + Len(b.active)) -> Lines] /\ n + Len(b.active) \in Nat
    BY <1>1, <1>4, <1>5, <1>6
  <2> QED
    BY <2>1, IsASeq, LenProperties
<1>8. ASSUME NEW i \in 1..n PROVE i \in 1..(n + Len(b.active)) /\ keys[i] = b.frozen[b.drawnFrozen + i]
  BY <1>1, <1>2, <1>3
<1>9. ASSUME NEW i \in 1..Len(b.active)
      PROVE  n + i \in 1..(n + Len(b.active)) /\ keys[n + i] = b.active[i]
  <2>1. n \in Nat /\ Len(b.active) \in Nat
    BY <1>1
  <2>2. n + i \in 1..(n + Len(b.active)) /\ ~(n + i <= n) /\ (n + i) - n = i
    BY <2>1
  <2> QED
    BY <1>3, <2>2
<1>10. ASSUME NEW i \in 1..n
       PROVE  Rendered(b)[i] = Line("bar", b.frozen[b.drawnFrozen + i],
                                    b.percent[b.frozen[b.drawnFrozen + i]] = Full)
  BY <1>4, <1>5, <1>8
<1>11. ASSUME NEW i \in 1..Len(b.active)
       PROVE  Rendered(b)[n + i] = Line("bar", b.active[i], b.percent[b.active[i]] = Full)
  BY <1>4, <1>5, <1>9
<1> QED
  BY <1>1, <1>7, <1>10, <1>11

-----------------------------------------------------------------------------
(* The terminal *)

\* Lines that reach below everything: they end the terminal, and what is above them stays.
LEMMA PutFacts ==
  ASSUME term \in Seq(Lines), NEW top \in 0..Len(term), NEW lines \in Seq(Lines),
         top + Len(lines) >= Len(term), Put(top, lines)
  PROVE  /\ term' \in Seq(Lines) /\ Len(term') = top + Len(lines) /\ row' = Len(term')
         /\ Len(lines) \in Nat
         /\ \A i \in 1..top : term'[i] = term[i]
         /\ \A i \in 1..Len(lines) : term'[top + i] = lines[i]
<1> DEFINE above == SubSeq(term, 1, top)
           below == SubSeq(term, top + Len(lines) + 1, Len(term))
<1>1. Len(term) \in Nat /\ Len(lines) \in Nat /\ top \in Nat /\ top <= Len(term)
  <2>1. Len(term) \in Nat /\ Len(lines) \in Nat
    BY LenProperties
  <2> QED
    BY <2>1
<1>2. /\ above \in Seq(Lines) /\ Len(above) = top /\ \A i \in 1..top : above[i] = term[i]
  <2>1. \A i \in 1..top : i \in 1..Len(term)
    BY <1>1
  <2>2. \A i \in 1..top : term[i] \in Lines
    BY <2>1, ElementOfSeq
  <2>3. top \in Int /\ 1 \in Int
    BY <1>1
  <2>4. /\ above \in Seq(Lines) /\ Len(above) = IF 1 <= top THEN top - 1 + 1 ELSE 0
        /\ \A i \in 1..(top - 1 + 1) : above[i] = term[1 + i - 1]
    BY <2>2, <2>3, SubSeqProperties
  <2> HIDE DEF above
  <2> QED
    BY <1>1, <2>4
<1>3. below \in Seq(Lines) /\ Len(below) = 0
  <2>1. top + Len(lines) + 1 \in Int /\ Len(term) \in Int
    BY <1>1
  <2>2. \A i \in (top + Len(lines) + 1)..Len(term) : term[i] \in Lines
    BY <1>1
  <2>3. /\ below \in Seq(Lines)
        /\ Len(below) = IF top + Len(lines) + 1 <= Len(term)
                          THEN Len(term) - (top + Len(lines) + 1) + 1 ELSE 0
    BY <2>1, <2>2, SubSeqProperties
  <2> HIDE DEF below
  <2> QED
    BY <1>1, <2>3
<1>4. term' = (above \o lines) \o below /\ row' = top + Len(lines)
  <2>1. term' = above \o lines \o below /\ row' = top + Len(lines)
    BY DEF Put
  <2> HIDE DEF above, below
  <2>2. (above \o lines) \o below = above \o lines \o below
    OBVIOUS
  <2> QED
    BY <2>1, <2>2
<1> HIDE DEF above, below
<1>5. /\ above \o lines \in Seq(Lines) /\ Len(above \o lines) = top + Len(lines)
      /\ \A i \in 1..(top + Len(lines)) :
           (above \o lines)[i] = IF i <= top THEN above[i] ELSE lines[i - top]
  <2>1. /\ above \o lines \in Seq(Lines) /\ Len(above \o lines) = Len(above) + Len(lines)
        /\ \A i \in 1..(Len(above) + Len(lines)) :
             (above \o lines)[i] = IF i <= Len(above) THEN above[i] ELSE lines[i - Len(above)]
    BY <1>2, ConcatProperties
  <2> QED
    BY <1>2, <2>1
<1>6. term' = above \o lines
  <2>1. below = <<>>
    BY <1>3, EmptySeq
  <2> QED
    BY <1>4, <1>5, <2>1, ConcatEmptySeq
<1>7. ASSUME NEW i \in 1..top PROVE term'[i] = term[i]
  <2>1. i \in 1..(top + Len(lines)) /\ i <= top
    BY <1>1
  <2> QED
    BY <1>2, <1>5, <1>6, <2>1
<1>8. ASSUME NEW i \in 1..Len(lines) PROVE term'[top + i] = lines[i]
  <2>1. top + i \in 1..(top + Len(lines)) /\ ~(top + i <= top) /\ (top + i) - top = i
    BY <1>1
  <2> QED
    BY <1>5, <1>6, <2>1
<1> QED
  BY <1>1, <1>4, <1>5, <1>6, <1>7, <1>8

\* A final line of a terminal stays.
Keeps == \A i \in DOMAIN term : Final(term[i]) => i \in DOMAIN term' /\ term'[i] = term[i]

\* Lines that are printed below come after the others.
LEMMA PrintlnFacts ==
  ASSUME ScreenTyped, NEW lines \in Seq(Lines), Println(lines)
  PROVE  /\ term' \in Seq(Lines) /\ row' = Len(term') /\ Len(term) \in Nat /\ Len(lines) \in Nat
         /\ Len(term') = Len(term) + Len(lines) /\ Keeps
         /\ \A i \in DOMAIN term : i \in DOMAIN term' /\ term'[i] = term[i]
         /\ \A i \in DOMAIN term' : \/ i \in DOMAIN term /\ term'[i] = term[i]
                                    \/ \E j \in 1..Len(lines) : i = Len(term) + j /\ term'[i] = lines[j]
<1>1. /\ term \in Seq(Lines) /\ Len(term) \in Nat /\ Len(lines) \in Nat
      /\ DOMAIN term = 1..Len(term) /\ row = Len(term)
  BY LenProperties DEF ScreenTyped
<1>2. Put(Len(term), lines) /\ Len(term) \in 0..Len(term) /\ Len(term) + Len(lines) >= Len(term)
  BY <1>1 DEF Println
<1>3. /\ term' \in Seq(Lines) /\ Len(term') = Len(term) + Len(lines) /\ row' = Len(term')
      /\ \A i \in 1..Len(term) : term'[i] = term[i]
      /\ \A i \in 1..Len(lines) : term'[Len(term) + i] = lines[i]
  BY <1>1, <1>2, PutFacts
<1>4. DOMAIN term' = 1..(Len(term) + Len(lines))
  BY <1>3, LenProperties
<1>5. \A i \in 1..Len(term) : i \in 1..(Len(term) + Len(lines))
  BY <1>1
<1>6. \A i \in 1..(Len(term) + Len(lines)) :
        i \in 1..Len(term) \/ \E j \in 1..Len(lines) : i = Len(term) + j
  <2> SUFFICES ASSUME NEW i \in 1..(Len(term) + Len(lines)), i \notin 1..Len(term)
               PROVE  \E j \in 1..Len(lines) : i = Len(term) + j
    OBVIOUS
  <2>1. i - Len(term) \in 1..Len(lines) /\ i = Len(term) + (i - Len(term))
    BY <1>1
  <2> QED
    BY <2>1
<1>7. \A i \in DOMAIN term : i \in DOMAIN term' /\ term'[i] = term[i]
  BY <1>1, <1>3, <1>4, <1>5
<1>8. ASSUME NEW i \in DOMAIN term'
      PROVE  \/ i \in DOMAIN term /\ term'[i] = term[i]
             \/ \E j \in 1..Len(lines) : i = Len(term) + j /\ term'[i] = lines[j]
  <2>1. CASE i \in 1..Len(term)
    BY <1>1, <1>3, <2>1
  <2>2. CASE \E j \in 1..Len(lines) : i = Len(term) + j
    BY <1>3, <2>2
  <2> QED
    BY <1>4, <1>6, <2>1, <2>2
<1>9. Keeps
  BY <1>7 DEF Keeps
<1> QED
  BY <1>1, <1>3, <1>7, <1>8, <1>9

-----------------------------------------------------------------------------
(* A message about progress *)

\* The number of keys of a block, a0 active and f0 frozen before the message, a1 and f1 after.
Counted(a0, f0, a1, f1) ==
  \/ f1 = f0 /\ a1 = a0
  \/ f1 = f0 /\ a1 = a0 + 1
  \/ f1 = f0 + 1 /\ a1 + 1 >= a0

\* Where the cursor goes: up over a lines, or fewer, of t.
LEMMA CursorUp ==
  ASSUME NEW a \in Nat, NEW t \in Nat, NEW r \in Nat, r >= a, NEW rows \in Nat \ {0},
         NEW up, up = (IF a < rows THEN a ELSE rows - 1),
         NEW top, top = (IF up < t THEN t - up ELSE 0)
  PROVE  top \in 0..t /\ top >= t - a /\ top + r >= t
OBVIOUS

\* The block after the message, drawn or not.
LEMMA DrawFacts ==
  ASSUME ScreenTyped, NEW name \in Names, BlockRight(block[name]), NEW key \in Keys,
         NEW percent \in 0..Full, OnProgress(name, key, percent),
         NEW old, old = block[name], NEW n, n = Progressed(old, key, percent)
  PROVE  \/ /\ UNCHANGED screen /\ block' = [block EXCEPT ![name] = n]
            /\ n.frozen = old.frozen /\ n.active = old.active
         \/ /\ block' = [block EXCEPT ![name] =
                           [n EXCEPT !.drawnFrozen = Len(n.frozen), !.drawnActive = Len(n.active)]]
            /\ ~(n.frozen = old.frozen /\ Len(n.active) = 0)
            /\ \E top \in 0..Len(term) :
                 /\ top >= Len(term) - Len(old.active)
                 /\ top + Len(Rendered(n)) >= Len(term)
                 /\ Put(top, Rendered(n))
<1>1. /\ old \in Blocks /\ KeysRight(old) /\ old.drawnActive = Len(old.active)
      /\ old.drawnFrozen = Len(old.frozen)
  BY DEF ScreenTyped, BlockRight, KeysRight
<1>0. Stepped(old, key, percent, n)
  BY <1>1, ProgressedFacts
<1>2. /\ n \in Blocks /\ KeysRight(n) /\ n.known = old.known \cup {key}
      /\ n.drawnActive = old.drawnActive /\ n.drawnFrozen = old.drawnFrozen
      /\ percent = Full => key \in Range(n.frozen)
      /\ \/ n.frozen = old.frozen /\ n.active = old.active /\ key \in old.known
         \/ n.frozen = old.frozen /\ n.active = Append(old.active, key) /\ key \notin old.known
         \/ /\ n.frozen = Append(old.frozen, key) /\ key \notin Range(old.frozen)
            /\ n.percent[key] = Full /\ Len(n.active) + 1 >= Len(old.active)
  BY <1>0 DEF Stepped
<1>3. /\ Len(old.active) \in Nat /\ Len(old.frozen) \in Nat
      /\ Len(n.active) \in Nat /\ Len(n.frozen) \in Nat
      /\ Len(Append(old.active, key)) = Len(old.active) + 1
      /\ Len(Append(old.frozen, key)) = Len(old.frozen) + 1
  <2>1. /\ old.active \in Seq(Keys) /\ old.frozen \in Seq(Keys)
        /\ n.active \in Seq(Keys) /\ n.frozen \in Seq(Keys)
    BY <1>1, <1>2 DEF Blocks
  <2> QED
    BY <2>1, LenProperties, AppendProperties
<1>4. Counted(Len(old.active), Len(old.frozen), Len(n.active), Len(n.frozen))
  BY <1>2, <1>3 DEF Counted
<1>5. n.drawnFrozen = Len(old.frozen) /\ Len(old.frozen) <= Len(n.frozen)
  BY <1>1, <1>2, <1>3, <1>4 DEF Counted
<1>6. /\ Len(Rendered(n)) = (Len(n.frozen) - Len(old.frozen)) + Len(n.active)
      /\ Len(Rendered(n)) \in Nat /\ Rendered(n) \in Seq(Lines)
  <2>1. /\ Len(Rendered(n)) = (Len(n.frozen) - n.drawnFrozen) + Len(n.active)
        /\ Rendered(n) \in Seq(Lines)
    BY <1>2, <1>5, RenderedFacts
  <2> QED
    BY <1>5, <2>1, LenProperties
<1>7. /\ Len(Rendered(n)) >= Len(old.active)
      /\ Len(Rendered(n)) = 0 => Len(n.frozen) = Len(old.frozen) /\ Len(n.active) = Len(old.active)
      /\ Len(Rendered(n)) # 0 => Len(n.frozen) # Len(old.frozen) \/ Len(n.active) # 0
  <2> DEFINE a0 == Len(old.active)
             f0 == Len(old.frozen)
             a1 == Len(n.active)
             f1 == Len(n.frozen)
             r == Len(Rendered(n))
  <2>1. /\ a0 \in Nat /\ f0 \in Nat /\ a1 \in Nat /\ f1 \in Nat /\ Counted(a0, f0, a1, f1)
        /\ r = (f1 - f0) + a1
    BY <1>3, <1>4, <1>6
  <2> HIDE DEF a0, f0, a1, f1, r
  <2>2. /\ r >= a0
        /\ r = 0 => f1 = f0 /\ a1 = a0
        /\ r # 0 => f1 # f0 \/ a1 # 0
    BY <2>1 DEF Counted
  <2> QED
    BY <2>2 DEF a0, f0, a1, f1, r
<1>8. (key \notin old.known \/ n.frozen # old.frozen) \/ (n.frozen = old.frozen /\ n.active = old.active)
  BY <1>2
<1>9. Render(name, n) \/ (/\ ~(key \notin old.known \/ n.frozen # old.frozen)
                          /\ block' = [block EXCEPT ![name] = n] /\ UNCHANGED screen)
  BY DEF OnProgress, RenderSoon
<1>10. CASE Render(name, n) /\ Rendered(n) = <<>>
  <2>1. Len(n.frozen) = Len(old.frozen) /\ Len(n.active) = Len(old.active)
    <3>1. Len(Rendered(n)) = 0
      BY <1>6, <1>10, EmptySeq
    <3> QED
      BY <1>7, <3>1
  <2>2. n.frozen = old.frozen /\ n.active = old.active
    <3>1. Len(n.frozen) # Len(old.frozen) + 1 /\ Len(n.active) # Len(old.active) + 1
      BY <1>3, <2>1
    <3> QED
      BY <1>2, <1>3, <3>1
  <2> QED
    BY <1>10, <2>2 DEF Render
<1>11. CASE Render(name, n) /\ Rendered(n) # <<>>
  <2> DEFINE up == IF n.drawnActive < height THEN n.drawnActive ELSE height - 1
             top == IF up < row THEN row - up ELSE 0
  <2>1. /\ Put(top, Rendered(n))
        /\ block' = [block EXCEPT ![name] =
                       [n EXCEPT !.drawnFrozen = Len(n.frozen), !.drawnActive = Len(n.active)]]
    BY <1>11 DEF Render
  <2>2. row = Len(term) /\ Len(term) \in Nat /\ height \in Nat \ {0}
    BY LenProperties DEF ScreenTyped
  <2>3. n.drawnActive = Len(old.active)
    BY <1>1, <1>2
  <2>4. /\ up = IF Len(old.active) < height THEN Len(old.active) ELSE height - 1
        /\ top = IF up < Len(term) THEN Len(term) - up ELSE 0
    BY <2>2, <2>3
  <2> HIDE DEF up, top
  <2>5. top \in 0..Len(term) /\ top >= Len(term) - Len(old.active) /\ top + Len(Rendered(n)) >= Len(term)
    BY <1>3, <1>6, <1>7, <2>2, <2>4, CursorUp
  <2>6. ~(n.frozen = old.frozen /\ Len(n.active) = 0)
    <3>1. Len(Rendered(n)) # 0
      BY <1>6, <1>11, EmptySeq
    <3> QED
      BY <1>7, <3>1
  <2> QED
    BY <2>1, <2>5, <2>6
<1> QED
  BY <1>8, <1>9, <1>10, <1>11

\* The lines of a block after a message: a final one for the key that is new among the frozen
\* ones, at the top, and what is active below.
LEMMA LinesFacts ==
  ASSUME NEW old \in Blocks, NEW key \in Keys, NEW percent, NEW n, Stepped(old, key, percent, n),
         old.drawnFrozen = Len(old.frozen), NEW r, r = Rendered(n)
  PROVE  /\ r \in Seq(Lines) /\ Len(r) \in Nat /\ Len(n.active) \in Nat /\ Len(n.active) <= Len(r)
         /\ \A i \in 1..Len(r) : r[i].kind = "bar"
         /\ \A i \in 1..Len(r) : i > Len(r) - Len(n.active) => ~r[i].flag
         /\ \A i \in 1..Len(r) : r[i].flag => i = 1 /\ r[1].key = key /\ n.frozen # old.frozen
         /\ n.frozen # old.frozen => 1 \in 1..Len(r) /\ r[1].flag /\ r[1].key = key
<1>1. /\ n \in Blocks /\ KeysRight(n) /\ n.drawnFrozen = Len(old.frozen)
      /\ \/ n.frozen = old.frozen
         \/ n.frozen = Append(old.frozen, key) /\ n.percent[key] = Full
  BY DEF Stepped
<1>2. /\ Len(old.frozen) \in Nat /\ Len(Append(old.frozen, key)) = Len(old.frozen) + 1
      /\ Append(old.frozen, key)[Len(old.frozen) + 1] = key
  <2>1. old.frozen \in Seq(Keys)
    BY DEF Blocks
  <2> QED
    BY <2>1, LenProperties, AppendProperties
<1> DEFINE f == Len(n.frozen) - n.drawnFrozen
           a == Len(n.active)
<1>3. f \in {0, 1} /\ n.drawnFrozen <= Len(n.frozen)
  BY <1>1, <1>2
<1>4. n.frozen # old.frozen => f = 1 /\ n.frozen[n.drawnFrozen + 1] = key /\ n.percent[key] = Full
  BY <1>1, <1>2
<1>5. n.frozen = old.frozen => f = 0
  BY <1>1, <1>2
<1>6. /\ r \in Seq(Lines) /\ a \in Nat /\ Len(r) = f + a
      /\ \A i \in 1..f : r[i] =
           Line("bar", n.frozen[n.drawnFrozen + i], n.percent[n.frozen[n.drawnFrozen + i]] = Full)
      /\ \A i \in 1..a : r[f + i] = Line("bar", n.active[i], n.percent[n.active[i]] = Full)
  BY <1>1, <1>3, RenderedFacts
<1> HIDE DEF f
<1>7. \A i \in 1..a : n.percent[n.active[i]] # Full
  <2>1. n.active \in Seq(Keys)
    BY <1>1 DEF Blocks
  <2>2. \A i \in 1..a : n.active[i] \in Range(n.active)
    BY <2>1, LenProperties DEF Range
  <2> QED
    BY <1>1, <2>2 DEF KeysRight
<1> HIDE DEF a
<1>8. ASSUME NEW i \in 1..a PROVE r[f + i].kind = "bar" /\ ~r[f + i].flag
  <2>1. (n.percent[n.active[i]] = Full) = FALSE
    BY <1>7
  <2>2. r[f + i] = Line("bar", n.active[i], FALSE)
    BY <1>6, <2>1
  <2> QED
    BY <2>2 DEF Line
<1>9. f = 1 => r[1] = Line("bar", n.frozen[n.drawnFrozen + 1], n.percent[n.frozen[n.drawnFrozen + 1]] = Full)
  BY <1>6
<1>10. f = 1 => r[1].kind = "bar" /\ r[1].flag /\ r[1].key = key
  <2>1. CASE n.frozen # old.frozen
    <3>1. (n.percent[n.frozen[n.drawnFrozen + 1]] = Full) = TRUE /\ n.frozen[n.drawnFrozen + 1] = key
      BY <1>4, <2>1
    <3>2. f = 1 => r[1] = Line("bar", key, TRUE)
      BY <1>9, <3>1
    <3> QED
      BY <3>2 DEF Line
  <2>2. CASE n.frozen = old.frozen
    BY <1>5, <2>2
  <2> QED
    BY <2>1, <2>2
<1>11. ASSUME NEW i \in 1..(f + a)
       PROVE  (f = 1 /\ i = 1) \/ \E j \in 1..a : i = f + j
  <2>1. CASE i <= f
    BY <1>3, <1>6, <2>1
  <2>2. CASE ~(i <= f)
    <3>1. i - f \in 1..a /\ i = f + (i - f)
      BY <1>3, <1>6, <2>2
    <3> QED
      BY <3>1
  <2> QED
    BY <2>1, <2>2
<1>12. Len(r) \in Nat /\ a <= Len(r)
  BY <1>3, <1>6
<1>13. ASSUME NEW i \in 1..Len(r) PROVE r[i].kind = "bar"
  <2>1. i \in 1..(f + a)
    BY <1>6
  <2> QED
    BY <1>8, <1>10, <1>11, <2>1
<1>14. ASSUME NEW i \in 1..Len(r), i > Len(r) - a PROVE ~r[i].flag
  <2>1. i \in 1..(f + a) /\ i > f
    BY <1>3, <1>6, <1>14
  <2>2. ~(f = 1 /\ i = 1)
    BY <2>1
  <2> QED
    BY <1>8, <1>11, <2>1, <2>2
<1>15. ASSUME NEW i \in 1..Len(r), r[i].flag PROVE i = 1 /\ f = 1
  BY <1>6, <1>8, <1>11, <1>15
<1>16. f = 1 <=> n.frozen # old.frozen
  BY <1>4, <1>5
<1>17. f = 1 => 1 \in 1..Len(r)
  BY <1>6
<1> QED
  BY <1>6, <1>10, <1>12, <1>13, <1>14, <1>15, <1>16, <1>17 DEF a

\* What a message about a key leaves: at most one new final line, for a key that is now frozen.
Redrawn(key) ==
  /\ block' \in [Names -> Blocks] /\ term' \in Seq(Lines) /\ row' = Len(term')
  /\ BlocksRight' /\ Windows' /\ Keeps
  /\ \A k \in Keys : IsFrozen(k)' <=> IsFrozen(k) \/ (k = key /\ IsFrozen(key)')
  /\ block["install"].known # {} \/ BlockOf(key) = "install" \/ block'["install"].known = {}
  /\ \E spot \in Nat : \A i \in DOMAIN term' :
       Final(term'[i]) => \/ i \in DOMAIN term /\ term'[i] = term[i]
                          \/ i = spot /\ term'[i].key = key /\ ~IsFrozen(key) /\ IsFrozen(key)'
  /\ ~IsFrozen(key) /\ IsFrozen(key)' => \E i \in DOMAIN term' : Final(term'[i]) /\ term'[i].key = key
  /\ \A i \in DOMAIN term' : term'[i].kind # "bar" => i \in DOMAIN term /\ term'[i] = term[i]

\* Nothing of the other block is below this one, or this one is not drawn.
Quiet(key) ==
  \/ \A name \in Names \ {BlockOf(key)} : block[name].drawnActive = 0
  \/ Len(block[BlockOf(key)].active) = 0 /\ IsFrozen(key)

LEMMA BarFacts ==
  ASSUME ScreenTyped, plan' = plan, BlocksRight, Windows, NEW key \in Keys, key \in Barred,
         NEW percent \in 0..Full, OnProgress(BlockOf(key), key, percent), Quiet(key)
  PROVE  Redrawn(key) /\ (percent = Full => IsFrozen(key)')
<1> DEFINE name == BlockOf(key)
           old == block[name]
           n == Progressed(old, key, percent)
           d == block'[name]
<1>1. name \in Names /\ block \in [Names -> Blocks] /\ old \in Blocks /\ BlockRight(old)
  BY DEF BlockOf, Names, ScreenTyped, BlocksRight
<1>2. KeysRight(old) /\ old.drawnActive = Len(old.active) /\ old.drawnFrozen = Len(old.frozen)
  BY <1>1 DEF BlockRight, KeysRight
<1>3. Stepped(old, key, percent, n)
  BY <1>1, <1>2, ProgressedFacts
<1>4. \/ /\ UNCHANGED screen /\ block' = [block EXCEPT ![name] = n]
         /\ n.frozen = old.frozen /\ n.active = old.active
      \/ /\ block' = [block EXCEPT ![name] =
                        [n EXCEPT !.drawnFrozen = Len(n.frozen), !.drawnActive = Len(n.active)]]
         /\ ~(n.frozen = old.frozen /\ Len(n.active) = 0)
         /\ \E top \in 0..Len(term) :
              /\ top >= Len(term) - Len(old.active)
              /\ top + Len(Rendered(n)) >= Len(term)
              /\ Put(top, Rendered(n))
  BY <1>1, DrawFacts
<1> HIDE DEF n
<1>5. /\ n \in Blocks /\ KeysRight(n) /\ n.known = old.known \cup {key}
      /\ n.drawnActive = old.drawnActive /\ n.drawnFrozen = old.drawnFrozen
      /\ percent = Full => key \in Range(n.frozen)
      /\ \/ n.frozen = old.frozen /\ (n.active = old.active \/ key \notin old.known)
         \/ n.frozen = Append(old.frozen, key) /\ key \notin Range(old.frozen)
  BY <1>3 DEF Stepped
<1>6. /\ n.active \in Seq(Keys) /\ n.frozen \in Seq(Keys) /\ old.frozen \in Seq(Keys)
      /\ Len(n.active) \in Nat /\ Len(n.frozen) \in Nat
  BY <1>1, <1>5, LenProperties DEF Blocks
<1>7. /\ d \in Blocks /\ d.known = n.known /\ d.percent = n.percent
      /\ d.active = n.active /\ d.frozen = n.frozen
      /\ d.drawnActive = Len(n.active) /\ d.drawnFrozen = Len(n.frozen)
  <2>1. CASE block' = [block EXCEPT ![name] = n] /\ n.frozen = old.frozen /\ n.active = old.active
    BY <1>1, <1>2, <1>5, <2>1
  <2>2. CASE block' = [block EXCEPT ![name] =
                         [n EXCEPT !.drawnFrozen = Len(n.frozen), !.drawnActive = Len(n.active)]]
    <3>1. d = [n EXCEPT !.drawnFrozen = Len(n.frozen), !.drawnActive = Len(n.active)]
      BY <1>1, <2>2
    <3> HIDE DEF d
    <3> QED
      BY <1>5, <1>6, <3>1 DEF Blocks
  <2> QED
    BY <1>4, <2>1, <2>2
<1>8. \A m \in Names : m # name => block'[m] = block[m]
  BY <1>1, <1>4
<1>9. block' \in [Names -> Blocks]
  BY <1>1, <1>4, <1>5, <1>7, <1>8
<1>10. Range(n.frozen) = Range(old.frozen) \cup (IF n.frozen = old.frozen THEN {} ELSE {key})
  <2>1. CASE n.frozen = old.frozen
    BY <2>1
  <2>2. CASE n.frozen = Append(old.frozen, key) /\ key \notin Range(old.frozen)
    <3>1. Range(n.frozen) = Range(old.frozen) \cup {key}
      BY <1>2, <1>6, <2>2, Added DEF KeysRight
    <3> QED
      BY <2>2, <3>1
  <2> QED
    BY <1>5, <2>1, <2>2
<1>11. \A k \in Keys : IsFrozen(k)' <=> IsFrozen(k) \/ (k = key /\ n.frozen # old.frozen)
  BY <1>7, <1>8, <1>10 DEF IsFrozen, BlockOf, Names
<1>12. ~IsFrozen(key) /\ IsFrozen(key)' <=> n.frozen # old.frozen
  <2>1. n.frozen # old.frozen => key \notin Range(old.frozen)
    BY <1>5
  <2> QED
    BY <1>11, <2>1 DEF IsFrozen
<1>13. BlocksRight'
  <2>1. BlockRight(d)
    BY <1>5, <1>7 DEF BlockRight, KeysRight
  <2>2. \A k \in d.known : k \in Barred' /\ BlockOf(k) = name
    BY <1>1, <1>5, <1>7 DEF BlocksRight, Barred
  <2>3. ASSUME NEW m \in Names, m # name
        PROVE  /\ BlockRight(block'[m])
               /\ \A k \in block'[m].known : k \in Barred' /\ BlockOf(k) = m
    BY <1>8, <2>3 DEF BlocksRight, Barred
  <2> QED
    BY <2>1, <2>2, <2>3 DEF BlocksRight
<1>14. block["install"].known # {} \/ name = "install" \/ block'["install"].known = {}
  BY <1>8 DEF Names
<1>15. percent = Full => IsFrozen(key)'
  BY <1>5, <1>7 DEF IsFrozen
<1>16. \A m \in Names : m # name => block'[m].drawnActive = block[m].drawnActive
  BY <1>8
<1>17. term \in Seq(Lines) /\ DOMAIN term = 1..Len(term) /\ Len(term) \in Nat /\ row = Len(term)
  BY LenProperties DEF ScreenTyped
<1> HIDE DEF d
<1>18. CASE UNCHANGED screen /\ n.frozen = old.frozen /\ n.active = old.active
  <2>1. term' = term /\ row' = row
    BY <1>18 DEF screen
  <2>2. \A m \in Names : block'[m].drawnActive = block[m].drawnActive
    BY <1>2, <1>7, <1>16, <1>18 DEF d
  <2>3. Windows'
    BY <2>1, <2>2 DEF Windows
  <2>4. Keeps /\ ~(~IsFrozen(key) /\ IsFrozen(key)')
    BY <1>12, <1>18, <2>1 DEF Keeps
  <2>5. \A k \in Keys : IsFrozen(k)' <=> IsFrozen(k) \/ (k = key /\ IsFrozen(key)')
    BY <1>11, <1>18
  <2>6. Redrawn(key)
    BY <1>9, <1>13, <1>14, <1>17, <2>1, <2>3, <2>4, <2>5 DEF Redrawn
  <2> QED
    BY <1>15, <2>6
<1>19. CASE /\ ~(n.frozen = old.frozen /\ Len(n.active) = 0)
            /\ \E top \in 0..Len(term) :
                 /\ top >= Len(term) - Len(old.active)
                 /\ top + Len(Rendered(n)) >= Len(term)
                 /\ Put(top, Rendered(n))
  <2>1. PICK top \in 0..Len(term) : /\ top >= Len(term) - Len(old.active)
                                    /\ top + Len(Rendered(n)) >= Len(term)
                                    /\ Put(top, Rendered(n))
    BY <1>19
  <2>2. PICK r : r = Rendered(n)
    OBVIOUS
  <2>3. /\ r \in Seq(Lines) /\ Len(r) \in Nat /\ Len(n.active) <= Len(r)
        /\ \A i \in 1..Len(r) : r[i].kind = "bar"
        /\ \A i \in 1..Len(r) : i > Len(r) - Len(n.active) => ~r[i].flag
        /\ \A i \in 1..Len(r) : r[i].flag => i = 1 /\ r[1].key = key /\ n.frozen # old.frozen
        /\ n.frozen # old.frozen => 1 \in 1..Len(r) /\ r[1].flag /\ r[1].key = key
    BY <1>1, <1>2, <1>3, <2>2, LinesFacts
  <2>4. /\ term' \in Seq(Lines) /\ Len(term') = top + Len(r) /\ row' = Len(term')
        /\ \A i \in 1..top : term'[i] = term[i]
        /\ \A i \in 1..Len(r) : term'[top + i] = r[i]
    BY <1>17, <2>1, <2>2, <2>3, PutFacts
  <2>5. DOMAIN term' = 1..(top + Len(r)) /\ top \in Nat /\ top <= Len(term)
    BY <1>17, <2>4, LenProperties
  <2>6. ASSUME NEW i \in DOMAIN term'
        PROVE  \/ i \in 1..top /\ i \in DOMAIN term /\ term'[i] = term[i]
               \/ \E j \in 1..Len(r) : i = top + j /\ term'[i] = r[j]
    <3>1. CASE i <= top
      BY <1>17, <2>4, <2>5, <3>1
    <3>2. CASE ~(i <= top)
      <4>1. i - top \in 1..Len(r) /\ i = top + (i - top)
        BY <2>3, <2>5, <3>2
      <4> QED
        BY <2>4, <4>1
    <3> QED
      BY <3>1, <3>2
  <2>7. Keeps
    <3> SUFFICES ASSUME NEW i \in DOMAIN term, Final(term[i]) PROVE i \in DOMAIN term' /\ term'[i] = term[i]
      BY DEF Keeps
    <3>1. ~(i > Len(term) - Len(old.active))
      BY <1>1, <1>2 DEF Windows
    <3>2. i \in 1..top /\ i \in 1..(top + Len(r))
      <4>1. Len(old.active) \in Nat
        BY <1>1, LenProperties DEF Blocks
      <4> QED
        BY <1>17, <2>1, <2>3, <2>5, <3>1, <4>1
    <3> QED
      BY <2>4, <2>5, <3>2
  <2>8. \A m \in Names : m # name => block'[m].drawnActive = 0
    <3>1. ~(Len(old.active) = 0 /\ IsFrozen(key))
      <4> SUFFICES ASSUME Len(old.active) = 0, IsFrozen(key) PROVE FALSE
        OBVIOUS
      <4>1. key \in old.known /\ key \in Range(old.frozen)
        BY <1>2 DEF IsFrozen, KeysRight
      <4> QED
        BY <1>5, <1>19, <4>1
    <3> QED
      BY <1>16, <3>1 DEF Quiet
  <2>9. Windows'
    <3> SUFFICES ASSUME NEW m \in Names, NEW i \in DOMAIN term',
                        i > Len(term') - block'[m].drawnActive
                 PROVE  ~Final(term'[i])
      BY DEF Windows
    <3>1. CASE m # name
      BY <2>3, <2>4, <2>5, <2>8, <3>1
    <3>2. CASE m = name
      <4> DEFINE a == Len(n.active)
                 c == Len(r)
      <4>0. a \in Nat /\ c \in Nat /\ top \in Nat /\ a <= c /\ i > top + c - a /\ i \in Nat
        <5>1. a \in Nat /\ c \in Nat /\ a <= c
          BY <1>6, <2>3
        <5>2. top \in Nat /\ i \in 1..(top + c)
          BY <2>5
        <5> DEFINE l == Len(term')
        <5>3. l = top + c
          BY <2>4
        <5>4. block'[m].drawnActive = a
          BY <1>7, <3>2 DEF d
        <5>5. i > l - a
          BY <5>4
        <5> HIDE DEF a, c, l
        <5> QED
          BY <5>1, <5>2, <5>3, <5>5
      <4> HIDE DEF a, c
      <4>2. i \notin 1..top
        BY <4>0
      <4>3. PICK j \in 1..Len(r) : i = top + j /\ term'[i] = r[j]
        BY <2>6, <4>2
      <4>4. j > Len(r) - Len(n.active)
        <5>1. j \in Nat /\ i = top + j
          BY <2>3, <4>3
        <5>2. j > c - a
          BY <4>0, <5>1
        <5> QED
          BY <5>2 DEF a, c
      <4> QED
        BY <2>3, <4>3, <4>4 DEF Final
    <3> QED
      BY <3>1, <3>2
  <2>10. \A i \in DOMAIN term' :
           Final(term'[i]) => \/ i \in DOMAIN term /\ term'[i] = term[i]
                              \/ i = top + 1 /\ term'[i].key = key /\ ~IsFrozen(key) /\ IsFrozen(key)'
    BY <1>12, <2>3, <2>6 DEF Final
  <2>11. ~IsFrozen(key) /\ IsFrozen(key)' => \E i \in DOMAIN term' : Final(term'[i]) /\ term'[i].key = key
    <3> SUFFICES ASSUME ~IsFrozen(key), IsFrozen(key)'
                 PROVE  top + 1 \in DOMAIN term' /\ Final(term'[top + 1]) /\ term'[top + 1].key = key
      OBVIOUS
    <3>1. 1 \in 1..Len(r) /\ r[1].flag /\ r[1].key = key /\ r[1].kind = "bar"
      BY <1>12, <2>3
    <3> QED
      BY <2>3, <2>4, <2>5, <3>1 DEF Final
  <2>12. \A i \in DOMAIN term' : term'[i].kind # "bar" => i \in DOMAIN term /\ term'[i] = term[i]
    BY <2>3, <2>6
  <2>13. \A k \in Keys : IsFrozen(k)' <=> IsFrozen(k) \/ (k = key /\ IsFrozen(key)')
    BY <1>11, <1>12
  <2>14. top + 1 \in Nat
    BY <2>5
  <2>15. Redrawn(key)
    BY <1>9, <1>13, <1>14, <2>4, <2>7, <2>9, <2>10, <2>11, <2>12, <2>13, <2>14 DEF Redrawn
  <2> QED
    BY <1>15, <2>15
<1> QED
  BY <1>4, <1>18, <1>19

\* The final lines after a step that adds at most one, for a key that is frozen by this step.
LEMMA FinalOnceKept ==
  ASSUME FinalOnce, Keeps, NEW key, NEW spot,
         \A i \in DOMAIN term' :
           Final(term'[i]) => \/ i \in DOMAIN term /\ term'[i] = term[i]
                              \/ i = spot /\ term'[i].key = key /\ ~IsFrozen(key) /\ IsFrozen(key)',
         ~IsFrozen(key) /\ IsFrozen(key)' =>
           \E i \in DOMAIN term' : Final(term'[i]) /\ term'[i].key = key,
         \A k \in Keys : IsFrozen(k)' <=> IsFrozen(k) \/ (k = key /\ IsFrozen(key)')
  PROVE  FinalOnce'
<1> SUFFICES ASSUME NEW k \in Keys
             PROVE  /\ \A i, j \in DOMAIN term' : HasFinal(k, i)' /\ HasFinal(k, j)' => i = j
                    /\ IsFrozen(k)' <=> \E i \in DOMAIN term' : HasFinal(k, i)'
  BY DEF FinalOnce
<1>1. /\ \A i, j \in DOMAIN term : HasFinal(k, i) /\ HasFinal(k, j) => i = j
      /\ IsFrozen(k) <=> \E i \in DOMAIN term : HasFinal(k, i)
  BY DEF FinalOnce
<1>2. \A i : HasFinal(k, i)' <=> Final(term'[i]) /\ term'[i].key = k
  BY DEF HasFinal, Final
<1>3. ASSUME NEW i \in DOMAIN term', HasFinal(k, i)'
      PROVE  \/ i \in DOMAIN term /\ HasFinal(k, i)
             \/ i = spot /\ k = key /\ ~IsFrozen(k) /\ IsFrozen(k)'
  BY <1>2, <1>3 DEF HasFinal
<1>4. ASSUME NEW i \in DOMAIN term, HasFinal(k, i) PROVE i \in DOMAIN term' /\ HasFinal(k, i)'
  BY <1>2, <1>4 DEF HasFinal, Keeps
<1>5. ASSUME NEW i \in DOMAIN term', NEW j \in DOMAIN term', HasFinal(k, i)', HasFinal(k, j)'
      PROVE  i = j
  BY <1>1, <1>3, <1>5
<1>6. IsFrozen(k)' => \E i \in DOMAIN term' : HasFinal(k, i)'
  BY <1>1, <1>2, <1>4
<1>7. (\E i \in DOMAIN term' : HasFinal(k, i)') => IsFrozen(k)'
  BY <1>1, <1>3
<1> QED
  BY <1>5, <1>6, <1>7

\* Lines that are printed below, and are not about progress.
Printed(lines) ==
  /\ lines \in Seq(Lines) /\ Println(lines)
  /\ \A j \in 1..Len(lines) : lines[j].kind # "bar"

LEMMA PrintedFacts ==
  ASSUME ScreenTyped, BlocksRight, Windows, FinalOnce, UNCHANGED <<plan, block>>,
         NEW lines, Printed(lines)
  PROVE  /\ term' \in Seq(Lines) /\ row' = Len(term') /\ Keeps
         /\ BlocksRight' /\ Windows' /\ FinalOnce'
         /\ \A i \in DOMAIN term' : \/ i \in DOMAIN term /\ term'[i] = term[i]
                                    \/ \E j \in 1..Len(lines) : term'[i] = lines[j]
<1>1. /\ term' \in Seq(Lines) /\ row' = Len(term') /\ Len(term) \in Nat /\ Len(lines) \in Nat
      /\ Len(term') = Len(term) + Len(lines) /\ Keeps
      /\ \A i \in DOMAIN term' : \/ i \in DOMAIN term /\ term'[i] = term[i]
                                 \/ \E j \in 1..Len(lines) : i = Len(term) + j /\ term'[i] = lines[j]
  BY PrintlnFacts DEF Printed
<1>2. \A i \in DOMAIN term' : Final(term'[i]) => i \in DOMAIN term /\ term'[i] = term[i]
  BY <1>1 DEF Printed, Final
<1>3. block' = block /\ plan' = plan
  OBVIOUS
<1>4. BlocksRight'
  BY <1>3 DEF BlocksRight, Barred
<1>5. \A k \in Keys \cup {NoHook} : IsFrozen(k)' <=> IsFrozen(k)
  BY <1>3 DEF IsFrozen
<1>6. FinalOnce'
  BY <1>1, <1>2, <1>5, FinalOnceKept
<1>7. Windows'
  <2> SUFFICES ASSUME NEW name \in Names, NEW i \in DOMAIN term',
                      i > Len(term') - block[name].drawnActive, Final(term'[i])
               PROVE  FALSE
    BY <1>3 DEF Windows
  <2>1. i \in DOMAIN term /\ Final(term[i]) /\ DOMAIN term = 1..Len(term)
    BY <1>2, LenProperties DEF ScreenTyped
  <2>2. ~(i > Len(term) - block[name].drawnActive)
    BY <2>1 DEF Windows
  <2>3. block[name].drawnActive \in Nat
    BY DEF ScreenTyped, Blocks
  <2> QED
    BY <1>1, <2>1, <2>2, <2>3
<1> QED
  BY <1>1, <1>4, <1>6, <1>7

\* A message about progress.
LEMMA RedrawnFacts ==
  ASSUME FinalOnce, NEW key, Redrawn(key)
  PROVE  FinalOnce'
<1>1. PICK spot \in Nat : \A i \in DOMAIN term' :
        Final(term'[i]) => \/ i \in DOMAIN term /\ term'[i] = term[i]
                           \/ i = spot /\ term'[i].key = key /\ ~IsFrozen(key) /\ IsFrozen(key)'
  BY DEF Redrawn
<1>2. /\ Keeps
      /\ ~IsFrozen(key) /\ IsFrozen(key)' => \E i \in DOMAIN term' : Final(term'[i]) /\ term'[i].key = key
      /\ \A k \in Keys : IsFrozen(k)' <=> IsFrozen(k) \/ (k = key /\ IsFrozen(key)')
  BY DEF Redrawn
<1> QED
  BY <1>1, <1>2, FinalOnceKept

-----------------------------------------------------------------------------
(* The pipe *)

LEMMA SendFacts ==
  ASSUME pipe \in Seq(Messages), NEW m \in Messages, Send(m)
  PROVE  /\ pipe' \in Seq(Messages) /\ Len(pipe') = Len(pipe) + 1 /\ Len(pipe) \in Nat
         /\ Len(pipe') <= PipeSize /\ DOMAIN pipe = 1..Len(pipe) /\ DOMAIN pipe' = 1..Len(pipe')
         /\ \A i \in DOMAIN pipe : i \in DOMAIN pipe' /\ pipe'[i] = pipe[i]
         /\ Len(pipe') \in DOMAIN pipe' /\ pipe'[Len(pipe')] = m
         /\ \A i \in DOMAIN pipe' : i \in DOMAIN pipe \/ i = Len(pipe')
<1>1. PipeSize \in Nat /\ Len(pipe) < PipeSize /\ pipe' = Append(pipe, m)
  BY DisplayAssumption DEF Send
<1>2. /\ pipe' \in Seq(Messages) /\ Len(pipe') = Len(pipe) + 1 /\ Len(pipe) \in Nat
      /\ \A i \in 1..Len(pipe) : pipe'[i] = pipe[i]
      /\ pipe'[Len(pipe) + 1] = m
  BY <1>1, AppendProperties, LenProperties
<1>3. DOMAIN pipe = 1..Len(pipe) /\ DOMAIN pipe' = 1..(Len(pipe) + 1)
  BY <1>2, LenProperties
<1>4. /\ \A i \in 1..Len(pipe) : i \in 1..(Len(pipe) + 1)
      /\ Len(pipe) + 1 \in 1..(Len(pipe) + 1)
      /\ \A i \in 1..(Len(pipe) + 1) : i \in 1..Len(pipe) \/ i = Len(pipe) + 1
      /\ Len(pipe) + 1 <= PipeSize
  BY <1>1, <1>2
<1> QED
  BY <1>2, <1>3, <1>4

LEMMA TailFacts ==
  ASSUME pipe \in Seq(Messages), pipe # <<>>, pipe' = Tail(pipe)
  PROVE  /\ pipe' \in Seq(Messages) /\ Len(pipe') = Len(pipe) - 1 /\ Len(pipe) \in Nat
         /\ DOMAIN pipe = 1..Len(pipe) /\ DOMAIN pipe' = 1..Len(pipe')
         /\ 1 \in DOMAIN pipe /\ Head(pipe) = pipe[1] /\ Head(pipe) \in Messages
         /\ \A i \in DOMAIN pipe' : i + 1 \in DOMAIN pipe /\ pipe'[i] = pipe[i + 1]
         /\ \A i \in DOMAIN pipe : i # 1 => i - 1 \in DOMAIN pipe' /\ pipe'[i - 1] = pipe[i]
<1>1. /\ pipe' \in Seq(Messages) /\ Len(pipe') = Len(pipe) - 1 /\ Head(pipe) \in Messages
      /\ \A i \in 1..Len(pipe') : pipe'[i] = pipe[i + 1]
  BY HeadTailProperties
<1>2. Len(pipe) \in Nat /\ Len(pipe) # 0 /\ DOMAIN pipe = 1..Len(pipe) /\ Head(pipe) = pipe[1]
  BY LenProperties, EmptySeq, HeadTailProperties
<1>3. DOMAIN pipe' = 1..(Len(pipe) - 1)
  BY <1>1, LenProperties
<1>4. /\ 1 \in 1..Len(pipe)
      /\ \A i \in 1..(Len(pipe) - 1) : i + 1 \in 1..Len(pipe)
      /\ \A i \in 1..Len(pipe) : i # 1 => i - 1 \in 1..(Len(pipe) - 1) /\ (i - 1) + 1 = i
  BY <1>2
<1> QED
  BY <1>1, <1>2, <1>3, <1>4

-----------------------------------------------------------------------------
(* What the helper says *)

\* A message of the helper about progress, and one that ends the session.
Allowed(m) ==
  /\ m.kind = "bar" => m.key \in Barred /\ (m.key \in Packages => phase = "install")
  /\ Ends(m) =>
       /\ phase = "commit" /\ phase' = "over" /\ UNCHANGED <<broken, lastHook>>
       /\ IF HookError THEN m.kind = "error" /\ m.key = lastHook
                       ELSE m.kind = "error" => m.key = NoHook
  /\ m.kind = "step" =>
       /\ running # NoHook /\ m.key = running /\ m.value = (IF hookFailed THEN 1 ELSE 0)
       /\ running' = NoHook /\ warned' = warned

Tells == UNCHANGED pipe \/ \E m \in Messages : Send(m) /\ Allowed(m)

\* A line that the helper writes to the terminal itself.
Writes ==
  UNCHANGED screen \/ \E lines : Printed(lines) /\ \A j \in 1..Len(lines) : lines[j].kind = "out"

LEMMA OneLine ==
  ASSUME NEW kind \in {"bar", "step", "text", "out"}, NEW key \in Subjects, NEW flag \in BOOLEAN
  PROVE  /\ <<Line(kind, key, flag)>> \in Seq(Lines) /\ Len(<<Line(kind, key, flag)>>) = 1
         /\ \A j \in 1..Len(<<Line(kind, key, flag)>>) :
              /\ <<Line(kind, key, flag)>>[j].kind = kind /\ <<Line(kind, key, flag)>>[j].key = key
              /\ <<Line(kind, key, flag)>>[j].flag = flag
<1>1. Line(kind, key, flag) \in Lines
  BY DEF Line, Lines
<1>2. Line(kind, key, flag).kind = kind /\ Line(kind, key, flag).key = key /\ Line(kind, key, flag).flag = flag
  BY DEF Line
<1> QED
  BY <1>1, <1>2

LEMMA WritesOut ==
  ASSUME NEW key \in Subjects, NEW flag \in BOOLEAN, Println(<<Line("out", key, flag)>>)
  PROVE  Writes
<1>1. Printed(<<Line("out", key, flag)>>)
  BY OneLine DEF Printed
<1> QED
  BY <1>1, OneLine DEF Writes

LEMMA AMessage ==
  ASSUME NEW kind \in {"bar", "text", "step", "result", "error"}, NEW key \in Subjects,
         NEW value \in 0..Full
  PROVE  /\ Message(kind, key, value) \in Messages
         /\ Message(kind, key, value).kind = kind /\ Message(kind, key, value).key = key
         /\ Message(kind, key, value).value = value
BY DEF Message, Messages

\* An event of libalpm is a text.
LEMMA TellsEvent ==
  ASSUME Event
  PROVE  Tells
<1>1. 0 \in 0..Full /\ NoHook \in Subjects
  BY DEF Full, Subjects
<1>2. /\ Message("text", NoHook, 0) \in Messages /\ Message("text", NoHook, 0).kind = "text"
  BY <1>1, AMessage
<1> QED
  BY <1>2 DEF Event, Tells, Allowed, Ends

\* Progress of a key of the plan.
LEMMA TellsBar ==
  ASSUME NEW key \in Barred, key \in Keys, NEW value \in 0..Full,
         key \in Files \/ phase = "install", Send(Message("bar", key, value))
  PROVE  Tells
<1>1. key \in Subjects /\ Files \cap Packages = {}
  BY DisplayAssumption DEF Subjects
<1>2. /\ Message("bar", key, value) \in Messages /\ Message("bar", key, value).kind = "bar"
      /\ Message("bar", key, value).key = key
  BY <1>1, AMessage
<1> QED
  BY <1>1, <1>2 DEF Tells, Allowed, Ends

LEMMA AdvanceFacts ==
  ASSUME AlpmTyped, NEW key \in Keys, Advance(key)
  PROVE  at' \in [Keys -> 0..Full] /\ at[key] < Full /\ \A k \in Keys : k # key => at'[k] = at[k]
<1>1. PICK n \in at[key] + 1 .. Full : at' = [at EXCEPT ![key] = n]
  BY DEF Advance
<1>2. n \in 0..Full
  BY <1>1 DEF AlpmTyped, Full
<1> QED
  BY <1>1, <1>2 DEF AlpmTyped, Advance

LEMMA ReportFacts ==
  ASSUME Typed, NEW key \in Barred, key \in Keys, at' \in [Keys -> 0..Full],
         key \in Files \/ phase = "install", Report(key)
  PROVE  Tells /\ emitted' \in SUBSET Keys
<1>1. at'[key] \in 0..Full /\ emitted \in SUBSET Keys
  BY DEF Typed, HelperTyped
<1>2. CASE Send(Message("bar", key, at'[key])) /\ emitted' = emitted \cup {key}
  BY <1>1, <1>2, TellsBar
<1>3. CASE UNCHANGED <<pipe, emitted>>
  BY <1>1, <1>3 DEF Tells
<1> QED
  BY <1>2, <1>3 DEF Report

\* The pipe after a step of the helper.
LEMMA TellsFacts ==
  ASSUME HelperTyped, Tells
  PROVE  pipe' \in Seq(Messages) /\ Len(pipe') <= PipeSize
BY SendFacts DEF HelperTyped, Tells

-----------------------------------------------------------------------------
(* The steps of the helper *)

Helped ==
  /\ UNCHANGED parent /\ Tells /\ Writes /\ AlpmTyped'
  /\ warned' \in SUBSET Hooks /\ emitted' \in SUBSET Keys
  /\ lastHook' \in Hooks \cup {NoHook} /\ hookFailed' \in BOOLEAN

LEMMA PlanFacts ==
  ASSUME AlpmTyped
  PROVE  /\ plan.keys \subseteq Keys /\ plan.pre \in Seq(Hooks) /\ plan.post \in Seq(Hooks)
         /\ IsInjective(plan.pre \o plan.post)
BY DisplayAssumption DEF AlpmTyped

LEMMA DownloadSteps ==
  ASSUME Typed, NEW f \in plan.keys \cap Files,
         DownloadProgress(f) \/ DownloadCompleted(f) \/ DownloadFailed(f)
  PROVE  Helped
<1>1. f \in Keys /\ f \in Files /\ f \in plan.keys /\ Full \in 0..Full /\ 0 \in 0..Full
  BY DEF Keys, Full
<1>2. AlpmTyped /\ emitted \in SUBSET Keys /\ warned \in SUBSET Hooks /\ lastHook \in Hooks \cup {NoHook}
      /\ hookFailed \in BOOLEAN
  BY DEF Typed, HelperTyped
<1>3. CASE DownloadProgress(f)
  <2>1. at' \in [Keys -> 0..Full]
    BY <1>1, <1>2, <1>3, AdvanceFacts DEF DownloadProgress
  <2>2. Tells /\ emitted' \in SUBSET Keys
    <3>1. CASE f \notin Sizeless /\ Report(f)
      BY <1>1, <2>1, <3>1, ReportFacts DEF Barred
    <3>2. CASE UNCHANGED <<pipe, emitted>>
      BY <1>2, <3>2 DEF Tells
    <3> QED
      BY <1>3, <3>1, <3>2 DEF DownloadProgress
  <2>3. AlpmTyped'
    BY <1>2, <1>3, <2>1 DEF DownloadProgress, AlpmTyped, parent
  <2>4. Writes
    BY <1>3 DEF DownloadProgress, Writes
  <2> QED
    BY <1>2, <1>3, <2>2, <2>3, <2>4 DEF Helped, DownloadProgress, hookState
<1>4. CASE DownloadCompleted(f)
  <2>1. AlpmTyped'
    BY <1>1, <1>2, <1>4 DEF DownloadCompleted, AlpmTyped, parent
  <2>2. Tells /\ emitted' \in SUBSET Keys
    <3>1. CASE f \notin Sizeless
      BY <1>1, <1>2, <1>4, <3>1, TellsBar DEF DownloadCompleted, Barred
    <3>2. CASE f \in Sizeless
      BY <1>2, <1>4, <3>2 DEF DownloadCompleted, Tells
    <3> QED
      BY <3>1, <3>2
  <2>3. Writes
    BY <1>4 DEF DownloadCompleted, Writes
  <2> QED
    BY <1>2, <1>4, <2>1, <2>2, <2>3 DEF Helped, DownloadCompleted, hookState
<1>5. CASE DownloadFailed(f)
  <2>1. tries' \in [Files -> 0..MaxTries] /\ at' \in [Keys -> 0..Full]
    BY <1>1, <1>2, <1>5, DisplayAssumption DEF DownloadFailed, AlpmTyped
  <2>2. AlpmTyped'
    BY <1>2, <1>5, <2>1 DEF DownloadFailed, AlpmTyped, parent
  <2>3. Tells /\ emitted' \in SUBSET Keys
    BY <1>2, <1>5, TellsEvent DEF DownloadFailed
  <2>4. Writes
    BY <1>5 DEF DownloadFailed, Writes
  <2> QED
    BY <1>2, <1>5, <2>2, <2>3, <2>4 DEF Helped, DownloadFailed, hookState
<1> QED
  BY <1>3, <1>4, <1>5

LEMMA ScriptletFacts ==
  ASSUME Typed, NEW writer \in Subjects, NEW warning \in BOOLEAN, ScriptletInfo(writer, warning),
         warning => writer \in Hooks
  PROVE  Helped
<1>1. AlpmTyped /\ emitted \in SUBSET Keys /\ warned \in SUBSET Hooks /\ lastHook \in Hooks \cup {NoHook}
      /\ hookFailed \in BOOLEAN
  BY DEF Typed, HelperTyped
<1>2. Writes
  BY WritesOut DEF ScriptletInfo
<1>3. AlpmTyped'
  BY <1>1 DEF ScriptletInfo, AlpmTyped, parent
<1>4. Tells /\ UNCHANGED parent
  BY DEF ScriptletInfo, Tells
<1>5. warned' \in SUBSET Hooks /\ hookFailed' \in BOOLEAN
  BY <1>1 DEF ScriptletInfo
<1> QED
  BY <1>1, <1>2, <1>3, <1>4, <1>5 DEF Helped, ScriptletInfo

LEMMA InstallSteps ==
  ASSUME Typed, NEW k \in plan.keys \cap Packages,
         InstallProgress(k) \/ Scriptlet(k) \/ PackageDone(k)
  PROVE  Helped
<1>1. k \in Keys /\ k \in Subjects /\ k \in Barred
  BY DisplayAssumption DEF Keys, Subjects, Barred
<1>2. AlpmTyped /\ emitted \in SUBSET Keys /\ warned \in SUBSET Hooks /\ lastHook \in Hooks \cup {NoHook}
      /\ hookFailed \in BOOLEAN
  BY DEF Typed, HelperTyped
<1>3. CASE InstallProgress(k)
  <2>1. at' \in [Keys -> 0..Full]
    BY <1>1, <1>2, <1>3, AdvanceFacts DEF InstallProgress
  <2>2. Tells /\ emitted' \in SUBSET Keys
    BY <1>1, <1>3, <2>1, ReportFacts DEF InstallProgress
  <2>3. AlpmTyped'
    BY <1>2, <1>3, <2>1 DEF InstallProgress, AlpmTyped, parent
  <2>4. Writes
    BY <1>3 DEF InstallProgress, Writes
  <2> QED
    BY <1>2, <1>3, <2>2, <2>3, <2>4 DEF Helped, InstallProgress, hookState
<1>4. CASE Scriptlet(k)
  BY <1>1, <1>4, ScriptletFacts DEF Scriptlet
<1>5. CASE PackageDone(k)
  <2>1. AlpmTyped'
    BY <1>1, <1>2, <1>5 DEF PackageDone, AlpmTyped, parent
  <2>2. Tells
    BY <1>5, TellsEvent DEF PackageDone
  <2>3. Writes
    BY <1>5 DEF PackageDone, Writes
  <2> QED
    BY <1>2, <1>5, <2>1, <2>2, <2>3 DEF Helped, PackageDone, hookState
<1> QED
  BY <1>3, <1>4, <1>5

LEMMA HookSteps ==
  ASSUME Typed, NEW b \in BOOLEAN, HookRunStart \/ HookOutput(b) \/ HookRunDone(b)
  PROVE  Helped
<1>1. AlpmTyped /\ emitted \in SUBSET Keys /\ warned \in SUBSET Hooks /\ lastHook \in Hooks \cup {NoHook}
      /\ hookFailed \in BOOLEAN
  BY DEF Typed, HelperTyped
<1>2. CASE HookRunStart
  <2>1. todo \in Seq(Hooks) /\ todo # <<>> /\ Head(todo) \in Hooks /\ Tail(todo) \in Seq(Hooks)
    BY <1>1, <1>2, HeadTailProperties DEF AlpmTyped, HookRunStart
  <2>2. AlpmTyped' /\ lastHook' \in Hooks \cup {NoHook}
    BY <1>1, <1>2, <2>1 DEF HookRunStart, AlpmTyped, parent
  <2>3. Tells /\ Writes
    BY <1>2 DEF HookRunStart, Tells, Writes
  <2> QED
    BY <1>1, <1>2, <2>2, <2>3 DEF Helped, HookRunStart
<1>3. CASE HookOutput(b)
  <2>1. running \in Hooks /\ running \in Subjects
    BY <1>1, <1>3 DEF HookOutput, AlpmTyped, Subjects
  <2> QED
    BY <1>3, <2>1, ScriptletFacts DEF HookOutput
<1>4. CASE HookRunDone(b)
  <2>1. running \in Hooks /\ running \in Subjects
    BY <1>1, <1>4 DEF HookRunDone, AlpmTyped, Subjects
  <2>2. (IF hookFailed THEN 1 ELSE 0) \in 0..Full
    BY DEF Full
  <2>3. PICK v \in 0..Full : v = IF hookFailed THEN 1 ELSE 0
    BY <2>2
  <2>4. /\ Message("step", running, v) \in Messages /\ Message("step", running, v).kind = "step"
        /\ Message("step", running, v).key = running /\ Message("step", running, v).value = v
    BY <2>1, AMessage
  <2>5. Tells
    BY <1>4, <2>3, <2>4 DEF HookRunDone, Tells, Allowed, Ends, hookState
  <2>6. broken' \in SUBSET Hooks /\ phase' \in {"download", "pre", "install", "post", "commit", "over"}
        /\ todo' \in Seq(Hooks)
    <3>1. <<>> \in Seq(Hooks) /\ todo \in Seq(Hooks) /\ broken \in SUBSET Hooks
      BY <1>1, EmptySeq DEF AlpmTyped
    <3>2. broken' = broken \/ broken' = broken \cup {running}
      BY <1>4 DEF HookRunDone
    <3>3. (phase' = "commit" /\ todo' = <<>>) \/ UNCHANGED <<phase, todo>>
      BY <1>4 DEF HookRunDone
    <3> QED
      BY <1>1, <2>1, <3>1, <3>2, <3>3 DEF AlpmTyped
  <2>7. AlpmTyped'
    BY <1>1, <1>4, <2>6 DEF HookRunDone, AlpmTyped, parent
  <2> QED
    BY <1>1, <1>4, <2>5, <2>7 DEF Helped, HookRunDone, Writes, hookState
<1> QED
  BY <1>2, <1>3, <1>4

LEMMA PhaseSteps ==
  ASSUME Typed, Log \/ NextPhase \/ DownloadsFail \/ Return
  PROVE  Helped
<1>1. AlpmTyped /\ emitted \in SUBSET Keys /\ warned \in SUBSET Hooks /\ lastHook \in Hooks \cup {NoHook}
      /\ hookFailed \in BOOLEAN
  BY DEF Typed, HelperTyped
<1>2. CASE Log
  <2>1. logs' \in 0..MaxLogs
    BY <1>1, <1>2, DisplayAssumption DEF Log, AlpmTyped
  <2>2. AlpmTyped'
    BY <1>1, <1>2, <2>1 DEF Log, AlpmTyped, parent
  <2>3. Tells /\ Writes
    BY <1>2, TellsEvent DEF Log, Writes
  <2> QED
    BY <1>1, <1>2, <2>2, <2>3 DEF Helped, Log, hookState
<1>3. CASE NextPhase
  <2>1. PICK i \in 1..4 : phase' = Phases[i + 1]
    BY <1>3 DEF NextPhase
  <2>2. phase' \in {"pre", "install", "post", "commit"}
    BY <2>1 DEF Phases
  <2>3. todo' \in Seq(Hooks)
    BY <1>1, <1>3, PlanFacts DEF NextPhase
  <2>4. AlpmTyped'
    BY <1>1, <1>3, <2>2, <2>3 DEF NextPhase, AlpmTyped, parent
  <2>5. Tells /\ Writes
    BY <1>3, TellsEvent DEF NextPhase, Writes
  <2> QED
    BY <1>1, <1>3, <2>4, <2>5 DEF Helped, NextPhase, hookState
<1>4. CASE DownloadsFail
  <2>1. AlpmTyped'
    BY <1>1, <1>4 DEF DownloadsFail, AlpmTyped, parent
  <2>2. Tells /\ Writes
    BY <1>4 DEF DownloadsFail, Tells, Writes
  <2> QED
    BY <1>1, <1>4, <2>1, <2>2 DEF Helped, DownloadsFail, hookState
<1>5. CASE Return
  <2>1. AlpmTyped'
    BY <1>1, <1>5 DEF Return, AlpmTyped, parent
  <2>2. lastHook \in Subjects /\ NoHook \in Subjects /\ 0 \in 0..Full /\ TRUE \in BOOLEAN
    BY <1>1 DEF Subjects, Full
  <2>3. Writes
    BY <1>5, <2>2, WritesOut DEF Return, Writes
  <2>4. PICK m \in Messages : /\ Send(m) /\ m.kind \in {"result", "error"}
                              /\ IF HookError THEN m.kind = "error" /\ m.key = lastHook
                                              ELSE m.kind = "error" => m.key = NoHook
    <3>1. /\ Message("error", lastHook, 0) \in Messages /\ Message("error", lastHook, 0).kind = "error"
          /\ Message("error", lastHook, 0).key = lastHook
          /\ Message("error", NoHook, 0) \in Messages /\ Message("error", NoHook, 0).kind = "error"
          /\ Message("error", NoHook, 0).key = NoHook
          /\ Message("result", NoHook, 0) \in Messages /\ Message("result", NoHook, 0).kind = "result"
      BY <2>2, AMessage
    <3>2. IF HookError THEN Send(Message("error", lastHook, 0))
          ELSE Send(Message("result", NoHook, 0)) \/ Send(Message("error", NoHook, 0))
      BY <1>5 DEF Return
    <3> QED
      BY <3>1, <3>2
  <2>5. Tells
    BY <1>5, <2>4 DEF Return, Tells, Allowed, Ends, hookState
  <2> QED
    BY <1>1, <1>5, <2>1, <2>3, <2>5 DEF Helped, Return, hookState
<1> QED
  BY <1>2, <1>3, <1>4, <1>5

LEMMA HelperSteps ==
  ASSUME Typed, [Next]_vars, ~Receive
  PROVE  Helped
<1>1. CASE UNCHANGED vars
  <2>1. UNCHANGED <<parent, pipe, screen, alpm, warned, emitted, lastHook, hookFailed>>
    BY <1>1 DEF vars, parent, alpm, screen
  <2>2. AlpmTyped'
    BY <2>1 DEF Typed, AlpmTyped, alpm
  <2> QED
    BY <2>1, <2>2 DEF Helped, Tells, Writes, Typed, HelperTyped
<1>2. CASE \E f \in plan.keys \cap Files : DownloadProgress(f) \/ DownloadCompleted(f) \/ DownloadFailed(f)
  BY <1>2, DownloadSteps
<1>3. CASE \E k \in plan.keys \cap Packages : InstallProgress(k) \/ Scriptlet(k) \/ PackageDone(k)
  BY <1>3, InstallSteps
<1>4. CASE HookRunStart \/ \E b \in BOOLEAN : HookOutput(b) \/ HookRunDone(b)
  <2>1. TRUE \in BOOLEAN
    OBVIOUS
  <2> QED
    BY <1>4, <2>1, HookSteps
<1>5. CASE Log \/ NextPhase \/ DownloadsFail \/ Return
  BY <1>5, PhaseSteps
<1> QED
  BY <1>1, <1>2, <1>3, <1>4, <1>5 DEF Next, Terminated

-----------------------------------------------------------------------------
(* The parent receives a message *)

LEMMA NothingActive ==
  ASSUME ScreenTyped, BlocksRight, NEW name \in Names, Range(block[name].active) = {}
  PROVE  Len(block[name].active) = 0 /\ block[name].drawnActive = 0
<1>1. block[name].active \in Seq(Keys)
  BY DEF ScreenTyped, Blocks
<1>2. Len(block[name].active) = 0
  <2>1. DOMAIN block[name].active = 1..Len(block[name].active) /\ Len(block[name].active) \in Nat
    BY <1>1, LenProperties
  <2>2. 1 \notin 1..Len(block[name].active)
    BY <2>1 DEF Range
  <2> QED
    BY <2>1, <2>2
<1> QED
  BY <1>2 DEF BlocksRight, BlockRight

\* When every download is frozen, the lines of downloads are no longer drawn.
LEMMA DownloadsShown ==
  ASSUME ScreenTyped, BlocksRight, \A f \in Downloads : IsFrozen(f)
  PROVE  Len(block["download"].active) = 0 /\ block["download"].drawnActive = 0
<1>1. "download" \in Names
  BY DEF Names
<1>2. ASSUME NEW k \in Range(block["download"].active) PROVE FALSE
  <2>1. k \in block["download"].known /\ k \notin Range(block["download"].frozen)
    BY <1>1, <1>2 DEF BlocksRight, BlockRight
  <2>2. k \in Downloads /\ BlockOf(k) = "download"
    BY <1>1, <2>1 DEF BlocksRight, BlockOf, Downloads, Barred
  <2> QED
    BY <2>1, <2>2 DEF IsFrozen
<1> QED
  BY <1>1, <1>2, NothingActive

LEMMA QuietNow ==
  ASSUME Typed, BarsOfPlan, BlocksRight, DownloadsFirst, pipe # <<>>, pipe[1].kind = "bar",
         1 \in DOMAIN pipe
  PROVE  pipe[1].key \in Keys /\ pipe[1].key \in Barred /\ Quiet(pipe[1].key)
<1> DEFINE key == pipe[1].key
<1>1. key \in Barred /\ key \in Keys
  <2>1. AlpmTyped
    BY DEF Typed
  <2> QED
    BY <2>1, PlanFacts DEF BarsOfPlan, Barred
<1>2. ScreenTyped /\ "install" \in Names /\ "download" \in Names
  BY DEF Typed, Names
<1>3. CASE key \in Files
  <2>1. BlockOf(key) = "download" /\ key \in Downloads
    BY <1>1, <1>3 DEF BlockOf, Downloads, Barred
  <2>2. CASE block["install"].known = {}
    <3>1. Range(block["install"].active) = {}
      BY <1>2, <2>2 DEF BlocksRight, BlockRight
    <3>2. block["install"].drawnActive = 0
      BY <1>2, <3>1, NothingActive
    <3> QED
      BY <1>1, <2>1, <3>2 DEF Quiet, Names
  <2>3. CASE block["install"].known # {}
    <3>1. \A f \in Downloads : IsFrozen(f)
      BY <2>3 DEF DownloadsFirst
    <3> QED
      BY <1>1, <1>2, <2>1, <3>1, DownloadsShown DEF Quiet
  <2> QED
    BY <2>2, <2>3
<1>4. CASE key \notin Files
  <2>1. BlockOf(key) = "install" /\ key \in Packages
    BY <1>1, <1>4 DEF BlockOf, Keys
  <2>2. \A f \in Downloads : IsFrozen(f) \/ \E j \in 1 .. 1 - 1 : Completes(pipe[j], f)
    BY <2>1 DEF DownloadsFirst
  <2>3. 1 .. 1 - 1 = {}
    OBVIOUS
  <2>4. block["download"].drawnActive = 0
    BY <1>2, <2>2, <2>3, DownloadsShown
  <2> QED
    BY <1>1, <2>1, <2>4 DEF Quiet, Names
<1> QED
  BY <1>3, <1>4

\* What a message does: progress, a line, the end.
ReceivesBar(m) ==
  /\ m.kind = "bar" /\ m.key \in Keys /\ m.key \in Barred
  /\ Redrawn(m.key) /\ (m.value = Full => IsFrozen(m.key)') /\ outcome' = outcome

ReceivesLine(m) ==
  /\ m.kind \in {"text", "step"} /\ UNCHANGED <<block, outcome>>
  /\ \E lines : /\ Printed(lines)
                /\ \A j \in 1..Len(lines) : lines[j].kind = "step" =>
                     m.kind = "step" /\ lines[j].key = m.key /\ (lines[j].flag <=> m.value = 1)

ReceivesEnd(m) ==
  /\ Ends(m) /\ UNCHANGED <<block, screen>>
  /\ outcome' = IF m.kind = "result" THEN "ok" ELSE m.key

LEMMA StepLinesFacts ==
  ASSUME NEW hook \in Subjects, NEW failed \in BOOLEAN
  PROVE  /\ StepLines(hook, failed) \in Seq(Lines)
         /\ \A j \in 1..Len(StepLines(hook, failed)) :
              /\ StepLines(hook, failed)[j].kind \in {"step", "text"}
              /\ StepLines(hook, failed)[j].kind = "step" =>
                   /\ StepLines(hook, failed)[j].key = hook
                   /\ StepLines(hook, failed)[j].flag = failed
<1> DEFINE a == Line("step", hook, failed)
           b == Line("text", hook, TRUE)
<1>1. a \in Lines /\ b \in Lines
  BY DEF Line, Lines
<1>2. a.kind = "step" /\ a.key = hook /\ a.flag = failed /\ b.kind = "text"
  BY DEF Line
<1> HIDE DEF a, b
<1>3. CASE failed
  <2>1. StepLines(hook, failed) = <<a, b>>
    BY <1>3 DEF StepLines, a, b
  <2> QED
    BY <1>1, <1>2, <2>1
<1>4. CASE ~failed
  <2>1. StepLines(hook, failed) = <<a>>
    BY <1>4 DEF StepLines, a
  <2> QED
    BY <1>1, <1>2, <2>1
<1> QED
  BY <1>3, <1>4

LEMMA ReceiveFacts ==
  ASSUME Typed, BarsOfPlan, BlocksRight, Windows, DownloadsFirst, Receive
  PROVE  /\ UNCHANGED <<alpm, warned, emitted, lastHook, hookFailed, height>>
         /\ outcome = "none" /\ pipe # <<>> /\ pipe' = Tail(pipe) /\ 1 \in DOMAIN pipe
         /\ \E m \in Messages : m = pipe[1] /\ (ReceivesBar(m) \/ ReceivesLine(m) \/ ReceivesEnd(m))
<1>1. /\ UNCHANGED <<alpm, warned, emitted, lastHook, hookFailed, height>>
      /\ outcome = "none" /\ pipe # <<>> /\ pipe' = Tail(pipe)
  BY DEF Receive
<1>2. 1 \in DOMAIN pipe /\ Head(pipe) = pipe[1] /\ pipe[1] \in Messages
  BY <1>1, TailFacts DEF Typed, HelperTyped
<1>3. PICK m \in Messages : m = pipe[1]
  BY <1>2
<1> SUFFICES ReceivesBar(m) \/ ReceivesLine(m) \/ ReceivesEnd(m)
  BY <1>1, <1>2, <1>3
<1>4. m.key \in Subjects /\ m.value \in 0..Full
  BY <1>2, <1>3 DEF Messages
<1>5. CASE m.kind = "bar" /\ OnProgress(BlockOf(m.key), m.key, m.value) /\ UNCHANGED outcome
  <2>1. m.key \in Keys /\ m.key \in Barred /\ Quiet(m.key)
    BY <1>1, <1>2, <1>3, <1>5, QuietNow
  <2>2. ScreenTyped /\ plan' = plan
    BY <1>1 DEF Typed, alpm
  <2>3. Redrawn(m.key) /\ (m.value = Full => IsFrozen(m.key)')
    BY <1>4, <1>5, <2>1, <2>2, BarFacts
  <2>4. ReceivesBar(m)
    BY <1>5, <2>1, <2>3 DEF ReceivesBar
  <2> QED
    BY <2>4
<1>6. CASE m.kind = "text" /\ Println(<<Line("text", m.key, FALSE)>>) /\ UNCHANGED <<block, outcome>>
  <2>1. PICK key \in Subjects, no \in BOOLEAN : key = m.key /\ no = FALSE
    BY <1>4
  <2>2. PICK lines : lines = <<Line("text", key, no)>>
    OBVIOUS
  <2>3. lines \in Seq(Lines) /\ \A j \in 1..Len(lines) : lines[j].kind = "text"
    BY <2>2, OneLine
  <2>4. Printed(lines)
    BY <1>6, <2>1, <2>2, <2>3 DEF Printed
  <2>5. ReceivesLine(m)
    BY <1>6, <2>3, <2>4 DEF ReceivesLine
  <2> QED
    BY <2>5
<1>7. CASE m.kind = "step" /\ Println(StepLines(m.key, m.value = 1)) /\ UNCHANGED <<block, outcome>>
  <2>1. PICK failed \in BOOLEAN : failed = (m.value = 1)
    OBVIOUS
  <2>2. PICK lines : lines = StepLines(m.key, failed)
    OBVIOUS
  <2>3. /\ lines \in Seq(Lines)
        /\ \A j \in 1..Len(lines) :
             /\ lines[j].kind \in {"step", "text"}
             /\ lines[j].kind = "step" => lines[j].key = m.key /\ lines[j].flag = failed
    BY <1>4, <2>2, StepLinesFacts
  <2>4. Printed(lines)
    BY <1>7, <2>1, <2>2, <2>3 DEF Printed
  <2>5. ReceivesLine(m)
    BY <1>7, <2>1, <2>3, <2>4 DEF ReceivesLine
  <2> QED
    BY <2>5
<1>8. CASE /\ m.kind \in {"result", "error"}
           /\ outcome' = IF m.kind = "result" THEN "ok" ELSE m.key
           /\ UNCHANGED <<block, screen>>
  <2>1. ReceivesEnd(m)
    BY <1>8 DEF ReceivesEnd, Ends
  <2> QED
    BY <2>1
<1> QED
  BY <1>2, <1>3, <1>5, <1>6, <1>7, <1>8 DEF Receive

-----------------------------------------------------------------------------
(* The screen and the types *)

ScreenSafe ==
  /\ plan' = plan /\ height' = height
  /\ block' \in [Names -> Blocks] /\ term' \in Seq(Lines) /\ row' = Len(term')
  /\ BlocksRight' /\ FinalOnce' /\ Windows' /\ Keeps
  /\ \A k \in Keys : IsFrozen(k) => IsFrozen(k)'

LEMMA ScreenUnchanged ==
  ASSUME ScreenTyped, BlocksRight, FinalOnce, Windows, UNCHANGED <<plan, height, block, screen>>
  PROVE  ScreenSafe
<1>1. plan' = plan /\ height' = height /\ block' = block /\ term' = term /\ row' = row
  BY DEF screen
<1>2. \A k \in Keys : IsFrozen(k)' <=> IsFrozen(k)
  BY <1>1 DEF IsFrozen
<1>3. BlocksRight' /\ Windows' /\ Keeps
  BY <1>1 DEF BlocksRight, Barred, Windows, Keeps
<1>4. FinalOnce'
  BY <1>1, <1>2 DEF FinalOnce, HasFinal
<1> QED
  BY <1>1, <1>2, <1>3, <1>4 DEF ScreenSafe, ScreenTyped

LEMMA ScreenPrinted ==
  ASSUME ScreenTyped, BlocksRight, FinalOnce, Windows, UNCHANGED <<plan, height, block>>,
         NEW lines, Printed(lines)
  PROVE  ScreenSafe
<1>1. plan' = plan /\ height' = height /\ block' = block
  OBVIOUS
<1>2. \A k \in Keys : IsFrozen(k)' <=> IsFrozen(k)
  BY <1>1 DEF IsFrozen
<1> QED
  BY <1>1, <1>2, PrintedFacts DEF ScreenSafe, ScreenTyped

LEMMA ScreenStep ==
  ASSUME Typed, BarsOfPlan, BlocksRight, FinalOnce, Windows, DownloadsFirst, [Next]_vars
  PROVE  ScreenSafe
<1>0. ScreenTyped
  BY DEF Typed
<1>1. CASE Receive
  <2>1. plan' = plan /\ height' = height
    BY <1>1, ReceiveFacts DEF alpm
  <2>0. PICK m \in Messages : m = pipe[1] /\ (ReceivesBar(m) \/ ReceivesLine(m) \/ ReceivesEnd(m))
    BY <1>1, ReceiveFacts
  <2>2. CASE ReceivesBar(m)
    <3>1. Redrawn(m.key)
      BY <2>2 DEF ReceivesBar
    <3>2. FinalOnce'
      BY <3>1, RedrawnFacts
    <3> QED
      BY <2>1, <3>1, <3>2 DEF Redrawn, ScreenSafe
  <2>3. CASE ReceivesLine(m)
    BY <1>0, <2>1, <2>3, ScreenPrinted DEF ReceivesLine
  <2>4. CASE ReceivesEnd(m)
    BY <1>0, <2>1, <2>4, ScreenUnchanged DEF ReceivesEnd
  <2> QED
    BY <2>0, <2>2, <2>3, <2>4
<1>2. CASE ~Receive
  <2>1. UNCHANGED parent /\ Writes
    BY <1>2, HelperSteps DEF Helped
  <2>2. UNCHANGED <<plan, height, block>>
    BY <2>1 DEF parent
  <2> QED
    BY <1>0, <2>1, <2>2, ScreenUnchanged, ScreenPrinted DEF Writes
<1> QED
  BY <1>1, <1>2

LEMMA TypedStep ==
  ASSUME Typed, BarsOfPlan, BlocksRight, FinalOnce, Windows, DownloadsFirst, Blamed, [Next]_vars
  PROVE  Typed'
<1>1. ScreenSafe
  BY ScreenStep
<1>2. CASE Receive
  <2>1. /\ UNCHANGED <<alpm, warned, emitted, lastHook, hookFailed>>
        /\ pipe # <<>> /\ pipe' = Tail(pipe) /\ 1 \in DOMAIN pipe
    BY <1>2, ReceiveFacts
  <2>0. PICK m \in Messages : m = pipe[1] /\ (ReceivesBar(m) \/ ReceivesLine(m) \/ ReceivesEnd(m))
    BY <1>2, ReceiveFacts
  <2>2. AlpmTyped'
    BY <2>1 DEF Typed, AlpmTyped, alpm
  <2>3. pipe' \in Seq(Messages) /\ Len(pipe') <= PipeSize
    <3>1. /\ pipe' \in Seq(Messages) /\ Len(pipe') = Len(pipe) - 1 /\ Len(pipe) \in Nat
          /\ Len(pipe) <= PipeSize /\ PipeSize \in Nat
      BY <2>1, TailFacts, DisplayAssumption DEF Typed, HelperTyped
    <3> QED
      BY <3>1
  <2>4. HelperTyped'
    BY <2>1, <2>3 DEF Typed, HelperTyped
  <2>5. outcome' \in {"none", "ok"} \cup Hooks \cup {NoHook}
    <3>1. outcome' = outcome \/ outcome' = "ok" \/ (m.kind = "error" /\ outcome' = m.key)
      BY <2>0 DEF ReceivesBar, ReceivesLine, ReceivesEnd, Ends
    <3>2. m.kind = "error" => m.key \in Hooks \cup {NoHook}
      BY <2>0, <2>1 DEF Blamed, Typed, AlpmTyped
    <3> QED
      BY <3>1, <3>2 DEF Typed, ScreenTyped
  <2>6. ScreenTyped'
    BY <1>1, <2>5 DEF ScreenSafe, ScreenTyped, Typed
  <2> QED
    BY <2>2, <2>4, <2>6 DEF Typed
<1>3. CASE ~Receive
  <2>1. Helped
    BY <1>3, HelperSteps
  <2>2. HelperTyped'
    BY <2>1, TellsFacts DEF Helped, HelperTyped, Typed
  <2>3. ScreenTyped'
    BY <1>1, <2>1 DEF Helped, parent, ScreenSafe, ScreenTyped, Typed
  <2> QED
    BY <2>1, <2>2, <2>3 DEF Typed, Helped
<1> QED
  BY <1>2, <1>3

LEMMA BarsStep ==
  ASSUME Typed, BarsOfPlan, BlocksRight, Windows, DownloadsFirst, [Next]_vars
  PROVE  BarsOfPlan'
<1>1. pipe \in Seq(Messages)
  BY DEF Typed, HelperTyped
<1>2. CASE Receive
  <2>1. pipe # <<>> /\ pipe' = Tail(pipe) /\ plan' = plan
    BY <1>2, ReceiveFacts DEF alpm
  <2> QED
    BY <1>1, <2>1, TailFacts DEF BarsOfPlan, Barred
<1>3. CASE ~Receive
  <2>1. Tells /\ plan' = plan
    BY <1>3, HelperSteps DEF Helped, parent
  <2>2. CASE UNCHANGED pipe
    BY <2>1, <2>2 DEF BarsOfPlan, Barred
  <2>3. ASSUME NEW m \in Messages, Send(m), Allowed(m) PROVE BarsOfPlan'
    BY <1>1, <2>1, <2>3, SendFacts DEF BarsOfPlan, Allowed, Barred
  <2> QED
    BY <2>1, <2>2, <2>3 DEF Tells
<1> QED
  BY <1>2, <1>3

-----------------------------------------------------------------------------
(* The results of downloads and packages *)

\* A step of the helper adds at most one message; a message that is received is acted upon.
Told(k) == IsFrozen(k) \/ Pending(k)

LEMMA ToldStays ==
  ASSUME Typed, BarsOfPlan, BlocksRight, FinalOnce, Windows, DownloadsFirst, [Next]_vars,
         NEW k \in Keys, Told(k)
  PROVE  Told(k)'
<1>1. IsFrozen(k) => IsFrozen(k)'
  BY ScreenStep DEF ScreenSafe
<1>2. pipe \in Seq(Messages)
  BY DEF Typed, HelperTyped
<1>3. CASE Receive /\ Pending(k)
  <2>1. PICK i \in DOMAIN pipe : Completes(pipe[i], k)
    BY <1>3 DEF Pending
  <2>2. pipe # <<>> /\ pipe' = Tail(pipe)
    BY <1>3, ReceiveFacts
  <2>0. PICK m \in Messages : m = pipe[1] /\ (ReceivesBar(m) \/ ReceivesLine(m) \/ ReceivesEnd(m))
    BY <1>3, ReceiveFacts
  <2>3. CASE i = 1
    <3>1. ReceivesBar(m) /\ m.key = k /\ m.value = Full
      BY <2>0, <2>1, <2>3 DEF Completes, ReceivesLine, ReceivesEnd, Ends
    <3>2. IsFrozen(k)'
      BY <3>1 DEF ReceivesBar
    <3> QED
      BY <3>2 DEF Told
  <2>4. CASE i # 1
    <3>1. i - 1 \in DOMAIN pipe' /\ pipe'[i - 1] = pipe[i]
      BY <1>2, <2>2, <2>4, TailFacts
    <3>2. Completes(pipe'[i - 1], k)
      BY <2>1, <3>1
    <3>3. \E j \in DOMAIN pipe' : Completes(pipe'[j], k)
      BY <3>1, <3>2
    <3> QED
      BY <3>3 DEF Told, Pending, Completes
  <2> QED
    BY <2>3, <2>4
<1>4. CASE ~Receive /\ Pending(k)
  <2>1. PICK i \in DOMAIN pipe : Completes(pipe[i], k)
    BY <1>4 DEF Pending
  <2>2. Tells
    BY <1>4, HelperSteps DEF Helped
  <2>3. i \in DOMAIN pipe' /\ pipe'[i] = pipe[i]
    BY <1>2, <2>2, SendFacts DEF Tells
  <2>4. \E j \in DOMAIN pipe' : Completes(pipe'[j], k)
    BY <2>1, <2>3
  <2> QED
    BY <2>4 DEF Told, Pending, Completes
<1> QED
  BY <1>1, <1>3, <1>4 DEF Told

LEMMA ToldNow ==
  ASSUME Typed, NEW k \in Keys, Send(Message("bar", k, Full))
  PROVE  Told(k)'
<1>1. k \in Subjects /\ Full \in 0..Full
  BY DEF Subjects, Full
<1>2. PICK m \in Messages : m = Message("bar", k, Full) /\ m.kind = "bar" /\ m.key = k /\ m.value = Full
  BY <1>1, AMessage
<1>3. Len(pipe') \in DOMAIN pipe' /\ pipe'[Len(pipe')] = m
  BY <1>2, SendFacts DEF Typed, HelperTyped
<1>4. \E i \in DOMAIN pipe' : Completes(pipe'[i], k)
  BY <1>2, <1>3 DEF Completes
<1> QED
  BY <1>4 DEF Told, Pending, Completes

\* What a step completes.
LEMMA Completed ==
  ASSUME Typed, [Next]_vars
  PROVE  /\ \A k \in done' \ Sizeless : k \in done \/ (k \in Packages /\ at[k] = Full)
                                       \/ (k \in Keys /\ Send(Message("bar", k, Full)))
         /\ \A k \in Packages : at'[k] = Full => at[k] = Full \/ Send(Message("bar", k, Full))
<1>1. AlpmTyped /\ Files \cap Packages = {} /\ Packages \subseteq Keys /\ Files \subseteq Keys
  BY DisplayAssumption DEF Typed, Keys
<1>2. ASSUME UNCHANGED <<at, done>>
      PROVE  /\ \A k \in done' : k \in done
             /\ \A k \in Packages : at'[k] = Full => at[k] = Full
  BY <1>2
<1>3. ASSUME NEW f \in plan.keys \cap Files, DownloadProgress(f)
      PROVE  done' = done /\ \A k \in Packages : at'[k] = at[k]
  <2>1. Advance(f) /\ done' = done
    BY <1>3 DEF DownloadProgress
  <2> QED
    BY <1>1, <2>1, AdvanceFacts
<1>4. ASSUME NEW f \in plan.keys \cap Files, DownloadCompleted(f)
      PROVE  /\ done' = done \cup {f} /\ (f \in Sizeless \/ Send(Message("bar", f, Full))) /\ f \in Keys
             /\ \A k \in Packages : at'[k] = at[k]
  BY <1>1, <1>4 DEF DownloadCompleted, AlpmTyped
<1>5. ASSUME NEW f \in plan.keys \cap Files, DownloadFailed(f)
      PROVE  done' = done /\ \A k \in Packages : at'[k] = at[k]
  BY <1>1, <1>5 DEF DownloadFailed, AlpmTyped
<1>6. ASSUME NEW p \in plan.keys \cap Packages, InstallProgress(p)
      PROVE  /\ done' = done
             /\ \A k \in Packages : at'[k] = Full => at[k] = Full \/ Send(Message("bar", k, Full))
  <2>1. Advance(p) /\ Report(p) /\ done' = done
    BY <1>6 DEF InstallProgress
  <2>2. \A k \in Keys : k # p => at'[k] = at[k]
    BY <1>1, <2>1, AdvanceFacts
  <2>3. at'[p] = Full => Send(Message("bar", p, Full))
    BY <2>1 DEF Report
  <2> QED
    BY <1>1, <2>1, <2>2, <2>3
<1>7. ASSUME NEW p \in plan.keys \cap Packages, PackageDone(p)
      PROVE  done' = done \cup {p} /\ at[p] = Full /\ at' = at
  BY <1>7 DEF PackageDone
<1>8. CASE \/ UNCHANGED vars \/ Receive \/ \E k \in plan.keys \cap Packages : Scriptlet(k)
           \/ HookRunStart \/ \E b \in BOOLEAN : HookOutput(b) \/ HookRunDone(b)
           \/ Log \/ NextPhase \/ DownloadsFail \/ Return
  <2>1. UNCHANGED <<at, done>>
    <3>1. CASE UNCHANGED vars
      BY <3>1 DEF vars, alpm
    <3>2. CASE Receive
      BY <3>2 DEF Receive, alpm
    <3>3. CASE (\E k \in plan.keys \cap Packages : Scriptlet(k)) \/ \E b \in BOOLEAN : HookOutput(b)
      BY <3>3 DEF Scriptlet, HookOutput, ScriptletInfo
    <3>4. CASE HookRunStart \/ \E b \in BOOLEAN : HookRunDone(b)
      BY <3>4 DEF HookRunStart, HookRunDone
    <3>5. CASE Log \/ NextPhase \/ DownloadsFail \/ Return
      BY <3>5 DEF Log, NextPhase, DownloadsFail, Return
    <3> QED
      BY <1>8, <3>1, <3>2, <3>3, <3>4, <3>5
  <2> QED
    BY <1>2, <2>1
<1> QED
  BY <1>3, <1>4, <1>5, <1>6, <1>7, <1>8 DEF Next, Terminated

LEMMA ReportedStep ==
  ASSUME Typed, BarsOfPlan, BlocksRight, FinalOnce, Windows, DownloadsFirst, Reported, [Next]_vars
  PROVE  Reported'
<1>1. done \in SUBSET Keys /\ Packages \subseteq Keys
  BY DEF Typed, AlpmTyped, Keys
<1>2. /\ \A k \in done \ Sizeless : Told(k)
      /\ \A k \in Packages : at[k] = Full => Told(k)
  BY DEF Reported, Told
<1>3. \A k \in done' \ Sizeless : Told(k)'
  <2> SUFFICES ASSUME NEW k \in done' \ Sizeless PROVE Told(k)'
    OBVIOUS
  <2>1. k \in done \/ (k \in Packages /\ at[k] = Full) \/ (k \in Keys /\ Send(Message("bar", k, Full)))
    BY Completed
  <2> QED
    BY <1>1, <1>2, <2>1, ToldStays, ToldNow
<1>4. \A k \in Packages : at'[k] = Full => Told(k)'
  <2> SUFFICES ASSUME NEW k \in Packages, at'[k] = Full PROVE Told(k)'
    OBVIOUS
  <2>1. at[k] = Full \/ Send(Message("bar", k, Full))
    BY Completed
  <2> QED
    BY <1>1, <1>2, <2>1, ToldStays, ToldNow
<1> QED
  BY <1>3, <1>4 DEF Reported, Told

-----------------------------------------------------------------------------
(* The phases *)

\* What a step does to the phase.
LEMMA PhaseMoves ==
  ASSUME [Next]_vars
  PROVE  \/ phase' = phase
         \/ NextPhase
         \/ phase = "pre" /\ phase' = "commit"
         \/ phase = "download" /\ phase' = "commit"
         \/ phase = "commit" /\ phase' = "over"
<1>1. CASE UNCHANGED vars
  BY <1>1 DEF vars, alpm
<1>2. CASE Receive
  BY <1>2 DEF Receive, alpm
<1>3. CASE \E f \in plan.keys \cap Files : DownloadProgress(f) \/ DownloadCompleted(f) \/ DownloadFailed(f)
  BY <1>3 DEF DownloadProgress, DownloadCompleted, DownloadFailed
<1>4. CASE \E k \in plan.keys \cap Packages : InstallProgress(k) \/ Scriptlet(k) \/ PackageDone(k)
  BY <1>4 DEF InstallProgress, Scriptlet, PackageDone, ScriptletInfo
<1>5. CASE HookRunStart \/ \E b \in BOOLEAN : HookOutput(b) \/ HookRunDone(b)
  BY <1>5 DEF HookRunStart, HookOutput, HookRunDone, ScriptletInfo
<1>6. CASE Log \/ NextPhase \/ DownloadsFail \/ Return
  BY <1>6 DEF Log, DownloadsFail, Return
<1> QED
  BY <1>1, <1>2, <1>3, <1>4, <1>5, <1>6 DEF Next, Terminated

LEMMA NextPhaseFacts ==
  ASSUME NextPhase
  PROVE  /\ \/ phase = "download" /\ phase' = "pre" /\ Downloads \subseteq done /\ todo' = plan.pre
            \/ phase = "pre" /\ phase' = "install" /\ todo' = <<>> /\ todo = <<>>
            \/ phase = "install" /\ phase' = "post" /\ todo' = plan.post
            \/ phase = "post" /\ phase' = "commit" /\ todo' = <<>> /\ todo = <<>>
         /\ UNCHANGED <<plan, done, running, broken, warned, lastHook, hookFailed>>
<1>1. PICK i \in 1..4 : phase = Phases[i] /\ Complete /\ phase' = Phases[i + 1]
  BY DEF NextPhase
<1>2. /\ todo' = CASE phase' = "pre" -> plan.pre [] phase' = "post" -> plan.post [] OTHER -> <<>>
      /\ UNCHANGED <<plan, done, running, broken, warned, lastHook, hookFailed>>
  BY DEF NextPhase, parent, hookState
<1>3. i = 1 \/ i = 2 \/ i = 3 \/ i = 4
  BY <1>1
<1>4. \/ phase = "download" /\ phase' = "pre"
      \/ phase = "pre" /\ phase' = "install"
      \/ phase = "install" /\ phase' = "post"
      \/ phase = "post" /\ phase' = "commit"
  BY <1>1, <1>3 DEF Phases
<1> QED
  BY <1>1, <1>2, <1>4 DEF Complete, Downloads

\* When the transaction is over the helper does nothing more.
LEMMA OverStays ==
  ASSUME HookPhases, phase = "over", [Next]_vars, ~Receive
  PROVE  UNCHANGED vars
<1>1. running = NoHook /\ todo = <<>>
  BY DEF HookPhases
<1>2. ~NextPhase
  BY NextPhaseFacts
<1>3. \A b \in BOOLEAN : ~HookRunStart /\ ~HookOutput(b) /\ ~HookRunDone(b)
  BY <1>1 DEF HookRunStart, HookOutput, HookRunDone
<1>4. \A f : ~DownloadProgress(f) /\ ~DownloadCompleted(f) /\ ~DownloadFailed(f)
  BY DEF DownloadProgress, DownloadCompleted, DownloadFailed
<1>5. \A k : ~InstallProgress(k) /\ ~Scriptlet(k) /\ ~PackageDone(k)
  BY DEF InstallProgress, Scriptlet, PackageDone
<1>6. ~Log /\ ~DownloadsFail /\ ~Return /\ ~HookRunStart
  BY <1>1 DEF Log, DownloadsFail, Return, HookRunStart
<1> QED
  BY <1>2, <1>3, <1>4, <1>5, <1>6 DEF Next, Terminated

LEMMA DoneGrows ==
  ASSUME [Next]_vars
  PROVE  done \subseteq done'
<1>1. CASE UNCHANGED vars
  BY <1>1 DEF vars, alpm
<1>2. CASE Receive
  BY <1>2 DEF Receive, alpm
<1>3. CASE \E f \in plan.keys \cap Files : DownloadProgress(f) \/ DownloadCompleted(f) \/ DownloadFailed(f)
  BY <1>3 DEF DownloadProgress, DownloadCompleted, DownloadFailed
<1>4. CASE \E k \in plan.keys \cap Packages : InstallProgress(k) \/ Scriptlet(k) \/ PackageDone(k)
  BY <1>4 DEF InstallProgress, Scriptlet, PackageDone, ScriptletInfo
<1>5. CASE HookRunStart \/ \E b \in BOOLEAN : HookOutput(b) \/ HookRunDone(b)
  BY <1>5 DEF HookRunStart, HookOutput, HookRunDone, ScriptletInfo
<1>6. CASE Log \/ NextPhase \/ DownloadsFail \/ Return
  BY <1>6, NextPhaseFacts DEF Log, DownloadsFail, Return
<1> QED
  BY <1>1, <1>2, <1>3, <1>4, <1>5, <1>6 DEF Next, Terminated

LEMMA DownloadsFirstStep ==
  ASSUME Typed, BarsOfPlan, BlocksRight, FinalOnce, Windows, DownloadsFirst, Reported, [Next]_vars
  PROVE  DownloadsFirst'
<1>1. /\ plan' = plan /\ \A k \in Keys : IsFrozen(k) => IsFrozen(k)'
  BY ScreenStep DEF ScreenSafe
<1>2. Downloads' = Downloads /\ Downloads \subseteq Keys /\ pipe \in Seq(Messages)
  BY <1>1 DEF Downloads, Keys, Typed, HelperTyped
<1>3. phase' \in {"pre", "install", "post"} => Downloads \subseteq done'
  <2>1. phase' \in {"pre", "install", "post"} => Downloads \subseteq done
    <3>1. \/ phase' = phase
          \/ NextPhase
          \/ phase' = "commit"
          \/ phase' = "over"
      BY PhaseMoves
    <3>2. NextPhase /\ phase' \in {"pre", "install", "post"} => Downloads \subseteq done
      BY NextPhaseFacts DEF DownloadsFirst
    <3> QED
      BY <3>1, <3>2 DEF DownloadsFirst
  <2> QED
    BY <2>1, DoneGrows
<1>4. ASSUME NEW i \in DOMAIN pipe', pipe'[i].kind = "bar", pipe'[i].key \in Packages,
             NEW f \in Downloads
      PROVE  IsFrozen(f)' \/ \E j \in 1 .. i - 1 : Completes(pipe'[j], f)
  <2>1. CASE Receive
    <3>1. pipe # <<>> /\ pipe' = Tail(pipe)
      BY <2>1, ReceiveFacts
    <3>2. PICK m \in Messages : m = pipe[1] /\ (ReceivesBar(m) \/ ReceivesLine(m) \/ ReceivesEnd(m))
      BY <2>1, ReceiveFacts
    <3>3. i + 1 \in DOMAIN pipe /\ pipe'[i] = pipe[i + 1] /\ DOMAIN pipe' = 1..Len(pipe') /\ Len(pipe') \in Nat
      BY <1>2, <3>1, TailFacts, LenProperties
    <3>4. IsFrozen(f) \/ \E j \in 1 .. (i + 1) - 1 : Completes(pipe[j], f)
      BY <1>4, <3>3 DEF DownloadsFirst
    <3>5. ASSUME NEW j \in 1 .. (i + 1) - 1, Completes(pipe[j], f)
          PROVE  IsFrozen(f)' \/ \E l \in 1 .. i - 1 : Completes(pipe'[l], f)
      <4>1. CASE j = 1
        <5>1. ReceivesBar(m) /\ m.key = f /\ m.value = Full
          BY <3>2, <3>5, <4>1 DEF Completes, ReceivesLine, ReceivesEnd, Ends
        <5> QED
          BY <5>1 DEF ReceivesBar
      <4>2. CASE j # 1
        <5>1. j \in DOMAIN pipe /\ j - 1 \in 1 .. i - 1
          <6>1. i \in Nat /\ i + 1 \in 1..Len(pipe) /\ Len(pipe) \in Nat /\ DOMAIN pipe = 1..Len(pipe)
            BY <1>2, <3>3, LenProperties
          <6> QED
            BY <4>2, <6>1
        <5>2. pipe'[j - 1] = pipe[j]
          BY <1>2, <3>1, <4>2, <5>1, TailFacts
        <5>3. Completes(pipe'[j - 1], f)
          BY <3>5, <5>2
        <5> QED
          BY <5>1, <5>3
      <4> QED
        BY <4>1, <4>2
    <3> QED
      BY <1>1, <1>2, <3>4, <3>5
  <2>2. CASE ~Receive
    <3>1. Tells
      BY <2>2, HelperSteps DEF Helped
    <3>2. CASE i \in DOMAIN pipe /\ pipe'[i] = pipe[i] /\ \A j \in DOMAIN pipe : pipe'[j] = pipe[j]
      <4>1. IsFrozen(f) \/ \E j \in 1 .. i - 1 : Completes(pipe[j], f)
        BY <1>4, <3>2 DEF DownloadsFirst
      <4>2. DOMAIN pipe = 1..Len(pipe) /\ Len(pipe) \in Nat
        BY <1>2, LenProperties
      <4>3. \A j \in 1 .. i - 1 : j \in DOMAIN pipe
        BY <3>2, <4>2
      <4> QED
        BY <1>1, <1>2, <3>2, <4>1, <4>3
    <3>3. ASSUME NEW m \in Messages, Send(m), Allowed(m), i = Len(pipe'), pipe'[i] = m
          PROVE  IsFrozen(f)' \/ \E j \in 1 .. i - 1 : Completes(pipe'[j], f)
      <4>1. f \in done
        BY <1>4, <3>3 DEF Allowed, DownloadsFirst
      <4>2. IsFrozen(f) \/ Pending(f)
        BY <4>1 DEF Reported, Downloads
      <4>3. /\ \A j \in DOMAIN pipe : pipe'[j] = pipe[j]
            /\ DOMAIN pipe = 1..Len(pipe) /\ Len(pipe) \in Nat /\ i = Len(pipe) + 1
        BY <1>2, <3>3, SendFacts
      <4>4. i - 1 = Len(pipe)
        BY <4>3
      <4> QED
        BY <1>1, <1>2, <4>2, <4>3, <4>4 DEF Pending
    <3>4. CASE UNCHANGED pipe
      BY <3>2, <3>4
    <3>5. ASSUME NEW m \in Messages, Send(m), Allowed(m)
          PROVE  IsFrozen(f)' \/ \E j \in 1 .. i - 1 : Completes(pipe'[j], f)
      <4>1. \/ i \in DOMAIN pipe /\ pipe'[i] = pipe[i] /\ \A j \in DOMAIN pipe : pipe'[j] = pipe[j]
            \/ i = Len(pipe') /\ pipe'[i] = m
        BY <1>2, <3>5, SendFacts
      <4> QED
        BY <3>2, <3>3, <3>5, <4>1
    <3> QED
      BY <3>1, <3>4, <3>5 DEF Tells
  <2> QED
    BY <2>1, <2>2
<1>5. block'["install"].known # {} => \A f \in Downloads : IsFrozen(f)'
  <2>1. CASE block["install"].known # {}
    BY <1>1, <1>2, <2>1 DEF DownloadsFirst
  <2>2. CASE block' = block
    BY <1>1, <1>2, <2>2 DEF DownloadsFirst
  <2>3. CASE Receive
    <3>1. PICK m \in Messages : m = pipe[1] /\ (ReceivesBar(m) \/ ReceivesLine(m) \/ ReceivesEnd(m))
      BY <2>3, ReceiveFacts
    <3>2. 1 \in DOMAIN pipe
      BY <2>3, ReceiveFacts
    <3>3. CASE ReceivesBar(m) /\ BlockOf(m.key) = "install"
      <4>1. m.kind = "bar" /\ m.key \in Packages
        BY <3>3 DEF ReceivesBar, BlockOf, Keys
      <4>2. \A f \in Downloads : IsFrozen(f) \/ \E j \in 1 .. 1 - 1 : Completes(pipe[j], f)
        BY <3>1, <3>2, <4>1 DEF DownloadsFirst
      <4>3. 1 .. 1 - 1 = {}
        OBVIOUS
      <4> QED
        BY <1>1, <1>2, <4>2, <4>3
    <3>4. CASE ReceivesBar(m) /\ BlockOf(m.key) # "install"
      <4>1. block["install"].known # {} \/ block'["install"].known = {}
        BY <3>4 DEF ReceivesBar, Redrawn
      <4> QED
        BY <2>1, <4>1
    <3>5. CASE ReceivesLine(m) \/ ReceivesEnd(m)
      BY <2>2, <3>5 DEF ReceivesLine, ReceivesEnd
    <3> QED
      BY <3>1, <3>3, <3>4, <3>5
  <2>4. CASE ~Receive
    BY <2>2, <2>4, HelperSteps DEF Helped, parent
  <2> QED
    BY <2>3, <2>4
<1>6. \A i \in DOMAIN pipe' : pipe'[i].kind = "bar" /\ pipe'[i].key \in Packages =>
        \A f \in Downloads : IsFrozen(f)' \/ \E j \in 1 .. i - 1 : Completes(pipe'[j], f)
  BY <1>4
<1> QED
  BY <1>2, <1>3, <1>5, <1>6 DEF DownloadsFirst, Completes

LEMMA ResultLastStep ==
  ASSUME Typed, BarsOfPlan, BlocksRight, Windows, DownloadsFirst, HookPhases, ResultLast, [Next]_vars
  PROVE  ResultLast'
<1>1. pipe \in Seq(Messages) /\ DOMAIN pipe = 1..Len(pipe) /\ Len(pipe) \in Nat
  BY LenProperties DEF Typed, HelperTyped
<1>2. CASE Receive
  <2>1. /\ pipe # <<>> /\ pipe' = Tail(pipe) /\ phase' = phase /\ outcome = "none"
        /\ 1 \in DOMAIN pipe
    BY <1>2, ReceiveFacts DEF alpm
  <2>2. /\ Len(pipe') = Len(pipe) - 1 /\ pipe' \in Seq(Messages)
        /\ \A i \in DOMAIN pipe' : i + 1 \in DOMAIN pipe /\ pipe'[i] = pipe[i + 1] /\ i \in Nat
    BY <1>1, <2>1, TailFacts
  <2>3. ASSUME NEW i \in DOMAIN pipe', Ends(pipe'[i]) PROVE phase' = "over" /\ i = Len(pipe')
    <3>1. phase = "over" /\ i + 1 = Len(pipe)
      BY <2>2, <2>3 DEF ResultLast
    <3> QED
      BY <1>1, <2>1, <2>2, <3>1
  <2>4. ASSUME outcome' # "none" PROVE phase' = "over" /\ pipe' = <<>>
    <3>1. PICK m \in Messages : m = pipe[1] /\ (ReceivesBar(m) \/ ReceivesLine(m) \/ ReceivesEnd(m))
      BY <1>2, ReceiveFacts
    <3>2. Ends(m)
      BY <2>1, <2>4, <3>1 DEF ReceivesBar, ReceivesLine, ReceivesEnd
    <3>3. phase = "over" /\ 1 = Len(pipe)
      BY <2>1, <3>1, <3>2 DEF ResultLast
    <3>4. Len(pipe') = 0
      BY <2>2, <3>3
    <3> QED
      BY <2>1, <2>2, <3>3, <3>4, EmptySeq
  <2> QED
    BY <2>3, <2>4 DEF ResultLast, Ends
<1>3. CASE ~Receive /\ phase = "over"
  <2>1. UNCHANGED <<phase, pipe, outcome>>
    BY <1>3, OverStays DEF vars, alpm
  <2> QED
    BY <2>1 DEF ResultLast, Ends
<1>4. CASE ~Receive /\ phase # "over"
  <2>1. outcome = "none" /\ outcome' = outcome /\ \A i \in DOMAIN pipe : ~Ends(pipe[i])
    BY <1>4, HelperSteps DEF ResultLast, Helped, parent
  <2>2. Tells
    BY <1>4, HelperSteps DEF Helped
  <2>3. ASSUME NEW i \in DOMAIN pipe', Ends(pipe'[i]) PROVE phase' = "over" /\ i = Len(pipe')
    <3>1. CASE UNCHANGED pipe
      BY <2>1, <2>3, <3>1
    <3>2. ASSUME NEW m \in Messages, Send(m), Allowed(m) PROVE phase' = "over" /\ i = Len(pipe')
      <4>0. /\ \A l \in DOMAIN pipe : pipe'[l] = pipe[l]
            /\ \A l \in DOMAIN pipe' : l \in DOMAIN pipe \/ l = Len(pipe')
            /\ pipe'[Len(pipe')] = m
        BY <1>1, <3>2, SendFacts
      <4>1. (i \in DOMAIN pipe /\ pipe'[i] = pipe[i]) \/ (i = Len(pipe') /\ pipe'[i] = m)
        BY <4>0
      <4> QED
        BY <2>1, <2>3, <3>2, <4>1 DEF Allowed
    <3> QED
      BY <2>2, <3>1, <3>2 DEF Tells
  <2> QED
    BY <2>1, <2>3 DEF ResultLast, Ends
<1> QED
  BY <1>2, <1>3, <1>4

-----------------------------------------------------------------------------
(* Hooks *)

LEMMA HeadAndTail ==
  ASSUME NEW S, NEW s \in Seq(S), s # <<>>, IsInjective(s)
  PROVE  /\ Tail(s) \in Seq(S) /\ IsInjective(Tail(s)) /\ Head(s) \in Range(s)
         /\ Head(s) \notin Range(Tail(s)) /\ Range(Tail(s)) \subseteq Range(s)
<1>1. /\ Tail(s) \in Seq(S) /\ Len(Tail(s)) = Len(s) - 1 /\ Head(s) = s[1]
      /\ \A i \in 1..Len(Tail(s)) : Tail(s)[i] = s[i + 1]
  BY HeadTailProperties
<1>2. Len(s) \in Nat /\ Len(s) # 0 /\ DOMAIN s = 1..Len(s)
  BY LenProperties, EmptySeq
<1>3. DOMAIN Tail(s) = 1..(Len(s) - 1)
  BY <1>1, LenProperties
<1>4. /\ 1 \in 1..Len(s)
      /\ \A i \in 1..(Len(s) - 1) : i + 1 \in 1..Len(s) /\ i + 1 # 1
      /\ \A i, j \in 1..(Len(s) - 1) : i + 1 = j + 1 => i = j
  BY <1>2
<1>5. \A i, j \in 1..Len(s) : s[i] = s[j] => i = j
  BY <1>2 DEF IsInjective
<1>6. IsInjective(Tail(s))
  BY <1>1, <1>3, <1>4, <1>5 DEF IsInjective
<1>7. Head(s) \in Range(s) /\ Range(Tail(s)) \subseteq Range(s)
  BY <1>1, <1>2, <1>3, <1>4 DEF Range
<1>8. Head(s) \notin Range(Tail(s))
  BY <1>1, <1>3, <1>4, <1>5 DEF Range
<1> QED
  BY <1>1, <1>6, <1>7, <1>8

\* No hook is in both phases, or twice in one.
LEMMA HooksOfPlan ==
  ASSUME AlpmTyped
  PROVE  /\ IsInjective(plan.pre) /\ IsInjective(plan.post)
         /\ Range(plan.pre) \cap Range(plan.post) = {}
         /\ Range(plan.pre) \subseteq Hooks /\ Range(plan.post) \subseteq Hooks
<1> DEFINE a == plan.pre
           b == plan.post
<1>1. a \in Seq(Hooks) /\ b \in Seq(Hooks) /\ IsInjective(a \o b)
  BY PlanFacts
<1> HIDE DEF a, b
<1>2. /\ Len(a) \in Nat /\ Len(b) \in Nat /\ DOMAIN a = 1..Len(a) /\ DOMAIN b = 1..Len(b)
      /\ \A i \in 1..(Len(a) + Len(b)) : (a \o b)[i] = IF i <= Len(a) THEN a[i] ELSE b[i - Len(a)]
      /\ DOMAIN (a \o b) = 1..(Len(a) + Len(b))
  <2>1. a \o b \in Seq(Hooks) /\ Len(a \o b) = Len(a) + Len(b)
    BY <1>1, ConcatProperties
  <2> QED
    BY <1>1, <2>1, ConcatProperties, LenProperties
<1>3. \A i, j \in 1..(Len(a) + Len(b)) : (a \o b)[i] = (a \o b)[j] => i = j
  BY <1>1, <1>2 DEF IsInjective
<1>4. ASSUME NEW i \in 1..Len(a) PROVE i \in 1..(Len(a) + Len(b)) /\ (a \o b)[i] = a[i]
  <2>1. i \in 1..(Len(a) + Len(b)) /\ i <= Len(a)
    BY <1>2
  <2> QED
    BY <1>2, <2>1
<1>5. ASSUME NEW i \in 1..Len(b)
      PROVE  Len(a) + i \in 1..(Len(a) + Len(b)) /\ (a \o b)[Len(a) + i] = b[i]
  <2>1. /\ Len(a) + i \in 1..(Len(a) + Len(b)) /\ ~(Len(a) + i <= Len(a)) /\ (Len(a) + i) - Len(a) = i
    BY <1>2
  <2> QED
    BY <1>2, <2>1
<1>6. IsInjective(a)
  BY <1>2, <1>3, <1>4 DEF IsInjective
<1>7. IsInjective(b)
  <2>1. \A i, j \in 1..Len(b) : Len(a) + i = Len(a) + j => i = j
    BY <1>2
  <2> QED
    BY <1>2, <1>3, <1>5, <2>1 DEF IsInjective
<1>8. \A i \in 1..Len(a), j \in 1..Len(b) : a[i] # b[j]
  <2>1. \A i \in 1..Len(a), j \in 1..Len(b) : i # Len(a) + j
    BY <1>2
  <2> QED
    BY <1>3, <1>4, <1>5, <2>1
<1>9. Range(a) \cap Range(b) = {}
  BY <1>2, <1>8 DEF Range
<1>10. Range(a) \subseteq Hooks /\ Range(b) \subseteq Hooks
  BY <1>1, <1>2, ElementOfSeq DEF Range
<1> QED
  BY <1>6, <1>7, <1>9, <1>10 DEF a, b

\* What the hooks depend on.
HookVars == <<plan, phase, todo, running, broken, warned, lastHook, hookFailed>>

LEMMA HookVarsUnchanged ==
  ASSUME [Next]_vars
  PROVE  \/ UNCHANGED HookVars
         \/ HookRunStart \/ (\E b \in BOOLEAN : HookOutput(b)) \/ (\E b \in BOOLEAN : HookRunDone(b))
         \/ NextPhase \/ DownloadsFail \/ Return
<1>1. CASE UNCHANGED vars
  BY <1>1 DEF vars, alpm, HookVars
<1>2. CASE Receive
  BY <1>2 DEF Receive, alpm, HookVars
<1>3. CASE \E f \in plan.keys \cap Files : DownloadProgress(f) \/ DownloadCompleted(f) \/ DownloadFailed(f)
  BY <1>3 DEF DownloadProgress, DownloadCompleted, DownloadFailed, HookVars, hookState, parent
<1>4. CASE \E k \in plan.keys \cap Packages : InstallProgress(k) \/ Scriptlet(k) \/ PackageDone(k)
  BY <1>4 DEF InstallProgress, Scriptlet, PackageDone, ScriptletInfo, HookVars, hookState, parent
<1>5. CASE Log
  BY <1>5 DEF Log, HookVars, hookState, parent
<1> QED
  BY <1>1, <1>2, <1>3, <1>4, <1>5 DEF Next, Terminated

LEMMA FutureFacts ==
  ASSUME AlpmTyped
  PROVE  Future \subseteq Hooks /\ NoHook \notin Hooks
<1>1. todo \in Seq(Hooks) /\ DOMAIN todo = 1..Len(todo)
  BY LenProperties DEF AlpmTyped
<1>2. Range(todo) \subseteq Hooks
  BY <1>1, ElementOfSeq DEF Range
<1>3. NoHook \notin Hooks
  BY DisplayAssumption
<1> QED
  BY <1>2, <1>3, HooksOfPlan DEF Future

\* A hook begins.
LEMMA StartFacts ==
  ASSUME AlpmTyped, HookPhases, HookRunStart
  PROVE  /\ phase \in {"pre", "post"} /\ phase' = phase /\ plan' = plan /\ broken' = broken
         /\ warned' = warned /\ running = NoHook /\ running' \in Range(todo) /\ running' \in Future
         /\ lastHook' = running' /\ hookFailed' = FALSE
         /\ IsInjective(todo') /\ Range(todo') \subseteq Range(todo) /\ running' \notin Range(todo')
         /\ Future' \subseteq Future /\ running' \notin Future'
<1>1. /\ running = NoHook /\ todo # <<>> /\ running' = Head(todo) /\ todo' = Tail(todo)
      /\ lastHook' = Head(todo) /\ hookFailed' = FALSE /\ phase' = phase /\ plan' = plan
      /\ broken' = broken /\ warned' = warned
  BY DEF HookRunStart, parent
<1>2. phase \in {"pre", "post"}
  BY <1>1 DEF HookPhases
<1>3. /\ IsInjective(todo') /\ running' \in Range(todo) /\ running' \notin Range(todo')
      /\ Range(todo') \subseteq Range(todo)
  BY <1>1, HeadAndTail DEF HookPhases, AlpmTyped
<1>4. running' \in Future /\ Future' \subseteq Future
  BY <1>1, <1>3 DEF Future
<1>5. running' \notin Future'
  <2>1. CASE phase = "pre"
    <3>1. running' \in Range(plan.pre)
      BY <1>3, <2>1 DEF HookPhases
    <3>2. Future' = Range(todo') \cup Range(plan.post)
      BY <1>1, <2>1 DEF Future
    <3> QED
      BY <1>3, <3>1, <3>2, HooksOfPlan
  <2>2. CASE phase = "post"
    <3>1. Future' = Range(todo')
      BY <1>1, <2>2 DEF Future
    <3> QED
      BY <1>3, <3>1
  <2> QED
    BY <1>2, <2>1, <2>2
<1> QED
  BY <1>1, <1>2, <1>3, <1>4, <1>5

\* A hook writes a line, or is done.
LEMMA OutputFacts ==
  ASSUME NEW b \in BOOLEAN, HookOutput(b)
  PROVE  /\ running # NoHook
         /\ UNCHANGED <<plan, phase, todo, running, broken, lastHook>>
         /\ \/ hookFailed' = TRUE /\ warned' = warned \cup {running}
            \/ hookFailed' = hookFailed /\ warned' = warned
BY DEF HookOutput, ScriptletInfo, parent

LEMMA DoneFacts ==
  ASSUME NEW b \in BOOLEAN, HookRunDone(b)
  PROVE  /\ running # NoHook /\ running' = NoHook /\ UNCHANGED <<plan, warned, lastHook, hookFailed>>
         /\ broken' = IF b THEN broken \cup {running} ELSE broken
         /\ \/ phase = "pre" /\ b /\ running \in AbortOnFail /\ phase' = "commit" /\ todo' = <<>>
            \/ /\ ~(phase = "pre" /\ b /\ running \in AbortOnFail)
               /\ phase' = phase /\ todo' = todo
BY DEF HookRunDone, parent, hookState

LEMMA EmptyRange == Range(<<>>) = {} /\ IsInjective(<<>>)
BY DEF Range, IsInjective

\* A hook that is over, or runs, does not run again.
LEMMA FutureShrinks ==
  ASSUME AlpmTyped, HookPhases, [Next]_vars
  PROVE  Future' \subseteq Future /\ running' \in Future \cup {running, NoHook}
<1>1. CASE UNCHANGED HookVars
  BY <1>1 DEF HookVars, Future
<1>2. CASE HookRunStart
  BY <1>2, StartFacts
<1>3. CASE \E b \in BOOLEAN : HookOutput(b)
  <2>1. UNCHANGED <<plan, phase, todo, running>>
    BY <1>3, OutputFacts
  <2> QED
    BY <2>1 DEF Future
<1>4. CASE \E b \in BOOLEAN : HookRunDone(b)
  <2>1. running' = NoHook /\ plan' = plan
    BY <1>4, DoneFacts
  <2>2. (phase' = "commit" /\ todo' = <<>>) \/ (phase' = phase /\ todo' = todo)
    BY <1>4, DoneFacts
  <2> QED
    BY <2>1, <2>2, EmptyRange DEF Future
<1>5. CASE NextPhase
  BY <1>5, NextPhaseFacts, EmptyRange DEF Future
<1>6. CASE DownloadsFail \/ Return
  <2>1. /\ \/ phase = "download" /\ phase' = "commit"
           \/ phase = "commit" /\ phase' = "over"
        /\ UNCHANGED <<plan, todo, running>>
    BY <1>6 DEF DownloadsFail, Return, parent
  <2> QED
    BY <2>1 DEF Future
<1> QED
  BY <1>1, <1>2, <1>3, <1>4, <1>5, <1>6, HookVarsUnchanged

LEMMA HookPhasesStep ==
  ASSUME AlpmTyped, HookPhases, Steps, [Next]_vars
  PROVE  HookPhases'
<1>0. NoHook \notin Future /\ Future \subseteq Hooks /\ warned \cap Future = {} /\ NoHook \notin Hooks
  BY FutureFacts DEF Steps
<1>1. CASE UNCHANGED HookVars
  BY <1>1 DEF HookVars, HookPhases, Future
<1>2. CASE HookRunStart
  <2>1. running' # NoHook /\ running' \notin warned'
    BY <1>0, <1>2, StartFacts
  <2> QED
    BY <1>2, <2>1, StartFacts DEF HookPhases
<1>3. CASE \E b \in BOOLEAN : HookOutput(b)
  <2>1. /\ running # NoHook /\ UNCHANGED <<plan, phase, todo, running, broken, lastHook>>
        /\ \/ hookFailed' = TRUE /\ warned' = warned \cup {running}
           \/ hookFailed' = hookFailed /\ warned' = warned
    BY <1>3, OutputFacts
  <2>2. Future' = Future
    BY <2>1 DEF Future
  <2>3. hookFailed' <=> running' \in warned'
    BY <2>1 DEF HookPhases
  <2> QED
    BY <2>1, <2>2, <2>3 DEF HookPhases
<1>4. CASE \E b \in BOOLEAN : HookRunDone(b)
  <2>1. running' = NoHook /\ plan' = plan /\ running # NoHook
    BY <1>4, DoneFacts
  <2>2. (phase' = "commit" /\ todo' = <<>>) \/ (phase' = phase /\ todo' = todo)
    BY <1>4, DoneFacts
  <2>3. running' \notin Future'
    BY <1>0, <2>1, FutureShrinks
  <2> QED
    BY <2>1, <2>2, <2>3, EmptyRange DEF HookPhases
<1>5. CASE NextPhase
  <2>1. UNCHANGED <<plan, running, warned, lastHook, hookFailed>>
    BY <1>5, NextPhaseFacts
  <2>2. running = NoHook
    <3>1. CASE phase \in {"download", "install"}
      BY <3>1 DEF HookPhases
    <3>2. CASE phase \in {"pre", "post"}
      BY <1>5, <3>2 DEF NextPhase, Complete
    <3> QED
      BY <1>5, <3>1, <3>2, NextPhaseFacts
  <2>3. running' \notin Future'
    BY <1>0, <2>1, <2>2, FutureShrinks
  <2>4. \/ phase' = "pre" /\ todo' = plan.pre
        \/ phase' \in {"install", "commit"} /\ todo' = <<>>
        \/ phase' = "post" /\ todo' = plan.post
    BY <1>5, NextPhaseFacts
  <2> QED
    BY <2>1, <2>2, <2>3, <2>4, HooksOfPlan, EmptyRange DEF HookPhases
<1>6. CASE DownloadsFail \/ Return
  <2>1. /\ phase \in {"download", "commit"} /\ phase' \in {"commit", "over"}
        /\ UNCHANGED <<plan, todo, running>>
    BY <1>6 DEF DownloadsFail, Return, parent
  <2>2. running' \notin Future'
    BY <1>0, <2>1, FutureShrinks DEF HookPhases
  <2> QED
    BY <2>1, <2>2 DEF HookPhases
<1> QED
  BY <1>1, <1>2, <1>3, <1>4, <1>5, <1>6, HookVarsUnchanged

LEMMA WarnedGrows ==
  ASSUME [Next]_vars
  PROVE  \/ warned' = warned
         \/ warned' = warned \cup {running} /\ UNCHANGED <<plan, phase, todo, running>>
<1>1. CASE UNCHANGED HookVars
  BY <1>1 DEF HookVars
<1>2. CASE HookRunStart
  BY <1>2 DEF HookRunStart
<1>3. CASE \E b \in BOOLEAN : HookOutput(b)
  BY <1>3, OutputFacts
<1>4. CASE \E b \in BOOLEAN : HookRunDone(b)
  BY <1>4, DoneFacts
<1>5. CASE NextPhase
  BY <1>5, NextPhaseFacts
<1>6. CASE DownloadsFail \/ Return
  BY <1>6 DEF DownloadsFail, Return, hookState
<1> QED
  BY <1>1, <1>2, <1>3, <1>4, <1>5, <1>6, HookVarsUnchanged

\* Nothing more is said of a hook that is over.
LEMMA OverForGood ==
  ASSUME AlpmTyped, HookPhases, [Next]_vars, NEW h, Over(h)
  PROVE  Over(h)' /\ (h \in warned' <=> h \in warned)
<1>1. h \in Hooks /\ h \notin Future /\ h # running /\ NoHook \notin Hooks
  BY FutureFacts DEF Over
<1>2. h \notin Future' /\ h # running'
  BY <1>1, FutureShrinks
<1>3. h \in warned' <=> h \in warned
  BY <1>1, WarnedGrows
<1> QED
  BY <1>1, <1>2, <1>3 DEF Over

\* A line about a hook is about one that is over, and is right about its failure; before and
\* after a step.
Right(h, failed) == Over(h) /\ (failed <=> h \in warned)

RightNext(h, failed) ==
  h \in Hooks /\ h \notin Future' /\ h # running' /\ (failed <=> h \in warned')

LEMMA StepsStep ==
  ASSUME Typed, BarsOfPlan, BlocksRight, FinalOnce, Windows, DownloadsFirst, HookPhases, Steps,
         Blamed, [Next]_vars
  PROVE  Steps'
<1>0. AlpmTyped /\ pipe \in Seq(Messages) /\ ScreenTyped
  BY DEF Typed, HelperTyped
<1>1. /\ warned \cap Future = {}
      /\ \A i \in DOMAIN pipe : pipe[i].kind = "step" => Right(pipe[i].key, pipe[i].value = 1)
      /\ \A i \in DOMAIN term : term[i].kind = "step" => Right(term[i].key, term[i].flag)
  BY DEF Steps, Right
<1>2. ASSUME NEW h, NEW failed, Right(h, failed) PROVE RightNext(h, failed)
  <2>1. Over(h)' /\ (h \in warned' <=> h \in warned)
    BY <1>0, <1>2, OverForGood DEF Right
  <2> QED
    BY <1>2, <2>1 DEF Right, RightNext, Over
<1>3. warned' \cap Future' = {}
  <2>1. Future' \subseteq Future /\ running \notin Future
    BY <1>0, FutureShrinks DEF HookPhases
  <2> QED
    BY <1>1, <2>1, WarnedGrows
<1>4. ASSUME NEW c \in Messages, c.kind = "step", NEW i \in DOMAIN pipe', pipe'[i] = c
      PROVE  RightNext(c.key, c.value = 1)
  <2>1. ASSUME NEW l \in DOMAIN pipe, pipe[l] = c PROVE RightNext(c.key, c.value = 1)
    BY <1>1, <1>2, <1>4, <2>1
  <2>2. CASE Receive
    <3>1. pipe # <<>> /\ pipe' = Tail(pipe)
      BY <2>2, ReceiveFacts
    <3>2. i + 1 \in DOMAIN pipe /\ pipe'[i] = pipe[i + 1]
      BY <1>0, <3>1, TailFacts
    <3> QED
      BY <1>4, <2>1, <3>2
  <2>3. CASE ~Receive
    <3>1. Tells
      BY <2>3, HelperSteps DEF Helped
    <3>2. CASE UNCHANGED pipe
      BY <1>4, <2>1, <3>2
    <3>3. ASSUME NEW m \in Messages, Send(m), Allowed(m) PROVE RightNext(c.key, c.value = 1)
      <4>1. /\ \A l \in DOMAIN pipe : pipe'[l] = pipe[l]
            /\ \A l \in DOMAIN pipe' : l \in DOMAIN pipe \/ l = Len(pipe')
            /\ pipe'[Len(pipe')] = m
        BY <1>0, <3>3, SendFacts
      <4>2. CASE i \in DOMAIN pipe
        BY <1>4, <2>1, <4>1, <4>2
      <4>3. CASE c = m
        <5>1. /\ running # NoHook /\ c.key = running /\ c.value = (IF hookFailed THEN 1 ELSE 0)
              /\ running' = NoHook /\ warned' = warned
          BY <1>4, <3>3, <4>3 DEF Allowed
        <5>2. c.value = 1 <=> running \in warned
          BY <5>1 DEF HookPhases
        <5>3. running \in Hooks /\ running \notin Future'
          BY <1>0, <5>1, FutureShrinks DEF HookPhases, AlpmTyped
        <5> QED
          BY <5>1, <5>2, <5>3 DEF RightNext
      <4> QED
        BY <1>4, <4>1, <4>2, <4>3
    <3> QED
      BY <3>1, <3>2, <3>3 DEF Tells
  <2> QED
    BY <2>2, <2>3
<1>5. ASSUME NEW c, c.kind = "step", NEW i \in DOMAIN term', term'[i] = c
      PROVE  RightNext(c.key, c.flag)
  <2>1. ASSUME NEW l \in DOMAIN term, term[l] = c PROVE RightNext(c.key, c.flag)
    BY <1>1, <1>2, <1>5, <2>1
  <2>2. CASE UNCHANGED screen
    BY <1>5, <2>1, <2>2 DEF screen
  <2>3. CASE Receive
    <3>1. PICK m \in Messages : m = pipe[1] /\ (ReceivesBar(m) \/ ReceivesLine(m) \/ ReceivesEnd(m))
      BY <2>3, ReceiveFacts
    <3>2. CASE ReceivesBar(m)
      <4>1. term'[i].kind # "bar" => i \in DOMAIN term /\ term'[i] = term[i]
        BY <3>2 DEF ReceivesBar, Redrawn
      <4> QED
        BY <1>5, <2>1, <4>1
    <3>3. CASE ReceivesLine(m)
      <4>1. PICK lines : /\ Printed(lines)
                         /\ \A j \in 1..Len(lines) : lines[j].kind = "step" =>
                              m.kind = "step" /\ lines[j].key = m.key /\ (lines[j].flag <=> m.value = 1)
        BY <3>3 DEF ReceivesLine
      <4>2. UNCHANGED <<plan, block>>
        BY <2>3, <3>3, ReceiveFacts DEF ReceivesLine, alpm
      <4>3. \/ i \in DOMAIN term /\ term'[i] = term[i]
            \/ \E j \in 1..Len(lines) : term'[i] = lines[j]
        BY <1>0, <4>1, <4>2, PrintedFacts
      <4>4. ASSUME NEW j \in 1..Len(lines), c = lines[j] PROVE RightNext(c.key, c.flag)
        <5>1. m.kind = "step" /\ c.key = m.key /\ (c.flag <=> m.value = 1)
          BY <1>5, <4>1, <4>4
        <5>2. 1 \in DOMAIN pipe
          BY <2>3, ReceiveFacts
        <5>3. RightNext(m.key, m.value = 1)
          BY <1>1, <1>2, <3>1, <5>1, <5>2
        <5> QED
          BY <5>1, <5>3 DEF RightNext
      <4> QED
        BY <1>5, <2>1, <4>3, <4>4
    <3>4. CASE ReceivesEnd(m)
      BY <2>2, <3>4 DEF ReceivesEnd
    <3> QED
      BY <3>1, <3>2, <3>3, <3>4
  <2>4. CASE ~Receive
    <3>1. Writes /\ UNCHANGED <<plan, block>>
      BY <2>4, HelperSteps DEF Helped, parent
    <3>2. ASSUME NEW lines, Printed(lines), \A j \in 1..Len(lines) : lines[j].kind = "out"
          PROVE  RightNext(c.key, c.flag)
      <4>1. \/ i \in DOMAIN term /\ term'[i] = term[i]
            \/ \E j \in 1..Len(lines) : term'[i] = lines[j]
        BY <1>0, <3>1, <3>2, PrintedFacts
      <4> QED
        BY <1>5, <2>1, <3>2, <4>1
    <3> QED
      BY <2>2, <3>1, <3>2 DEF Writes
  <2> QED
    BY <2>3, <2>4
<1>6. ASSUME NEW i \in DOMAIN pipe', pipe'[i].kind = "step"
      PROVE  Over(pipe[i].key)' /\ (pipe'[i].value = 1 <=> pipe'[i].key \in warned')
  <2>1. pipe'[i] \in Messages
    <3>1. Typed'
      BY TypedStep
    <3>2. pipe' \in Seq(Messages) /\ DOMAIN pipe' = 1..Len(pipe')
      BY <3>1, LenProperties DEF Typed, HelperTyped
    <3> QED
      BY <3>2, ElementOfSeq
  <2>2. RightNext(pipe'[i].key, pipe'[i].value = 1)
    BY <1>4, <1>6, <2>1
  <2> QED
    BY <2>2 DEF RightNext, Over
<1>7. ASSUME NEW i \in DOMAIN term', term'[i].kind = "step"
      PROVE  Over(term[i].key)' /\ (term'[i].flag <=> term'[i].key \in warned')
  <2>1. RightNext(term'[i].key, term'[i].flag)
    BY <1>5, <1>7
  <2> QED
    BY <2>1 DEF RightNext, Over
<1> QED
  BY <1>3, <1>6, <1>7 DEF Steps, Over

\* A failure that ends the transaction is that of the hook which was started last.
LEMMA ErrorFacts ==
  ASSUME Typed, HookPhases, Blamed, [Next]_vars, ~Receive
  PROVE  /\ broken \subseteq broken'
         /\ HookError' => phase' \in {"commit", "over"} /\ lastHook' \in broken' \cap AbortOnFail
<1>0. AlpmTyped
  BY DEF Typed
<1>1. HookError => phase \in {"commit", "over"} /\ lastHook \in broken \cap AbortOnFail
  BY DEF Blamed
<1>2. CASE UNCHANGED HookVars
  BY <1>1, <1>2 DEF HookVars, HookError
<1>3. CASE HookRunStart
  <2>1. phase \in {"pre", "post"} /\ plan' = plan /\ broken' = broken
    BY <1>0, <1>3, StartFacts
  <2>2. ~HookError /\ (HookError' <=> HookError)
    BY <1>1, <2>1 DEF HookError
  <2> QED
    BY <2>1, <2>2
<1>4. CASE \E b \in BOOLEAN : HookOutput(b)
  <2>1. UNCHANGED <<plan, phase, broken, lastHook>>
    BY <1>4, OutputFacts
  <2> QED
    BY <1>1, <2>1 DEF HookError
<1>5. CASE \E b \in BOOLEAN : HookRunDone(b)
  <2>1. PICK b \in BOOLEAN : HookRunDone(b)
    BY <1>5
  <2>2. /\ running # NoHook /\ plan' = plan /\ lastHook' = lastHook
        /\ broken' = IF b THEN broken \cup {running} ELSE broken
    BY <2>1, DoneFacts
  <2>3. ~HookError
    BY <1>1, <2>2 DEF HookPhases
  <2>4. SUFFICES ASSUME HookError'
                 PROVE  phase' = "commit" /\ lastHook \in broken' \cap AbortOnFail
    BY <2>2
  <2>5. b /\ running \in Range(plan.pre) /\ running \in AbortOnFail
    BY <2>2, <2>3, <2>4 DEF HookError
  <2>6. phase = "pre"
    <3>1. phase = "pre" \/ (phase = "post" /\ running \in Range(plan.post))
      BY <2>2 DEF HookPhases
    <3> QED
      BY <1>0, <2>5, <3>1, HooksOfPlan
  <2>7. phase' = "commit"
    BY <2>1, <2>5, <2>6, DoneFacts
  <2>8. lastHook = running
    BY <2>2 DEF HookPhases
  <2> QED
    BY <2>2, <2>5, <2>7, <2>8
<1>6. CASE NextPhase
  <2>1. phase \in {"download", "pre", "install", "post"} /\ UNCHANGED <<plan, broken, lastHook>>
    BY <1>6, NextPhaseFacts
  <2>2. ~HookError /\ (HookError' <=> HookError)
    BY <1>1, <2>1 DEF HookError
  <2> QED
    BY <2>1, <2>2
<1>7. CASE DownloadsFail \/ Return
  <2>1. UNCHANGED <<plan, broken, lastHook>> /\ phase' \in {"commit", "over"}
    BY <1>7 DEF DownloadsFail, Return, parent, hookState
  <2> QED
    BY <1>1, <2>1 DEF HookError
<1> QED
  BY <1>2, <1>3, <1>4, <1>5, <1>6, <1>7, HookVarsUnchanged

LEMMA BlamedStep ==
  ASSUME Typed, BarsOfPlan, BlocksRight, Windows, DownloadsFirst, HookPhases, ResultLast, Blamed,
         [Next]_vars
  PROVE  Blamed'
<1>0. /\ pipe \in Seq(Messages) /\ NoHook \notin Hooks /\ "ok" \notin Hooks /\ "ok" # NoHook
      /\ "none" \notin Hooks /\ broken \subseteq Hooks
  BY DisplayAssumption DEF Typed, HelperTyped, AlpmTyped
<1>1. CASE Receive
  <2>1. /\ pipe # <<>> /\ pipe' = Tail(pipe) /\ 1 \in DOMAIN pipe /\ outcome = "none"
        /\ UNCHANGED <<plan, phase, broken, lastHook>>
    BY <1>1, ReceiveFacts DEF alpm
  <2>2. PICK m \in Messages : m = pipe[1] /\ (ReceivesBar(m) \/ ReceivesLine(m) \/ ReceivesEnd(m))
    BY <1>1, ReceiveFacts
  <2>3. HookError' <=> HookError
    BY <2>1 DEF HookError
  <2>4. \A i \in DOMAIN pipe' : i + 1 \in DOMAIN pipe /\ pipe'[i] = pipe[i + 1]
    BY <1>0, <2>1, TailFacts
  <2>5. \A i \in DOMAIN pipe' :
          /\ pipe'[i].kind = "error" => pipe'[i].key \in (broken' \cap AbortOnFail) \cup {NoHook}
          /\ Ends(pipe'[i]) /\ HookError' => pipe'[i].kind = "error" /\ pipe'[i].key \in broken' \cap AbortOnFail
    BY <2>1, <2>3, <2>4 DEF Blamed
  <2>6. outcome' = outcome \/ (Ends(m) /\ outcome' = IF m.kind = "result" THEN "ok" ELSE m.key)
    BY <2>2 DEF ReceivesBar, ReceivesLine, ReceivesEnd
  <2>7. /\ m.kind = "error" => m.key \in (broken \cap AbortOnFail) \cup {NoHook}
        /\ Ends(m) /\ HookError => m.kind = "error" /\ m.key \in broken \cap AbortOnFail
    BY <2>1, <2>2 DEF Blamed
  <2>8. outcome' \in Hooks => outcome' \in broken' \cap AbortOnFail
    BY <1>0, <2>1, <2>6, <2>7 DEF Ends
  <2>9. HookError' /\ outcome' # "none" => outcome' \in Hooks
    BY <1>0, <2>1, <2>3, <2>6, <2>7
  <2>10. HookError' => phase' \in {"commit", "over"} /\ lastHook' \in broken' \cap AbortOnFail
    BY <2>1, <2>3 DEF Blamed
  <2> QED
    BY <2>5, <2>8, <2>9, <2>10 DEF Blamed, Ends
<1>2. CASE ~Receive /\ phase = "over"
  <2>1. UNCHANGED <<plan, phase, pipe, broken, lastHook, outcome>>
    BY <1>2, OverStays DEF vars, alpm
  <2>2. HookError' <=> HookError
    BY <2>1 DEF HookError
  <2> QED
    BY <2>1, <2>2 DEF Blamed, Ends
<1>3. CASE ~Receive /\ phase # "over"
  <2>1. outcome = "none" /\ outcome' = outcome /\ \A i \in DOMAIN pipe : ~Ends(pipe[i])
    BY <1>3, HelperSteps DEF ResultLast, Helped, parent
  <2>2. Tells /\ plan' = plan
    BY <1>3, HelperSteps DEF Helped, parent
  <2>3. HookError' => phase' \in {"commit", "over"} /\ lastHook' \in broken' \cap AbortOnFail
    BY <1>3, ErrorFacts
  <2>4. ASSUME NEW i \in DOMAIN pipe', Ends(pipe'[i])
        PROVE  /\ pipe'[i].kind = "error" => pipe'[i].key \in (broken' \cap AbortOnFail) \cup {NoHook}
               /\ HookError' => pipe'[i].kind = "error" /\ pipe'[i].key \in broken' \cap AbortOnFail
    <3>1. PICK m \in Messages : Send(m) /\ Allowed(m)
      BY <2>1, <2>2, <2>4 DEF Tells
    <3>2. /\ \A l \in DOMAIN pipe : pipe'[l] = pipe[l]
          /\ \A l \in DOMAIN pipe' : l \in DOMAIN pipe \/ l = Len(pipe')
          /\ pipe'[Len(pipe')] = m
      BY <1>0, <3>1, SendFacts
    <3>3. pipe'[i] = m
      BY <2>1, <2>4, <3>2
    <3>4. /\ UNCHANGED <<broken, lastHook>>
          /\ IF HookError THEN m.kind = "error" /\ m.key = lastHook
                          ELSE m.kind = "error" => m.key = NoHook
      BY <2>4, <3>1, <3>3 DEF Allowed
    <3>5. HookError' <=> HookError
      BY <2>2, <3>4 DEF HookError
    <3> QED
      BY <2>3, <3>3, <3>4, <3>5
  <2>5. \A i \in DOMAIN pipe' :
          /\ pipe'[i].kind = "error" => pipe'[i].key \in (broken' \cap AbortOnFail) \cup {NoHook}
          /\ Ends(pipe'[i]) /\ HookError' => pipe'[i].kind = "error" /\ pipe'[i].key \in broken' \cap AbortOnFail
    BY <2>4 DEF Ends
  <2> QED
    BY <1>0, <2>1, <2>3, <2>5 DEF Blamed, Ends
<1> QED
  BY <1>1, <1>2, <1>3

-----------------------------------------------------------------------------
(* Theorems *)

\* The inductive invariant.
IInv ==
  /\ Typed /\ BarsOfPlan /\ BlocksRight /\ FinalOnce /\ Windows /\ Reported /\ DownloadsFirst
  /\ ResultLast /\ HookPhases /\ Steps /\ Blamed

LEMMA InitTyped ==
  ASSUME Init
  PROVE  Typed
<1>1. /\ <<>> \in Seq(Messages) /\ <<>> \in Seq(Lines) /\ <<>> \in Seq(Keys) /\ <<>> \in Seq(Hooks)
      /\ Len(<<>>) = 0
  BY EmptySeq
<1>2. 0 \in 0..Full /\ 0 \in 0..MaxTries /\ 0 \in 0..MaxLogs /\ 0 <= PipeSize
  BY DisplayAssumption DEF Full
<1>3. AlpmTyped
  BY <1>1, <1>2 DEF Init, AlpmTyped
<1>4. HelperTyped
  BY <1>1, <1>2 DEF Init, HelperTyped
<1>5. [k \in Keys |-> 0] \in [Keys -> 0..Full]
  BY <1>2
<1>6. [known |-> {}, percent |-> [k \in Keys |-> 0], active |-> <<>>, frozen |-> <<>>,
       drawnActive |-> 0, drawnFrozen |-> 0] \in Blocks
  BY <1>1, <1>5 DEF Blocks
<1>7. block \in [Names -> Blocks]
  BY <1>6 DEF Init, Names
<1>8. ScreenTyped
  BY <1>1, <1>7, DisplayAssumption DEF Init, ScreenTyped
<1> QED
  BY <1>3, <1>4, <1>8 DEF Typed

LEMMA InitInv ==
  ASSUME Init
  PROVE  IInv
<1>1. Typed
  BY InitTyped
<1>2. /\ DOMAIN pipe = {} /\ DOMAIN term = {} /\ pipe = <<>> /\ outcome = "none"
      /\ todo = <<>> /\ running = NoHook /\ warned = {} /\ broken = {} /\ done = {}
      /\ phase = "download"
  BY DEF Init
<1>3. \A name \in Names : block[name] =
        [known |-> {}, percent |-> [k \in Keys |-> 0], active |-> <<>>, frozen |-> <<>>,
         drawnActive |-> 0, drawnFrozen |-> 0]
  BY DEF Init, Names
<1>4. /\ \A name \in Names : /\ block[name].known = {} /\ block[name].active = <<>>
                             /\ block[name].frozen = <<>> /\ block[name].drawnActive = 0
                             /\ block[name].drawnFrozen = 0
      /\ Len(<<>>) = 0 /\ Range(<<>>) = {} /\ IsInjective(<<>>)
  BY <1>3, EmptyRange, EmptySeq
<1>5. BlocksRight
  BY <1>4 DEF BlocksRight, BlockRight
<1>6. \A k : ~IsFrozen(k)
  BY <1>4 DEF IsFrozen, BlockOf, Names
<1>7. FinalOnce /\ Windows
  BY <1>2, <1>6 DEF FinalOnce, Windows
<1>8. Reported
  <2>1. \A k \in Packages : at[k] = 0
    BY DEF Init, Keys
  <2> QED
    BY <1>2, <2>1 DEF Reported, Full
<1>9. DownloadsFirst
  BY <1>2, <1>4 DEF DownloadsFirst, Names
<1>10. BarsOfPlan /\ ResultLast
  BY <1>2 DEF BarsOfPlan, ResultLast
<1>11. HookPhases
  <2>1. running \notin Future
    BY <1>1, <1>2, FutureFacts DEF Typed
  <2> QED
    BY <1>2, <1>4, <2>1 DEF HookPhases
<1>12. Steps /\ Blamed
  <2>1. ~HookError
    BY <1>2 DEF HookError
  <2>2. outcome \notin Hooks
    BY <1>2, DisplayAssumption
  <2> QED
    BY <1>2, <2>1, <2>2 DEF Steps, Blamed
<1> QED
  BY <1>1, <1>5, <1>7, <1>8, <1>9, <1>10, <1>11, <1>12 DEF IInv

LEMMA NextInv ==
  ASSUME IInv, [Next]_vars
  PROVE  IInv' /\ Keeps
<1>1. /\ Typed /\ BarsOfPlan /\ BlocksRight /\ FinalOnce /\ Windows /\ Reported /\ DownloadsFirst
      /\ ResultLast /\ HookPhases /\ Steps /\ Blamed /\ AlpmTyped
  BY DEF IInv, Typed
<1>2. Typed'
  BY <1>1, TypedStep
<1>3. BlocksRight' /\ FinalOnce' /\ Windows' /\ Keeps
  BY <1>1, ScreenStep DEF ScreenSafe
<1>4. BarsOfPlan' /\ Reported' /\ DownloadsFirst'
  BY <1>1, BarsStep, ReportedStep, DownloadsFirstStep
<1>5. ResultLast'
  BY <1>1, ResultLastStep
<1>6. HookPhases'
  BY <1>1, HookPhasesStep
<1>7. Steps'
  BY <1>1, StepsStep
<1>8. Blamed'
  BY <1>1, BlamedStep
<1> QED
  BY <1>2, <1>3, <1>4, <1>5, <1>6, <1>7, <1>8 DEF IInv

\* What the callbacks, the pipe, the renderer and the terminal keep true together, step by step.
THEOREM Inductive == Spec => []IInv
<1>1. Init => IInv
  BY InitInv
<1>2. IInv /\ [Next]_vars => IInv'
  BY NextInv
<1> QED
  BY <1>1, <1>2, PTL DEF Spec

\* Every variable has its type, and a key is active or frozen, at one position
\* (on_download_progress, on_install_progress).
THEOREM TypeCorrect == Spec => []TypeOK
<1>1. ASSUME IInv PROVE TypeOK
  <2>1. AlpmTyped /\ HelperTyped /\ ScreenTyped /\ BlocksRight
    BY <1>1 DEF IInv, Typed
  <2>2. row \in 0..Len(term)
    BY <2>1, LenProperties DEF ScreenTyped
  <2>3. ASSUME NEW name \in Names, NEW b, b = block[name]
        PROVE  /\ IsInjective(b.active \o b.frozen)
               /\ Range(b.active \o b.frozen) = b.known
               /\ b.drawnActive <= Len(b.active) + Len(b.frozen) - b.drawnFrozen
               /\ b.drawnFrozen <= Len(b.frozen)
    <3>1. b.active \in Seq(Keys) /\ b.frozen \in Seq(Keys) /\ BlockRight(b)
      BY <2>1, <2>3 DEF ScreenTyped, Blocks, BlocksRight
    <3>2. /\ IsInjective(b.active \o b.frozen)
          /\ Range(b.active \o b.frozen) = b.known
      <4> DEFINE u == b.active
                 v == b.frozen
      <4>1. /\ u \in Seq(Keys) /\ v \in Seq(Keys) /\ IsInjective(u) /\ IsInjective(v)
            /\ Range(u) \cap Range(v) = {} /\ Range(u) \cup Range(v) = b.known
        BY <3>1 DEF BlockRight
      <4> HIDE DEF u, v
      <4>2. IsInjective(u \o v) /\ Range(u \o v) = Range(u) \cup Range(v)
        BY <4>1, Joined
      <4>3. IsInjective(u \o v) /\ Range(u \o v) = b.known
        BY <4>1, <4>2
      <4> QED
        BY <4>3 DEF u, v
    <3>3. Len(b.active) \in Nat /\ Len(b.frozen) \in Nat
      BY <3>1, LenProperties
    <3>4. b.drawnActive = Len(b.active) /\ b.drawnFrozen = Len(b.frozen)
      BY <3>1 DEF BlockRight
    <3>5. /\ b.drawnActive <= Len(b.active) + Len(b.frozen) - b.drawnFrozen
          /\ b.drawnFrozen <= Len(b.frozen)
      BY <3>3, <3>4
    <3> QED
      BY <3>2, <3>5
  <2>4. DOMAIN block = Names
    BY <2>1 DEF ScreenTyped
  <2> QED
    BY <2>1, <2>2, <2>3, <2>4 DEF TypeOK, AlpmTyped, HelperTyped
<1> QED
  BY <1>1, Inductive, PTL

\* Whoever prints next prints below everything: a redraw covers what the block had before
\* (render_download_block, render_install_block).
THEOREM CursorBelowHolds == Spec => []CursorBelow
<1>1. IInv => CursorBelow
  BY DEF IInv, Typed, ScreenTyped, CursorBelow
<1> QED
  BY <1>1, Inductive, PTL

\* The final line of a download or a package is never drawn over.
THEOREM FinalLinesStayHolds == Spec => FinalLinesStay
<1>1. IInv /\ [Next]_vars =>
        [\A i \in DOMAIN term : Final(term[i]) => i \in DOMAIN term' /\ term'[i] = term[i]]_vars
  BY NextInv DEF Keeps
<1> QED
  BY <1>1, Inductive, PTL DEF Spec, FinalLinesStay

\* When the parent has the result, every package and every file with a size that is complete has
\* one final line: its message was sent, the pipe is empty, and a key is frozen with one line.  A
\* file without a size has none: no message names it (helper_download_cb).
THEOREM EachShownOnceHolds == Spec => []EachShownOnce
<1>1. ASSUME IInv PROVE EachShownOnce
  <2> SUFFICES ASSUME outcome # "none", NEW k \in done
               PROVE  Cardinality({i \in DOMAIN term : Final(term[i]) /\ term[i].key = k}) =
                        IF k \in Sizeless THEN 0 ELSE 1
    BY DEF EachShownOnce
  <2>1. k \in Keys /\ pipe = <<>>
    BY <1>1 DEF IInv, Typed, AlpmTyped, ResultLast
  <2>2. CASE k \notin Sizeless
    <3>1. IsFrozen(k)
      BY <1>1, <2>1, <2>2 DEF IInv, Reported, Pending
    <3>2. PICK i \in DOMAIN term : HasFinal(k, i) /\ \A j \in DOMAIN term : HasFinal(k, j) => j = i
      BY <1>1, <2>1, <3>1 DEF IInv, FinalOnce
    <3>3. {j \in DOMAIN term : Final(term[j]) /\ term[j].key = k} = {i}
      BY <3>2 DEF HasFinal
    <3> QED
      BY <2>2, <3>3, FS_Singleton
  <2>3. CASE k \in Sizeless
    <3>1. BlockOf(k) \in Names /\ BlocksRight
      BY <1>1 DEF IInv, BlockOf, Names
    <3>2. k \notin block[BlockOf(k)].known
      BY <2>3, <3>1 DEF BlocksRight, Barred
    <3>3. ~IsFrozen(k)
      BY <3>1, <3>2 DEF BlocksRight, BlockRight, IsFrozen
    <3>4. \A i \in DOMAIN term : ~HasFinal(k, i)
      BY <1>1, <2>1, <3>3 DEF IInv, FinalOnce
    <3>5. {j \in DOMAIN term : Final(term[j]) /\ term[j].key = k} = {}
      BY <3>4 DEF HasFinal
    <3> QED
      BY <2>3, <3>5, FS_EmptySet
  <2> QED
    BY <2>2, <2>3
<1> QED
  BY <1>1, Inductive, PTL

\* The line of a hook says that this hook failed, no other, and the error of a transaction
\* names the hook that has ended it (helper_event_cb, map_commit_error).
THEOREM HooksBlamedHolds == Spec => []HooksBlamed
<1>1. ASSUME IInv PROVE HooksBlamed
  <2>1. Steps /\ Blamed
    BY <1>1 DEF IInv
  <2>2. "ok" \notin Hooks /\ NoHook \notin Hooks
    BY DisplayAssumption
  <2> QED
    BY <2>1, <2>2 DEF Steps, Blamed, HooksBlamed
<1> QED
  BY <1>1, Inductive, PTL

=============================================================================
