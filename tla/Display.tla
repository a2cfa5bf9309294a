------------------------------- MODULE Display -------------------------------
(***************************************************************************)
(* What the user sees of a transaction.  libalpm reports to the callbacks  *)
(* of the helper; most of it goes through the pipe to the parent, whose    *)
(* TransactionRenderController redraws the progress lines in place.  The   *)
(* output of hooks and scriptlets takes a shorter way: the helper writes   *)
(* it to the terminal itself, while the parent is drawing.  Sessions that  *)
(* are interrupted or die are the subject of TxSession.                    *)
(***************************************************************************)
EXTENDS Naturals, Sequences, FiniteSets, SequencesExt

CONSTANTS
  Files, Packages,     \* what is downloaded, signatures left out; what is installed or removed
  Sizeless,            \* the files of which libalpm tells no size: those that are up to date
  Hooks,
  Plans,               \* transactions: the keys, and the hooks that run before and after
  AbortOnFail,         \* the hooks whose failure ends the transaction
  Critical,            \* the hooks that print_critical_hook_failure_warning names
  Heights,             \* rows of the terminal
  MaxLogs,             \* bound: warnings and questions of libalpm
  MaxTries,            \* bound: mirrors that are asked for a file
  PipeSize,            \* bound: messages on their way to the parent
  NoHook

Keys == Files \cup Packages

ASSUME DisplayAssumption ==
  /\ Files \cap Packages = {} /\ Sizeless \subseteq Files /\ Keys \cap Hooks = {} /\ NoHook \notin Hooks
  /\ \A p \in Plans : /\ p.keys \subseteq Keys /\ p.pre \in Seq(Hooks) /\ p.post \in Seq(Hooks)
                     /\ IsInjective(p.pre \o p.post)
  /\ {"none", "ok"} \cap (Hooks \cup {NoHook}) = {}
  /\ Heights \subseteq Nat \ {0} /\ MaxLogs \in Nat /\ MaxTries \in Nat /\ PipeSize \in Nat \ {0}

Full == 2  \* the progress of a key that is complete

VARIABLES
  plan,          \* the transaction
  phase,         \* of trans_commit: "download", "pre", "install", "post", "commit", "over"
  at, done,      \* libalpm: the progress of each key, the keys that are complete
  tries, logs,
  todo, running, \* the hooks of the phase that have not run; the one that runs
  printed,       \* the hooks and packages whose program has written its line
  warned, broken,\* the hooks that wrote a warning of a failure; that exited with one
  emitted,       \* HelperDlThrottle, HelperInstallThrottle: keys with a recent message
  lastHook,      \* LAST_HOOK_RUNNING
  hookFailed,    \* CURRENT_HOOK_FAILED
  pipe,          \* messages of the helper to the parent
  block,         \* TransactionRenderController: a download block and an install block
  term, row,     \* the lines on the terminal, the number of lines above the cursor
  height,
  outcome        \* of the session, as the parent sees it

alpm == <<plan, phase, at, done, tries, logs, todo, running, printed, broken>>
screen == <<term, row>>
vars == <<alpm, warned, emitted, lastHook, hookFailed, pipe, block, screen, height, outcome>>

BlockOf(key) == IF key \in Files THEN "download" ELSE "install"

------------------------------------------------------------------------------
(* The terminal *)

Line(kind, key, flag) == [kind |-> kind, key |-> key, flag |-> flag]

Put(top, lines) ==
  /\ term' = SubSeq(term, 1, top) \o lines \o SubSeq(term, top + Len(lines) + 1, Len(term))
  /\ row' = top + Len(lines)

Println(lines) == Put(row, lines)

------------------------------------------------------------------------------
(* The parent: TransactionRenderController and the loop that calls it *)

\* A block as it is drawn: what has been completed since the last time, then what is active.
Rendered(b) ==
  LET bar(key) == Line("bar", key, b.percent[key] = Full)
      keys == SubSeq(b.frozen, b.drawnFrozen + 1, Len(b.frozen)) \o b.active
  IN  [i \in DOMAIN keys |-> bar(keys[i])]

\* Fault: the cursor moves up over everything that was drawn the last time.
RenderAll(name, b) ==
  LET up == b.drawnActive + (IF b.drawnFrozen > 0 THEN 1 ELSE 0) IN
    /\ Rendered(b) # <<>>
    /\ Put(IF up < row THEN row - up ELSE 0, Rendered(b))
    /\ block' = [block EXCEPT ![name] =
                   [b EXCEPT !.drawnFrozen = Len(b.frozen), !.drawnActive = Len(b.active)]]

\* render_download_block and render_install_block: the cursor moves up over the lines that
\* were active the last time, but not beyond the top of the terminal.
Render(name, b) ==
  IF Rendered(b) = <<>> THEN block' = [block EXCEPT ![name] = b] /\ UNCHANGED screen
  ELSE LET up == IF b.drawnActive < height THEN b.drawnActive ELSE height - 1 IN
    /\ Put(IF up < row THEN row - up ELSE 0, Rendered(b))
    /\ block' = [block EXCEPT ![name] =
                   [b EXCEPT !.drawnFrozen = Len(b.frozen), !.drawnActive = Len(b.active)]]

\* Fault: a line that is complete is throttled like the others.
RenderLater(name, b, force) ==
  Render(name, b) \/ (block' = [block EXCEPT ![name] = b] /\ UNCHANGED screen)

\* Less than 100 ms after the last time nothing is drawn, unless it has to be.
RenderSoon(name, b, force) ==
  \/ Render(name, b)
  \/ ~force /\ block' = [block EXCEPT ![name] = b] /\ UNCHANGED screen

Entered(b, key) ==
  IF key \in b.known THEN b
  ELSE [b EXCEPT !.known = @ \cup {key}, !.active = Append(@, key)]

\* A key is active at one position.
Removed(keys, key) ==
  IF key \in Range(keys) THEN RemoveAt(keys, CHOOSE i \in DOMAIN keys : keys[i] = key) ELSE keys

\* Fault: a key that is complete leaves the active lines and is not drawn again.
Dropped(b, key) == [b EXCEPT !.active = Removed(@, key)]

\* Fault: a key is complete whenever its message says so.
FrozenAgain(b, key) ==
  [b EXCEPT !.active = Removed(@, key), !.frozen = Append(@, key)]

\* A key that is complete is drawn above the active ones, once.
Frozen(b, key) ==
  IF key \in Range(b.frozen) THEN b
  ELSE [b EXCEPT !.active = Removed(@, key), !.frozen = Append(@, key)]

Shown(b, key, percent) == [Entered(b, key) EXCEPT !.percent[key] = percent]

Progressed(b, key, percent) ==
  IF percent = Full THEN Frozen(Shown(b, key, percent), key) ELSE Shown(b, key, percent)

\* on_download_progress and on_install_progress.
OnProgress(name, key, percent) ==
  LET old == block[name]
      new == Progressed(old, key, percent)
  IN  RenderSoon(name, new, key \notin old.known \/ new.frozen # old.frozen)

\* on_hook_step: a failed hook has a second line.
StepLines(hook, failed) ==
  IF failed THEN <<Line("step", hook, failed), Line("text", hook, TRUE)>>
            ELSE <<Line("step", hook, failed)>>

\* One message.  A question is a text here: ask prints it, and the helper waits.
Receive ==
  /\ outcome = "none" /\ pipe # <<>>
  /\ pipe' = Tail(pipe)
  /\ LET m == Head(pipe) IN
       \/ m.kind = "bar" /\ OnProgress(BlockOf(m.key), m.key, m.value) /\ UNCHANGED outcome
       \/ m.kind = "text" /\ Println(<<Line("text", m.key, FALSE)>>) /\ UNCHANGED <<block, outcome>>
       \/ m.kind = "step" /\ Println(StepLines(m.key, m.value = 1)) /\ UNCHANGED <<block, outcome>>
       \/ /\ m.kind \in {"result", "error"}
          /\ outcome' = IF m.kind = "result" THEN "ok" ELSE m.key
          /\ UNCHANGED <<block, screen>>
  /\ UNCHANGED <<alpm, warned, emitted, lastHook, hookFailed, height>>

------------------------------------------------------------------------------
(* The callbacks of the helper *)

Message(kind, key, value) == [kind |-> kind, key |-> key, value |-> value]

Send(m) == Len(pipe) < PipeSize /\ pipe' = Append(pipe, m)

Event == Send(Message("text", NoHook, 0))

parent == <<plan, block, height, outcome>>
hookState == <<warned, lastHook, hookFailed>>

\* Progress of a key: the first message, the last, and one every 100 ms.
Report(key) ==
  \/ Send(Message("bar", key, at'[key])) /\ emitted' = emitted \cup {key}
  \/ key \in emitted /\ at'[key] # Full /\ UNCHANGED <<pipe, emitted>>

Advance(key) ==
  /\ at[key] < Full /\ at' \in {[at EXCEPT ![key] = n] : n \in at[key] + 1 .. Full}

\* helper_download_cb: progress, and the end of a download.  With a total of 0 nothing is sent,
\* and the size of a file may become known only in the end.
DownloadProgress(f) ==
  /\ phase = "download" /\ f \notin done
  /\ Advance(f)
  /\ (f \notin Sizeless /\ Report(f)) \/ UNCHANGED <<pipe, emitted>>
  /\ UNCHANGED <<phase, done, tries, logs, todo, running, printed, broken, hookState, parent,
                 screen>>

DownloadCompleted(f) ==
  /\ phase = "download" /\ f \notin done
  /\ at' = [at EXCEPT ![f] = Full]
  /\ done' = done \cup {f}
  /\ IF f \in Sizeless THEN UNCHANGED pipe ELSE Send(Message("bar", f, Full))
  /\ emitted' = emitted \ {f}
  /\ UNCHANGED <<phase, tries, logs, todo, running, printed, broken, hookState, parent, screen>>

\* The file begins again with the next mirror.
DownloadFailed(f) ==
  /\ phase = "download" /\ f \notin done /\ tries[f] < MaxTries
  /\ tries' = [tries EXCEPT ![f] = @ + 1] /\ at' = [at EXCEPT ![f] = 0]
  /\ Event /\ emitted' = emitted \ {f}
  /\ UNCHANGED <<phase, done, logs, todo, running, printed, broken, hookState, parent, screen>>

\* helper_log_cb, helper_question_cb.
Log ==
  /\ phase # "over" /\ logs < MaxLogs
  /\ logs' = logs + 1
  /\ Event
  /\ UNCHANGED <<phase, at, done, tries, todo, running, printed, broken, emitted, hookState,
                 parent, screen>>

\* helper_progress_cb: the packages come one after the other.
InstallProgress(k) ==
  /\ phase = "install" /\ k \notin done
  /\ \A j \in Packages \ {k} : at[j] > 0 => j \in done
  /\ Advance(k) /\ Report(k)
  /\ UNCHANGED <<phase, done, tries, logs, todo, running, printed, broken, hookState, parent,
                 screen>>

\* PackageOperationDone.
PackageDone(k) ==
  /\ phase = "install" /\ at[k] = Full /\ k \notin done
  /\ done' = done \cup {k}
  /\ Event
  /\ UNCHANGED <<phase, at, tries, logs, todo, running, printed, broken, emitted, hookState,
                 parent, screen>>

\* ScriptletInfo: the line goes to the terminal at once; a warning is remembered.
ScriptletInfo(writer, warning) ==
  /\ writer \notin printed /\ printed' = printed \cup {writer}
  /\ Println(<<Line("out", writer, warning)>>)
  /\ IF warning THEN hookFailed' = TRUE /\ warned' = warned \cup {writer}
                ELSE UNCHANGED <<hookFailed, warned>>
  /\ UNCHANGED <<phase, at, done, tries, logs, todo, running, broken, emitted, lastHook, pipe,
                 parent>>

Scriptlet(k) == phase = "install" /\ at[k] = Full /\ k \notin done /\ ScriptletInfo(k, FALSE)

HookOutput(warning) == running # NoHook /\ ScriptletInfo(running, warning)

\* Fault: the failure of an earlier hook is remembered.
HookRunStartForgets ==
  /\ running = NoHook /\ todo # <<>>
  /\ running' = Head(todo) /\ todo' = Tail(todo)
  /\ lastHook' = Head(todo) /\ UNCHANGED hookFailed
  /\ UNCHANGED <<phase, at, done, tries, logs, printed, warned, broken, emitted, pipe, parent,
                 screen>>

HookRunStart ==
  /\ running = NoHook /\ todo # <<>>
  /\ running' = Head(todo) /\ todo' = Tail(todo)
  /\ lastHook' = Head(todo) /\ hookFailed' = FALSE
  /\ UNCHANGED <<phase, at, done, tries, logs, printed, warned, broken, emitted, pipe, parent,
                 screen>>

\* The exit status of a hook is known to libalpm alone: a hook before the transaction that
\* must not fail ends it.
HookRunDone(status) ==
  /\ running # NoHook /\ (running \in warned => status)
  /\ Send(Message("step", running, IF hookFailed THEN 1 ELSE 0))
  /\ running' = NoHook
  /\ broken' = IF status THEN broken \cup {running} ELSE broken
  /\ IF phase = "pre" /\ status /\ running \in AbortOnFail
       THEN phase' = "commit" /\ todo' = <<>>
       ELSE UNCHANGED <<phase, todo>>
  /\ UNCHANGED <<at, done, tries, logs, printed, emitted, hookState, parent, screen>>

\* The end of a phase of trans_commit, with the event that the helper passes on:
\* IntegrityStart, TransactionStart, HookPhaseStart, HookPhaseDone.
Phases == <<"download", "pre", "install", "post", "commit">>

Complete == CASE phase = "download" -> plan.keys \cap Files \subseteq done
              [] phase = "install" -> plan.keys \cap Packages \subseteq done
              [] OTHER -> running = NoHook /\ todo = <<>>

NextPhase ==
  \E i \in 1..4 :
    /\ phase = Phases[i] /\ Complete
    /\ phase' = Phases[i + 1]
    /\ todo' = CASE phase' = "pre" -> plan.pre [] phase' = "post" -> plan.post [] OTHER -> <<>>
    /\ Event
    /\ UNCHANGED <<at, done, tries, logs, running, printed, broken, emitted, hookState, parent,
                   screen>>

\* libalpm gives up: no mirror is left.
DownloadsFail ==
  /\ phase = "download" /\ \E f \in (plan.keys \cap Files) \ done : tries[f] = MaxTries /\ at[f] = 0
  /\ phase' = "commit"
  /\ UNCHANGED <<at, done, tries, logs, todo, running, printed, broken, emitted, hookState, pipe,
                 parent, screen>>

\* trans_commit returns TransHookFailed after a hook of the first phase only.
HookError == broken \cap Range(plan.pre) \cap AbortOnFail # {}

\* map_commit_error: the error names the hook that was started last.
Return ==
  /\ phase = "commit"
  /\ phase' = "over"
  /\ IF HookError THEN Send(Message("error", lastHook, 0))
     ELSE IF plan.keys \cap Files \subseteq done THEN Send(Message("result", NoHook, 0))
     ELSE Send(Message("error", NoHook, 0))
  /\ IF HookError /\ lastHook \in Critical THEN Println(<<Line("out", NoHook, TRUE)>>)
                                           ELSE UNCHANGED screen
  /\ UNCHANGED <<at, done, tries, logs, todo, running, printed, broken, emitted, hookState, parent>>

------------------------------------------------------------------------------
Init ==
  /\ plan \in Plans /\ phase = "download"
  /\ at = [k \in Keys |-> 0] /\ done = {} /\ tries = [f \in Files |-> 0] /\ logs = 0
  /\ todo = <<>> /\ running = NoHook /\ printed = {} /\ warned = {} /\ broken = {}
  /\ emitted = {} /\ lastHook = NoHook /\ hookFailed = FALSE
  /\ pipe = <<>>
  /\ block = [name \in {"download", "install"} |->
                [known |-> {}, percent |-> [k \in Keys |-> 0], active |-> <<>>, frozen |-> <<>>,
                 drawnActive |-> 0, drawnFrozen |-> 0]]
  /\ term = <<>> /\ row = 0 /\ height \in Heights
  /\ outcome = "none"

Terminated == phase = "over" /\ outcome # "none" /\ UNCHANGED vars

Next ==
  \/ Receive
  \/ \E f \in plan.keys \cap Files : DownloadProgress(f) \/ DownloadCompleted(f) \/ DownloadFailed(f)
  \/ \E k \in plan.keys \cap Packages : InstallProgress(k) \/ Scriptlet(k) \/ PackageDone(k)
  \/ HookRunStart
  \/ \E b \in BOOLEAN : HookOutput(b) \/ HookRunDone(b)
  \/ Log \/ NextPhase \/ DownloadsFail \/ Return
  \/ Terminated

Spec == Init /\ [][Next]_vars

------------------------------------------------------------------------------
(* Properties *)

\* Every variable has its type, and in each block a key is active or frozen, never both and
\* never twice, whatever is downloaded again (on_download_progress).
TypeOK ==
  /\ at \in [Keys -> 0..Full] /\ tries \in [Files -> 0..MaxTries] /\ logs \in 0..MaxLogs
  /\ done \subseteq Keys /\ emitted \subseteq Keys
  /\ running \in Hooks \cup {NoHook} /\ lastHook \in Hooks \cup {NoHook}
  /\ warned \subseteq Hooks /\ broken \subseteq Hooks /\ hookFailed \in BOOLEAN
  /\ Len(pipe) <= PipeSize /\ row \in 0..Len(term)
  /\ \A name \in DOMAIN block :
       LET b == block[name] IN
       /\ IsInjective(b.active \o b.frozen)
       /\ Range(b.active \o b.frozen) = b.known
       /\ b.drawnActive <= Len(b.active) + Len(b.frozen) - b.drawnFrozen
       /\ b.drawnFrozen <= Len(b.frozen)

\* A redraw covers all the lines that the block had before: the cursor is below everything
\* that was printed when anyone prints next, also on a terminal lower than the block.
CursorBelow == row = Len(term)

Final(line) == line.kind = "bar" /\ line.flag

\* A completed download or package stays visible: its final line is never drawn over, whatever
\* the helper, hooks and log lines print in between.
FinalLinesStay ==
  [][\A i \in DOMAIN term : Final(term[i]) => i \in DOMAIN term' /\ term'[i] = term[i]]_vars

\* When the parent has the result, every package and every file with a size that is complete has
\* one final line, not two, although messages are throttled twice and drawing is skipped.  A file
\* without a size has none: its download is complete and was never shown.
EachShownOnce ==
  outcome # "none" => \A k \in done :
    Cardinality({i \in DOMAIN term : Final(term[i]) /\ term[i].key = k}) =
      IF k \in Sizeless THEN 0 ELSE 1

\* The line of a hook says that it failed if that hook wrote the warning, no other; and the
\* error of a transaction that a hook has ended names this hook.
HooksBlamed ==
  /\ \A i \in DOMAIN term : term[i].kind = "step" => (term[i].flag <=> term[i].key \in warned)
  /\ outcome \in Hooks => outcome \in broken \cap AbortOnFail
  /\ HookError /\ outcome # "none" => outcome # "ok" /\ outcome # NoHook

\* What a hook or a scriptlet has written stays on the terminal.  STDOUT_LOCK keeps the
\* threads of the helper apart, and the parent, which redraws, is another process.
OutputKept ==
  [][\A i \in DOMAIN term :
       term[i].kind = "out" => i \in DOMAIN term' /\ term'[i] = term[i]]_vars

==============================================================================
