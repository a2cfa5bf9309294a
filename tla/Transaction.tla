----------------------------- MODULE Transaction -----------------------------
(***************************************************************************)
(* What one call of run_plan_with_helper promises to the code that calls   *)
(* it (the backend, the installer, the remover): the plan is applied to    *)
(* the local package database at most once, success is reported only for a *)
(* plan that was applied in full or that asked for nothing, and once the   *)
(* call has returned the database is not touched again on its behalf, so   *)
(* the caller may start another transaction (the legacy pacman fallback).  *)
(***************************************************************************)

VARIABLES
  db,        \* what the plan has done to the local package database
  outcome    \* what the caller has been told

vars == <<db, outcome>>

DbStates == {"untouched", "partial", "applied", "nothing"}

Outcomes == {"none", "ok", "failed", "interrupted", "abandoned"}

TypeOK == db \in DbStates /\ outcome \in Outcomes

Init == db = "untouched" /\ outcome = "none"

\* Work goes on while the caller waits, or after the calling process has died.
Unreturned == outcome \in {"none", "abandoned"}

Begin ==
  /\ Unreturned
  /\ db = "untouched"
  /\ db' = "partial"
  /\ UNCHANGED outcome

Apply ==
  /\ Unreturned
  /\ db = "partial"
  /\ db' = "applied"
  /\ UNCHANGED outcome

\* There was nothing to change: an empty -Syu, a print-only or download-only plan.
Skip ==
  /\ Unreturned
  /\ db = "untouched"
  /\ db' = "nothing"
  /\ UNCHANGED outcome

Done == db \in {"applied", "nothing"}

ReturnOk ==
  /\ outcome = "none"
  /\ Done
  /\ outcome' = "ok"
  /\ UNCHANGED db

\* An error and an interruption may be reported whatever was done.
ReturnError ==
  /\ outcome = "none"
  /\ outcome' \in {"failed", "interrupted"}
  /\ UNCHANGED db

CallerDies ==
  /\ outcome = "none"
  /\ outcome' = "abandoned"
  /\ UNCHANGED db

Next == Begin \/ Apply \/ Skip \/ ReturnOk \/ ReturnError \/ CallerDies

Spec == Init /\ [][Next]_vars

==============================================================================
