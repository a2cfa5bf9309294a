---------------------------- MODULE MCTxSession ----------------------------
(***************************************************************************)
(* Instances of TxSession for TLC.                                         *)
(***************************************************************************)
EXTENDS TxSession

MCPlan(op, refresh, sysupgrade, scope, noConfirm, valid) ==
  [op |-> op, refresh |-> refresh, sysupgrade |-> sysupgrade, scope |-> scope,
   noConfirm |-> noConfirm, valid |-> valid]

\* One plan for each path through execute_plan_root.
AllPlans == {
  MCPlan("sync", TRUE, TRUE, "full", FALSE, TRUE),
  MCPlan("sync", FALSE, FALSE, "download", FALSE, TRUE),
  MCPlan("sync", FALSE, FALSE, "full", FALSE, FALSE),
  MCPlan("remove", FALSE, FALSE, "print", FALSE, TRUE),
  MCPlan("upgrade", FALSE, FALSE, "full", TRUE, TRUE),
  MCPlan("reason", FALSE, FALSE, "full", TRUE, TRUE) }

\* The plans that matter for interrupts.
InterruptPlans == {
  MCPlan("remove", FALSE, FALSE, "full", FALSE, TRUE),
  MCPlan("reason", FALSE, FALSE, "full", TRUE, TRUE) }

\* A plan that changes packages under trans_commit.
CommitPlans == { MCPlan("remove", FALSE, FALSE, "full", FALSE, TRUE) }

=============================================================================
