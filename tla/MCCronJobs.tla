----------------------------- MODULE MCCronJobs -----------------------------
(***************************************************************************)
(* The instance of CronJobs that TLC checks: two executions at once , and *)
(* as many semaphores and states as they and the managers can refer to.    *)
(***************************************************************************)
EXTENDS CronJobs, TLC

CONSTANTS e1, e2

MCExec == {e1, e2}
Job(max, enabled, valid) == [max |-> max, enabled |-> enabled, valid |-> valid]
MCJobs == {Job(1, TRUE, TRUE), Job(2, TRUE, TRUE), Job(1, FALSE, TRUE),
           Job(1, TRUE, FALSE), Job(1, FALSE, FALSE)}
MCSymmetry == Permutations(MCExec)
=============================================================================
