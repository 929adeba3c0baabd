---------------------------- MODULE MCPlanStore ----------------------------
(* A small instance of PlanStore: two plans fit, three can be issued, an     *)
(* analysis outlives a write plan by one tick.                               *)
EXTENDS PlanStore

CONSTANTS bulk, isolate

MCTasks == {bulk, isolate}
MCRowCounts == {1, 4}
=============================================================================
