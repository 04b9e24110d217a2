--------------------------- MODULE MCPlanExecution ---------------------------
(* Small instances of PlanExecution for TLC. *)
EXTENDS PlanExecution, TLC

CONSTANTS w1, w2

\* Two invocations differ in nothing but their names.
WorkerSymmetry == Permutations(Workers)
=============================================================================
