--------------------------- MODULE MCPlanExecutor ---------------------------
(* Small instances of PlanExecutor. *)
EXTENDS PlanExecutor

\* A profile of two stages with two tasks, then the diagnostic profile.
MCMatrix == << <<<<"fio", "stress-ng">>, <<"fio">>>>, <<<<"time", "chain">>>> >>
=============================================================================
