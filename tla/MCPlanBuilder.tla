--------------------------- MODULE MCPlanBuilder ---------------------------
(* Small instances of PlanBuilder. *)
EXTENDS PlanBuilder

\* One to six subsystems (one of each size), and none.
MCRequested == {{}, {"system"}, {"file", "memory"}, {"file", "memory", "network"},
                Subsystems \ {"file", "IPC"}, Subsystems \ {"system"}, Subsystems}
MCOldDurations == {0, 7}

\* A request of the violation runs.
MCTwo == {{"file", "memory"}}
=============================================================================
