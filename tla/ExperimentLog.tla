--------------------------- MODULE ExperimentLog ---------------------------
(***************************************************************************)
(* What an experiment's entry in the results database promises to those    *)
(* who read it (the dashboards and the reports), whichever runner writes   *)
(* it: result rows are only appended, and the counts in the experiment's   *)
(* row, which start at zero, are from time to time replaced by counts that *)
(* never go down, whose total is backed by rows already stored and covered *)
(* by the four statuses.                                                   *)
(***************************************************************************)
EXTENDS Naturals

VARIABLES
  stored,     \* result rows of the experiment
  published   \* the counts in the experiment's row

Status == {"PASSED", "FAILED", "SKIPPED", "BROKEN"}

Init ==
  /\ stored = 0
  /\ published = [total |-> 0, statuses |-> [s \in Status |-> 0]]

AppendRow ==
  /\ stored' = stored + 1
  /\ UNCHANGED published

Publish ==
  /\ published'.total \in published.total .. stored
  /\ \A s \in Status : published'.statuses[s] >= published.statuses[s]
  /\ published'.total <= published'.statuses["PASSED"] + published'.statuses["FAILED"]
                         + published'.statuses["SKIPPED"] + published'.statuses["BROKEN"]
  /\ UNCHANGED stored

Next == AppendRow \/ Publish

vars == <<stored, published>>
Spec == Init /\ [][Next]_vars
=============================================================================
