----------------------------- MODULE MCSshExec -----------------------------
(* Small instances of SshExec. *)
EXTENDS SshExec

\* Every kind of call, and the plain one.
MCOptions == [input : BOOLEAN, timeout : BOOLEAN]
MCPlain   == {[input |-> FALSE, timeout |-> FALSE]}
=============================================================================
