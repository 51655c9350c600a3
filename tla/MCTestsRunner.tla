--------------------------- MODULE MCTestsRunner ---------------------------
(* Small instances of TestsRunner. *)
EXTENDS TestsRunner

\* The last test submits work to the pool, the others run on the main thread.
MCPoolTests == {NTests}
=============================================================================
