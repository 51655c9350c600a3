------------------------------ MODULE MCService ------------------------------
\* Two workers, two tasks of two runs, one suite of two tests.
EXTENDS WebTasks

MCCatalog  == ("FILE" :> {1, 2})
MCSelect(s) == ("FILE" :> s)
MCSaved ==
  {[suites |-> <<"FILE">>, durations |-> MCSelect(1), selected |-> MCSelect({1})],
   [suites |-> <<"FILE">>, durations |-> MCSelect(0), selected |-> <<>>],
   [suites |-> <<"GONE">>, durations |-> <<>>, selected |-> <<>>]}
MCTasks == 1 .. 2
MCDefault == <<"FILE">>
=============================================================================
