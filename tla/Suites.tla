------------------------------- MODULE Suites -------------------------------
(***************************************************************************)
(* The tests of the suites, one after another on one machine: what a test  *)
(* reports, what it leaves for the next one, and whether it keeps to its   *)
(* time.                                                                   *)
(***************************************************************************)
EXTENDS LoadTests, NetworkTests, DriveTests

vars == <<budget, run, ran, machineVars, driveVars>>
TestNames == SequenceTests \cup PairTests \cup FaultTestNames \cup NetworkTestNames \cup DOMAIN FioTests

Init == MachineInit /\ DriveInit

SuiteOver == run.test = "none" /\ ran = MaxTests /\ UNCHANGED vars

Next ==
  \/ \E t \in TestNames : Begin(t) /\ UNCHANGED driveVars
  \/ (LoadTestsStep \/ NetworkTestsStep) /\ UNCHANGED <<budget, ran, driveVars>>
  \/ DriveTestsStep /\ UNCHANGED <<budget, ran>>
  \/ StrayEnds /\ UNCHANGED driveVars
  \/ SuiteOver

Spec == Init /\ [][Next]_vars

(***************************************************************************)
(* Properties                                                              *)
(***************************************************************************)
\* Every variable holds what the code could hold: a test holds at most one future of each
\* kind, and no result is taken from the queue that was not put there.
TypeOK ==
  /\ budget \in Budgets /\ ran \in 0 .. MaxTests
  /\ run.test \in TestNames \cup {"none"} /\ run.row.status \in {"none", "PASSED", "FAILED", "BROKEN", "SKIPPED"}
  /\ run.rows \in Nat /\ run.sub \in 0 .. (run.size + Profiles) /\ run.left \in 0 .. budget
  /\ faults \subseteq 1 .. Entries /\ futures \in [Kinds -> {"none", "running", "ok", "bad", "fatal", "raised"}]
  /\ stray \subseteq Kinds \cup {"dm"} /\ excused \subseteq Kinds \cup {"dm", "faults"}
  /\ todo \in [1 .. 3 -> Nat \cup {Over}] /\ queue \in 0 .. put

\* A test starts on a machine without the servers, loads, devices and injected faults of the
\* tests before it, however those ended, except where the code lets them stay: a clean-up whose
\* result is not looked at, a stress-ng that was resubmitted or waited for in vain, what runs
\* beside a load that raises or a client that refuses its time, a device left by an exception.
CleanStart ==
  run.pc = "setup" /\ run.sub = 0 => /\ stray \subseteq excused
                                     /\ faults = {} \/ "faults" \in excused

\* A row says PASSED only when every load that shares in it ended well: the first result of
\* both loads of a pair, the client, the server and the stress-ng of a network test.  The
\* exceptions are results the code does not read: the server's of the local network test,
\* a chaosblade experiment that was started under faults, systemd-analyze.
Unread == {<<"load", "unread">>}
PassedIsEarned ==
  run.row.status = "PASSED" =>
    \A e \in run.row.ends \ Unread : e[2] = "ok" \/ (run.test = Local /\ e[1] = "server")

\* The parallel fio test is over only when the threads of its suites have ended and each of
\* their results has become a row: none is left in the queue.
QueueDrained ==
  run.test = Parallel /\ run.pc = "cleanup" => /\ \A s \in 1 .. 3 : todo[s] = Over
                                               /\ queue = 0 /\ run.rows = put

\* A test keeps to its seconds.  The packet-rate test runs out of time between two profiles
\* only when a profile took longer than its share and the overhead kept for it; the shortest
\* time it announces as enough is not enough, as a part of a second is gone at the first look.
RateKeepsTime ==
  <<"time", "exhausted">> \in run.row.ends =>
    run.late \/ (run.sub = 0 /\ budget = Profiles * (OverheadSec + 1))

\* The cases of a fio suite take its seconds to the second, no case less than the least,
\* no two more than a second apart; a suite that has not got the least for each
\* workload takes the least for each, and longer than it has.
FioKeepsTime(t) ==
  LET sec   == SuiteSec(t)
      n     == CasesOf(t)
      least == Timing(sec).least
      times == Runtimes(sec, n, least)
  IN  IF sec < n * least THEN n = FioTests[t].workloads /\ \A i \in 1 .. n : times[i] = least
      ELSE /\ MapThenSumSet(LAMBDA i : times[i], 1 .. n) = sec
           /\ \A i, j \in 1 .. n : times[i] >= least /\ times[i] - times[j] <= 1

\* Both: the time of the packet-rate test and that of the fio suites.
OnTime ==
  /\ RateKeepsTime
  /\ run.pc = "fio" => FioKeepsTime(run.test)
=============================================================================
