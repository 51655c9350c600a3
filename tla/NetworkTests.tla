---------------------------- MODULE NetworkTests ----------------------------
(***************************************************************************)
(* The network tests: an iperf3 server on the machine that handles one     *)
(* client and exits, the client on the host that runs the tests, and       *)
(* stress-ng beside them.  The server is waited for only for so long.      *)
(***************************************************************************)
EXTENDS Machine

CONSTANTS
  Profiles,   \* packet-rate profiles
  ClientMax,  \* the longest time an iperf3 client takes as its argument
  Delay       \* BOUND: seconds a profile may take over its share

ASSUME NetworkAssumption == Profiles \in Nat \ {0} /\ ClientMax \in Nat /\ Delay \in Nat

Local == "Iperf3LocalTest"
Rate  == "Iperf3PacketRateScalingTest"
Max_  == "StressNgMaxNetworkLoadTest"
NetworkTestNames == {Local, Rate, Max_}

StartupSec == 3
ShutdownSec == 2
OverheadSec == StartupSec + 1

\* MUTANT of Share: no overhead is kept.
ShareOfAll(left, count) == left \div count

\* get_subtest_timeout
Share(left, count) ==
  LET available == left - count * OverheadSec
  IN  IF available < count THEN 0 ELSE available \div count

\* int(deadline - monotonic()): whole seconds, and less than all of them from the start.
Remaining == IF run.sub = 0 THEN run.left - 1 ELSE run.left

\* The seconds the client of the present subtest runs for.
ClientSec ==
  CASE run.test = Local -> budget
    [] run.test = Rate  -> Share(Remaining, Profiles - run.sub)
    [] run.test = Max_  -> budget - (StartupSec + ShutdownSec)

Starts == [run EXCEPT !.pc = "client", !.sub = @ + 1, !.size = ClientSec, !.ends = {}]
Subtests(t) == CASE t = Local -> 2 [] t = Rate -> Profiles [] t = Max_ -> 1

\* The time is too short for the test, or has run out between two profiles.
NoTime(t) ==
  /\ In(t, "setup") /\ t # Local /\ ClientSec < 1
  /\ run' = Done(Row(run, "BROKEN", IF t = Max_ \/ Share(budget, Profiles) < 1 THEN {}
                                    ELSE {<<"time", "exhausted">>}))
  /\ UNCHANGED machineVars

StartServer(t) ==
  /\ In(t, "setup") /\ (t = Local \/ ClientSec >= 1)
  /\ run' = Starts
  /\ futures' = IF t = Max_ THEN [ServerStarted EXCEPT !["stress"] = "running"] ELSE ServerStarted
  /\ UNCHANGED <<faults, stray, excused>>

\* Iperf3.run refuses the time with the loads already under way.
ClientRefused(t) ==
  /\ In(t, "client") /\ run.size > ClientMax
  /\ run' = Done(run) /\ excused' = excused \cup Running
  /\ UNCHANGED <<faults, futures, stray>>

\* A client that ended well has used a server up; one that did not has it stopped.
NextSubtest(r) == IF r.sub = Subtests(r.test) THEN Done(r) ELSE [r EXCEPT !.pc = "setup"]
\* MUTANT of Spent: seconds below zero.
SpentBelow(r, sec) == [r EXCEPT !.left = @ - sec, !.late = @ \/ sec > r.size + OverheadSec]
Spent(r, sec) == [r EXCEPT !.left = IF sec > @ THEN 0 ELSE @ - sec,
                           !.late = @ \/ sec > r.size + OverheadSec]

Client(t) ==
  /\ In(t, "client") /\ run.size <= ClientMax
  /\ \E how \in {"ok", "bad"}, over \in {StartupSec, OverheadSec, OverheadSec + Delay} :
       /\ how = "ok" => futures["server"] = "running" \/ "server" \in stray
       /\ LET seen == Spent([run EXCEPT !.ends = {<<"client", how>>}],
                            over + IF how = "ok" THEN run.size ELSE 0)
          IN  /\ run' = IF t = Local /\ how = "bad" THEN NextSubtest(Row(seen, "FAILED", seen.ends))
                        ELSE [seen EXCEPT !.pc = IF t = Max_ THEN "stress" ELSE "server"]
              /\ futures' = IF how = "bad" THEN ServerStopped(futures) ELSE futures
              /\ stray' = stray \ {"server"}
  /\ UNCHANGED <<faults, excused>>

\* The stress-ng beside the client ended in time, or not: it is left running then.
StressEnded(t) ==
  /\ In(t, "stress") /\ futures["stress"] \notin {"running", "raised"}
  /\ run' = [run EXCEPT !.pc = "server", !.ends = @ \cup {<<"stress", futures["stress"]>>}]
  /\ UNCHANGED machineVars

\* It had no version: the exception leaves the test, and nobody stops the server.
StressRaises(t) ==
  /\ In(t, "stress") /\ futures["stress"] = "raised"
  /\ run' = Done(run) /\ excused' = excused \cup Running
  /\ UNCHANGED <<faults, futures, stray>>

StressLate(t) ==
  /\ In(t, "stress") /\ futures["stress"] = "running"
  /\ run' = Done(Row(run, "FAILED", run.ends))
  /\ futures' = ServerStopped(futures) /\ stray' = stray \ {"server"}
  /\ excused' = excused \cup {"stress"} /\ UNCHANGED faults

\* wait_server gives up, and stops the server; a profile's suite ends with it.
ServerLate(t) ==
  LET failed == Row(run, "FAILED", run.ends)
  IN  /\ In(t, "server") /\ futures["server"] = "running"
      /\ run' = IF t = Rate THEN Done(failed) ELSE NextSubtest(failed)
      /\ futures' = ServerStopped(futures) /\ stray' = stray \ {"server"}
      /\ UNCHANGED <<faults, excused>>

\* MUTANT of RowOf: only the client's result is looked at.
ClientDecides(t, ends) == IF <<"client", "ok">> \in ends THEN "PASSED" ELSE "FAILED"

\* Which of the results decide: the local test does not look at the server's.
RowOf(t, ends) ==
  CASE <<"stress", "fatal">> \in ends -> "BROKEN"
    [] t # Local /\ \E e \in ends : e[2] # "ok" -> "FAILED"
    [] OTHER -> "PASSED"

\* The outputs of the client and of the server are read last, and may not be readable.
ServerEnded(t) ==
  LET ends   == run.ends \cup {<<"server", futures["server"]>>}
      status == RowOf(t, ends)
  IN  /\ In(t, "server") /\ futures["server"] # "running"
      /\ \/ run' = NextSubtest(Row(run, status, ends))
         \/ status = "PASSED" /\ futures["server"] # "ok" /\ run' = Done(run)
      /\ UNCHANGED machineVars

NetworkLoadEnds(t) ==
  /\ run.test = t /\ run.pc \in {"client", "stress", "server"}
  /\ \/ run.pc # "client" /\ LoadEnds("server", "ok")
     \/ LoadEnds("server", "bad")
     \/ \E how \in {"ok", "bad", "fatal", "raised"} : LoadEnds("stress", how)

NetworkTestsStep ==
  \E t \in NetworkTestNames :
    \/ NoTime(t) \/ StartServer(t) \/ ClientRefused(t) \/ Client(t) \/ StressEnded(t)
    \/ StressRaises(t) \/ StressLate(t) \/ ServerLate(t) \/ ServerEnded(t) \/ NetworkLoadEnds(t)
=============================================================================
