------------------------------- MODULE Machine -------------------------------
(***************************************************************************)
(* What the tests of a suite share: the machine they load, the futures of  *)
(* the loads the running test has submitted, and what earlier tests have   *)
(* left behind.  TestsRunner starts one test after another; here it is the *)
(* inside of a test that is looked at, on a machine that is reachable.     *)
(***************************************************************************)
EXTENDS Integers, FiniteSets

CONSTANTS
  Budgets,  \* the seconds a time-limited test may be given
  Entries,  \* number of fault-injection directories of debugfs
  MaxTests  \* BOUND: tests that run one after another

ASSUME MachineAssumption ==
  /\ Budgets \subseteq Nat \ {0} /\ Entries \in Nat /\ MaxTests \in Nat

VARIABLES
  budget,   \* test_duration of the suite
  run,      \* the test that runs and where it is
  ran,      \* tests that were started
  faults,   \* fault-injection directories whose probability is above zero
  futures,  \* of each kind of load, the future the test holds
  stray,    \* what earlier tests have left on the machine
  excused   \* what they may leave there, for the reasons the code does not handle

machineVars == <<faults, futures, stray, excused>>

Kinds == {"server", "stress", "bench"}
NoRow == [status |-> "none", ends |-> {}]
Idle  == [test |-> "none", pc |-> "idle", sub |-> 0, size |-> 0, rows |-> 0, row |-> NoRow,
          left |-> 0, late |-> FALSE, ends |-> {}]
NoFutures == [k \in Kinds |-> "none"]

MachineInit ==
  /\ budget \in Budgets /\ run = Idle /\ ran = 0
  /\ faults = {} /\ futures = NoFutures /\ stray = {} /\ excused = {}

In(test, pc) == run.test = test /\ run.pc = pc
Row(r, status, ends) == [r EXCEPT !.rows = @ + 1, !.row = [status |-> status, ends |-> ends]]
Done(r) == [r EXCEPT !.pc = "cleanup"]

\* calc_subtest_timeout: 0 where it raises ValueError.
SubtestTimeout(timeout, count, least) ==
  IF timeout \div count < least THEN 0 ELSE timeout \div count

Begin(t) ==
  /\ run.test = "none" /\ ran < MaxTests /\ ran' = ran + 1
  /\ run' = [Idle EXCEPT !.test = t, !.pc = "setup", !.left = budget]
  /\ UNCHANGED <<budget, machineVars>>

\* change_fault_parameters, cut off after the directories 1 .. k; the probability is
\* the last thing it writes in each.
SetFaults(on, k) == faults' = IF on THEN faults \cup 1 .. k ELSE faults \ (1 .. k)

(* Loads. *)
Running == {k \in Kinds : futures[k] = "running"}
Resubmit(k) == [futures EXCEPT ![k] = "running"]

LoadEnds(k, how) ==
  /\ futures[k] = "running" /\ futures' = [futures EXCEPT ![k] = how]
  /\ UNCHANGED <<run, faults, stray, excused>>

\* A one-off server whose port another one still holds ends at once.
ServerStarted == [futures EXCEPT !["server"] = IF "server" \in stray THEN "bad" ELSE "running"]

\* MUTANT of ServerStopped: the server is not killed.
LeaveServer(f) == f

\* stop_server kills every server of the machine.
ServerStopped(f) == [f EXCEPT !["server"] = IF @ = "running" THEN "bad" ELSE @]

\* A load that was left behind ends in its own time; a server that waits for a client does not.
StrayEnds ==
  /\ \E k \in stray \cap {"stress", "bench"} : stray' = stray \ {k}
  /\ UNCHANGED <<budget, run, ran, faults, futures, excused>>
=============================================================================
