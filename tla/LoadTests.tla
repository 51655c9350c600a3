------------------------------ MODULE LoadTests ------------------------------
(***************************************************************************)
(* The tests that run their loads one by one, those that keep two loads    *)
(* going side by side, and those that inject faults under a load.          *)
(***************************************************************************)
EXTENDS Machine

CONSTANTS Procs, Grown   \* nproc of the machine, and earlier runs of the memory performance test

ASSUME LoadAssumption == Procs \in Nat \ {0} /\ Grown \in Nat

\* f and what g has besides (@@ of module TLC, which proofs cannot look into).
f ++ g == [x \in DOMAIN f \cup DOMAIN g |-> IF x \in DOMAIN f THEN f[x] ELSE g[x]]

(* What a load of a tool ends in, and the status of the row it gives; none for one that raises, *)
(* as stress-ng does without a version, and a tool whose report is missing or unreadable.       *)
PlainRow  == [ok |-> "PASSED", bad |-> "FAILED"]
RaisingRow == PlainRow ++ [raised |-> "none"]
StressRow == [ok |-> "PASSED", bad |-> "FAILED", fatal |-> "BROKEN", raised |-> "none"]

(* A sequence of loads: the rows of its tool, the numbers of loads it may   *)
(* come to, the least seconds of a load when the time is divided among them *)
(* (0: each has the whole time), and what becomes of a set-up that fails.   *)
Sequence(rows, sizes, least, gate) ==
  [rows |-> rows, sizes |-> sizes, least |-> least, gate |-> gate]
Whole(rows, n) == Sequence(rows, {n}, 0, "none")
Divided(n)     == Sequence(StressRow, {n}, 1, "none")

\* Six loads on subsystems: one by one, two to five of them at once, all of them.
GeneralTests ==
  [StressNgConsecutiveLoadTest |-> Divided(6),
   StressNgCombineLoadTest     |-> Divided(15 + 20 + 15 + 6),
   StressNgParallelLoadTest    |-> Whole(StressRow, 1)]

\* An old stress-ng knows no mmaptorture.  perf_tests grows by two at every run.
MemoryTests ==
  [StressNgEnduranceMemoryTest   |-> Whole(StressRow ++ [old |-> "SKIPPED"], 3),
   StressNgPerformanceMemoryTest |-> Sequence(StressRow, {6 + 2 * Grown}, 0, "BROKEN"),
   SarWithStressNgTest           |-> Whole(RaisingRow, 1)]

\* One load for each processor.
IpcTests ==
  [StressNgIterTestIPC  |-> Sequence(StressRow, {Procs}, 1, "BROKEN"),
   LTPSyscallsIPCTest   |-> Sequence(RaisingRow, {1}, 0, "nothing"),
   SchedPerformanceTest |-> Whole(PlainRow, 3)]

\* The systemd-analyze tests do not look at how it ended.
SystemTests ==
  [SystemLoadTimeTest         |-> Whole([ok |-> "PASSED", unread |-> "PASSED"], 1),
   SystemSlowServicesTest     |-> Whole([ok |-> "PASSED", unread |-> "PASSED"], 1),
   PTSSystemTest              |-> Sequence(RaisingRow ++ [slow |-> "BROKEN"], {2}, 0, "nothing"),
   StressNgEnduranceCpuTest   |-> Whole(StressRow, 1),
   StressNgPerformanceCpuTest |-> Whole(StressRow, 1),
   ChaosbladeCPUTest          |-> Whole(PlainRow ++ [refused |-> "BROKEN"], 1)]

SyscallsTests ==
  [LTPSyscallsTest                 |-> Sequence(RaisingRow, {1}, 0, "nothing"),
   StressNgEnduranceSyscallsTest   |-> Whole(StressRow, 1),
   StressNgSyscallsWithMemLoadTest |-> Whole(StressRow, 1)]

\* The benchmarks of the tools that could be prepared: 4 of PTS, 5 of perf, 3 of those for IPC.
JointBench ==
  [JointBench |-> Sequence(PlainRow ++ [slow |-> "BROKEN", raised |-> "BROKEN"],
                           {0, 3, 4, 5, 9}, 0, "none")]

\* A row for each command line: 18 on files, that fail together, and 21 others.
POSIXUtilsTest ==
  [POSIXUtilsTest |-> Sequence([ok |-> "PASSED", bad |-> "BROKEN"], {21, 39}, 0, "none")]

FwtsTest    == [FwtsTest |-> Whole(PlainRow ++ [silent |-> "BROKEN"], 1)]
VdbenchTest == [VdbenchTest |-> Whole(PlainRow, 1)]
StressNgEnduranceFileTest    == [StressNgEnduranceFileTest |-> Divided(5)]
StressNgEnduranceNetworkTest == [StressNgEnduranceNetworkTest |-> Whole(StressRow, 1)]
FaultInjectionEnduranceTest  ==
  [FaultInjectionEnduranceTest |-> Sequence(RaisingRow, {4}, 0, "nothing")]

SubsystemTests == GeneralTests ++ MemoryTests ++ IpcTests ++ SystemTests
ToolTests      == SyscallsTests ++ JointBench ++ POSIXUtilsTest ++ FwtsTest
EnduranceTests ==
  VdbenchTest ++ StressNgEnduranceFileTest ++ StressNgEnduranceNetworkTest ++ FaultInjectionEnduranceTest
Catalogue      == SubsystemTests ++ ToolTests ++ EnduranceTests
SequenceTests == DOMAIN Catalogue

\* A set-up that fails is a BROKEN row, or nothing: `return TestResult' in a generator.
SequenceSetUp(t) ==
  LET s == Catalogue[t]
  IN  /\ In(t, "setup")
      /\ \/ s.gate # "none"
            /\ run' = Done(IF s.gate = "BROKEN" THEN Row(run, "BROKEN", {}) ELSE run)
         \/ \E n \in s.sizes :
              run' = IF s.least > 0 /\ SubtestTimeout(budget, n, s.least) = 0 THEN Done(run)
                     ELSE [run EXCEPT !.pc = IF n = 0 THEN "cleanup" ELSE "load", !.size = n]
      /\ UNCHANGED machineVars

\* The row of a load, if it gives one.
LoadRow(r, status, how) ==
  IF status = "none" THEN r ELSE Row(r, status, {<<"load", how>>})

\* One load, awaited, and its row.  What it raises ends the test; JointBench has a row for it.
SequenceLoad(t) ==
  LET rows == Catalogue[t].rows
  IN  /\ In(t, "load")
      /\ \E how \in DOMAIN rows :
           LET r == LoadRow([run EXCEPT !.sub = @ + 1], rows[how], how)
           IN  run' = IF r.sub = r.size \/ how = "raised" THEN Done(r) ELSE r
      /\ UNCHANGED machineVars

(***************************************************************************)
(* SyscallsWithCpuLoadTest and SyscallsFullLoadTest.  The first loop keeps *)
(* the bench (kirk, perf) going until stress-ng ends, the second stress-ng *)
(* until the bench ends.  Only the first result of each is looked at.      *)
(***************************************************************************)
PairTests == {"SyscallsWithCpuLoadTest", "SyscallsFullLoadTest"}
PairSize(t) == IF t = "SyscallsWithCpuLoadTest" THEN 6 ELSE 1
FirstOf(k) == {e \in run.ends : e[1] = k}
Noted(k) == IF FirstOf(k) = {} THEN run.ends \cup {<<k, futures[k]>>} ELSE run.ends

\* Its first result is the exception it raised: result() raises it again.
Raised(k) == FirstOf(k) = {} /\ futures[k] = "raised"

PairSetUp(t) ==
  /\ In(t, "setup")
  /\ run' = IF SubtestTimeout(budget, PairSize(t), 1) = 0 THEN Done(run)
            ELSE [run EXCEPT !.pc = "pair", !.size = PairSize(t)]
  /\ UNCHANGED machineVars

\* Two submits; what an earlier subtest left running goes on beside them.
PairStart(t) ==
  /\ In(t, "pair")
  /\ run' = [run EXCEPT !.pc = "first", !.ends = {}, !.sub = @ + 1]
  /\ stray' = stray \cup Running
  /\ futures' = [futures EXCEPT !["stress"] = "running", !["bench"] = "running"]
  /\ UNCHANGED <<faults, excused>>

FirstLoop(t) ==
  /\ In(t, "first")
  /\ IF futures["stress"] # "running" THEN run' = [run EXCEPT !.pc = "second"] /\ UNCHANGED futures
     ELSE /\ futures["bench"] # "running"
          /\ ~Raised("bench")
          /\ run' = [run EXCEPT !.ends = Noted("bench")] /\ futures' = Resubmit("bench")
  /\ UNCHANGED <<faults, stray, excused>>

SecondLoop(t) ==
  /\ In(t, "second")
  /\ IF futures["bench"] # "running" THEN run' = [run EXCEPT !.pc = "verdict"] /\ UNCHANGED futures
     ELSE /\ futures["stress"] # "running"
          /\ ~Raised("stress")
          /\ run' = [run EXCEPT !.ends = Noted("stress")] /\ futures' = Resubmit("stress")
  /\ UNCHANGED <<faults, stray, excused>>

\* A kirk that ended well without a report ends the test.
PairVerdict(t) ==
  LET ends == Noted("stress") \cup Noted("bench")
      good == \A e \in ends : e[2] = "ok"
      bare == good /\ t = "SyscallsWithCpuLoadTest"
      r(status) == [Row(run, status, ends) EXCEPT !.pc = IF run.sub = run.size THEN "cleanup" ELSE "pair"]
  IN  /\ In(t, "verdict") /\ ~Raised("stress") /\ ~Raised("bench")
      /\ \/ run' = r(IF good THEN "PASSED" ELSE "FAILED")
         \/ bare /\ run' = Done(Row(run, "FAILED", ends))
      /\ excused' = excused \cup (Running \cap {"stress"})
      /\ UNCHANGED <<faults, futures, stray>>

\* The test ends with the exception, without a row; the load beside goes on.
PairRaises(t) ==
  /\ \/ In(t, "first") /\ futures["stress"] = "running" /\ Raised("bench")
     \/ In(t, "second") /\ futures["bench"] = "running" /\ Raised("stress")
     \/ In(t, "verdict") /\ (Raised("stress") \/ Raised("bench"))
  /\ run' = Done(run) /\ excused' = excused \cup Running
  /\ UNCHANGED <<faults, futures, stray>>

\* stress-ng raises without a version, kirk without its report.
PairLoadEnds(t) ==
  /\ run.test = t /\ run.pc \in {"first", "second", "verdict", "pair"}
  /\ \E k \in {"stress", "bench"}, how \in {"ok", "bad", "raised"} :
       /\ how = "raised" => k = "stress" \/ t = "SyscallsWithCpuLoadTest"
       /\ LoadEnds(k, how)

(***************************************************************************)
(* Fault injection: every probability with every load.                     *)
(***************************************************************************)
\* The number of probabilities and the rows; perf without metrics gives no row, and the
\* chaosblade experiment is not asked how it ended, but its status may raise.
ChaosbladeFaults ==
  [probs |-> 5, rows |-> PlainRow ++ [unread |-> "PASSED", raised |-> "none"]]
StressNgFaults == [probs |-> 4, rows |-> StressRow]
PerfFaults     == [probs |-> 4, rows |-> PlainRow ++ [empty |-> "none"]]
FioFaults      == [probs |-> 4, rows |-> PlainRow]
\* It reads an attribute it does not have.
Iperf3Faults   == [probs |-> 4, rows |-> << >>]

FaultTests ==
  [FaultInjectionChaosbladeTest |-> ChaosbladeFaults, FaultInjectionStressNgTest |-> StressNgFaults,
   FaultInjectionPerfTest |-> PerfFaults, FaultInjectionFioTest |-> FioFaults,
   FaultInjectionIperf3Test |-> Iperf3Faults]
FaultTestNames == DOMAIN FaultTests
SuitesUnderFaults == 2
LeastFaultSec == 60

\* Not the system for it, or too short a time.
FaultSetUp(t) ==
  LET n == FaultTests[t].probs * SuitesUnderFaults
  IN  /\ In(t, "setup")
      /\ \/ run' = Done(run)
         \/ /\ SubtestTimeout(budget, n, LeastFaultSec) > 0 /\ FaultTests[t].rows # << >>
            /\ run' = [run EXCEPT !.pc = "faults", !.size = n]
      /\ UNCHANGED machineVars

\* The first probability is 0; a write that fails ends the test with a FAILED row.
ChangeFaults(t) ==
  /\ In(t, "faults")
  /\ \E k \in 0 .. Entries :
       /\ SetFaults(run.sub >= SuitesUnderFaults, k)
       /\ run' = IF k < Entries THEN Done(Row(run, "FAILED", {})) ELSE [run EXCEPT !.pc = "load"]
  /\ UNCHANGED <<futures, stray, excused>>

\* fio may raise after its row.
FaultLoad(t) ==
  /\ In(t, "load")
  /\ \E how \in DOMAIN FaultTests[t].rows, raised \in {FALSE, t = "FaultInjectionFioTest"} :
       LET r == LoadRow([run EXCEPT !.sub = @ + 1, !.pc = "faults"], FaultTests[t].rows[how], how)
           over == \/ r.sub = r.size \/ raised \/ how = "raised"
                   \/ t = "FaultInjectionStressNgTest" /\ how # "ok"
       IN  run' = IF over THEN Done(r) ELSE r
  /\ UNCHANGED machineVars

(***************************************************************************)
(* cleanup: FaultCleanupMixin switches the faults off, and does not look   *)
(* whether it could.                                                       *)
(***************************************************************************)
Cleanup ==
  /\ run.pc = "cleanup" /\ run' = Idle
  /\ futures' = NoFutures /\ stray' = stray \cup Running
  /\ IF run.test \in FaultTestNames
     THEN \E k \in 0 .. Entries :
            /\ SetFaults(FALSE, k)
            /\ excused' = IF k < Entries THEN excused \cup {"faults"} ELSE excused \ {"faults"}
     ELSE UNCHANGED <<faults, excused>>

LoadTestsStep ==
  \/ \E t \in SequenceTests : SequenceSetUp(t) \/ SequenceLoad(t)
  \/ \E t \in PairTests :
       \/ PairSetUp(t) \/ PairStart(t) \/ FirstLoop(t) \/ SecondLoop(t) \/ PairVerdict(t)
       \/ PairRaises(t) \/ PairLoadEnds(t)
  \/ \E t \in FaultTestNames : FaultSetUp(t) \/ ChangeFaults(t) \/ FaultLoad(t)
  \/ Cleanup
=============================================================================
