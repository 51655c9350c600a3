---------------------------- MODULE SuitesProofs ----------------------------
(***************************************************************************)
(* Proofs about Suites, for every budget, every number of tests, of fault  *)
(* injection directories, of packet-rate profiles and every delay.         *)
(***************************************************************************)
EXTENDS Suites, SumLemmas, FiniteSetTheorems, TLAPS

Held(k) == futures[k] = "running"

RunOK == DOMAIN run = DOMAIN Idle /\ (run.test = "none" => run.pc = "idle")
FuturesOK == futures \in [Kinds -> {"none", "running", "ok", "bad", "fatal", "raised"}]

(***************************************************************************)
(* What is on the machine.  What a test leaves there is excused, but for   *)
(* the device of a test that still has to remove it; the loads of a test   *)
(* run in the part of it that waits for them.                              *)
(***************************************************************************)
StrayInv ==
  /\ stray \subseteq Kinds \cup {"dm"} /\ stray \ excused \subseteq {"dm"}
  /\ "dm" \in stray \ excused =>
       /\ run.pc \in {"fio", "archive", "remove"}
       /\ run.test \in DOMAIN FioTests /\ FioTests[run.test].device

LoadsInv ==
  /\ run.pc \in {"pair", "cleanup"} => Running \subseteq excused
  /\ run.pc \in {"pair", "first", "second"} => ~ Held("server")
  /\ run.pc = "verdict" => Running \subseteq {"stress"}
  /\ run.pc \in {"client", "stress", "server"} =>
       ~ Held("bench") /\ (run.test # Max_ => ~ Held("stress"))
  /\ run.pc = "server" => ~ Held("stress")
  /\ run.pc \in {"idle", "setup", "load", "faults", "fio", "archive", "remove", "futures", "queue",
                 "get"} => Running = {}

FaultsInv ==
  /\ faults \subseteq 1 .. Entries
  /\ \/ faults = {} \/ "faults" \in excused
     \/ run.test \in FaultTestNames /\ run.pc \in {"faults", "load", "cleanup"}

MachineInv == RunOK /\ FuturesOK /\ StrayInv /\ LoadsInv /\ FaultsInv

(***************************************************************************)
(* A step that leaves the machine alone, and moves to a part of its test.  *)
(***************************************************************************)
LEMMA PairMachineInv ==
  ASSUME MachineInv, NEW t \in PairTests,
         \/ PairSetUp(t) \/ PairStart(t) \/ FirstLoop(t) \/ SecondLoop(t) \/ PairVerdict(t)
         \/ PairRaises(t) \/ PairLoadEnds(t)
  PROVE MachineInv'
<1> USE DEF MachineInv, RunOK, FuturesOK, In, Done, machineVars
<1>1. CASE PairSetUp(t)
  <2>1. /\ run.pc = "setup" /\ run'.pc \in {"pair", "cleanup"} /\ run'.test = run.test
        /\ DOMAIN run' = DOMAIN Idle /\ UNCHANGED machineVars
    BY <1>1 DEF PairSetUp, Idle
  <2> QED
    BY <2>1 DEF StrayInv, LoadsInv, FaultsInv, Running, Held, Kinds
<1>2. CASE PairStart(t)
  <2>1. /\ run.pc = "pair" /\ run'.pc = "first" /\ run'.test = run.test /\ DOMAIN run' = DOMAIN Idle
        /\ stray' = stray \cup Running /\ UNCHANGED <<faults, excused>>
        /\ futures' = [futures EXCEPT !["stress"] = "running", !["bench"] = "running"]
    BY <1>2 DEF PairStart, Idle
  <2>2. StrayInv'
    BY <2>1 DEF StrayInv, LoadsInv, Running
  <2>3. FuturesOK' /\ ~ Held("server")'
    BY <2>1 DEF LoadsInv, Running, Held, Kinds, StrayInv
  <2> QED
    BY <2>1, <2>2, <2>3 DEF LoadsInv, FaultsInv
<1>3. CASE FirstLoop(t)
  BY <1>3 DEF FirstLoop, StrayInv, LoadsInv, FaultsInv, Running, Held, Kinds, Resubmit, Idle
<1>4. CASE SecondLoop(t)
  BY <1>4 DEF SecondLoop, StrayInv, LoadsInv, FaultsInv, Running, Held, Kinds, Resubmit, Idle
<1>5. CASE PairVerdict(t)
  <2>1. /\ run.pc = "verdict" /\ run'.pc \in {"pair", "cleanup"} /\ run'.test = run.test
        /\ DOMAIN run' = DOMAIN Idle
        /\ excused' = excused \cup (Running \cap {"stress"}) /\ UNCHANGED <<faults, futures, stray>>
    BY <1>5 DEF PairVerdict, Row, Idle
  <2> QED
    BY <2>1 DEF StrayInv, LoadsInv, FaultsInv, Running, Held, Kinds
<1>6. CASE PairLoadEnds(t)
  BY <1>6 DEF PairLoadEnds, LoadEnds, StrayInv, LoadsInv, FaultsInv, Running, Held, Kinds
<1>7. CASE PairRaises(t)
  <2>1. /\ run.pc \in {"first", "second", "verdict"} /\ run'.pc = "cleanup" /\ run'.test = run.test
        /\ DOMAIN run' = DOMAIN Idle
        /\ excused' = excused \cup Running /\ UNCHANGED <<faults, futures, stray>>
    BY <1>7 DEF PairRaises, Idle
  <2> QED
    BY <2>1 DEF StrayInv, LoadsInv, FaultsInv, Running
<1> QED
  BY <1>1, <1>2, <1>3, <1>4, <1>5, <1>6, <1>7

LEMMA SequenceMachineInv ==
  ASSUME MachineInv, NEW t \in SequenceTests, SequenceSetUp(t) \/ SequenceLoad(t)
  PROVE  MachineInv'
<1>1. CASE SequenceSetUp(t)
  <2>1. /\ run.pc = "setup" /\ run'.pc \in {"load", "cleanup"} /\ run'.test = run.test
        /\ DOMAIN run' = DOMAIN Idle /\ UNCHANGED machineVars
    BY <1>1 DEF SequenceSetUp, In, Row, Done, MachineInv, RunOK, Idle
  <2> QED
    BY <2>1 DEF MachineInv, RunOK, FuturesOK, StrayInv, LoadsInv, FaultsInv, Running, Held, machineVars
<1>2. CASE SequenceLoad(t)
  <2>1. /\ run.pc = "load" /\ run'.pc \in {"load", "cleanup"} /\ run'.test = run.test
        /\ DOMAIN run' = DOMAIN Idle /\ UNCHANGED machineVars
    <3>1. In(t, "load") /\ UNCHANGED machineVars
      BY <1>2 DEF SequenceLoad
    <3>2. PICK how \in DOMAIN Catalogue[t].rows :
            LET r == LoadRow([run EXCEPT !.sub = @ + 1], Catalogue[t].rows[how], how)
            IN  run' = IF r.sub = r.size \/ how = "raised" THEN Done(r) ELSE r
      BY <1>2, Zenon DEF SequenceLoad
    <3> DEFINE s == [run EXCEPT !.sub = @ + 1]
               r == LoadRow(s, Catalogue[t].rows[how], how)
    <3>3. run' \in {r, Done(r)}
      BY <3>2
    <3>4. DOMAIN s = DOMAIN Idle /\ s.test = run.test /\ s.pc = "load"
      BY <3>1 DEF In, MachineInv, RunOK, Idle
    <3> HIDE DEF s
    <3>5. DOMAIN r = DOMAIN Idle /\ r.test = run.test /\ r.pc = "load"
      BY <3>4 DEF LoadRow, Row, Idle
    <3> HIDE DEF r
    <3> QED
      BY <3>1, <3>3, <3>5 DEF In, Done, Idle
  <2> QED
    BY <2>1 DEF MachineInv, RunOK, FuturesOK, StrayInv, LoadsInv, FaultsInv, Running, Held, machineVars
<1> QED
  BY <1>1, <1>2

LEMMA SetFaultsOK ==
  ASSUME faults \subseteq 1 .. Entries, NEW on, NEW k \in 0 .. Entries, SetFaults(on, k)
  PROVE  faults' \subseteq 1 .. Entries
BY MachineAssumption DEF SetFaults

LEMMA FaultMachineInv ==
  ASSUME MachineInv, NEW t \in FaultTestNames, FaultSetUp(t) \/ ChangeFaults(t) \/ FaultLoad(t)
  PROVE  MachineInv'
<1>1. CASE FaultSetUp(t)
  <2>1. /\ run.pc = "setup" /\ run'.pc \in {"faults", "cleanup"} /\ run'.test = run.test
        /\ DOMAIN run' = DOMAIN Idle /\ UNCHANGED machineVars
    BY <1>1 DEF FaultSetUp, In, Done, MachineInv, RunOK, Idle
  <2> QED
    BY <2>1 DEF MachineInv, RunOK, FuturesOK, StrayInv, LoadsInv, FaultsInv, Running, Held, machineVars
<1>2. CASE ChangeFaults(t)
  <2>1. PICK k \in 0 .. Entries :
          /\ SetFaults(run.sub >= SuitesUnderFaults, k)
          /\ run' = IF k < Entries THEN Done(Row(run, "FAILED", {})) ELSE [run EXCEPT !.pc = "load"]
    BY <1>2 DEF ChangeFaults
  <2>2. /\ run.pc = "faults" /\ run'.pc \in {"load", "cleanup"} /\ run'.test = run.test /\ run.test = t
        /\ DOMAIN run' = DOMAIN Idle /\ UNCHANGED <<futures, stray, excused>>
    BY <1>2, <2>1 DEF ChangeFaults, In, Row, Done, MachineInv, RunOK, Idle
  <2>3. faults' \subseteq 1 .. Entries
    BY <2>1, SetFaultsOK DEF MachineInv, FaultsInv
  <2>4. StrayInv' /\ LoadsInv'
    BY <2>2 DEF MachineInv, StrayInv, LoadsInv, Running, Held
  <2>5. RunOK' /\ FuturesOK'
    BY <1>2, <2>2 DEF ChangeFaults, In, MachineInv, RunOK, FuturesOK
  <2>6. faults' = {} \/ "faults" \in excused' \/ run'.test \in FaultTestNames
    BY <2>2
  <2> QED
    BY <2>2, <2>3, <2>4, <2>5, <2>6 DEF MachineInv, FaultsInv
<1>3. CASE FaultLoad(t)
  <2>1. /\ run.pc = "load" /\ run'.pc \in {"faults", "cleanup"} /\ run'.test = run.test
        /\ DOMAIN run' = DOMAIN Idle /\ UNCHANGED machineVars
    <3> DEFINE s == [run EXCEPT !.sub = @ + 1, !.pc = "faults"]
               r(how) == LoadRow(s, FaultTests[t].rows[how], how)
    <3>1. In(t, "load") /\ UNCHANGED machineVars
      BY <1>3 DEF FaultLoad
    <3>2. PICK how \in DOMAIN FaultTests[t].rows : run' = Done(r(how)) \/ run' = r(how)
      BY <1>3 DEF FaultLoad
    <3>3. DOMAIN s = DOMAIN Idle /\ s.pc = "faults" /\ s.test = run.test
      BY DEF MachineInv, RunOK, Idle
    <3> HIDE DEF s
    <3>4. DOMAIN r(how) = DOMAIN Idle /\ r(how).pc = "faults" /\ r(how).test = run.test
      BY <3>3 DEF LoadRow, Row, Idle
    <3> HIDE DEF r
    <3> QED
      BY <3>1, <3>2, <3>4 DEF In, Done, Idle
  <2>2. RunOK' /\ FuturesOK' /\ FaultsInv'
    BY <1>3, <2>1 DEF FaultLoad, In, MachineInv, RunOK, FuturesOK, FaultsInv, machineVars
  <2>3. StrayInv' /\ LoadsInv'
    BY <2>1 DEF MachineInv, StrayInv, LoadsInv, Running, Held, machineVars
  <2> QED
    BY <2>2, <2>3 DEF MachineInv
<1> QED
  BY <1>1, <1>2, <1>3

LEMMA CleanupMachineInv == ASSUME MachineInv, Cleanup PROVE MachineInv'
<1>1. /\ run.pc = "cleanup" /\ run' = Idle /\ futures' = NoFutures /\ stray' = stray \cup Running
  BY DEF Cleanup
<1>2. /\ Idle.pc = "idle" /\ FuturesOK' /\ Running' = {}
  BY <1>1 DEF Idle, FuturesOK, NoFutures, Running
<1>3. excused \ {"faults"} \subseteq excused'
  BY DEF Cleanup
<1>4. Running \subseteq Kinds /\ Running \subseteq excused /\ "faults" \notin Kinds \cup {"dm"}
  BY <1>1 DEF MachineInv, LoadsInv, Running, Kinds
<1>5. StrayInv'
  BY <1>1, <1>2, <1>3, <1>4 DEF MachineInv, StrayInv
<1>6. FaultsInv'
  <2>1. CASE run.test \in FaultTestNames
    <3>1. PICK k \in 0 .. Entries :
            /\ SetFaults(FALSE, k)
            /\ excused' = IF k < Entries THEN excused \cup {"faults"} ELSE excused \ {"faults"}
      BY <2>1 DEF Cleanup
    <3>2. faults' \subseteq 1 .. Entries
      BY <3>1, SetFaultsOK DEF MachineInv, FaultsInv
    <3>3. k = Entries => faults' = {}
      BY <3>1 DEF SetFaults, MachineInv, FaultsInv
    <3>4. k < Entries \/ k = Entries
      BY MachineAssumption
    <3> QED
      BY <3>1, <3>2, <3>3, <3>4 DEF FaultsInv
  <2>2. CASE run.test \notin FaultTestNames
    BY <2>2 DEF Cleanup, MachineInv, FaultsInv
  <2> QED
    BY <2>1, <2>2
<1> QED
  BY <1>1, <1>2, <1>5, <1>6 DEF MachineInv, RunOK, LoadsInv

LEMMA LoadEndsOK ==
  ASSUME FuturesOK, NEW k \in Kinds, NEW how \in {"ok", "bad", "fatal", "raised"}, LoadEnds(k, how)
  PROVE  /\ FuturesOK' /\ Running' \subseteq Running /\ UNCHANGED <<run, faults, stray, excused>>
         /\ \A j \in Kinds : Held(j)' => Held(j)
BY DEF LoadEnds, FuturesOK, Running, Held

LEMMA NetworkMachineInv ==
  ASSUME MachineInv, NEW t \in NetworkTestNames,
         \/ NoTime(t) \/ StartServer(t) \/ ClientRefused(t) \/ Client(t) \/ StressEnded(t)
         \/ StressRaises(t) \/ StressLate(t) \/ ServerLate(t) \/ ServerEnded(t) \/ NetworkLoadEnds(t)
  PROVE  MachineInv'
<1>0. RunOK /\ FuturesOK /\ Idle.pc = "idle"
  BY DEF MachineInv, Idle
<1> USE DEF In, Done, Row, NextSubtest
<1>1. CASE NoTime(t)
  <2>1. /\ run.pc = "setup" /\ run'.pc = "cleanup" /\ run'.test = run.test
        /\ DOMAIN run' = DOMAIN Idle /\ UNCHANGED machineVars
    BY <1>0, <1>1 DEF NoTime, RunOK, Idle
  <2> QED
    BY <2>1 DEF MachineInv, RunOK, FuturesOK, StrayInv, LoadsInv, FaultsInv, Running, Held, machineVars
<1>2. CASE StartServer(t)
  <2>1. /\ run.pc = "setup" /\ run'.pc = "client" /\ run'.test = run.test /\ run.test = t
        /\ DOMAIN run' = DOMAIN Idle /\ UNCHANGED <<faults, stray, excused>>
    BY <1>0, <1>2 DEF StartServer, Starts, RunOK, Idle
  <2>2. futures' = IF t = Max_ THEN [ServerStarted EXCEPT !["stress"] = "running"] ELSE ServerStarted
    BY <1>2 DEF StartServer
  <2>3. \A k \in Kinds : ~ Held(k)
    BY <2>1 DEF MachineInv, LoadsInv, Running, Held
  <2>4. FuturesOK' /\ ~ Held("bench")' /\ (t # Max_ => ~ Held("stress")')
    BY <1>0, <2>2, <2>3 DEF FuturesOK, ServerStarted, Held, Kinds
  <2> QED
    BY <2>1, <2>4 DEF MachineInv, RunOK, StrayInv, LoadsInv, FaultsInv
<1>3. CASE ClientRefused(t) \/ StressRaises(t)
  <2>1. /\ run.pc \in {"client", "stress"} /\ run'.pc = "cleanup" /\ run'.test = run.test
        /\ DOMAIN run' = DOMAIN Idle /\ UNCHANGED <<faults, futures, stray>>
        /\ excused' = excused \cup Running
    BY <1>0, <1>3 DEF ClientRefused, StressRaises, RunOK, Idle
  <2> QED
    BY <2>1 DEF MachineInv, RunOK, FuturesOK, StrayInv, LoadsInv, FaultsInv, Running
<1>4. CASE Client(t)
  <2>1. PICK how \in {"ok", "bad"}, over \in {StartupSec, OverheadSec, OverheadSec + Delay} :
          /\ how = "ok" => futures["server"] = "running" \/ "server" \in stray
          /\ LET seen == Spent([run EXCEPT !.ends = {<<"client", how>>}],
                               over + IF how = "ok" THEN run.size ELSE 0)
             IN  /\ run' = IF t = Local /\ how = "bad" THEN NextSubtest(Row(seen, "FAILED", seen.ends))
                           ELSE [seen EXCEPT !.pc = IF t = Max_ THEN "stress" ELSE "server"]
                 /\ futures' = IF how = "bad" THEN ServerStopped(futures) ELSE futures
                 /\ stray' = stray \ {"server"}
    <3> HIDE DEF In, Done, Row, NextSubtest
    <3> QED
      BY <1>4, Zenon DEF Client
  <2>2. run.pc = "client" /\ run.test = t /\ UNCHANGED <<faults, excused>>
    BY <1>4 DEF Client
  <2>3. /\ run'.test = run.test /\ DOMAIN run' = DOMAIN Idle
        /\ run'.pc \in IF t = Local /\ how = "bad" THEN {"setup", "cleanup"}
                       ELSE IF t = Max_ THEN {"stress"} ELSE {"server"}
    BY <1>0, <2>1, <2>2 DEF Spent, RunOK, Idle
  <2>4. futures' = IF how = "bad" THEN ServerStopped(futures) ELSE futures
    BY <2>1
  <2>5. /\ FuturesOK' /\ (\A k \in Kinds : Held(k)' => Held(k))
        /\ how = "bad" => ~ Held("server")'
    BY <1>0, <2>4 DEF FuturesOK, ServerStopped, Held, Kinds
  <2>6. ~ Held("bench")' /\ (t # Max_ => ~ Held("stress")')
    BY <2>2, <2>5 DEF MachineInv, LoadsInv, Kinds
  <2>7. t = Local /\ how = "bad" => Running' = {}
    BY <2>5, <2>6 DEF Running, Held, Kinds, Local, Max_
  <2>8. StrayInv' /\ FaultsInv'
    BY <2>1, <2>2 DEF MachineInv, StrayInv, FaultsInv
  <2>9. LoadsInv'
    BY <2>2, <2>3, <2>6, <2>7 DEF LoadsInv
  <2> QED
    BY <2>2, <2>3, <2>5, <2>8, <2>9 DEF MachineInv, RunOK
<1>5. CASE StressEnded(t)
  <2>1. /\ run.pc = "stress" /\ run'.pc = "server" /\ run'.test = run.test /\ ~ Held("stress")
        /\ DOMAIN run' = DOMAIN Idle /\ UNCHANGED machineVars
    BY <1>0, <1>5 DEF StressEnded, RunOK, Idle, Held
  <2> QED
    BY <2>1 DEF MachineInv, RunOK, FuturesOK, StrayInv, LoadsInv, FaultsInv, Held, machineVars
<1>6. CASE StressLate(t)
  <2>1. /\ run.pc = "stress" /\ run'.pc = "cleanup" /\ run'.test = run.test
        /\ DOMAIN run' = DOMAIN Idle /\ futures' = ServerStopped(futures)
        /\ stray' = stray \ {"server"} /\ excused' = excused \cup {"stress"} /\ UNCHANGED faults
    BY <1>0, <1>6 DEF StressLate, RunOK, Idle
  <2>2. FuturesOK' /\ ~ Held("server")' /\ (Held("bench")' => Held("bench"))
    BY <1>0, <2>1 DEF FuturesOK, ServerStopped, Held, Kinds
  <2>3. Running' \subseteq {"stress"}
    BY <2>1, <2>2 DEF MachineInv, LoadsInv, Running, Held, Kinds
  <2> QED
    BY <2>1, <2>2, <2>3 DEF MachineInv, RunOK, StrayInv, LoadsInv, FaultsInv
<1>7. CASE ServerLate(t)
  <2>1. /\ run.pc = "server" /\ run'.pc \in {"setup", "cleanup"} /\ run'.test = run.test
        /\ DOMAIN run' = DOMAIN Idle /\ futures' = ServerStopped(futures)
        /\ stray' = stray \ {"server"} /\ UNCHANGED <<faults, excused>>
    BY <1>0, <1>7 DEF ServerLate, RunOK, Idle
  <2>2. FuturesOK' /\ ~ Held("server")' /\ \A k \in Kinds : Held(k)' => Held(k)
    BY <1>0, <2>1 DEF FuturesOK, ServerStopped, Held, Kinds
  <2>3. Running' = {}
    BY <2>1, <2>2 DEF MachineInv, LoadsInv, Running, Held, Kinds
  <2> QED
    BY <2>1, <2>2, <2>3 DEF MachineInv, RunOK, StrayInv, LoadsInv, FaultsInv
<1>8. CASE ServerEnded(t)
  <2>1. /\ run.pc = "server" /\ run'.pc \in {"setup", "cleanup"} /\ run'.test = run.test
        /\ DOMAIN run' = DOMAIN Idle /\ UNCHANGED machineVars /\ ~ Held("server")
    BY <1>0, <1>8 DEF ServerEnded, RunOK, Idle, Held
  <2>2. Running = {}
    BY <2>1 DEF MachineInv, LoadsInv, Running, Held, Kinds
  <2> QED
    BY <2>1, <2>2 DEF MachineInv, RunOK, FuturesOK, StrayInv, LoadsInv, FaultsInv, Running, machineVars
<1>9. CASE NetworkLoadEnds(t)
  <2>1. run.pc \in {"client", "stress", "server"}
        /\ \E k \in Kinds, how \in {"ok", "bad", "fatal", "raised"} : LoadEnds(k, how)
    BY <1>9 DEF NetworkLoadEnds, Kinds
  <2>2. /\ FuturesOK' /\ UNCHANGED <<run, faults, stray, excused>>
        /\ \A j \in Kinds : Held(j)' => Held(j)
    BY <1>0, <2>1, LoadEndsOK
  <2> QED
    BY <2>1, <2>2 DEF MachineInv, RunOK, StrayInv, LoadsInv, FaultsInv, Kinds
<1> QED
  BY <1>1, <1>2, <1>3, <1>4, <1>5, <1>6, <1>7, <1>8, <1>9

LEMMA ParallelHasNoDevice == Parallel \in DOMAIN FioTests /\ ~ FioTests[Parallel].device
BY DEF Parallel, FioTests

LEMMA DriveMachineInv == ASSUME MachineInv, DriveTestsStep PROVE MachineInv'
<1>0. RunOK /\ FuturesOK
  BY DEF MachineInv
<1>1. CASE BadBlocksFail
  <2>1. /\ run.pc = "setup" /\ run'.pc = "cleanup" /\ run'.test = run.test /\ DOMAIN run' = DOMAIN Idle
        /\ stray' = stray \cup {"dm"} /\ excused' = excused \cup {"dm"} /\ UNCHANGED <<faults, futures>>
    BY <1>0, <1>1 DEF BadBlocksFail, DeviceMade, In, Done, RunOK, Idle
  <2> QED
    BY <2>1 DEF MachineInv, RunOK, FuturesOK, StrayInv, LoadsInv, FaultsInv, Running
<1>2. ASSUME NEW t \in DOMAIN FioTests, SuiteSetUp(t) PROVE MachineInv'
  <2>1. /\ run.pc = "setup" /\ run'.pc \in {"fio", "cleanup"} /\ run'.test = run.test
        /\ DOMAIN run' = DOMAIN Idle /\ UNCHANGED machineVars
    BY <1>0, <1>2 DEF SuiteSetUp, Planned, In, Done, RunOK, Idle
  <2> QED
    BY <2>1 DEF MachineInv, RunOK, FuturesOK, StrayInv, LoadsInv, FaultsInv, Running, machineVars
<1>3. ASSUME NEW t \in DOMAIN FioTests, DeviceSetUp(t) PROVE MachineInv'
  <2>1. /\ run.pc = "setup" /\ run.test = t /\ FioTests[t].device /\ run'.test = run.test
        /\ DOMAIN run' = DOMAIN Idle /\ UNCHANGED <<faults, futures, excused>>
        /\ \/ run'.pc = "cleanup" /\ UNCHANGED stray
           \/ run'.pc = "fio" /\ stray' = stray \cup {"dm"}
    BY <1>0, <1>3 DEF DeviceSetUp, NoDevice, DeviceMade, Planned, In, Done, RunOK, Idle
  <2> QED
    BY <2>1 DEF MachineInv, RunOK, FuturesOK, StrayInv, LoadsInv, FaultsInv, Running
<1>4. ASSUME NEW t \in InTurn, Case(t) PROVE MachineInv'
  <2>1. /\ run.pc = "fio" /\ run'.pc \in {"fio", "archive"} /\ run'.test = run.test
        /\ DOMAIN run' = DOMAIN Idle /\ UNCHANGED machineVars
    BY <1>0, <1>4 DEF Case, Row, In, RunOK, Idle
  <2> QED
    BY <2>1 DEF MachineInv, RunOK, FuturesOK, StrayInv, LoadsInv, FaultsInv, Running, machineVars
<1>5. ASSUME NEW t \in InTurn, Archive(t) PROVE MachineInv'
  <2>1. /\ run.pc = "archive" /\ run.test = t /\ run'.test = run.test
        /\ DOMAIN run' = DOMAIN Idle /\ UNCHANGED <<faults, futures, stray>>
        /\ run'.pc \in {"fio", "remove", "cleanup"}
        /\ excused \subseteq excused' /\ excused' \subseteq excused \cup {"dm"}
        /\ FioTests[t].device /\ run'.pc = "cleanup" => "dm" \in excused'
    BY <1>0, <1>5 DEF Archive, In, Done, RunOK, Idle
  <2>2. StrayInv'
    BY <2>1 DEF MachineInv, StrayInv
  <2> QED
    BY <2>1, <2>2 DEF MachineInv, RunOK, FuturesOK, LoadsInv, FaultsInv, Running
<1>6. ASSUME NEW t \in InTurn, RemoveDevice(t) PROVE MachineInv'
  <2>1. /\ run.pc = "remove" /\ run'.pc = "cleanup" /\ run'.test = run.test
        /\ DOMAIN run' = DOMAIN Idle /\ UNCHANGED <<faults, futures>>
        /\ \/ stray' = stray \ {"dm"} /\ UNCHANGED excused
           \/ excused' = excused \cup {"dm"} /\ UNCHANGED stray
    BY <1>0, <1>6 DEF RemoveDevice, In, Done, RunOK, Idle
  <2> QED
    BY <2>1 DEF MachineInv, RunOK, FuturesOK, StrayInv, LoadsInv, FaultsInv, Running
<1>7. CASE StartSuites
  <2>1. /\ run.pc = "fio" /\ run'.pc = "futures" /\ run.test = Parallel /\ run'.test = run.test
        /\ DOMAIN run' = DOMAIN Idle /\ UNCHANGED machineVars
    BY <1>0, <1>7 DEF StartSuites, In, RunOK, Idle
  <2> QED
    BY <2>1, ParallelHasNoDevice
    DEF MachineInv, RunOK, FuturesOK, StrayInv, LoadsInv, FaultsInv, Running, machineVars
<1>8. CASE LookAtFutures \/ LookAtQueue \/ Get
  <2>1. /\ run.pc \in {"futures", "queue", "get"} /\ run'.pc \in {"futures", "queue", "get", "cleanup"}
        /\ run'.test = run.test /\ DOMAIN run' = DOMAIN Idle /\ UNCHANGED machineVars
    BY <1>0, <1>8 DEF LookAtFutures, LookAtQueue, Get, In, Done, Row, RunOK, Idle
  <2> QED
    BY <2>1 DEF MachineInv, RunOK, FuturesOK, StrayInv, LoadsInv, FaultsInv, Running, machineVars
<1>9. ASSUME NEW s \in 1 .. 3, SuitePuts(s) \/ SuiteEnds(s) PROVE MachineInv'
  BY <1>9 DEF SuitePuts, SuiteEnds, machineVars, MachineInv, RunOK, FuturesOK, StrayInv, LoadsInv,
              FaultsInv, Running, Held
<1> QED
  BY <1>1, <1>2, <1>3, <1>4, <1>5, <1>6, <1>7, <1>8, <1>9 DEF DriveTestsStep

(***************************************************************************)
(* The tables of tests.  A row that says PASSED stands for a load that     *)
(* ended well, or whose end is not read; no name is that of Idle, of the   *)
(* parallel fio test or of the packet-rate test.                           *)
(***************************************************************************)
Statuses == {"none", "PASSED", "FAILED", "BROKEN", "SKIPPED"}
RowsOK(rows) ==
  \A how \in DOMAIN rows :
    /\ rows[how] \in Statuses
    /\ rows[how] = "PASSED" => how \in {"ok", "unread"}
OtherNames == {"none"} \cup NetworkTestNames \cup DOMAIN FioTests
SequencesOK(f) ==
  /\ DOMAIN f \cap OtherNames = {}
  /\ \A t \in DOMAIN f : RowsOK(f[t].rows) /\ f[t].sizes \subseteq Nat

LEMMA MoreRowsOK ==
  ASSUME NEW rows, NEW more, RowsOK(rows), RowsOK(more)
  PROVE  RowsOK(rows ++ more)
BY DEF RowsOK, ++

LEMMA PlainRowsOK == RowsOK(StressRow) /\ RowsOK(PlainRow) /\ RowsOK(RaisingRow)
<1>1. RowsOK(StressRow) /\ RowsOK(PlainRow) /\ RowsOK([raised |-> "none"])
  BY DEF RowsOK, Statuses, StressRow, PlainRow
<1> QED
  BY <1>1, MoreRowsOK DEF RaisingRow

LEMMA MergeOK ==
  ASSUME NEW f, NEW g, SequencesOK(f), SequencesOK(g)
  PROVE  SequencesOK(f ++ g)
BY DEF SequencesOK, ++

LEMMA CatalogueOK == SequencesOK(Catalogue)
<1>0. OtherNames = {"none", "Iperf3LocalTest", "Iperf3PacketRateScalingTest", "StressNgMaxNetworkLoadTest",
                    "FioDisksScalingTest", "FioDisksNightly", "FioDisksDMDelay", "FioDisksDMDust",
                    "FioDisksVariationTest", "FioDisksParallelLoadTest"}
  BY DEF OtherNames, NetworkTestNames, Local, Rate, Max_, FioTests
<1> USE <1>0, LoadAssumption DEF SequencesOK, Divided, Whole, Sequence
<1>1. SequencesOK(GeneralTests)
  BY PlainRowsOK DEF GeneralTests
<1>2. SequencesOK(MemoryTests)
  <2>1. RowsOK(StressRow ++ [old |-> "SKIPPED"])
    <3>1. RowsOK([old |-> "SKIPPED"])
      BY DEF RowsOK, Statuses
    <3> QED
      BY <3>1, PlainRowsOK, MoreRowsOK
  <2> QED
    BY <2>1, PlainRowsOK DEF MemoryTests
<1>3. SequencesOK(IpcTests)
  BY PlainRowsOK DEF IpcTests
<1>4. SequencesOK(SystemTests)
  <2>1. RowsOK([ok |-> "PASSED", unread |-> "PASSED"])
    BY DEF RowsOK, Statuses
  <2>2. RowsOK([slow |-> "BROKEN"]) /\ RowsOK([refused |-> "BROKEN"])
    BY DEF RowsOK, Statuses
  <2>3. RowsOK(RaisingRow ++ [slow |-> "BROKEN"]) /\ RowsOK(PlainRow ++ [refused |-> "BROKEN"])
    BY <2>2, PlainRowsOK, MoreRowsOK
  <2> QED
    BY <2>1, <2>3, PlainRowsOK DEF SystemTests
<1>5. SequencesOK(SyscallsTests)
  BY PlainRowsOK DEF SyscallsTests
<1>6. SequencesOK(JointBench)
  <2>1. RowsOK([slow |-> "BROKEN", raised |-> "BROKEN"])
    BY DEF RowsOK, Statuses
  <2>2. RowsOK(PlainRow ++ [slow |-> "BROKEN", raised |-> "BROKEN"])
    BY <2>1, PlainRowsOK, MoreRowsOK
  <2> QED
    BY <2>2 DEF JointBench
<1>7. SequencesOK(POSIXUtilsTest)
  <2>1. RowsOK([ok |-> "PASSED", bad |-> "BROKEN"])
    BY DEF RowsOK, Statuses
  <2> QED
    BY <2>1 DEF POSIXUtilsTest
<1>8. SequencesOK(FwtsTest)
  <2>1. RowsOK([silent |-> "BROKEN"])
    BY DEF RowsOK, Statuses
  <2>2. RowsOK(PlainRow ++ [silent |-> "BROKEN"])
    BY <2>1, PlainRowsOK, MoreRowsOK
  <2> QED
    BY <2>2 DEF FwtsTest
<1>9. SequencesOK(VdbenchTest) /\ SequencesOK(FaultInjectionEnduranceTest)
  BY PlainRowsOK DEF VdbenchTest, FaultInjectionEnduranceTest
<1>10. SequencesOK(StressNgEnduranceFileTest) /\ SequencesOK(StressNgEnduranceNetworkTest)
  BY PlainRowsOK DEF StressNgEnduranceFileTest, StressNgEnduranceNetworkTest
<1> HIDE <1>0, LoadAssumption DEF SequencesOK, Divided, Whole, Sequence
<1>11. SequencesOK(SubsystemTests)
  BY <1>1, <1>2, <1>3, <1>4, MergeOK DEF SubsystemTests
<1>12. SequencesOK(ToolTests)
  BY <1>5, <1>6, <1>7, <1>8, MergeOK DEF ToolTests
<1>13. SequencesOK(EnduranceTests)
  BY <1>9, <1>10, MergeOK DEF EnduranceTests
<1> QED
  BY <1>11, <1>12, <1>13, MergeOK DEF Catalogue

LEMMA FaultRowsOK == \A t \in FaultTestNames : RowsOK(FaultTests[t].rows)
<1>1. RowsOK([unread |-> "PASSED", raised |-> "none"]) /\ RowsOK([empty |-> "none"]) /\ RowsOK(<< >>)
  BY DEF RowsOK, Statuses
<1>2. /\ RowsOK(ChaosbladeFaults.rows) /\ RowsOK(StressNgFaults.rows) /\ RowsOK(PerfFaults.rows)
      /\ RowsOK(FioFaults.rows) /\ RowsOK(Iperf3Faults.rows)
  BY <1>1, PlainRowsOK, MoreRowsOK
  DEF ChaosbladeFaults, StressNgFaults, PerfFaults, FioFaults, Iperf3Faults
<1> QED
  BY <1>2 DEF FaultTestNames, FaultTests

LEMMA ParallelIsNoOther ==
  Parallel \notin SequenceTests \cup PairTests \cup FaultTestNames \cup NetworkTestNames \cup InTurn
<1>1. Parallel \notin SequenceTests
  BY CatalogueOK, ParallelHasNoDevice DEF SequencesOK, SequenceTests, OtherNames
<1>2. Parallel \notin PairTests \cup FaultTestNames \cup NetworkTestNames \cup InTurn
  BY DEF Parallel, PairTests, FaultTestNames, FaultTests, NetworkTestNames, Local, Rate, Max_, InTurn
<1> QED
  BY <1>1, <1>2

LEMMA RateIsNoOther ==
  Rate \notin SequenceTests \cup PairTests \cup FaultTestNames \cup DOMAIN FioTests
<1>1. Rate \notin SequenceTests
  BY CatalogueOK DEF SequencesOK, SequenceTests, OtherNames, NetworkTestNames
<1>2. Rate \notin PairTests \cup FaultTestNames \cup DOMAIN FioTests
  BY DEF Rate, PairTests, FaultTestNames, FaultTests, FioTests
<1> QED
  BY <1>1, <1>2

LEMMA TestNamesNotNone == "none" \notin TestNames
<1>1. "none" \notin SequenceTests
  BY CatalogueOK DEF SequencesOK, SequenceTests, OtherNames
<1>2. "none" \notin PairTests \cup FaultTestNames \cup NetworkTestNames \cup DOMAIN FioTests
  BY DEF PairTests, FaultTestNames, FaultTests, NetworkTestNames, Local, Rate, Max_, FioTests
<1> QED
  BY <1>1, <1>2 DEF TestNames

LEMMA BeginMachineInv ==
  ASSUME MachineInv, NEW t \in TestNames, Begin(t)
  PROVE  MachineInv'
<1>1. /\ run.pc = "idle" /\ run'.pc = "setup" /\ run'.test = t /\ DOMAIN run' = DOMAIN Idle
      /\ UNCHANGED machineVars /\ run.test = "none"
  BY DEF Begin, MachineInv, RunOK, Idle
<1>2. t # "none" /\ "none" \notin FaultTestNames
  BY TestNamesNotNone DEF TestNames
<1> QED
  BY <1>1, <1>2 DEF MachineInv, RunOK, FuturesOK, StrayInv, LoadsInv, FaultsInv, Running, machineVars

LEMMA StepMachineInv == ASSUME MachineInv, [Next]_vars PROVE MachineInv'
<1>1. CASE \E t \in TestNames : Begin(t) /\ UNCHANGED driveVars
  BY <1>1, BeginMachineInv
<1>2. CASE LoadTestsStep
  BY <1>2, SequenceMachineInv, PairMachineInv, FaultMachineInv, CleanupMachineInv DEF LoadTestsStep
<1>3. CASE NetworkTestsStep
  BY <1>3, NetworkMachineInv DEF NetworkTestsStep
<1>4. CASE DriveTestsStep
  BY <1>4, DriveMachineInv
<1>5. CASE StrayEnds
  BY <1>5 DEF StrayEnds, MachineInv, RunOK, FuturesOK, StrayInv, LoadsInv, FaultsInv, Running, Held
<1>6. CASE UNCHANGED vars
  BY <1>6 DEF vars, machineVars, MachineInv, RunOK, FuturesOK, StrayInv, LoadsInv, FaultsInv, Running, Held
<1> QED
  BY <1>1, <1>2, <1>3, <1>4, <1>5, <1>6 DEF Next, SuiteOver

LEMMA InitMachineInv == Init => MachineInv
BY DEF Init, MachineInit, Idle, NoFutures, MachineInv, RunOK, FuturesOK, StrayInv, LoadsInv, FaultsInv,
       Running, Held, Kinds

LEMMA MachineInvHolds == Spec => []MachineInv
BY InitMachineInv, StepMachineInv, PTL DEF Spec

(***************************************************************************)
(* A test starts on a machine without the servers, loads, devices and      *)
(* injected faults of the tests before it, but for what is excused.  The   *)
(* device of a test is not excused while the test can still remove it, nor *)
(* the faults of one that can still switch them off; at the start of a     *)
(* test neither is the case.                                               *)
(***************************************************************************)
THEOREM CleanStartCorrect == Spec => []CleanStart
<1>1. MachineInv => CleanStart
  BY DEF MachineInv, StrayInv, FaultsInv, CleanStart
<1> QED
  BY <1>1, MachineInvHolds, PTL

(***************************************************************************)
(* What a row stands for.  When a network test comes to its server, its    *)
(* client has ended: well, in the local test, or there would be a row.     *)
(***************************************************************************)
EarnedInv ==
  /\ PassedIsEarned
  /\ run.pc = "stress" => run.test = Max_
  /\ run.pc = "server" /\ run.test = Local => run.ends = {<<"client", "ok">>}

\* A step that writes no row, or one whose ends deserve it, and does not come to a server.
LEMMA RowKept ==
  ASSUME EarnedInv, run'.row = run.row, run'.test = run.test, run'.pc \notin {"stress", "server"}
  PROVE  EarnedInv'
BY DEF EarnedInv, PassedIsEarned

LEMMA RowEarned ==
  ASSUME NEW status, NEW ends, run'.row = [status |-> status, ends |-> ends],
         status = "PASSED" => \A e \in ends \ Unread : e[2] = "ok",
         run'.pc \notin {"stress", "server"}
  PROVE  EarnedInv'
BY DEF EarnedInv, PassedIsEarned

LEMMA RunKept == ASSUME EarnedInv, UNCHANGED run PROVE EarnedInv'
BY DEF EarnedInv, PassedIsEarned

LEMMA LoadEarnedInv == ASSUME RunOK, EarnedInv, LoadTestsStep PROVE EarnedInv'
<1>1. ASSUME NEW t \in SequenceTests, SequenceSetUp(t) PROVE EarnedInv'
  <2>1. /\ run'.row = run.row \/ run'.row = [status |-> "BROKEN", ends |-> {}]
        /\ run'.test = run.test /\ run'.pc \in {"cleanup", "load"}
    BY <1>1 DEF SequenceSetUp, Done, Row, RunOK, Idle
  <2> QED
    BY <2>1, RowKept, RowEarned
<1>2. ASSUME NEW t \in SequenceTests, SequenceLoad(t) PROVE EarnedInv'
  <2>1. PICK how \in DOMAIN Catalogue[t].rows :
          LET r == LoadRow([run EXCEPT !.sub = @ + 1], Catalogue[t].rows[how], how)
          IN  run' = IF r.sub = r.size \/ how = "raised" THEN Done(r) ELSE r
    BY <1>2, Zenon DEF SequenceLoad
  <2>2. run.pc = "load"
    BY <1>2 DEF SequenceLoad, In
  <2> DEFINE s == [run EXCEPT !.sub = @ + 1]
             r == LoadRow(s, Catalogue[t].rows[how], how)
  <2>6. run' \in {r, Done(r)}
    BY <2>1
  <2>8. /\ DOMAIN s = DOMAIN Idle /\ s.test = run.test /\ s.row = run.row /\ s.rows = run.rows
        /\ s.pc = "load" /\ s.sub = run.sub + 1 /\ s.size = run.size
        /\ s.left = run.left /\ s.ends = run.ends
    BY <2>2 DEF RunOK, Idle
  <2> HIDE DEF s
  <2>7. /\ DOMAIN r = DOMAIN Idle /\ r.test = run.test /\ r.pc = "load"
        /\ \/ r.row = run.row
           \/ r.row = [status |-> Catalogue[t].rows[how], ends |-> {<<"load", how>>}]
    BY <2>8 DEF LoadRow, Row, Idle
  <2> HIDE DEF r
  <2>3. run'.row = r.row /\ run'.test = r.test /\ run'.pc \in {"cleanup", "load"}
    BY <2>6, <2>7 DEF Done, Idle
  <2>4. RowsOK(Catalogue[t].rows)
    BY CatalogueOK DEF SequencesOK, SequenceTests
  <2>5. Catalogue[t].rows[how] = "PASSED" => \A e \in {<<"load", how>>} \ Unread : e[2] = "ok"
    <3>1. Catalogue[t].rows[how] = "PASSED" => how \in {"ok", "unread"}
      BY <2>4 DEF RowsOK
    <3> QED
      BY <3>1 DEF Unread
  <2> QED
    BY <2>3, <2>5, <2>7, RowKept, RowEarned
<1>3. ASSUME NEW t \in PairTests,
             PairSetUp(t) \/ PairStart(t) \/ FirstLoop(t) \/ SecondLoop(t) \/ PairRaises(t)
      PROVE  EarnedInv'
  <2>1. /\ run'.row = run.row /\ run'.test = run.test
        /\ run'.pc \in {"cleanup", "pair", "first", "second", "verdict"}
    BY <1>3 DEF PairSetUp, PairStart, FirstLoop, SecondLoop, PairRaises, In, Done, RunOK, Idle
  <2> QED
    BY <2>1, RowKept
<1>4. ASSUME NEW t \in PairTests, PairVerdict(t) PROVE EarnedInv'
  <2> DEFINE ends == Noted("stress") \cup Noted("bench")
             good == \A e \in ends : e[2] = "ok"
  <2>1. \/ run' = [Row(run, IF good THEN "PASSED" ELSE "FAILED", ends)
                    EXCEPT !.pc = IF run.sub = run.size THEN "cleanup" ELSE "pair"]
        \/ run' = Done(Row(run, "FAILED", ends))
    BY <1>4 DEF PairVerdict
  <2> HIDE DEF ends
  <2>2. /\ \/ run'.row = [status |-> IF good THEN "PASSED" ELSE "FAILED", ends |-> ends]
           \/ run'.row = [status |-> "FAILED", ends |-> ends]
        /\ run'.pc \in {"cleanup", "pair"}
    BY <2>1 DEF Done, Row, RunOK, Idle
  <2> QED
    BY <2>2, RowEarned
<1>5. ASSUME NEW t \in PairTests, PairLoadEnds(t) PROVE EarnedInv'
  BY <1>5, RunKept DEF PairLoadEnds, LoadEnds
<1>6. ASSUME NEW t \in FaultTestNames, FaultSetUp(t) PROVE EarnedInv'
  <2>1. run'.row = run.row /\ run'.test = run.test /\ run'.pc \in {"cleanup", "faults"}
    BY <1>6 DEF FaultSetUp, Done, RunOK, Idle
  <2> QED
    BY <2>1, RowKept
<1>7. ASSUME NEW t \in FaultTestNames, ChangeFaults(t) PROVE EarnedInv'
  <2>1. /\ run'.row = run.row \/ run'.row = [status |-> "FAILED", ends |-> {}]
        /\ run'.test = run.test /\ run'.pc \in {"cleanup", "load"}
    BY <1>7 DEF ChangeFaults, Done, Row, RunOK, Idle
  <2> QED
    BY <2>1, RowKept, RowEarned
<1>8. ASSUME NEW t \in FaultTestNames, FaultLoad(t) PROVE EarnedInv'
  <2>1. PICK how \in DOMAIN FaultTests[t].rows, raised \in {FALSE, t = "FaultInjectionFioTest"} :
          LET r == LoadRow([run EXCEPT !.sub = @ + 1, !.pc = "faults"], FaultTests[t].rows[how], how)
              over == \/ r.sub = r.size \/ raised \/ how = "raised"
                      \/ t = "FaultInjectionStressNgTest" /\ how # "ok"
          IN  run' = IF over THEN Done(r) ELSE r
    BY <1>8, Zenon DEF FaultLoad
  <2> DEFINE s == [run EXCEPT !.sub = @ + 1, !.pc = "faults"]
             r == LoadRow(s, FaultTests[t].rows[how], how)
  <2>2. run' \in {r, Done(r)}
    BY <2>1
  <2>6. /\ DOMAIN s = DOMAIN Idle /\ s.test = run.test /\ s.row = run.row /\ s.rows = run.rows
        /\ s.pc = "faults" /\ s.sub = run.sub + 1 /\ s.size = run.size
        /\ s.left = run.left /\ s.ends = run.ends
    BY DEF RunOK, Idle
  <2> HIDE DEF s
  <2>3. /\ r.test = run.test /\ r.pc = "faults" /\ DOMAIN r = DOMAIN Idle
        /\ \/ r.row = run.row
           \/ r.row = [status |-> FaultTests[t].rows[how], ends |-> {<<"load", how>>}]
    BY <2>6 DEF LoadRow, Row, Idle
  <2> HIDE DEF r
  <2>4. run'.row = r.row /\ run'.test = r.test /\ run'.pc \in {"cleanup", "faults"}
    BY <2>2, <2>3 DEF Done, Idle
  <2>5. FaultTests[t].rows[how] = "PASSED" => \A e \in {<<"load", how>>} \ Unread : e[2] = "ok"
    <3>1. FaultTests[t].rows[how] = "PASSED" => how \in {"ok", "unread"}
      BY FaultRowsOK DEF RowsOK
    <3> QED
      BY <3>1 DEF Unread
  <2> QED
    BY <2>3, <2>4, <2>5, RowKept, RowEarned
<1>9. CASE Cleanup
  BY <1>9 DEF Cleanup, Idle, NoRow, EarnedInv, PassedIsEarned
<1> QED
  BY <1>1, <1>2, <1>3, <1>4, <1>5, <1>6, <1>7, <1>8, <1>9 DEF LoadTestsStep

LEMMA NetworkEarnedInv == ASSUME RunOK, EarnedInv, NetworkTestsStep PROVE EarnedInv'
<1>1. PICK t \in NetworkTestNames :
        \/ NoTime(t) \/ StartServer(t) \/ ClientRefused(t) \/ Client(t) \/ StressEnded(t)
        \/ StressRaises(t) \/ StressLate(t) \/ ServerLate(t) \/ ServerEnded(t) \/ NetworkLoadEnds(t)
  BY DEF NetworkTestsStep
<1>2. CASE NoTime(t)
  <2> DEFINE ends == IF t = Max_ \/ Share(budget, Profiles) < 1 THEN {} ELSE {<<"time", "exhausted">>}
  <2>1. run'.row = [status |-> "BROKEN", ends |-> ends] /\ run'.pc = "cleanup"
    BY <1>2 DEF NoTime, Done, Row, RunOK, Idle
  <2> HIDE DEF ends
  <2> QED
    BY <2>1, RowEarned
<1>3. CASE StartServer(t) \/ ClientRefused(t) \/ StressRaises(t)
  <2>1. run'.row = run.row /\ run'.test = run.test /\ run'.pc \in {"client", "cleanup"}
    BY <1>3 DEF StartServer, Starts, ClientRefused, StressRaises, Done, RunOK, Idle
  <2> QED
    BY <2>1, RowKept
<1>4. CASE Client(t)
  <2>1. PICK how \in {"ok", "bad"}, over \in {StartupSec, OverheadSec, OverheadSec + Delay} :
          /\ how = "ok" => futures["server"] = "running" \/ "server" \in stray
          /\ LET seen == Spent([run EXCEPT !.ends = {<<"client", how>>}],
                               over + IF how = "ok" THEN run.size ELSE 0)
             IN  /\ run' = IF t = Local /\ how = "bad" THEN NextSubtest(Row(seen, "FAILED", seen.ends))
                           ELSE [seen EXCEPT !.pc = IF t = Max_ THEN "stress" ELSE "server"]
                 /\ futures' = IF how = "bad" THEN ServerStopped(futures) ELSE futures
                 /\ stray' = stray \ {"server"}
    BY <1>4, Zenon DEF Client
  <2> DEFINE seen == Spent([run EXCEPT !.ends = {<<"client", how>>}],
                           over + IF how = "ok" THEN run.size ELSE 0)
  <2>2. run.pc = "client" /\ run.test = t
    BY <1>4 DEF Client, In
  <2>3. /\ seen.ends = {<<"client", how>>} /\ seen.test = t /\ seen.row = run.row
        /\ DOMAIN seen = DOMAIN Idle
    BY <2>2 DEF Spent, RunOK, Idle
  <2>4. run' = IF t = Local /\ how = "bad" THEN NextSubtest(Row(seen, "FAILED", seen.ends))
               ELSE [seen EXCEPT !.pc = IF t = Max_ THEN "stress" ELSE "server"]
    BY <2>1
  <2> HIDE DEF seen
  <2>5. CASE t = Local /\ how = "bad"
    <3>1. run'.row = [status |-> "FAILED", ends |-> seen.ends] /\ run'.pc \in {"cleanup", "setup"}
      BY <2>3, <2>4, <2>5 DEF NextSubtest, Row, Done, Idle
    <3> QED
      BY <3>1, RowEarned
  <2>6. CASE ~ (t = Local /\ how = "bad")
    <3>1. /\ run'.row = run.row /\ run'.test = t /\ run'.ends = {<<"client", how>>}
          /\ run'.pc = IF t = Max_ THEN "stress" ELSE "server"
      BY <2>3, <2>4, <2>6 DEF Idle
    <3> QED
      BY <2>2, <2>6, <3>1 DEF EarnedInv, PassedIsEarned
  <2> QED
    BY <2>5, <2>6
<1>5. CASE StressEnded(t)
  <2>1. run'.row = run.row /\ run'.test = run.test /\ run'.pc = "server" /\ run.pc = "stress"
    BY <1>5 DEF StressEnded, In, RunOK, Idle
  <2> QED
    BY <2>1 DEF EarnedInv, PassedIsEarned, Max_, Local
<1>6. CASE StressLate(t) \/ ServerLate(t)
  <2>1. run'.row = [status |-> "FAILED", ends |-> run.ends] /\ run'.pc \in {"cleanup", "setup"}
    BY <1>6 DEF StressLate, ServerLate, NextSubtest, Done, Row, RunOK, Idle
  <2> QED
    BY <2>1, RowEarned
<1>7. CASE ServerEnded(t)
  <2> DEFINE ends   == run.ends \cup {<<"server", futures["server"]>>}
             status == RowOf(t, ends)
  <2>1. run.pc = "server" /\ run.test = t
    BY <1>7 DEF ServerEnded, In
  <2>2. run' = NextSubtest(Row(run, status, ends)) \/ run' = Done(run)
    BY <1>7 DEF ServerEnded
  <2>3. status = "PASSED" => \A e \in ends \ Unread : e[2] = "ok" \/ (t = Local /\ e[1] = "server")
    <3>1. CASE t = Local
      BY <2>1, <3>1 DEF EarnedInv
    <3>2. CASE t # Local
      <4>1. (\E e \in ends : e[2] # "ok") => status # "PASSED"
        BY <3>2 DEF RowOf
      <4> HIDE DEF ends, status
      <4> QED
        BY <4>1
    <3> QED
      BY <3>1, <3>2
  <2> HIDE DEF ends, status
  <2>4. /\ run'.test = t /\ run'.pc \in {"cleanup", "setup"}
        /\ run'.row = [status |-> status, ends |-> ends] \/ run'.row = run.row
    BY <2>1, <2>2 DEF NextSubtest, Done, Row, RunOK, Idle
  <2> QED
    BY <2>1, <2>3, <2>4 DEF EarnedInv, PassedIsEarned
<1>8. CASE NetworkLoadEnds(t)
  BY <1>8, RunKept DEF NetworkLoadEnds, LoadEnds
<1> QED
  BY <1>1, <1>2, <1>3, <1>4, <1>5, <1>6, <1>7, <1>8

LEMMA DriveEarnedInv == ASSUME RunOK, EarnedInv, DriveTestsStep PROVE EarnedInv'
<1>1. CASE BadBlocksFail
  <2>1. run'.row = run.row /\ run'.test = run.test /\ run'.pc = "cleanup"
    BY <1>1 DEF BadBlocksFail, Done, RunOK, Idle
  <2> QED
    BY <2>1, RowKept
<1>2. ASSUME NEW t \in DOMAIN FioTests, SuiteSetUp(t) \/ DeviceSetUp(t) PROVE EarnedInv'
  <2>1. run'.row = run.row /\ run'.test = run.test /\ run'.pc \in {"fio", "cleanup"}
    BY <1>2 DEF SuiteSetUp, DeviceSetUp, NoDevice, Planned, Done, RunOK, Idle
  <2> QED
    BY <2>1, RowKept
<1>3. ASSUME NEW t \in InTurn, Case(t) PROVE EarnedInv'
  <2>1. PICK how \in {"ok", "bad"} :
          LET r == [Row(run, IF how = "ok" THEN "PASSED" ELSE "FAILED", {<<"fio", how>>})
                    EXCEPT !.sub = @ + 1]
          IN  run' = IF r.sub % CasesOf(t) = 0 THEN [r EXCEPT !.pc = "archive"] ELSE r
    BY <1>3, Zenon DEF Case
  <2>2. run.pc = "fio"
    BY <1>3 DEF Case, In
  <2>3. /\ run'.pc \in {"fio", "archive"}
        /\ run'.row = [status |-> IF how = "ok" THEN "PASSED" ELSE "FAILED", ends |-> {<<"fio", how>>}]
    BY <2>1, <2>2 DEF Row, RunOK, Idle
  <2> QED
    BY <2>3, RowEarned
<1>4. ASSUME NEW t \in InTurn, Archive(t) \/ RemoveDevice(t) PROVE EarnedInv'
  <2>1. run'.row = run.row /\ run'.test = run.test /\ run'.pc \in {"fio", "remove", "cleanup"}
    BY <1>4 DEF Archive, RemoveDevice, Done, RunOK, Idle
  <2> QED
    BY <2>1, RowKept
<1>5. CASE StartSuites \/ LookAtFutures \/ LookAtQueue
  <2>1. /\ run'.row = run.row /\ run'.test = run.test
        /\ run'.pc \in {"futures", "queue", "get", "cleanup"}
    BY <1>5 DEF StartSuites, LookAtFutures, LookAtQueue, Done, RunOK, Idle
  <2> QED
    BY <2>1, RowKept
<1>6. CASE Get
  <2>1. CASE run' = [run EXCEPT !.pc = "futures"]
    <3>1. run'.row = run.row /\ run'.test = run.test /\ run'.pc = "futures"
      BY <2>1 DEF RunOK, Idle
    <3> QED
      BY <3>1, RowKept
  <2>2. ASSUME NEW how \in {"ok", "bad"},
               run' = [Row(run, IF how = "ok" THEN "PASSED" ELSE "FAILED", {<<"fio", how>>})
                       EXCEPT !.pc = "futures"]
        PROVE  EarnedInv'
    <3>1. /\ run'.pc = "futures"
          /\ run'.row = [status |-> IF how = "ok" THEN "PASSED" ELSE "FAILED", ends |-> {<<"fio", how>>}]
      BY <2>2 DEF Row, RunOK, Idle
    <3> QED
      BY <3>1, RowEarned
  <2> QED
    BY <1>6, <2>1, <2>2 DEF Get
<1>7. ASSUME NEW s \in 1 .. 3, SuitePuts(s) \/ SuiteEnds(s) PROVE EarnedInv'
  BY <1>7, RunKept DEF SuitePuts, SuiteEnds
<1> QED
  BY <1>1, <1>2, <1>3, <1>4, <1>5, <1>6, <1>7 DEF DriveTestsStep

LEMMA EarnedInvHolds == Spec => []EarnedInv
<1>1. Init => EarnedInv
  BY DEF Init, MachineInit, Idle, NoRow, EarnedInv, PassedIsEarned
<1>2. ASSUME MachineInv, EarnedInv, [Next]_vars PROVE EarnedInv'
  <2>0. RunOK
    BY <1>2 DEF MachineInv
  <2>1. CASE \E t \in TestNames : Begin(t)
    BY <2>1 DEF Begin, Idle, NoRow, EarnedInv, PassedIsEarned
  <2>2. CASE LoadTestsStep \/ NetworkTestsStep \/ DriveTestsStep
    BY <1>2, <2>0, <2>2, LoadEarnedInv, NetworkEarnedInv, DriveEarnedInv
  <2>3. CASE StrayEnds \/ UNCHANGED vars
    BY <1>2, <2>3, RunKept DEF StrayEnds, vars
  <2> QED
    BY <1>2, <2>1, <2>2, <2>3 DEF Next, SuiteOver
<1> QED
  BY <1>1, <1>2, MachineInvHolds, PTL DEF Spec

(***************************************************************************)
(* A row says PASSED only when each load that shares in it ended well, or  *)
(* is one whose result the code does not read: whatever the tables of the  *)
(* tests make of the results, the verdicts of the pairs of loads and of    *)
(* the network tests look at every end they have noted.                    *)
(***************************************************************************)
THEOREM PassedIsEarnedCorrect == Spec => []PassedIsEarned
<1>1. EarnedInv => PassedIsEarned
  BY DEF EarnedInv
<1> QED
  BY <1>1, EarnedInvHolds, PTL

(***************************************************************************)
(* The queue of the parallel fio test.  A thread puts results only while   *)
(* the test looks at its futures or at the queue again; when the futures   *)
(* are found done no thread is left, so nothing is put behind the look at  *)
(* the queue that ends the test.                                           *)
(***************************************************************************)
AllOver == \A s \in 1 .. 3 : todo[s] = Over
QueueInv ==
  /\ budget \in Nat \ {0} /\ DOMAIN todo = 1 .. 3 /\ queue \in Nat /\ put \in Nat
  /\ ~ AllOver => run.test = Parallel /\ run.pc \in {"futures", "get"}
  /\ run.test = Parallel =>
       /\ run.pc \in {"setup", "fio", "futures", "queue", "get", "cleanup"} /\ run.rows \in Nat
       /\ run.pc \in {"setup", "fio"} => run.rows = 0
       /\ run.pc \in {"futures", "queue", "get", "cleanup"} => run.rows + queue = put
       /\ run.pc = "cleanup" => queue = 0

\* No other test disturbs the queue.
LEMMA OtherTest ==
  ASSUME QueueInv, AllOver, run'.test # Parallel, UNCHANGED <<budget, driveVars>>
  PROVE  QueueInv'
BY DEF QueueInv, AllOver, driveVars

LEMMA LoadQueueInv ==
  ASSUME RunOK, QueueInv, LoadTestsStep, UNCHANGED <<budget, driveVars>>
  PROVE  QueueInv'
<1>1. CASE Cleanup
  <2>1. AllOver
    BY <1>1 DEF Cleanup, QueueInv
  <2>2. run'.test # Parallel
    BY <1>1 DEF Cleanup, Idle, Parallel
  <2> QED
    BY <2>1, <2>2, OtherTest
<1>2. ASSUME NEW t \in SequenceTests, SequenceSetUp(t) \/ SequenceLoad(t) PROVE QueueInv'
  <2>1. run.test = t /\ run'.test = t
    BY <1>2 DEF SequenceSetUp, SequenceLoad, LoadRow, In, Row, Done, RunOK, Idle
  <2> QED
    BY <2>1, OtherTest, ParallelIsNoOther DEF QueueInv
<1>3. ASSUME NEW t \in PairTests,
             \/ PairSetUp(t) \/ PairStart(t) \/ FirstLoop(t) \/ SecondLoop(t) \/ PairVerdict(t)
             \/ PairRaises(t) \/ PairLoadEnds(t)
      PROVE  QueueInv'
  <2>1. run.test = t /\ run'.test = t
    BY <1>3 DEF PairSetUp, PairStart, FirstLoop, SecondLoop, PairVerdict, PairRaises, PairLoadEnds, LoadEnds,
                In, Row, Done, RunOK, Idle
  <2> QED
    BY <2>1, OtherTest, ParallelIsNoOther DEF QueueInv
<1>4. ASSUME NEW t \in FaultTestNames, FaultSetUp(t) \/ ChangeFaults(t) \/ FaultLoad(t)
      PROVE  QueueInv'
  <2>1. run.test = t /\ run'.test = t
    BY <1>4 DEF FaultSetUp, ChangeFaults, FaultLoad, LoadRow, In, Row, Done, RunOK, Idle
  <2> QED
    BY <2>1, OtherTest, ParallelIsNoOther DEF QueueInv
<1> QED
  BY <1>1, <1>2, <1>3, <1>4 DEF LoadTestsStep

LEMMA NetworkQueueInv ==
  ASSUME RunOK, QueueInv, NetworkTestsStep, UNCHANGED <<budget, driveVars>>
  PROVE  QueueInv'
<1>1. PICK t \in NetworkTestNames :
        \/ NoTime(t) \/ StartServer(t) \/ ClientRefused(t) \/ Client(t) \/ StressEnded(t)
        \/ StressRaises(t) \/ StressLate(t) \/ ServerLate(t) \/ ServerEnded(t) \/ NetworkLoadEnds(t)
  BY DEF NetworkTestsStep
<1>2. run.test = t
  BY <1>1 DEF NoTime, StartServer, ClientRefused, Client, StressEnded, StressRaises, StressLate, ServerLate,
              ServerEnded, NetworkLoadEnds, In
<1>3. CASE Client(t)
  <2>1. PICK how \in {"ok", "bad"}, over \in {StartupSec, OverheadSec, OverheadSec + Delay} :
          /\ how = "ok" => futures["server"] = "running" \/ "server" \in stray
          /\ LET seen == Spent([run EXCEPT !.ends = {<<"client", how>>}],
                               over + IF how = "ok" THEN run.size ELSE 0)
             IN  /\ run' = IF t = Local /\ how = "bad" THEN NextSubtest(Row(seen, "FAILED", seen.ends))
                           ELSE [seen EXCEPT !.pc = IF t = Max_ THEN "stress" ELSE "server"]
                 /\ futures' = IF how = "bad" THEN ServerStopped(futures) ELSE futures
                 /\ stray' = stray \ {"server"}
    BY <1>3, Zenon DEF Client
  <2> DEFINE seen == Spent([run EXCEPT !.ends = {<<"client", how>>}],
                           over + IF how = "ok" THEN run.size ELSE 0)
  <2>2. seen.test = t /\ DOMAIN seen = DOMAIN Idle
    BY <1>2 DEF Spent, RunOK, Idle
  <2>3. run' = IF t = Local /\ how = "bad" THEN NextSubtest(Row(seen, "FAILED", seen.ends))
               ELSE [seen EXCEPT !.pc = IF t = Max_ THEN "stress" ELSE "server"]
    BY <2>1
  <2> HIDE DEF seen
  <2>4. run'.test = t
    BY <2>2, <2>3 DEF NextSubtest, Row, Done, Idle
  <2> QED
    BY <1>2, <2>4, OtherTest, ParallelIsNoOther DEF QueueInv
<1>4. CASE ~ Client(t)
  <2>1. run'.test = t
    BY <1>1, <1>2, <1>4
    DEF NoTime, StartServer, Starts, ClientRefused, StressEnded, StressRaises, StressLate, ServerLate, ServerEnded,
        NetworkLoadEnds, LoadEnds, NextSubtest, Row, Done, RunOK, Idle
  <2> QED
    BY <1>2, <2>1, OtherTest, ParallelIsNoOther DEF QueueInv
<1> QED
  BY <1>3, <1>4

LEMMA DriveQueueInv ==
  ASSUME RunOK, QueueInv, DriveTestsStep, UNCHANGED budget
  PROVE  QueueInv'
<1>1. CASE BadBlocksFail
  <2>1. run.test = "FioDisksDMDust" /\ run'.test = run.test /\ UNCHANGED driveVars
    BY <1>1 DEF BadBlocksFail, In, Done, RunOK, Idle
  <2> QED
    BY <2>1, OtherTest DEF Parallel, QueueInv
<1>2. ASSUME NEW t \in DOMAIN FioTests, SuiteSetUp(t) \/ DeviceSetUp(t) PROVE QueueInv'
  <2>1. run.pc = "setup" /\ run.test = t /\ run'.test = t /\ run'.rows = run.rows /\ UNCHANGED driveVars
    BY <1>2 DEF SuiteSetUp, DeviceSetUp, NoDevice, Planned, In, Done, RunOK, Idle
  <2>2. CASE t # Parallel
    BY <2>1, <2>2, OtherTest DEF QueueInv
  <2>3. CASE t = Parallel
    <3>1. SuiteSec(t) # 0 /\ SuiteSetUp(t)
      BY <1>2, <2>3, ParallelHasNoDevice DEF SuiteSec, QueueInv, DeviceSetUp, Parallel
    <3>2. run'.pc = "fio"
      BY <3>1 DEF SuiteSetUp, Planned, RunOK, Idle
    <3> QED
      BY <2>1, <2>3, <3>2 DEF QueueInv, AllOver, driveVars
  <2> QED
    BY <2>2, <2>3
<1>3. ASSUME NEW t \in InTurn, Case(t) \/ Archive(t) \/ RemoveDevice(t) PROVE QueueInv'
  <2>1. run.test = t /\ run'.test = t /\ UNCHANGED driveVars
    BY <1>3 DEF Case, Archive, RemoveDevice, In, Row, Done, RunOK, Idle
  <2> QED
    BY <2>1, OtherTest, ParallelIsNoOther DEF QueueInv
<1>4. CASE StartSuites
  <2>1. /\ run.test = Parallel /\ run.pc = "fio" /\ run'.test = run.test /\ run'.pc = "futures"
        /\ run'.rows = run.rows /\ queue' = 0 /\ put' = 0 /\ DOMAIN todo' = 1 .. 3
    BY <1>4 DEF StartSuites, In, RunOK, Idle
  <2> QED
    BY <2>1 DEF QueueInv
<1>5. CASE LookAtFutures
  <2>1. /\ run.test = Parallel /\ run.pc = "futures" /\ run'.test = run.test /\ run'.rows = run.rows
        /\ UNCHANGED driveVars /\ run'.pc = IF AllOver THEN "queue" ELSE "get"
    BY <1>5 DEF LookAtFutures, In, RunOK, Idle, AllOver
  <2> QED
    BY <2>1 DEF QueueInv, AllOver, driveVars
<1>6. CASE LookAtQueue
  <2>1. /\ run.test = Parallel /\ run.pc = "queue" /\ run'.test = run.test /\ run'.rows = run.rows
        /\ UNCHANGED driveVars /\ run'.pc = IF queue = 0 THEN "cleanup" ELSE "get"
    BY <1>6 DEF LookAtQueue, Done, In, RunOK, Idle
  <2> QED
    BY <2>1 DEF QueueInv, AllOver, driveVars
<1>7. CASE Get
  <2>1. /\ run.test = Parallel /\ run.pc = "get" /\ UNCHANGED <<todo, put>>
    BY <1>7 DEF Get, In
  <2>2. /\ run'.test = run.test /\ run'.pc = "futures"
        /\ \/ queue > 0 /\ queue' = queue - 1 /\ run'.rows = run.rows + 1
           \/ UNCHANGED queue /\ run'.rows = run.rows
    BY <1>7 DEF Get, Row, RunOK, Idle
  <2> QED
    BY <2>1, <2>2 DEF QueueInv, AllOver
<1>8. ASSUME NEW s \in 1 .. 3, SuitePuts(s) PROVE QueueInv'
  <2>1. /\ todo[s] > 0 /\ DOMAIN todo' = 1 .. 3 /\ queue' = queue + 1 /\ put' = put + 1 /\ UNCHANGED run
    BY <1>8 DEF SuitePuts, QueueInv
  <2>2. ~ AllOver
    BY <2>1 DEF AllOver, Over
  <2> QED
    BY <2>1, <2>2 DEF QueueInv
<1>9. ASSUME NEW s \in 1 .. 3, SuiteEnds(s) PROVE QueueInv'
  <2>1. todo[s] = 0 /\ DOMAIN todo' = 1 .. 3 /\ UNCHANGED <<run, queue, put>>
    BY <1>9 DEF SuiteEnds, QueueInv
  <2>2. ~ AllOver
    BY <2>1 DEF AllOver, Over
  <2> QED
    BY <2>1, <2>2 DEF QueueInv
<1> QED
  BY <1>1, <1>2, <1>3, <1>4, <1>5, <1>6, <1>7, <1>8, <1>9 DEF DriveTestsStep

(***************************************************************************)
(* The parallel fio test ends only when its threads have, and when each    *)
(* result they put into the queue has become a row, however the threads,   *)
(* the looks at the futures and at the queue, and the gets interleave.     *)
(***************************************************************************)
THEOREM QueueDrainedCorrect == Spec => []QueueDrained
<1>1. Init => QueueInv
  BY MachineAssumption
  DEF Init, MachineInit, DriveInit, Idle, Parallel, QueueInv, AllOver
<1>2. ASSUME MachineInv, QueueInv, [Next]_vars PROVE QueueInv'
  <2>0. RunOK
    BY <1>2 DEF MachineInv
  <2>1. ASSUME NEW t \in TestNames, Begin(t), UNCHANGED driveVars PROVE QueueInv'
    <3>1. /\ run.test = "none" /\ run'.pc = "setup" /\ run'.rows = 0 /\ UNCHANGED budget
      BY <2>1 DEF Begin, Idle
    <3>2. AllOver
      BY <1>2, <3>1 DEF QueueInv, Parallel
    <3> QED
      BY <1>2, <2>1, <3>1, <3>2 DEF QueueInv, AllOver, driveVars
  <2>2. CASE (LoadTestsStep \/ NetworkTestsStep) /\ UNCHANGED <<budget, ran, driveVars>>
    BY <1>2, <2>0, <2>2, LoadQueueInv, NetworkQueueInv
  <2>3. CASE DriveTestsStep /\ UNCHANGED <<budget, ran>>
    BY <1>2, <2>0, <2>3, DriveQueueInv
  <2>4. CASE (StrayEnds /\ UNCHANGED driveVars) \/ UNCHANGED vars
    BY <1>2, <2>4 DEF StrayEnds, vars, QueueInv, AllOver, driveVars
  <2> QED
    BY <1>2, <2>1, <2>2, <2>3, <2>4 DEF Next, SuiteOver
<1>3. QueueInv => QueueDrained
  BY DEF QueueInv, AllOver, QueueDrained
<1> QED
  BY <1>1, <1>2, <1>3, MachineInvHolds, PTL DEF Spec

(***************************************************************************)
(* The time of the packet-rate test.  The share of a profile is such that  *)
(* the profiles after it, with the overhead of each, have at least a       *)
(* second each unless it takes longer than its share and its overhead.     *)
(***************************************************************************)
Exhausted == <<"time", "exhausted">>
EnoughFor(count) == run.late \/ run.left >= 5 * count
RateInv ==
  /\ budget \in Nat \ {0} /\ Exhausted \notin run.ends
  /\ Exhausted \in run.row.ends => run.test = Rate /\ run.pc = "cleanup" /\ RateKeepsTime
  /\ run.test = Rate =>
       /\ run.late \in BOOLEAN /\ run.left \in Nat /\ run.sub \in 0 .. Profiles /\ run.size \in Int
       /\ run.pc = "setup" => run.sub < Profiles
       /\ run.pc = "setup" /\ run.sub = 0 => run.left = budget
       /\ run.pc = "setup" /\ run.sub > 0 => EnoughFor(Profiles - run.sub)
       /\ run.pc = "client" => /\ run.sub >= 1 /\ run.size >= 1
                               /\ (run.size + OverheadSec) * (Profiles - run.sub + 1) <= run.left
       /\ run.pc = "server" => run.sub >= 1 /\ EnoughFor(Profiles - run.sub)

\* A step of another test writes no such row.
LEMMA OtherTime ==
  ASSUME RateInv, run.test # Rate, run'.test # Rate, UNCHANGED budget,
         Exhausted \notin run'.ends,
         run'.row = run.row \/ Exhausted \notin run'.row.ends
  PROVE  RateInv'
BY DEF RateInv

LEMMA RateKept == ASSUME RateInv, UNCHANGED <<run, budget>> PROVE RateInv'
BY DEF RateInv, EnoughFor, RateKeepsTime

LEMMA LoadRateInv ==
  ASSUME RunOK, RateInv, LoadTestsStep, UNCHANGED budget
  PROVE  RateInv'
<1>1. CASE Cleanup
  BY <1>1 DEF Cleanup, Idle, NoRow, RateInv, Rate, Exhausted
<1>2. ASSUME NEW t \in SequenceTests, SequenceSetUp(t) PROVE RateInv'
  <2>1. /\ run.test = t /\ run'.test = t /\ run'.ends = run.ends
        /\ run'.row = run.row \/ run'.row = [status |-> "BROKEN", ends |-> {}]
    BY <1>2 DEF SequenceSetUp, In, Row, Done, RunOK, Idle
  <2> QED
    BY <2>1, OtherTime, RateIsNoOther DEF RateInv
<1>3. ASSUME NEW t \in SequenceTests, SequenceLoad(t) PROVE RateInv'
  <2>1. PICK how \in DOMAIN Catalogue[t].rows :
          LET r == LoadRow([run EXCEPT !.sub = @ + 1], Catalogue[t].rows[how], how)
          IN  run' = IF r.sub = r.size \/ how = "raised" THEN Done(r) ELSE r
    BY <1>3, Zenon DEF SequenceLoad
  <2> DEFINE s == [run EXCEPT !.sub = @ + 1]
             r == LoadRow(s, Catalogue[t].rows[how], how)
  <2>4. run' \in {r, Done(r)}
    BY <2>1
  <2>6. /\ DOMAIN s = DOMAIN Idle /\ s.test = run.test /\ s.row = run.row /\ s.rows = run.rows
        /\ s.pc = run.pc /\ s.sub = run.sub + 1 /\ s.size = run.size
        /\ s.left = run.left /\ s.ends = run.ends
    BY DEF RunOK, Idle
  <2> HIDE DEF s
  <2>5. /\ r.test = run.test /\ r.ends = run.ends /\ DOMAIN r = DOMAIN Idle
        /\ r.row = run.row \/ r.row.ends = {<<"load", how>>}
    BY <2>6 DEF LoadRow, Row, Idle
  <2> HIDE DEF r
  <2>2. /\ run.test = t /\ run'.test = t /\ run'.ends = run.ends
        /\ run'.row = run.row \/ run'.row.ends = {<<"load", how>>}
    BY <1>3, <2>4, <2>5 DEF SequenceLoad, In, Done, Idle
  <2>3. Exhausted \notin {<<"load", how>>}
    BY DEF Exhausted
  <2> QED
    BY <2>2, <2>3, OtherTime, RateIsNoOther DEF RateInv
<1>4. ASSUME NEW t \in PairTests, PairSetUp(t) \/ PairStart(t) \/ PairRaises(t) PROVE RateInv'
  <2>1. run.test = t /\ run'.test = t /\ run'.ends \in {run.ends, {}} /\ run'.row = run.row
    BY <1>4 DEF PairSetUp, PairStart, PairRaises, In, Done, RunOK, Idle
  <2> QED
    BY <2>1, OtherTime, RateIsNoOther DEF RateInv
<1>5. \A k \in {"stress", "bench"} : Exhausted \notin Noted(k)
  BY DEF Noted, RateInv, Exhausted
<1>6. ASSUME NEW t \in PairTests, FirstLoop(t) \/ SecondLoop(t) PROVE RateInv'
  <2>1. /\ run.test = t /\ run'.test = t /\ run'.row = run.row
        /\ run'.ends \in {run.ends, Noted("bench"), Noted("stress")}
    BY <1>6 DEF FirstLoop, SecondLoop, In, RunOK, Idle
  <2> QED
    BY <1>5, <2>1, OtherTime, RateIsNoOther DEF RateInv
<1>7. ASSUME NEW t \in PairTests, PairVerdict(t) PROVE RateInv'
  <2> DEFINE ends == Noted("stress") \cup Noted("bench")
             good == \A e \in ends : e[2] = "ok"
  <2>1. \/ run' = [Row(run, IF good THEN "PASSED" ELSE "FAILED", ends)
                    EXCEPT !.pc = IF run.sub = run.size THEN "cleanup" ELSE "pair"]
        \/ run' = Done(Row(run, "FAILED", ends))
    BY <1>7 DEF PairVerdict
  <2>2. Exhausted \notin ends
    BY <1>5
  <2> HIDE DEF ends
  <2>3. run.test = t
    BY <1>7 DEF PairVerdict, In
  <2>4. /\ run'.test = t /\ run'.ends = run.ends
        /\ \/ run'.row = [status |-> IF good THEN "PASSED" ELSE "FAILED", ends |-> ends]
           \/ run'.row = [status |-> "FAILED", ends |-> ends]
    BY <2>1, <2>3 DEF Done, Row, RunOK, Idle
  <2> QED
    BY <2>2, <2>3, <2>4, OtherTime, RateIsNoOther DEF RateInv
<1>8. ASSUME NEW t \in PairTests, PairLoadEnds(t) PROVE RateInv'
  BY <1>8, RateKept DEF PairLoadEnds, LoadEnds
<1>9. ASSUME NEW t \in FaultTestNames, FaultSetUp(t) \/ ChangeFaults(t) PROVE RateInv'
  <2>1. /\ run.test = t /\ run'.test = t /\ run'.ends = run.ends
        /\ run'.row = run.row \/ run'.row = [status |-> "FAILED", ends |-> {}]
    BY <1>9 DEF FaultSetUp, ChangeFaults, In, Row, Done, RunOK, Idle
  <2> QED
    BY <2>1, OtherTime, RateIsNoOther DEF RateInv
<1>10. ASSUME NEW t \in FaultTestNames, FaultLoad(t) PROVE RateInv'
  <2>1. PICK how \in DOMAIN FaultTests[t].rows, raised \in {FALSE, t = "FaultInjectionFioTest"} :
          LET r == LoadRow([run EXCEPT !.sub = @ + 1, !.pc = "faults"], FaultTests[t].rows[how], how)
              over == \/ r.sub = r.size \/ raised \/ how = "raised"
                      \/ t = "FaultInjectionStressNgTest" /\ how # "ok"
          IN  run' = IF over THEN Done(r) ELSE r
    BY <1>10, Zenon DEF FaultLoad
  <2> DEFINE s == [run EXCEPT !.sub = @ + 1, !.pc = "faults"]
             r == LoadRow(s, FaultTests[t].rows[how], how)
  <2>2. run' \in {r, Done(r)}
    BY <2>1
  <2>6. /\ DOMAIN s = DOMAIN Idle /\ s.test = run.test /\ s.row = run.row /\ s.rows = run.rows
        /\ s.pc = "faults" /\ s.sub = run.sub + 1 /\ s.size = run.size
        /\ s.left = run.left /\ s.ends = run.ends
    BY DEF RunOK, Idle
  <2> HIDE DEF s
  <2>3. /\ r.test = run.test /\ r.ends = run.ends /\ DOMAIN r = DOMAIN Idle
        /\ r.row = run.row \/ r.row.ends = {<<"load", how>>}
    BY <2>6 DEF LoadRow, Row, Idle
  <2> HIDE DEF r
  <2>4. /\ run.test = t /\ run'.test = t /\ run'.ends = run.ends
        /\ run'.row = run.row \/ run'.row.ends = {<<"load", how>>}
    BY <1>10, <2>2, <2>3 DEF FaultLoad, In, Done, Idle
  <2>5. Exhausted \notin {<<"load", how>>}
    BY DEF Exhausted
  <2> QED
    BY <2>4, <2>5, OtherTime, RateIsNoOther DEF RateInv
<1> QED
  BY <1>1, <1>2, <1>3, <1>4, <1>6, <1>7, <1>8, <1>9, <1>10 DEF LoadTestsStep

LEMMA DriveRateInv ==
  ASSUME RunOK, RateInv, DriveTestsStep, UNCHANGED budget
  PROVE  RateInv'
<1>1. CASE BadBlocksFail \/ StartSuites \/ LookAtFutures \/ LookAtQueue
  <2>1. /\ run.test \in {"FioDisksDMDust", Parallel} /\ run'.test = run.test
        /\ run'.ends = run.ends /\ run'.row = run.row
    BY <1>1 DEF BadBlocksFail, StartSuites, LookAtFutures, LookAtQueue, In, Done, RunOK, Idle
  <2> QED
    BY <2>1, OtherTime DEF RateInv, Rate, Parallel
<1>2. ASSUME NEW t \in DOMAIN FioTests, SuiteSetUp(t) \/ DeviceSetUp(t) PROVE RateInv'
  <2>1. run.test = t /\ run'.test = t /\ run'.ends = run.ends /\ run'.row = run.row
    BY <1>2 DEF SuiteSetUp, DeviceSetUp, NoDevice, Planned, In, Done, RunOK, Idle
  <2> QED
    BY <2>1, OtherTime, RateIsNoOther DEF RateInv
<1>3. ASSUME NEW t \in InTurn, Archive(t) \/ RemoveDevice(t) PROVE RateInv'
  <2>1. run.test = t /\ run'.test = t /\ run'.ends = run.ends /\ run'.row = run.row
    BY <1>3 DEF Archive, RemoveDevice, In, Done, RunOK, Idle
  <2> QED
    BY <2>1, OtherTime, RateIsNoOther DEF RateInv, InTurn
<1>4. ASSUME NEW t \in InTurn, Case(t) PROVE RateInv'
  <2>1. PICK how \in {"ok", "bad"} :
          LET r == [Row(run, IF how = "ok" THEN "PASSED" ELSE "FAILED", {<<"fio", how>>})
                    EXCEPT !.sub = @ + 1]
          IN  run' = IF r.sub % CasesOf(t) = 0 THEN [r EXCEPT !.pc = "archive"] ELSE r
    BY <1>4, Zenon DEF Case
  <2>2. run.test = t /\ run'.test = t /\ run'.ends = run.ends /\ run'.row.ends = {<<"fio", how>>}
    BY <1>4, <2>1 DEF Case, In, Row, RunOK, Idle
  <2>3. Exhausted \notin {<<"fio", how>>}
    BY DEF Exhausted
  <2> QED
    BY <2>2, <2>3, OtherTime, RateIsNoOther DEF RateInv, InTurn
<1>5. CASE Get
  <2>1. run.test = Parallel
    BY <1>5 DEF Get, In
  <2>2. CASE run' = [run EXCEPT !.pc = "futures"]
    <3>1. run'.test = run.test /\ run'.ends = run.ends /\ run'.row = run.row
      BY <2>2 DEF RunOK, Idle
    <3> QED
      BY <2>1, <3>1, OtherTime DEF RateInv, Rate, Parallel
  <2>3. ASSUME NEW how \in {"ok", "bad"},
               run' = [Row(run, IF how = "ok" THEN "PASSED" ELSE "FAILED", {<<"fio", how>>})
                       EXCEPT !.pc = "futures"]
        PROVE  RateInv'
    <3>1. run'.test = run.test /\ run'.ends = run.ends /\ run'.row.ends = {<<"fio", how>>}
      BY <2>3 DEF Row, RunOK, Idle
    <3>2. Exhausted \notin {<<"fio", how>>}
      BY DEF Exhausted
    <3> QED
      BY <2>1, <3>1, <3>2, OtherTime DEF RateInv, Rate, Parallel
  <2> QED
    BY <1>5, <2>2, <2>3 DEF Get
<1>6. ASSUME NEW s \in 1 .. 3, SuitePuts(s) \/ SuiteEnds(s) PROVE RateInv'
  BY <1>6, RateKept DEF SuitePuts, SuiteEnds
<1> QED
  BY <1>1, <1>2, <1>3, <1>4, <1>5, <1>6 DEF DriveTestsStep

\* A share leaves, for each of the profiles, itself and the overhead.
LEMMA ShareFits ==
  ASSUME NEW left \in Int, NEW count \in Nat \ {0}
  PROVE  /\ Share(left, count) \in Int
         /\ Share(left, count) >= 1 <=> left >= 5 * count
         /\ Share(left, count) >= 1 => (Share(left, count) + OverheadSec) * count <= left
<1> DEFINE available == left - count * 4
           share == available \div count
<1>1. OverheadSec = 4
  BY DEF OverheadSec, StartupSec
<1>2. available \in Int /\ share \in Int
  OBVIOUS
<1>3. count * share <= available
  BY <1>2
<1>4. available >= count <=> left >= 5 * count
  OBVIOUS
<1>5. available >= count => share >= 1
  BY <1>2
<1>6. (share + 4) * count = count * share + count * 4
  BY <1>2
<1>7. Share(left, count) = IF available < count THEN 0 ELSE share
  BY <1>1 DEF Share
<1>8. (share + 4) * count <= left
  BY <1>2, <1>3, <1>6
<1> HIDE DEF share
<1>9. Share(left, count) >= 1 <=> available >= count
  BY <1>2, <1>5, <1>7
<1>10. CASE available >= count
  BY <1>1, <1>2, <1>4, <1>5, <1>7, <1>8, <1>10
<1>11. CASE ~ (available >= count)
  BY <1>1, <1>2, <1>4, <1>7, <1>11
<1> QED
  BY <1>10, <1>11

LEMMA NetworkRateInv ==
  ASSUME RunOK, RateInv, EarnedInv, NetworkTestsStep, UNCHANGED budget
  PROVE  RateInv'
<1>0. OverheadSec = 4 /\ Profiles \in Nat \ {0} /\ Delay \in Nat
  BY NetworkAssumption DEF OverheadSec, StartupSec
<1>1. PICK t \in NetworkTestNames :
        \/ NoTime(t) \/ StartServer(t) \/ ClientRefused(t) \/ Client(t) \/ StressEnded(t)
        \/ StressRaises(t) \/ StressLate(t) \/ ServerLate(t) \/ ServerEnded(t) \/ NetworkLoadEnds(t)
  BY DEF NetworkTestsStep
<1>2. CASE NoTime(t)
  <2>1. /\ run.pc = "setup" /\ run.test = t /\ run'.test = t /\ run'.pc = "cleanup"
        /\ run'.ends = run.ends /\ run'.late = run.late /\ run'.sub = run.sub /\ run'.left = run.left
        /\ run'.size = run.size
    BY <1>2 DEF NoTime, In, Done, Row, RunOK, Idle
  <2>2. run'.row.ends = IF t = Max_ \/ Share(budget, Profiles) < 1 THEN {} ELSE {Exhausted}
    <3> DEFINE ends == IF t = Max_ \/ Share(budget, Profiles) < 1 THEN {} ELSE {Exhausted}
    <3>1. run'.row = [status |-> "BROKEN", ends |-> ends]
      BY <1>2 DEF NoTime, Done, Row, RunOK, Idle, Exhausted
    <3> QED
      BY <3>1
  <2>3. CASE t # Rate
    <3>1. t = Max_
      BY <1>2, <2>3 DEF NoTime, NetworkTestNames
    <3> QED
      BY <2>1, <2>2, <2>3, <3>1, OtherTime DEF RateInv
  <2>4. CASE t = Rate
    <3>1. ASSUME Share(budget, Profiles) >= 1, ~ run.late
          PROVE  run.sub = 0 /\ budget = Profiles * (OverheadSec + 1)
      <4> DEFINE count == Profiles - run.sub
      <4>1. run.sub \in Nat /\ count \in Nat \ {0} /\ run.left \in Nat /\ budget \in Int /\ Remaining \in Int
        BY <1>0, <2>1, <2>4 DEF RateInv, Remaining
      <4>2. ~ (Share(Remaining, count) >= 1)
        <5>1. ClientSec < 1
          BY <1>2, <2>4 DEF NoTime, Rate, Local
        <5>2. ClientSec = Share(Remaining, count)
          BY <2>1, <2>4 DEF ClientSec, Rate, Local, Max_
        <5>3. Share(Remaining, count) \in Int
          BY <4>1, ShareFits
        <5> QED
          BY <5>1, <5>2, <5>3
      <4>3. ~ (Remaining >= 5 * count)
        BY <4>1, <4>2, ShareFits
      <4>4. budget >= 5 * Profiles
        BY <1>0, <3>1, <4>1, ShareFits
      <4>5. run.sub = 0
        BY <2>1, <2>4, <3>1, <4>1, <4>3 DEF RateInv, EnoughFor, Remaining
      <4>6. budget = Profiles * 5
        BY <1>0, <2>1, <2>4, <4>1, <4>3, <4>4, <4>5 DEF RateInv, Remaining
      <4> QED
        BY <1>0, <4>5, <4>6
    <3>2. Share(budget, Profiles) \in Int
      BY <1>0, ShareFits DEF RateInv
    <3>3. RateKeepsTime'
      BY <1>0, <2>1, <2>2, <3>1, <3>2 DEF RateKeepsTime, Exhausted
    <3> QED
      BY <2>1, <2>4, <3>3 DEF RateInv
  <2> QED
    BY <2>3, <2>4
<1>3. CASE StartServer(t)
  <2>1. /\ run.pc = "setup" /\ run.test = t /\ run'.test = t /\ run'.pc = "client"
        /\ run'.ends = {} /\ run'.row = run.row /\ run'.late = run.late /\ run'.sub = run.sub + 1
        /\ run'.left = run.left /\ run'.size = ClientSec
    BY <1>3 DEF StartServer, Starts, In, RunOK, Idle
  <2>2. CASE t # Rate
    BY <2>1, <2>2, OtherTime DEF RateInv
  <2>3. CASE t = Rate
    <3> DEFINE count == Profiles - run.sub
    <3>1. run.sub \in Nat /\ count \in Nat \ {0} /\ run.left \in Nat /\ Remaining \in Int
      BY <1>0, <2>1, <2>3 DEF RateInv, Remaining
    <3>2. ClientSec = Share(Remaining, count) /\ ClientSec >= 1 /\ Remaining <= run.left
      BY <1>3, <2>1, <2>3, <3>1 DEF StartServer, ClientSec, Rate, Local, Max_, Remaining
    <3>3. ClientSec \in Int /\ (ClientSec + 4) * count <= Remaining
      BY <1>0, <3>1, <3>2, ShareFits
    <3>4. run'.sub \in 1 .. Profiles /\ Profiles - run'.sub + 1 = count
      BY <1>0, <2>1, <3>1
    <3>5. (run'.size + OverheadSec) * (Profiles - run'.sub + 1) <= run'.left
      <4>1. (ClientSec + 4) * count \in Int
        BY <3>1, <3>3
      <4>2. (ClientSec + 4) * count <= run.left
        BY <3>1, <3>2, <3>3, <4>1
      <4> QED
        BY <1>0, <2>1, <3>4, <4>2
    <3> QED
      BY <2>1, <2>3, <3>2, <3>3, <3>4, <3>5 DEF RateInv
  <2> QED
    BY <2>2, <2>3
<1>4. CASE ClientRefused(t)
  <2>1. /\ run.pc = "client" /\ run.test = t /\ run'.test = t /\ run'.pc = "cleanup"
        /\ run'.ends = run.ends /\ run'.row = run.row /\ run'.late = run.late /\ run'.sub = run.sub
        /\ run'.left = run.left /\ run'.size = run.size
    BY <1>4 DEF ClientRefused, Done, In, RunOK, Idle
  <2> QED
    BY <2>1 DEF RateInv
<1>5. CASE Client(t)
  <2>1. PICK how \in {"ok", "bad"}, over \in {StartupSec, OverheadSec, OverheadSec + Delay} :
          /\ how = "ok" => futures["server"] = "running" \/ "server" \in stray
          /\ LET seen == Spent([run EXCEPT !.ends = {<<"client", how>>}],
                               over + IF how = "ok" THEN run.size ELSE 0)
             IN  /\ run' = IF t = Local /\ how = "bad" THEN NextSubtest(Row(seen, "FAILED", seen.ends))
                           ELSE [seen EXCEPT !.pc = IF t = Max_ THEN "stress" ELSE "server"]
                 /\ futures' = IF how = "bad" THEN ServerStopped(futures) ELSE futures
                 /\ stray' = stray \ {"server"}
    BY <1>5, Zenon DEF Client
  <2> DEFINE sec == over + IF how = "ok" THEN run.size ELSE 0
             seen == Spent([run EXCEPT !.ends = {<<"client", how>>}], sec)
  <2>2. run.pc = "client" /\ run.test = t
    BY <1>5 DEF Client, In
  <2>3. /\ seen.ends = {<<"client", how>>} /\ seen.test = t /\ seen.row = run.row
        /\ seen.sub = run.sub /\ seen.size = run.size /\ DOMAIN seen = DOMAIN Idle
    BY <2>2 DEF Spent, RunOK, Idle
  <2>4. seen.left = IF sec > run.left THEN 0 ELSE run.left - sec
    BY DEF Spent, RunOK, Idle
  <2>5. seen.late = (run.late \/ sec > run.size + OverheadSec)
    BY DEF Spent, RunOK, Idle
  <2>6. run' = IF t = Local /\ how = "bad" THEN NextSubtest(Row(seen, "FAILED", seen.ends))
               ELSE [seen EXCEPT !.pc = IF t = Max_ THEN "stress" ELSE "server"]
    BY <2>1
  <2>7. Exhausted \notin {<<"client", how>>}
    BY DEF Exhausted
  <2> HIDE DEF seen
  <2>8. CASE t = Local /\ how = "bad"
    <3>1. run'.row = [status |-> "FAILED", ends |-> seen.ends] /\ run'.ends = seen.ends /\ run'.test = t
      BY <2>3, <2>6, <2>8 DEF NextSubtest, Row, Done, Idle
    <3> QED
      BY <2>2, <2>3, <2>7, <2>8, <3>1, OtherTime DEF Local, Rate, RateInv
  <2>9. CASE ~ (t = Local /\ how = "bad")
    <3>1. /\ run'.row = run.row /\ run'.ends = {<<"client", how>>} /\ run'.test = t
          /\ run'.sub = run.sub /\ run'.size = run.size /\ run'.left = seen.left /\ run'.late = seen.late
          /\ run'.pc = IF t = Max_ THEN "stress" ELSE "server"
      BY <2>3, <2>6, <2>9 DEF Idle
    <3>2. CASE t # Rate
      BY <2>2, <2>7, <3>1, <3>2, OtherTime
    <3>3. CASE t = Rate
      <4> DEFINE count == Profiles - run.sub
                 share == run.size + 4
      <4>1. /\ run.sub \in 1 .. Profiles /\ run.left \in Nat /\ count \in Nat /\ run.late \in BOOLEAN
            /\ share \in Int /\ share >= 5 /\ share * (count + 1) <= run.left /\ sec \in Nat
        BY <1>0, <2>2, <3>3 DEF RateInv, StartupSec
      <4>2. seen.left \in Nat
        BY <2>4, <4>1
      <4>3. ASSUME sec <= share PROVE seen.left >= 5 * count
        <5> HIDE DEF sec, share, count
        <5>1. share * (count + 1) = share * count + share
          BY <4>1
        <5>2. share * count \in Int /\ share * count >= 5 * count
          BY <4>1
        <5> QED
          BY <2>4, <4>1, <4>3, <5>1, <5>2
      <4>4. run'.late \in BOOLEAN
        BY <2>5, <3>1, <4>1
      <4>5. EnoughFor(Profiles - run.sub)'
        <5>1. CASE sec <= share
          BY <3>1, <4>3, <5>1 DEF EnoughFor
        <5>2. CASE ~ (sec <= share)
          <6> HIDE DEF sec
          <6>1. sec > run.size + OverheadSec
            BY <1>0, <4>1, <5>2
          <6> QED
            BY <2>5, <3>1, <6>1 DEF EnoughFor
        <5> QED
          BY <5>1, <5>2
      <4>6. run'.pc = "server" /\ run'.row = run.row /\ Exhausted \notin run'.row.ends
        BY <2>2, <3>1, <3>3 DEF RateInv, Rate, Max_
      <4> QED
        BY <2>2, <2>7, <3>1, <3>3, <4>1, <4>2, <4>4, <4>5, <4>6 DEF RateInv
    <3> QED
      BY <3>2, <3>3
  <2> QED
    BY <2>8, <2>9
<1>6. CASE StressEnded(t) \/ StressRaises(t) \/ StressLate(t)
  <2>1. /\ run.pc = "stress" /\ run.test = t /\ run'.test = t
        /\ run'.ends \in {run.ends, run.ends \cup {<<"stress", futures["stress"]>>}}
        /\ run'.row = run.row \/ run'.row = [status |-> "FAILED", ends |-> run.ends]
    BY <1>6 DEF StressEnded, StressRaises, StressLate, In, Done, Row, RunOK, Idle
  <2>2. t # Rate
    BY <2>1 DEF EarnedInv, Rate, Max_
  <2>3. Exhausted # <<"stress", futures["stress"]>>
    BY DEF Exhausted
  <2> QED
    BY <2>1, <2>2, <2>3, OtherTime DEF RateInv
<1>7. CASE ServerLate(t) \/ ServerEnded(t)
  <2> DEFINE ends == run.ends \cup {<<"server", futures["server"]>>}
  <2>1. run.pc = "server" /\ run.test = t
    BY <1>7 DEF ServerLate, ServerEnded, In
  <2>2. Exhausted \notin run.ends /\ Exhausted \notin ends /\ Exhausted \notin run.row.ends
    BY <2>1 DEF RateInv, Exhausted
  <2> DEFINE row(r) == r.row = run.row \/ r.row.ends = run.ends \/ r.row.ends = ends
             same(r) == /\ r.test = t /\ r.ends = run.ends /\ r.late = run.late /\ r.sub = run.sub
                        /\ r.left = run.left /\ r.size = run.size
  <2>3. PICK r : /\ DOMAIN r = DOMAIN Idle /\ same(r) /\ row(r)
                 /\ run' = Done(r) \/ run' = NextSubtest(r)
    <3>1. /\ same(Row(run, "FAILED", run.ends)) /\ row(Row(run, "FAILED", run.ends))
          /\ DOMAIN Row(run, "FAILED", run.ends) = DOMAIN Idle
      BY <2>1 DEF Row, RunOK, Idle
    <3>2. /\ same(Row(run, RowOf(t, ends), ends)) /\ row(Row(run, RowOf(t, ends), ends))
          /\ DOMAIN Row(run, RowOf(t, ends), ends) = DOMAIN Idle
      BY <2>1 DEF Row, RunOK, Idle
    <3>3. same(run) /\ row(run) /\ DOMAIN run = DOMAIN Idle
      BY <2>1 DEF RunOK
    <3> HIDE DEF same, row
    <3> QED
      BY <1>7, <3>1, <3>2, <3>3 DEF ServerLate, ServerEnded
  <2>4. /\ same(run') /\ row(run') /\ run'.pc \in {"cleanup", "setup"}
        /\ run'.pc = "setup" => r.sub # Subtests(t)
    BY <2>3 DEF Done, NextSubtest, Idle
  <2>5. Exhausted \notin run'.row.ends
    BY <2>2, <2>4
  <2>6. CASE t # Rate
    BY <2>1, <2>2, <2>4, <2>5, <2>6, OtherTime
  <2>7. CASE t = Rate
    <3>1. run'.pc = "setup" => run.sub # Profiles
      <4>1. r.sub = run.sub /\ Subtests(t) = Profiles
        BY <2>3, <2>7 DEF Subtests, Rate, Local, Max_
      <4> QED
        BY <2>4, <4>1
    <3> QED
      BY <1>0, <2>1, <2>2, <2>4, <2>5, <2>7, <3>1 DEF RateInv, EnoughFor
  <2> QED
    BY <2>6, <2>7
<1>8. CASE NetworkLoadEnds(t)
  BY <1>8, RateKept DEF NetworkLoadEnds, LoadEnds
<1> QED
  BY <1>1, <1>2, <1>3, <1>4, <1>5, <1>6, <1>7, <1>8

(***************************************************************************)
(* The packet-rate test runs out of time between two profiles only when a  *)
(* profile took longer than its share and the overhead kept for it, or     *)
(* when it was given exactly the shortest time it announces as enough.     *)
(***************************************************************************)
THEOREM RateKeepsTimeCorrect == Spec => []RateKeepsTime
<1>1. Init => RateInv
  BY MachineAssumption DEF Init, MachineInit, Idle, NoRow, RateInv, Rate, Exhausted
<1>2. ASSUME MachineInv, EarnedInv, RateInv, [Next]_vars PROVE RateInv'
  <2>0. RunOK
    BY <1>2 DEF MachineInv
  <2>1. ASSUME NEW t \in TestNames, Begin(t) PROVE RateInv'
    <3>1. /\ run'.pc = "setup" /\ run'.test = t /\ run'.left = budget /\ run'.sub = 0 /\ run'.size = 0
          /\ run'.ends = {} /\ run'.row.ends = {} /\ run'.late = FALSE /\ UNCHANGED budget
      BY <2>1 DEF Begin, Idle, NoRow
    <3>2. run'.late \in BOOLEAN
      BY <3>1, Zenon
    <3>3. /\ run'.left \in Nat /\ run'.sub \in 0 .. Profiles /\ run'.size \in Int
          /\ run'.sub < Profiles /\ budget' \in Nat \ {0}
      BY <1>2, <3>1, NetworkAssumption DEF RateInv
    <3>4. Exhausted \notin run'.ends /\ Exhausted \notin run'.row.ends
      BY <3>1
    <3> QED
      BY <3>1, <3>2, <3>3, <3>4 DEF RateInv
  <2>2. CASE (LoadTestsStep \/ NetworkTestsStep) /\ UNCHANGED <<budget, ran, driveVars>>
    BY <1>2, <2>0, <2>2, LoadRateInv, NetworkRateInv
  <2>3. CASE DriveTestsStep /\ UNCHANGED <<budget, ran>>
    BY <1>2, <2>0, <2>3, DriveRateInv
  <2>4. CASE StrayEnds \/ UNCHANGED vars
    BY <1>2, <2>4, RateKept DEF StrayEnds, vars
  <2> QED
    BY <1>2, <2>1, <2>2, <2>3, <2>4 DEF Next, SuiteOver
<1>3. RateInv => RateKeepsTime
  BY DEF RateInv, Exhausted, RateKeepsTime
<1> QED
  BY <1>1, <1>2, <1>3, MachineInvHolds, EarnedInvHolds, PTL DEF Spec

(***************************************************************************)
(* The grid of a suite: the cases are at least one for each workload.      *)
(***************************************************************************)
\* A non-empty set of pairs of small numbers has a last one.
LEMMA LastPair ==
  ASSUME NEW fits, fits \subseteq (1 .. 5) \X (1 .. 4), fits # {}
  PROVE  \E c \in fits : \A d \in fits : d[1] < c[1] \/ (d[1] = c[1] /\ d[2] <= c[2])
<1> DEFINE key(c) == 30 - (5 * c[1] + c[2])
           keys == {key(c) : c \in fits}
<1>1. keys \subseteq Nat /\ keys # {}
  OBVIOUS
<1>2. PICK k \in keys : \A j \in keys : k <= j
  <2> HIDE DEF keys
  <2> QED
    BY <1>1, LeastNat
<1>3. PICK c \in fits : k = key(c)
  OBVIOUS
<1>4. \A d \in fits : key(d) >= key(c)
  BY <1>1, <1>2, <1>3
<1>5. ASSUME NEW d \in fits PROVE d[1] < c[1] \/ (d[1] = c[1] /\ d[2] <= c[2])
  <2>1. /\ c[1] \in 1 .. 5 /\ c[2] \in 1 .. 4 /\ d[1] \in 1 .. 5 /\ d[2] \in 1 .. 4
        /\ 5 * d[1] + d[2] <= 5 * c[1] + c[2]
    BY <1>4
  <2> QED
    BY <2>1
<1> QED
  BY <1>5

LEMMA TimingOK ==
  ASSUME NEW sec \in Int
  PROVE  /\ Timing(sec).depths \in Nat \ {0} /\ Timing(sec).jobs \in Nat \ {0}
         /\ Timing(sec).least \in Nat \ {0}
BY DEF Timing, Hour

LEMMA ShrunkOK ==
  ASSUME NEW sec \in Int, NEW workloads \in Nat, NEW least \in Nat
  PROVE  Shrunk(sec, workloads, least) \in Nat \ {0}
<1> DEFINE fits == {c \in (1 .. 5) \X (1 .. 4) : sec >= workloads * Candidates[c[1]] * c[2] * least}
           best == CHOOSE c \in fits : \A d \in fits : d[1] < c[1] \/ (d[1] = c[1] /\ d[2] <= c[2])
<1>1. fits \subseteq (1 .. 5) \X (1 .. 4)
  OBVIOUS
<1>2. Shrunk(sec, workloads, least) = IF fits = {} THEN 1 ELSE Candidates[best[1]] * best[2]
  BY DEF Shrunk
<1> HIDE DEF fits
<1>3. fits # {} => best[1] \in 1 .. 5 /\ best[2] \in 1 .. 4
  BY <1>1, LastPair
<1> HIDE DEF best
<1>4. \A i \in 1 .. 5 : Candidates[i] \in Nat \ {0}
  BY DEF Candidates
<1>5. \A a \in Nat \ {0}, b \in 1 .. 4 : a * b \in Nat \ {0}
  OBVIOUS
<1> QED
  BY <1>2, <1>3, <1>4, <1>5

LEMMA CasesOK ==
  ASSUME NEW sec \in Int, NEW workloads \in Nat \ {0}
  PROVE  Cases(sec, workloads) \in Nat \ {0}
<1>1. \A a, b \in Nat \ {0} : a * b \in Nat \ {0}
  OBVIOUS
<1>2. workloads * Timing(sec).depths * Timing(sec).jobs \in Nat \ {0}
  BY <1>1, TimingOK
<1>3. workloads * Shrunk(sec, workloads, Timing(sec).least) \in Nat \ {0}
  BY <1>1, TimingOK, ShrunkOK
<1> QED
  BY <1>2, <1>3 DEF Cases

LEMMA CasesOfOK ==
  ASSUME budget \in Nat, NEW t \in DOMAIN FioTests
  PROVE  CasesOf(t) \in Nat /\ (SuiteSec(t) # 0 => CasesOf(t) \in Nat \ {0})
<1>1. FioTests[t].workloads \in Nat \ {0} /\ FioTests[t].suites \in {1, 3}
  BY DEF FioTests
<1>2. SuiteSec(t) \in Int
  BY <1>1 DEF SuiteSec
<1>3. Cases(SuiteSec(t), FioTests[t].workloads) \in Nat \ {0}
  BY <1>1, <1>2, CasesOK
<1> QED
  BY <1>3 DEF CasesOf

(***************************************************************************)
(* What the run of a test holds.  A test has a load, a case or a profile   *)
(* left where it starts one, and a fio suite is left with all its cases    *)
(* run, as the cases of the suites before it are a multiple of its own.    *)
(***************************************************************************)
RunTyped ==
  /\ budget \in Budgets /\ ran \in 0 .. MaxTests /\ run.test \in TestNames \cup {"none"}
  /\ run.row.status \in Statuses /\ run.rows \in Nat /\ run.left \in 0 .. budget
  /\ excused \subseteq Kinds \cup {"dm", "faults"}
  /\ todo \in [1 .. 3 -> Nat \cup {Over}] /\ queue \in Nat /\ put \in Nat /\ queue <= put

SubInv ==
  /\ run.sub \in Nat /\ run.size \in Nat
  /\ run.pc = "fio" => run.test \in DOMAIN FioTests /\ SuiteSec(run.test) # 0
  /\ run.test \notin NetworkTestNames =>
       /\ run.sub <= run.size /\ (run.pc = "setup" => run.sub = 0)
       /\ run.pc \in {"load", "faults", "pair", "fio"} => run.sub < run.size
       /\ run.test \in InTurn /\ run.pc \in {"fio", "archive"} =>
            CasesOf(run.test) > 0 /\ run.size = CasesOf(run.test) * FioTests[run.test].suites
  /\ run.test \in NetworkTestNames =>
       /\ run.sub <= Subtests(run.test) /\ (run.pc = "setup" => run.sub < Subtests(run.test))
       /\ run.sub > 0 => run.size >= 1
       /\ run.pc \in {"client", "stress", "server"} => run.sub > 0

LEMMA NetworkNamesApart ==
  /\ NetworkTestNames \cap (PairTests \cup FaultTestNames \cup DOMAIN FioTests) = {}
  /\ NetworkTestNames \cap SequenceTests = {}
  /\ InTurn \cap (SequenceTests \cup PairTests \cup FaultTestNames \cup NetworkTestNames) = {}
<1>1. NetworkTestNames \cap (PairTests \cup FaultTestNames \cup DOMAIN FioTests) = {}
  BY DEF NetworkTestNames, Local, Rate, Max_, PairTests, FaultTestNames, FaultTests, FioTests
<1>2. InTurn \cap (PairTests \cup FaultTestNames) = {}
  BY DEF PairTests, FaultTestNames, FaultTests, FioTests, InTurn
<1>3. SequenceTests \cap (NetworkTestNames \cup InTurn) = {}
  BY CatalogueOK DEF SequencesOK, SequenceTests, OtherNames, InTurn
<1> QED
  BY <1>1, <1>2, <1>3 DEF InTurn

\* The run of a test that goes on: another status, a row more.
RunMoves ==
  /\ run'.test = run.test /\ run'.rows \in {run.rows, run.rows + 1}
  /\ run'.row = run.row \/ run'.row.status \in Statuses

LEMMA TypedStep ==
  ASSUME RunTyped, RunMoves, UNCHANGED <<budget, ran>>, run'.left \in 0 .. budget
  PROVE  /\ budget' \in Budgets /\ ran' \in 0 .. MaxTests /\ run'.test \in TestNames \cup {"none"}
         /\ run'.row.status \in Statuses /\ run'.rows \in Nat /\ run'.left \in 0 .. budget'
BY DEF RunTyped, RunMoves

\* A test other than those of the network and of the disks.
LEMMA SubStep ==
  ASSUME run'.test = run.test, run.test \notin NetworkTestNames \cup InTurn,
         run'.sub \in Nat, run'.size \in Nat, run'.sub <= run'.size, run'.pc \notin {"setup", "fio"},
         run'.pc \in {"load", "faults", "pair"} => run'.sub < run'.size
  PROVE  SubInv'
BY DEF SubInv, RunTyped

LEMMA LoadTypeInv ==
  ASSUME RunOK, RunTyped, SubInv, LoadTestsStep, UNCHANGED <<budget, ran, driveVars>>
  PROVE  RunTyped' /\ SubInv'
<1>0. excused' \subseteq Kinds \cup {"dm", "faults"} /\ UNCHANGED <<todo, queue, put>>
  <2>1. \/ UNCHANGED excused
        \/ excused' \in {excused \cup (Running \cap {"stress"}), excused \cup Running}
        \/ excused' \in {excused \cup {"faults"}, excused \ {"faults"}}
    BY DEF LoadTestsStep, SequenceSetUp, SequenceLoad, PairSetUp, PairStart, FirstLoop, SecondLoop, PairVerdict,
           PairRaises, PairLoadEnds, LoadEnds, FaultSetUp, ChangeFaults, FaultLoad, Cleanup, machineVars
  <2> QED
    BY <2>1 DEF RunTyped, Running, driveVars
<1>1. SUFFICES /\ run'.test \in TestNames \cup {"none"} /\ run'.row.status \in Statuses
               /\ run'.rows \in Nat /\ run'.left \in 0 .. budget /\ SubInv'
  BY <1>0 DEF RunTyped
<1>2. CASE Cleanup
  <2>1. run'.test = "none" /\ "none" \notin NetworkTestNames \cup InTurn
    BY <1>2, TestNamesNotNone DEF Cleanup, Idle, TestNames, InTurn
  <2>2. /\ run'.row.status = "none" /\ run'.rows = 0 /\ run'.left = 0
        /\ run'.sub = 0 /\ run'.size = 0 /\ run'.pc = "idle"
    BY <1>2 DEF Cleanup, Idle, NoRow
  <2> QED
    BY <2>1, <2>2, MachineAssumption DEF RunTyped, SubInv, Statuses
<1>3. ASSUME NEW t \in SequenceTests, SequenceSetUp(t) PROVE RunMoves /\ run'.left = run.left /\ SubInv'
  <2>1. /\ run.test = t /\ run.pc = "setup" /\ t \notin NetworkTestNames \cup InTurn
        /\ run.sub = 0 /\ run.size \in Nat
    BY <1>3, NetworkNamesApart DEF SequenceSetUp, In, SubInv
  <2>2. Catalogue[t].sizes \subseteq Nat
    BY CatalogueOK DEF SequencesOK, SequenceTests
  <2>3. /\ run'.test = t /\ run'.rows \in {run.rows, run.rows + 1} /\ run'.left = run.left
        /\ run'.row = run.row \/ run'.row = [status |-> "BROKEN", ends |-> {}]
        /\ run'.sub = run.sub
        /\ \/ run'.pc = "cleanup" /\ run'.size = run.size
           \/ \E n \in Catalogue[t].sizes : run'.size = n /\ run'.pc = IF n = 0 THEN "cleanup" ELSE "load"
    <3>1. \/ run' \in {Done(run), Done(Row(run, "BROKEN", {}))}
          \/ \E n \in Catalogue[t].sizes :
               run' = [run EXCEPT !.pc = IF n = 0 THEN "cleanup" ELSE "load", !.size = n]
      BY <1>3 DEF SequenceSetUp
    <3> QED
      BY <2>1, <3>1 DEF Row, Done, RunOK, Idle
  <2> QED
    BY <2>1, <2>2, <2>3, SubStep DEF RunMoves, Statuses
<1>4. ASSUME NEW t \in SequenceTests, SequenceLoad(t) PROVE RunMoves /\ run'.left = run.left /\ SubInv'
  <2>1. PICK how \in DOMAIN Catalogue[t].rows :
          LET r == LoadRow([run EXCEPT !.sub = @ + 1], Catalogue[t].rows[how], how)
          IN  run' = IF r.sub = r.size \/ how = "raised" THEN Done(r) ELSE r
    BY <1>4, Zenon DEF SequenceLoad
  <2>2. /\ run.test = t /\ run.pc = "load" /\ t \notin NetworkTestNames \cup InTurn
        /\ run.sub \in Nat /\ run.size \in Nat /\ run.sub < run.size
    BY <1>4, NetworkNamesApart DEF SequenceLoad, In, SubInv
  <2> DEFINE s == [run EXCEPT !.sub = @ + 1]
             r == LoadRow(s, Catalogue[t].rows[how], how)
  <2>5. run' = Done(r) \/ (run' = r /\ r.sub # r.size)
    BY <2>1
  <2>7. /\ DOMAIN s = DOMAIN Idle /\ s.test = run.test /\ s.row = run.row /\ s.rows = run.rows
        /\ s.pc = "load" /\ s.sub = run.sub + 1 /\ s.size = run.size
        /\ s.left = run.left /\ s.ends = run.ends
    BY <2>2 DEF RunOK, Idle
  <2> HIDE DEF s
  <2>6. /\ r.test = t /\ r.pc = "load" /\ DOMAIN r = DOMAIN Idle /\ r.left = run.left
        /\ r.sub = run.sub + 1 /\ r.size = run.size /\ r.rows \in {run.rows, run.rows + 1}
        /\ \/ r.row = run.row
           \/ r.row = [status |-> Catalogue[t].rows[how], ends |-> {<<"load", how>>}]
    BY <2>2, <2>7 DEF LoadRow, Row, Idle
  <2> HIDE DEF r
  <2>3. /\ run'.row = r.row /\ run'.test = r.test /\ run'.rows = r.rows /\ run'.left = r.left
        /\ run'.sub = r.sub /\ run'.size = r.size
        /\ run'.pc = "cleanup" \/ (run'.pc = "load" /\ r.sub # r.size)
    BY <2>5, <2>6 DEF Done, Idle
  <2>4. Catalogue[t].rows[how] \in Statuses
    BY CatalogueOK DEF SequencesOK, SequenceTests, RowsOK
  <2> QED
    BY <2>2, <2>3, <2>4, <2>6, SubStep DEF RunMoves
<1>5. ASSUME NEW t \in PairTests,
             PairSetUp(t) \/ PairStart(t) \/ FirstLoop(t) \/ SecondLoop(t) \/ PairRaises(t)
      PROVE  RunMoves /\ run'.left = run.left /\ SubInv'
  <2>1. /\ run.test = t /\ t \notin NetworkTestNames \cup InTurn
        /\ run.sub \in Nat /\ run.size \in Nat /\ run.sub <= run.size
        /\ run.pc = "setup" => run.sub = 0
        /\ run.pc = "pair" => run.sub < run.size
    BY <1>5, NetworkNamesApart DEF PairSetUp, PairStart, FirstLoop, SecondLoop, PairRaises, In, SubInv
  <2>2. PairSize(t) \in {1, 6}
    BY DEF PairSize
  <2>3. /\ run'.test = t /\ run'.row = run.row /\ run'.rows = run.rows /\ run'.left = run.left
        /\ \/ /\ run'.pc \in {"cleanup", "second", "first", "verdict"} /\ run'.sub = run.sub /\ run'.size = run.size
           \/ run.pc = "setup" /\ run'.pc = "pair" /\ run'.sub = run.sub /\ run'.size = PairSize(t)
           \/ run.pc = "pair" /\ run'.pc = "first" /\ run'.sub = run.sub + 1 /\ run'.size = run.size
    <3>1. CASE PairSetUp(t)
      BY <2>1, <3>1 DEF PairSetUp, In, Done, RunOK, Idle
    <3>2. CASE PairStart(t)
      BY <2>1, <3>2 DEF PairStart, In, RunOK, Idle
    <3>3. CASE FirstLoop(t) \/ SecondLoop(t) \/ PairRaises(t)
      BY <2>1, <3>3 DEF FirstLoop, SecondLoop, PairRaises, In, Done, RunOK, Idle
    <3> QED
      BY <1>5, <3>1, <3>2, <3>3
  <2> QED
    BY <2>1, <2>2, <2>3, SubStep DEF RunMoves
<1>6. ASSUME NEW t \in PairTests, PairVerdict(t) PROVE RunMoves /\ run'.left = run.left /\ SubInv'
  <2> DEFINE ends == Noted("stress") \cup Noted("bench")
             good == \A e \in ends : e[2] = "ok"
  <2>1. \/ run' = [Row(run, IF good THEN "PASSED" ELSE "FAILED", ends)
                    EXCEPT !.pc = IF run.sub = run.size THEN "cleanup" ELSE "pair"]
        \/ run' = Done(Row(run, "FAILED", ends))
    BY <1>6 DEF PairVerdict
  <2>2. /\ run.test = t /\ t \notin NetworkTestNames \cup InTurn
        /\ run.sub \in Nat /\ run.size \in Nat /\ run.sub <= run.size
    BY <1>6, NetworkNamesApart DEF PairVerdict, In, SubInv
  <2> HIDE DEF ends
  <2>3. /\ run'.test = t /\ run'.rows = run.rows + 1 /\ run'.left = run.left
        /\ run'.sub = run.sub /\ run'.size = run.size
        /\ \/ run'.row = [status |-> IF good THEN "PASSED" ELSE "FAILED", ends |-> ends]
           \/ run'.row = [status |-> "FAILED", ends |-> ends]
        /\ run'.pc = "cleanup" \/ (run'.pc = "pair" /\ run.sub # run.size)
    BY <2>1, <2>2 DEF Done, Row, RunOK, Idle
  <2>4. run'.row.status \in Statuses
    BY <2>3 DEF Statuses
  <2> QED
    BY <2>2, <2>3, <2>4, SubStep DEF RunMoves
<1>7. ASSUME NEW t \in PairTests, PairLoadEnds(t) PROVE RunMoves /\ run'.left = run.left /\ SubInv'
  <2>1. UNCHANGED run
    BY <1>7 DEF PairLoadEnds, LoadEnds
  <2> QED
    BY <2>1 DEF RunMoves, SubInv, CasesOf, SuiteSec
<1>8. ASSUME NEW t \in FaultTestNames, FaultSetUp(t) \/ ChangeFaults(t)
      PROVE  RunMoves /\ run'.left = run.left /\ SubInv'
  <2>1. /\ run.test = t /\ t \notin NetworkTestNames \cup InTurn
        /\ run.sub \in Nat /\ run.size \in Nat /\ run.sub <= run.size
        /\ run.pc = "setup" => run.sub = 0
        /\ run.pc = "faults" => run.sub < run.size
    BY <1>8, NetworkNamesApart DEF FaultSetUp, ChangeFaults, In, SubInv
  <2>2. FaultTests[t].probs * SuitesUnderFaults \in Nat \ {0}
    BY DEF FaultTestNames, FaultTests, SuitesUnderFaults, ChaosbladeFaults, StressNgFaults, PerfFaults, FioFaults,
           Iperf3Faults
  <2>3. /\ run'.test = t /\ run'.rows \in {run.rows, run.rows + 1} /\ run'.left = run.left
        /\ run'.row = run.row \/ run'.row = [status |-> "FAILED", ends |-> {}]
        /\ run'.sub = run.sub
        /\ \/ run'.pc = "cleanup" /\ run'.size = run.size
           \/ /\ run.pc = "setup" /\ run'.pc = "faults"
              /\ run'.size = FaultTests[t].probs * SuitesUnderFaults
           \/ run.pc = "faults" /\ run'.pc = "load" /\ run'.size = run.size
    <3>1. \/ run' \in {Done(run), Done(Row(run, "FAILED", {}))}
          \/ /\ run.pc = "setup"
             /\ run' = [run EXCEPT !.pc = "faults", !.size = FaultTests[t].probs * SuitesUnderFaults]
          \/ run.pc = "faults" /\ run' = [run EXCEPT !.pc = "load"]
      BY <1>8 DEF FaultSetUp, ChangeFaults, In
    <3> QED
      BY <2>1, <3>1 DEF Row, Done, RunOK, Idle
  <2> QED
    BY <2>1, <2>2, <2>3, SubStep DEF RunMoves, Statuses
<1>9. ASSUME NEW t \in FaultTestNames, FaultLoad(t) PROVE RunMoves /\ run'.left = run.left /\ SubInv'
  <2>1. PICK how \in DOMAIN FaultTests[t].rows, raised \in {FALSE, t = "FaultInjectionFioTest"} :
          LET r == LoadRow([run EXCEPT !.sub = @ + 1, !.pc = "faults"], FaultTests[t].rows[how], how)
              over == \/ r.sub = r.size \/ raised \/ how = "raised"
                      \/ t = "FaultInjectionStressNgTest" /\ how # "ok"
          IN  run' = IF over THEN Done(r) ELSE r
    BY <1>9, Zenon DEF FaultLoad
  <2> DEFINE s == [run EXCEPT !.sub = @ + 1, !.pc = "faults"]
             r == LoadRow(s, FaultTests[t].rows[how], how)
  <2>2. run' = Done(r) \/ (run' = r /\ r.sub # r.size)
    BY <2>1
  <2>3. /\ run.test = t /\ run.pc = "load" /\ t \notin NetworkTestNames \cup InTurn
        /\ run.sub \in Nat /\ run.size \in Nat /\ run.sub < run.size
    BY <1>9, NetworkNamesApart DEF FaultLoad, In, SubInv
  <2>7. /\ DOMAIN s = DOMAIN Idle /\ s.test = run.test /\ s.row = run.row /\ s.rows = run.rows
        /\ s.pc = "faults" /\ s.sub = run.sub + 1 /\ s.size = run.size
        /\ s.left = run.left /\ s.ends = run.ends
    BY DEF RunOK, Idle
  <2> HIDE DEF s
  <2>4. /\ r.test = t /\ r.pc = "faults" /\ DOMAIN r = DOMAIN Idle /\ r.left = run.left
        /\ r.sub = run.sub + 1 /\ r.size = run.size /\ r.rows \in {run.rows, run.rows + 1}
        /\ \/ r.row = run.row
           \/ r.row = [status |-> FaultTests[t].rows[how], ends |-> {<<"load", how>>}]
    BY <2>3, <2>7 DEF LoadRow, Row, Idle
  <2> HIDE DEF r
  <2>5. /\ run'.row = r.row /\ run'.test = r.test /\ run'.rows = r.rows /\ run'.left = r.left
        /\ run'.sub = r.sub /\ run'.size = r.size
        /\ run'.pc = "cleanup" \/ (run'.pc = "faults" /\ r.sub # r.size)
    BY <2>2, <2>4 DEF Done, Idle
  <2>6. FaultTests[t].rows[how] \in Statuses
    BY FaultRowsOK DEF RowsOK
  <2> QED
    BY <2>3, <2>4, <2>5, <2>6, SubStep DEF RunMoves
<1> QED
  BY <1>2, <1>3, <1>4, <1>5, <1>6, <1>7, <1>8, <1>9, TypedStep DEF LoadTestsStep, RunTyped

LEMMA NetworkTypeInv ==
  ASSUME RunOK, RunTyped, SubInv, NetworkTestsStep, UNCHANGED <<budget, ran, driveVars>>
  PROVE  RunTyped' /\ SubInv'
<1>1. PICK t \in NetworkTestNames :
        \/ NoTime(t) \/ StartServer(t) \/ ClientRefused(t) \/ Client(t) \/ StressEnded(t)
        \/ StressRaises(t) \/ StressLate(t) \/ ServerLate(t) \/ ServerEnded(t) \/ NetworkLoadEnds(t)
  BY DEF NetworkTestsStep
<1>2. run.test = t /\ t \notin InTurn
  BY <1>1, NetworkNamesApart
  DEF NoTime, StartServer, ClientRefused, Client, StressEnded, StressRaises, StressLate, ServerLate, ServerEnded,
      NetworkLoadEnds, In
<1>3. /\ Subtests(t) \in 1 .. (Profiles + 1) /\ budget \in Nat \ {0}
      /\ run.sub \in Nat /\ run.size \in Nat /\ run.sub <= Subtests(t)
      /\ run.pc = "setup" => run.sub < Subtests(t)
      /\ run.pc \in {"client", "stress", "server"} => run.sub > 0
      /\ run.sub > 0 => run.size >= 1
  BY <1>2, NetworkAssumption, MachineAssumption
  DEF SubInv, RunTyped, Subtests, NetworkTestNames, Local, Rate, Max_
<1>4. excused' \subseteq Kinds \cup {"dm", "faults"} /\ UNCHANGED <<todo, queue, put>>
  <2>1. UNCHANGED excused \/ excused' = excused \cup Running \/ excused' = excused \cup {"stress"}
    BY <1>1 DEF NoTime, StartServer, ClientRefused, Client, StressEnded, StressRaises, StressLate, ServerLate, ServerEnded,
                NetworkLoadEnds, LoadEnds, machineVars
  <2> QED
    BY <2>1 DEF RunTyped, Running, Kinds, driveVars
<1>5. SUFFICES /\ RunMoves /\ run'.left \in 0 .. budget
               /\ run'.sub \in Nat /\ run'.size \in Nat /\ run'.sub <= Subtests(t)
               /\ run'.pc = "setup" => run'.sub < Subtests(t)
               /\ run'.pc \in {"client", "stress", "server"} => run'.sub > 0
               /\ run'.sub > 0 => run'.size >= 1
               /\ run'.pc # "fio"
  BY <1>2, <1>4, <1>5, TypedStep DEF SubInv, RunTyped, RunMoves, Subtests
\* A step that starts no subtest and ends in the next one's setup only when there is one.
<1>6. ASSUME run'.test = t, run'.sub = run.sub, run'.size = run.size, run'.rows \in {run.rows, run.rows + 1},
             run'.row = run.row \/ run'.row.status \in Statuses, run'.left \in 0 .. budget,
             run.sub > 0 \/ run'.pc = "cleanup", run'.pc # "fio",
             run'.pc = "setup" => run.sub # Subtests(t)
      PROVE  <1>5!1
  BY <1>2, <1>3, <1>6 DEF RunMoves
<1>7. run.left \in 0 .. budget
  BY DEF RunTyped
<1>8. CASE NoTime(t) \/ ClientRefused(t) \/ StressRaises(t)
  <2>1. run' = Done(run) \/ \E ends : run' = Done(Row(run, "BROKEN", ends))
    BY <1>8 DEF NoTime, ClientRefused, StressRaises
  <2>2. ASSUME NEW ends, run' = Done(Row(run, "BROKEN", ends)) PROVE <1>5!1
    <3>1. /\ run'.test = t /\ run'.sub = run.sub /\ run'.size = run.size /\ run'.rows = run.rows + 1
          /\ run'.row = [status |-> "BROKEN", ends |-> ends] /\ run'.left = run.left /\ run'.pc = "cleanup"
      BY <1>2, <2>2 DEF Done, Row, RunOK, Idle
    <3>2. run'.row.status \in Statuses
      BY <3>1 DEF Statuses
    <3> QED
      BY <1>6, <1>7, <3>1, <3>2
  <2>3. CASE run' = Done(run)
    <3>1. /\ run'.test = t /\ run'.sub = run.sub /\ run'.size = run.size /\ run'.rows = run.rows
          /\ run'.row = run.row /\ run'.left = run.left /\ run'.pc = "cleanup"
      BY <1>2, <2>3 DEF Done, RunOK, Idle
    <3> QED
      BY <1>6, <1>7, <3>1
  <2> QED
    BY <2>1, <2>2, <2>3
<1>9. CASE StartServer(t)
  <2>1. /\ run'.test = t /\ run'.sub = run.sub + 1 /\ run'.size = ClientSec /\ run'.rows = run.rows
        /\ run'.row = run.row /\ run'.left = run.left /\ run'.pc = "client"
    BY <1>2, <1>9 DEF StartServer, Starts, RunOK, Idle
  <2>2. run.pc = "setup" /\ (t = Local \/ ClientSec >= 1)
    BY <1>9 DEF StartServer, In
  <2>3. ClientSec \in Nat /\ ClientSec >= 1
    <3>1. CASE t = Local
      BY <1>2, <1>3, <3>1 DEF ClientSec, Rate, Local, Max_
    <3>2. CASE t = Rate
      <4>1. Remaining \in Int /\ Profiles - run.sub \in Nat \ {0}
        BY <1>2, <1>3, <1>7, <2>2, <3>2, NetworkAssumption DEF Remaining, Subtests, Rate, Local
      <4>2. ClientSec = Share(Remaining, Profiles - run.sub) /\ t # Local
        BY <1>2, <3>2 DEF ClientSec, Rate, Local, Max_
      <4> QED
        BY <2>2, <4>1, <4>2, ShareFits
    <3>3. CASE t = Max_
      BY <1>2, <1>3, <2>2, <3>3 DEF ClientSec, Max_, Rate, Local, StartupSec, ShutdownSec
    <3> QED
      BY <3>1, <3>2, <3>3 DEF NetworkTestNames
  <2> QED
    BY <1>2, <1>3, <1>7, <2>1, <2>2, <2>3 DEF RunMoves
<1>10. CASE Client(t)
  <2>1. PICK how \in {"ok", "bad"}, over \in {StartupSec, OverheadSec, OverheadSec + Delay} :
          /\ how = "ok" => futures["server"] = "running" \/ "server" \in stray
          /\ LET seen == Spent([run EXCEPT !.ends = {<<"client", how>>}],
                               over + IF how = "ok" THEN run.size ELSE 0)
             IN  /\ run' = IF t = Local /\ how = "bad" THEN NextSubtest(Row(seen, "FAILED", seen.ends))
                           ELSE [seen EXCEPT !.pc = IF t = Max_ THEN "stress" ELSE "server"]
                 /\ futures' = IF how = "bad" THEN ServerStopped(futures) ELSE futures
                 /\ stray' = stray \ {"server"}
    BY <1>10, Zenon DEF Client
  <2> DEFINE sec  == over + IF how = "ok" THEN run.size ELSE 0
             seen == Spent([run EXCEPT !.ends = {<<"client", how>>}], sec)
  <2>2. run.pc = "client" /\ sec \in Nat
    BY <1>3, <1>10, NetworkAssumption DEF Client, In, OverheadSec, StartupSec
  <2>3. run' = IF t = Local /\ how = "bad" THEN NextSubtest(Row(seen, "FAILED", seen.ends))
               ELSE [seen EXCEPT !.pc = IF t = Max_ THEN "stress" ELSE "server"]
    BY <2>1
  <2> HIDE DEF sec
  <2>4. /\ seen.test = t /\ seen.row = run.row /\ seen.rows = run.rows /\ seen.sub = run.sub
        /\ seen.size = run.size /\ DOMAIN seen = DOMAIN Idle
        /\ seen.left = IF sec > run.left THEN 0 ELSE run.left - sec
    BY <1>2 DEF Spent, RunOK, Idle
  <2>5. seen.left \in 0 .. budget
    BY <1>3, <1>7, <2>2, <2>4
  <2> HIDE DEF seen
  <2>6. /\ run'.test = t /\ run'.rows \in {run.rows, run.rows + 1} /\ run'.sub = run.sub
        /\ run'.size = run.size /\ run'.left = seen.left
        /\ run'.row = run.row \/ run'.row = [status |-> "FAILED", ends |-> seen.ends]
        /\ run'.pc # "fio" /\ (run'.pc = "setup" => run.sub # Subtests(t))
    <3>1. CASE t = Local /\ how = "bad"
      BY <2>3, <2>4, <3>1 DEF NextSubtest, Row, Done, Idle
    <3>2. CASE ~ (t = Local /\ how = "bad")
      BY <2>3, <2>4, <3>2 DEF Idle
    <3> QED
      BY <3>1, <3>2
  <2> QED
    BY <1>3, <1>6, <2>2, <2>5, <2>6 DEF Statuses
<1>11. CASE StressEnded(t)
  <2>1. /\ run'.test = t /\ run'.sub = run.sub /\ run'.size = run.size /\ run'.rows = run.rows
        /\ run'.row = run.row /\ run'.left = run.left /\ run'.pc = "server" /\ run.pc = "stress"
    BY <1>2, <1>11 DEF StressEnded, In, RunOK, Idle
  <2> QED
    BY <1>3, <1>6, <1>7, <2>1
<1>12. CASE StressLate(t) \/ ServerLate(t) \/ ServerEnded(t)
  <2>1. run.pc \in {"stress", "server"}
    BY <1>12 DEF StressLate, ServerLate, ServerEnded, In
  <2>2. \/ run' = Done(run)
        \/ \E status \in {"PASSED", "FAILED", "BROKEN"} : \E ends :
             run' \in {Done(Row(run, status, ends)), NextSubtest(Row(run, status, ends))}
    <3>1. CASE StressLate(t)
      BY <3>1 DEF StressLate
    <3>2. CASE ServerLate(t)
      BY <3>2 DEF ServerLate
    <3>3. CASE ServerEnded(t)
      <4>1. \A ends : RowOf(t, ends) \in {"PASSED", "FAILED", "BROKEN"}
        BY DEF RowOf
      <4> QED
        BY <3>3, <4>1 DEF ServerEnded
    <3> QED
      BY <1>12, <3>1, <3>2, <3>3
  <2>3. CASE run' = Done(run)
    <3>1. /\ run'.test = t /\ run'.sub = run.sub /\ run'.size = run.size /\ run'.rows = run.rows
          /\ run'.row = run.row /\ run'.left = run.left /\ run'.pc = "cleanup"
      BY <1>2, <2>3 DEF Done, RunOK, Idle
    <3> QED
      BY <1>6, <1>7, <3>1
  <2>4. ASSUME NEW status \in {"PASSED", "FAILED", "BROKEN"}, NEW ends,
               run' \in {Done(Row(run, status, ends)), NextSubtest(Row(run, status, ends))}
        PROVE  <1>5!1
    <3>1. /\ run'.test = t /\ run'.sub = run.sub /\ run'.size = run.size /\ run'.rows = run.rows + 1
          /\ run'.row = [status |-> status, ends |-> ends] /\ run'.left = run.left
          /\ run'.pc # "fio" /\ (run'.pc = "setup" => run.sub # Subtests(t))
      BY <1>2, <2>4 DEF Done, NextSubtest, Row, RunOK, Idle
    <3>2. run'.row.status \in Statuses
      BY <3>1 DEF Statuses
    <3> QED
      BY <1>3, <1>6, <1>7, <2>1, <3>1, <3>2
  <2> QED
    BY <2>2, <2>3, <2>4
<1>13. CASE NetworkLoadEnds(t)
  <2>1. UNCHANGED run /\ run.pc \in {"client", "stress", "server"}
    BY <1>13 DEF NetworkLoadEnds, LoadEnds
  <2> QED
    BY <1>2, <1>3, <1>6, <1>7, <2>1
<1> QED
  BY <1>1, <1>8, <1>9, <1>10, <1>11, <1>12, <1>13

LEMMA DriveTypeInv ==
  ASSUME RunOK, RunTyped, SubInv, DriveTestsStep, UNCHANGED <<budget, ran>>
  PROVE  RunTyped' /\ SubInv'
<1>1. budget \in Nat \ {0} /\ \A t \in DOMAIN FioTests : CasesOf(t) \in Nat /\ FioTests[t].suites \in {1, 3}
  BY MachineAssumption, CasesOfOK DEF RunTyped, FioTests
<1>2. /\ excused' \subseteq Kinds \cup {"dm", "faults"}
      /\ todo' \in [1 .. 3 -> Nat \cup {Over}] /\ queue' \in Nat /\ put' \in Nat /\ queue' <= put'
  <2>1. UNCHANGED excused \/ excused' = excused \cup {"dm"}
    BY DEF DriveTestsStep, BadBlocksFail, SuiteSetUp, DeviceSetUp, Case, Archive, RemoveDevice, StartSuites,
           LookAtFutures, LookAtQueue, Get, SuitePuts, SuiteEnds, machineVars
  <2>2. \/ UNCHANGED driveVars
        \/ todo' = [s \in 1 .. 3 |-> CasesOf(Parallel)] /\ queue' = 0 /\ put' = 0
        \/ queue > 0 /\ queue' = queue - 1 /\ UNCHANGED <<todo, put>>
        \/ UNCHANGED <<todo, put, queue>>
        \/ \E s \in 1 .. 3 : /\ todo[s] > 0 /\ todo' = [todo EXCEPT ![s] = @ - 1]
                             /\ queue' = queue + 1 /\ put' = put + 1
        \/ \E s \in 1 .. 3 : todo' = [todo EXCEPT ![s] = Over] /\ UNCHANGED <<queue, put>>
    BY DEF DriveTestsStep, BadBlocksFail, SuiteSetUp, DeviceSetUp, Case, Archive, RemoveDevice, StartSuites,
           LookAtFutures, LookAtQueue, Get, SuitePuts, SuiteEnds
  <2>3. CasesOf(Parallel) \in Nat
    BY <1>1, ParallelHasNoDevice
  <2> QED
    BY <2>1, <2>2, <2>3 DEF RunTyped, driveVars, Over
<1>3. SUFFICES RunMoves /\ run'.left = run.left /\ SubInv'
  BY <1>2, TypedStep DEF RunTyped
<1>4. CASE BadBlocksFail
  <2>1. /\ run.test = "FioDisksDMDust" /\ run'.test = run.test /\ run'.rows = run.rows /\ run'.row = run.row
        /\ run'.left = run.left /\ run'.sub = run.sub /\ run'.size = run.size /\ run'.pc = "cleanup"
    BY <1>4 DEF BadBlocksFail, In, Done, RunOK, Idle
  <2> QED
    BY <2>1 DEF RunMoves, SubInv, NetworkTestNames, Local, Rate, Max_
<1>5. ASSUME NEW t \in DOMAIN FioTests, SuiteSetUp(t) \/ DeviceSetUp(t)
      PROVE  RunMoves /\ run'.left = run.left /\ SubInv'
  <2>1. /\ run.test = t /\ run.pc = "setup" /\ t \notin NetworkTestNames /\ run.sub = 0 /\ run.size \in Nat
    BY <1>5, NetworkNamesApart DEF SuiteSetUp, DeviceSetUp, In, SubInv
  <2>2. /\ run'.test = t /\ run'.rows = run.rows /\ run'.row = run.row /\ run'.left = run.left
        /\ run'.sub = 0
        /\ \/ run'.pc = "cleanup" /\ run'.size = run.size
           \/ /\ run'.pc = "fio" /\ run'.size = CasesOf(t) * FioTests[t].suites
              /\ SuiteSec(t) # 0 \/ FioTests[t].device
    BY <1>5, <2>1 DEF SuiteSetUp, DeviceSetUp, NoDevice, Planned, Done, RunOK, Idle
  <2>3. FioTests[t].device => SuiteSec(t) # 0
    BY <1>1 DEF SuiteSec, FioTests
  <2>4. SuiteSec(t) # 0 => CasesOf(t) \in Nat \ {0}
    BY <1>1, CasesOfOK
  <2>5. CasesOf(t)' = CasesOf(t) /\ SuiteSec(t)' = SuiteSec(t)
    BY DEF CasesOf, SuiteSec
  <2>6. /\ CasesOf(t) * FioTests[t].suites \in Nat
        /\ CasesOf(t) > 0 => CasesOf(t) * FioTests[t].suites > 0
    BY <1>1
  <2> QED
    BY <1>1, <2>1, <2>2, <2>3, <2>4, <2>5, <2>6 DEF RunMoves, SubInv
<1>6. ASSUME NEW t \in InTurn, Case(t) PROVE RunMoves /\ run'.left = run.left /\ SubInv'
  <2>1. PICK how \in {"ok", "bad"} :
          LET r == [Row(run, IF how = "ok" THEN "PASSED" ELSE "FAILED", {<<"fio", how>>})
                    EXCEPT !.sub = @ + 1]
          IN  run' = IF r.sub % CasesOf(t) = 0 THEN [r EXCEPT !.pc = "archive"] ELSE r
    BY <1>6, Zenon DEF Case
  <2>2. /\ run.test = t /\ run.pc = "fio" /\ t \notin NetworkTestNames /\ run.sub \in Nat /\ run.sub < run.size
        /\ CasesOf(t) > 0 /\ run.size = CasesOf(t) * FioTests[t].suites /\ t \in DOMAIN FioTests
    BY <1>6, NetworkNamesApart DEF Case, In, SubInv, InTurn
  <2>3. /\ run'.test = t /\ run'.rows = run.rows + 1 /\ run'.left = run.left
        /\ run'.row = [status |-> IF how = "ok" THEN "PASSED" ELSE "FAILED", ends |-> {<<"fio", how>>}]
        /\ run'.sub = run.sub + 1 /\ run'.size = run.size
        /\ run'.pc = IF (run.sub + 1) % CasesOf(t) = 0 THEN "archive" ELSE "fio"
    BY <2>1, <2>2 DEF Row, RunOK, Idle
  <2>4. run.size % CasesOf(t) = 0
    <3>1. \A n \in Nat \ {0} : (n * 1) % n = 0 /\ (n * 3) % n = 0
      OBVIOUS
    <3> QED
      BY <1>1, <2>2, <3>1
  <2>5. run'.pc = "fio" => run.sub + 1 # run.size
    BY <2>3, <2>4
  <2>6. CasesOf(t)' = CasesOf(t) /\ SuiteSec(t)' = SuiteSec(t)
    BY DEF CasesOf, SuiteSec
  <2>7. run'.row.status \in Statuses
    BY <2>3 DEF Statuses
  <2>8. run.size \in Nat
    BY DEF SubInv
  <2> QED
    BY <2>2, <2>3, <2>5, <2>6, <2>7, <2>8 DEF RunMoves, SubInv
<1>7. ASSUME NEW t \in InTurn, Archive(t) \/ RemoveDevice(t)
      PROVE  RunMoves /\ run'.left = run.left /\ SubInv'
  <2>1. /\ run.test = t /\ t \notin NetworkTestNames /\ run.pc \in {"archive", "remove"}
    BY <1>7, NetworkNamesApart DEF Archive, RemoveDevice, In
  <2>2. /\ run'.test = t /\ run'.rows = run.rows /\ run'.row = run.row /\ run'.left = run.left
        /\ run'.sub = run.sub /\ run'.size = run.size
        /\ run'.pc \in {"remove", "cleanup"} \/ (run.pc = "archive" /\ run.sub < run.size /\ run'.pc = "fio")
    BY <1>7, <2>1 DEF Archive, RemoveDevice, In, Done, RunOK, Idle
  <2>3. CasesOf(t)' = CasesOf(t) /\ SuiteSec(t)' = SuiteSec(t)
    BY DEF CasesOf, SuiteSec
  <2>4. CasesOf(t) > 0 => SuiteSec(t) # 0
    BY DEF CasesOf
  <2> QED
    BY <1>7, <2>1, <2>2, <2>3, <2>4 DEF RunMoves, SubInv, InTurn
<1>8. CASE StartSuites \/ LookAtFutures \/ LookAtQueue \/ Get
  <2>1. run.test = Parallel /\ Parallel \notin NetworkTestNames \cup InTurn
    BY <1>8, ParallelIsNoOther DEF StartSuites, LookAtFutures, LookAtQueue, Get, In
  <2>2. \/ \E pc \in {"futures", "queue", "get", "cleanup"} : run' = [run EXCEPT !.pc = pc]
        \/ \E status \in {"PASSED", "FAILED"} : \E ends : run' = [Row(run, status, ends) EXCEPT !.pc = "futures"]
    BY <1>8 DEF StartSuites, LookAtFutures, LookAtQueue, Get, Done
  <2>3. ASSUME NEW pc \in {"futures", "queue", "get", "cleanup"}, run' = [run EXCEPT !.pc = pc]
        PROVE  RunMoves /\ run'.left = run.left /\ SubInv'
    <3>1. /\ run'.test = run.test /\ run'.rows = run.rows /\ run'.left = run.left /\ run'.row = run.row
          /\ run'.sub = run.sub /\ run'.size = run.size /\ run'.pc = pc
      BY <2>3 DEF RunOK, Idle
    <3> QED
      BY <2>1, <3>1 DEF RunMoves, SubInv
  <2>4. ASSUME NEW status \in {"PASSED", "FAILED"}, NEW ends,
               run' = [Row(run, status, ends) EXCEPT !.pc = "futures"]
        PROVE  RunMoves /\ run'.left = run.left /\ SubInv'
    <3>1. /\ run'.test = run.test /\ run'.rows = run.rows + 1 /\ run'.left = run.left
          /\ run'.row = [status |-> status, ends |-> ends]
          /\ run'.sub = run.sub /\ run'.size = run.size /\ run'.pc = "futures"
      BY <2>4 DEF Row, RunOK, Idle
    <3>2. run'.row.status \in Statuses
      BY <3>1 DEF Statuses
    <3> QED
      BY <2>1, <3>1, <3>2 DEF RunMoves, SubInv
  <2> QED
    BY <2>2, <2>3, <2>4
<1>9. ASSUME NEW s \in 1 .. 3, SuitePuts(s) \/ SuiteEnds(s)
      PROVE  RunMoves /\ run'.left = run.left /\ SubInv'
  <2>1. UNCHANGED run
    BY <1>9 DEF SuitePuts, SuiteEnds
  <2> QED
    BY <2>1 DEF RunMoves, SubInv, CasesOf, SuiteSec
<1> QED
  BY <1>4, <1>5, <1>6, <1>7, <1>8, <1>9 DEF DriveTestsStep

LEMMA SubInvHolds == Spec => [](RunTyped /\ SubInv)
<1>1. Init => RunTyped /\ SubInv
  <2>1. "none" \notin NetworkTestNames
    BY TestNamesNotNone DEF TestNames
  <2> QED
    BY <2>1, MachineAssumption
    DEF Init, MachineInit, DriveInit, Idle, NoRow, RunTyped, SubInv, Statuses
<1>2. ASSUME RunOK, RunTyped, SubInv, [Next]_vars PROVE RunTyped' /\ SubInv'
  <2>1. ASSUME NEW t \in TestNames, Begin(t), UNCHANGED driveVars PROVE RunTyped' /\ SubInv'
    <3>1. /\ run'.test = t /\ run'.pc = "setup" /\ run'.sub = 0 /\ run'.size = 0 /\ run'.rows = 0
          /\ run'.row.status = "none" /\ run'.left = budget
          /\ ran < MaxTests /\ ran' = ran + 1 /\ UNCHANGED <<budget, excused, todo, queue, put>>
      BY <2>1 DEF Begin, Idle, NoRow, machineVars, driveVars
    <3>2. t \in NetworkTestNames => Subtests(t) \in Nat \ {0}
      BY NetworkAssumption DEF Subtests, NetworkTestNames, Local, Rate, Max_
    <3>3. Subtests(t)' = Subtests(t)
      BY DEF Subtests
    <3> QED
      BY <1>2, <2>1, <3>1, <3>2, <3>3, MachineAssumption DEF RunTyped, SubInv, Statuses
  <2>2. CASE LoadTestsStep /\ UNCHANGED <<budget, ran, driveVars>>
    BY <1>2, <2>2, LoadTypeInv
  <2>3. CASE NetworkTestsStep /\ UNCHANGED <<budget, ran, driveVars>>
    BY <1>2, <2>3, NetworkTypeInv
  <2>4. CASE DriveTestsStep /\ UNCHANGED <<budget, ran>>
    BY <1>2, <2>4, DriveTypeInv
  <2>5. CASE UNCHANGED <<budget, run, ran, excused, driveVars>>
    BY <1>2, <2>5 DEF RunTyped, SubInv, CasesOf, SuiteSec, Subtests, driveVars
  <2> QED
    BY <1>2, <2>1, <2>2, <2>3, <2>4, <2>5 DEF Next, StrayEnds, SuiteOver, vars, machineVars
<1>3. MachineInv => RunOK
  BY DEF MachineInv
<1> QED
  BY <1>1, <1>2, <1>3, MachineInvHolds, PTL DEF Spec

(***************************************************************************)
(* Every variable keeps its type: in particular a test never counts more   *)
(* loads, cases or profiles than it has, and nothing is taken from the     *)
(* queue of the parallel fio test that was not put there.                  *)
(***************************************************************************)
THEOREM TypeCorrect == Spec => []TypeOK
<1>1. MachineInv /\ RunTyped /\ SubInv => TypeOK
  <2>1. SUFFICES ASSUME MachineInv, RunTyped, SubInv PROVE TypeOK
    OBVIOUS
  <2>2. run.sub \in 0 .. (run.size + Profiles)
    <3>1. run.test \in NetworkTestNames => Subtests(run.test) \in 1 .. (Profiles + 1)
      BY NetworkAssumption DEF Subtests, NetworkTestNames, Local, Rate, Max_
    <3> QED
      BY <2>1, <3>1, NetworkAssumption DEF SubInv
  <2> QED
    BY <2>1, <2>2 DEF MachineInv, FuturesOK, StrayInv, FaultsInv, RunTyped, Statuses, TypeOK
<1> QED
  BY <1>1, MachineInvHolds, SubInvHolds, PTL

(***************************************************************************)
(* The seconds of the cases of a fio suite.                                *)
(***************************************************************************)
LEMMA TheMax == ASSUME NEW a \in Int, NEW b \in Int PROVE Max({a, b}) = IF a >= b THEN a ELSE b
BY DEF Max

LEMMA TheMin == ASSUME NEW a \in Int, NEW b \in Int PROVE Min({a, b}) = IF a <= b THEN a ELSE b
BY DEF Min

\* Rounding goes up only when more than nothing is left over.
LEMMA RoundedOK ==
  ASSUME NEW a \in Nat, NEW n \in Nat \ {0}
  PROVE  LET q == a \div n
             r == a % n
         IN  /\ q \in Nat /\ r \in 0 .. (n - 1) /\ a = n * q + r
             /\ Rounded(a, n) = q \/ (Rounded(a, n) = q + 1 /\ r > 0)
<1> DEFINE q == a \div n
           r == a % n
<1>1. q \in Nat /\ r \in 0 .. (n - 1) /\ a = n * q + r
  OBVIOUS
<1>2. Rounded(a, n) = IF 2 * r > n \/ (2 * r = n /\ q % 2 = 1) THEN q + 1 ELSE q
  BY DEF Rounded
<1> HIDE DEF q, r
<1>3. Rounded(a, n) = q \/ (Rounded(a, n) = q + 1 /\ r > 0)
  BY <1>1, <1>2
<1> QED
  BY <1>1, <1>3 DEF q, r

\* What a case gets when the first m are to be dealt one second.
LEMMA DealtOK ==
  ASSUME NEW n \in Nat \ {0}, NEW m \in 0 .. n, NEW i \in 1 .. n
  PROVE  (m + n - i) \div n = IF i <= m THEN 1 ELSE 0
<1>1. CASE i <= m
  <2>1. m + n - i = n * 1 + (m - i) /\ m - i \in 0 .. (n - 1)
    BY <1>1
  <2> QED
    BY <1>1, <2>1
<1>2. CASE i > m
  <2>1. m + n - i \in 0 .. (n - 1)
    BY <1>2
  <2> QED
    BY <1>2, <2>1
<1> QED
  BY <1>1, <1>2

\* A suite that has the least for each case: the first m of the cases get a second more or a
\* second less than the others.
LEMMA RuntimesOK ==
  ASSUME NEW sec \in Nat, NEW n \in Nat \ {0}, NEW least \in Nat, sec >= n * least
  PROVE  \E a \in Nat, m \in 0 .. n, s \in {1, -1} :
           /\ a >= least /\ (a + s >= least \/ m = 0)
           /\ Runtimes(sec, n, least) = Stepped(n, m, a, s)
           /\ n * a + m * s = sec
<1> DEFINE q == sec \div n
           r == sec % n
           start == Max({least, Rounded(sec, n)})
           diff  == sec - n * start
           less  == IF start > least THEN Min({-diff, n * (start - least)}) ELSE 0
<1>1. /\ q \in Nat /\ r \in 0 .. (n - 1) /\ sec = n * q + r
      /\ Rounded(sec, n) = q \/ (Rounded(sec, n) = q + 1 /\ r > 0)
  BY RoundedOK
<1>2. Runtimes(sec, n, least) =
        [i \in 1 .. n |-> IF diff >= 0 THEN start + (diff + n - i) \div n
                          ELSE start - (less + n - i) \div n]
  BY DEF Runtimes
<1> HIDE DEF q, r, start, diff, less
<1>3. q >= least
  <2>1. SUFFICES ASSUME q + 1 <= least PROVE FALSE
    BY <1>1
  <2>2. n * (q + 1) <= n * least
    BY <1>1, <2>1
  <2>3. n * (q + 1) = n * q + n
    BY <1>1
  <2>4. n * least \in Int /\ n * q \in Int
    BY <1>1
  <2> QED
    BY <1>1, <2>2, <2>3, <2>4
<1>4. start = Rounded(sec, n)
  BY <1>1, <1>3, TheMax DEF start
<1>5. CASE start = q
  <2>1. diff = r /\ diff >= 0 /\ r \in 0 .. n
    BY <1>1, <1>5 DEF diff
  <2>2. \A i \in 1 .. n : start + (diff + n - i) \div n = IF i <= r THEN q + 1 ELSE q
    BY <1>1, <1>5, <2>1, DealtOK
  <2>3. Runtimes(sec, n, least) = Stepped(n, r, q, 1)
    BY <1>2, <2>1, <2>2 DEF Stepped
  <2>4. q + 1 >= least /\ n * q + r * 1 = sec
    BY <1>1, <1>3
  <2> QED
    BY <1>1, <1>3, <2>1, <2>3, <2>4
<1>6. CASE start = q + 1 /\ r > 0
  <2>1. n * (q + 1) = n * q + n
    BY <1>1
  <2>2. diff = r - n /\ ~ (diff >= 0) /\ n - r \in 0 .. n
    BY <1>1, <1>6, <2>1 DEF diff
  <2>3. n * (start - least) >= n
    BY <1>1, <1>3, <1>6
  <2>4. less = n - r
    BY <1>1, <1>3, <1>6, <2>2, <2>3, TheMin DEF less
  <2>5. \A i \in 1 .. n : start - (less + n - i) \div n = IF i <= n - r THEN (q + 1) + (-1) ELSE q + 1
    BY <1>1, <1>6, <2>2, <2>4, DealtOK
  <2>6. Runtimes(sec, n, least) = Stepped(n, n - r, q + 1, -1)
    BY <1>2, <2>2, <2>5 DEF Stepped
  <2>7. /\ n * (q + 1) + (n - r) * (-1) = sec /\ (q + 1) + (-1) >= least /\ q + 1 >= least
        /\ q + 1 \in Nat
    BY <1>1, <1>3, <2>1
  <2> QED
    BY <2>2, <2>6, <2>7
<1> QED
  BY <1>1, <1>4, <1>5, <1>6

\* A suite that has not: it gets the least for each all the same.
LEMMA ShortRuntimes ==
  ASSUME NEW sec \in Nat, NEW n \in Nat \ {0}, NEW least \in Nat, sec < n * least
  PROVE  Runtimes(sec, n, least) = [i \in 1 .. n |-> least]
<1> DEFINE q == sec \div n
           r == sec % n
           start == Max({least, Rounded(sec, n)})
           diff  == sec - n * start
<1>1. /\ q \in Nat /\ r \in 0 .. (n - 1) /\ sec = n * q + r
      /\ Rounded(sec, n) = q \/ (Rounded(sec, n) = q + 1 /\ r > 0)
  BY RoundedOK
<1>2. Runtimes(sec, n, least) =
        [i \in 1 .. n |->
           IF diff >= 0 THEN start + (diff + n - i) \div n
           ELSE start - ((IF start > least THEN Min({-diff, n * (start - least)}) ELSE 0) + n - i) \div n]
  BY DEF Runtimes
<1> HIDE DEF q, r, start, diff
<1>3. q < least
  <2>1. SUFFICES ASSUME q >= least PROVE FALSE
    BY <1>1
  <2>2. n * q >= n * least /\ n * q \in Int /\ n * least \in Int
    BY <1>1, <2>1
  <2> QED
    BY <1>1, <2>2
<1>4. start = least
  BY <1>1, <1>3, TheMax DEF start
<1>5. diff < 0
  BY <1>4 DEF diff
<1>6. \A i \in 1 .. n : (0 + n - i) \div n = 0
  BY DealtOK
<1>7. ~ (diff >= 0) /\ ~ (start > least)
  BY <1>4, <1>5 DEF diff
<1>8. \A i \in 1 .. n : start - (0 + n - i) \div n = least
  BY <1>4, <1>6
<1> QED
  BY <1>2, <1>7, <1>8

\* Cases that do not fit are one for each workload.
LEMMA GridFits ==
  ASSUME NEW sec \in Nat, NEW workloads \in Nat \ {0},
         sec < Cases(sec, workloads) * Timing(sec).least
  PROVE  Cases(sec, workloads) = workloads
<1> DEFINE t == Timing(sec)
           fits == {c \in (1 .. 5) \X (1 .. 4) : sec >= workloads * Candidates[c[1]] * c[2] * t.least}
           best == CHOOSE c \in fits : \A d \in fits : d[1] < c[1] \/ (d[1] = c[1] /\ d[2] <= c[2])
<1>1. t.depths \in Nat \ {0} /\ t.jobs \in Nat \ {0} /\ t.least \in Nat \ {0}
  BY TimingOK
<1>2. Cases(sec, workloads) = IF sec >= workloads * t.depths * t.jobs * t.least THEN workloads * t.depths * t.jobs
                              ELSE workloads * Shrunk(sec, workloads, t.least)
  BY DEF Cases
<1>3. Shrunk(sec, workloads, t.least) = IF fits = {} THEN 1 ELSE Candidates[best[1]] * best[2]
  BY DEF Shrunk
<1>4. fits \subseteq (1 .. 5) \X (1 .. 4)
  OBVIOUS
<1>5. ~ (sec >= workloads * t.depths * t.jobs * t.least)
  <2>1. \A a, b \in Nat : a * b \in Nat
    OBVIOUS
  <2>2. workloads * t.depths * t.jobs * t.least \in Nat
    BY <1>1, <2>1
  <2>3. sec < Cases(sec, workloads) * t.least
    OBVIOUS
  <2> HIDE DEF t
  <2> QED
    BY <1>2, <2>2, <2>3
<1> HIDE DEF t
<1>6. fits # {} => /\ best[1] \in 1 .. 5 /\ best[2] \in 1 .. 4
                   /\ sec >= workloads * Candidates[best[1]] * best[2] * t.least
  <2> DEFINE in(c) == c \in fits /\ \A d \in fits : d[1] < c[1] \/ (d[1] = c[1] /\ d[2] <= c[2])
  <2>1. fits # {} => best \in fits
    <3> HIDE DEF fits
    <3> QED
      BY <1>4, LastPair
  <2> QED
    BY <2>1
<1> HIDE DEF fits, best
<1>7. \A i \in 1 .. 5 : Candidates[i] \in Nat
  BY DEF Candidates
<1>8. fits = {}
  <2>1. SUFFICES ASSUME fits # {} PROVE FALSE
    OBVIOUS
  <2>2. Cases(sec, workloads) = workloads * (Candidates[best[1]] * best[2])
    BY <1>2, <1>3, <1>5, <2>1
  <2>3. \A a, b, c \in Nat : a * (b * c) = a * b * c
    OBVIOUS
  <2>4. Cases(sec, workloads) * t.least = workloads * Candidates[best[1]] * best[2] * t.least
    BY <1>6, <1>7, <2>1, <2>2, <2>3
  <2> QED
    BY <1>1, <1>6, <1>7, <2>1, <2>4 DEF t
<1> QED
  BY <1>2, <1>3, <1>5, <1>8

\* Whatever the length of the suite: the grid, the rounding and the dealing out keep to it.
LEMMA FioKeeps ==
  ASSUME budget \in Nat, NEW t \in DOMAIN FioTests, SuiteSec(t) # 0
  PROVE  FioKeepsTime(t)
<1> DEFINE sec   == SuiteSec(t)
           n     == CasesOf(t)
           least == Timing(sec).least
           times == Runtimes(sec, n, least)
<1>1. FioTests[t].workloads \in Nat \ {0} /\ FioTests[t].suites \in {1, 3}
  BY DEF FioTests
<1>2. sec \in Nat
  BY <1>1 DEF SuiteSec
<1>3. n = Cases(sec, FioTests[t].workloads) /\ n \in Nat \ {0}
  BY CasesOfOK DEF CasesOf
<1>4. least \in Nat
  BY <1>2, TimingOK
<1>5. CASE sec < n * least
  <2>1. n = FioTests[t].workloads
    BY <1>1, <1>2, <1>3, <1>5, GridFits
  <2> HIDE DEF sec, n, least
  <2>2. times = [i \in 1 .. n |-> least]
    BY <1>2, <1>3, <1>4, <1>5, ShortRuntimes
  <2> HIDE DEF times
  <2>3. \A i \in 1 .. n : times[i] = least
    BY <2>2
  <2> QED
    BY <1>5, <2>1, <2>3 DEF FioKeepsTime, sec, n, least, times
<1>6. CASE ~ (sec < n * least)
  <2> HIDE DEF sec, n, least
  <2>1. PICK a \in Nat, m \in 0 .. n, s \in {1, -1} :
          /\ a >= least /\ (a + s >= least \/ m = 0)
          /\ times = Stepped(n, m, a, s)
          /\ n * a + m * s = sec
    <3>1. sec >= n * least
      BY <1>2, <1>3, <1>4, <1>6
    <3> QED
      BY <1>2, <1>3, <1>4, <3>1, RuntimesOK
  <2> HIDE DEF times
  <2>0. \A i \in 1 .. n : times[i] = IF i <= m THEN a + s ELSE a
    BY <2>1 DEF Stepped
  <2>2. SumFunctionOnSet(times, 1 .. n) = sec
    <3>1. n \in Nat /\ m \in 0 .. n /\ a \in Int /\ s \in Int
      BY <1>3, <2>1
    <3>2. SumFunctionOnSet(Stepped(n, m, a, s), 1 .. n) = n * a + m * s
      BY <3>1, SumOfSteps
    <3> QED
      BY <2>1, <3>2
  <2>3. MapThenSumSet(LAMBDA i : times[i], 1 .. n) = SumFunctionOnSet(times, 1 .. n)
    BY DEF SumFunctionOnSet, FoldFunctionOnSet, MapThenSumSet
  <2>4. \A i, j \in 1 .. n : times[i] >= least /\ times[i] - times[j] <= 1
    <3>1. ASSUME NEW i \in 1 .. n PROVE times[i] \in {a, a + s} /\ times[i] >= least
      <4>1. CASE i <= m
        <5>1. times[i] = a + s /\ m # 0
          BY <2>0, <4>1
        <5> QED
          BY <2>1, <5>1
      <4>2. CASE ~ (i <= m)
        <5>1. times[i] = a
          BY <2>0, <4>2
        <5> QED
          BY <2>1, <5>1
      <4> QED
        BY <4>1, <4>2
    <3>2. \A x, y \in {a, a + s} : x - y <= 1
      OBVIOUS
    <3> QED
      BY <3>1, <3>2
  <2> QED
    BY <1>6, <2>2, <2>3, <2>4 DEF FioKeepsTime, sec, n, least, times
<1> QED
  BY <1>5, <1>6

(***************************************************************************)
(* Both of what OnTime says, for every length of the suites: a fio test    *)
(* that has begun to run its cases has some seconds.                       *)
(***************************************************************************)
THEOREM OnTimeCorrect == Spec => []OnTime
<1>1. RunTyped /\ SubInv /\ RateKeepsTime => OnTime
  BY FioKeeps, MachineAssumption DEF RunTyped, SubInv, OnTime
<1> QED
  BY <1>1, SubInvHolds, RateKeepsTimeCorrect, PTL
=============================================================================
