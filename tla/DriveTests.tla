----------------------------- MODULE DriveTests -----------------------------
(***************************************************************************)
(* The fio tests: a suite divides its seconds among cases (workload, io    *)
(* depth, jobs), runs them in turn and fetches their results; device-mapper*)
(* devices are made and removed around a suite; three suites run at once   *)
(* in threads that hand their results over in a queue.                     *)
(***************************************************************************)
EXTENDS Machine, FiniteSetsExt

VARIABLES
  todo,   \* cases left to each suite of the parallel test, Over when its thread has ended
  queue,  \* results in the queue
  put     \* results that were put there

driveVars == <<todo, queue, put>>

Over == -1
Hour == 3600

(* _timing, by the length of a suite: the numbers of io depths and of jobs, *)
(* and the least seconds of a case.                                         *)
Timing(sec) ==
  CASE sec <= Hour        -> [depths |-> 1, jobs |-> 1, least |-> 10]
    [] sec <= 4 * Hour    -> [depths |-> 2, jobs |-> 1, least |-> 30]
    [] sec <= 8 * Hour    -> [depths |-> 2, jobs |-> 2, least |-> 45]
    [] sec <= 24 * Hour   -> [depths |-> 3, jobs |-> 2, least |-> 60]
    [] sec <= 120 * Hour  -> [depths |-> 4, jobs |-> 3, least |-> 80]
    [] sec <= 240 * Hour  -> [depths |-> 5, jobs |-> 4, least |-> 100]
    [] OTHER              -> [depths |-> 6, jobs |-> 4, least |-> 120]

\* _shrink_grid: the last pair of the candidates that leaves each case its least time.
Candidates == <<1, 2, 3, 5, 6>>
Shrunk(sec, workloads, least) ==
  LET fits == {c \in (1 .. 5) \X (1 .. 4) : sec >= workloads * Candidates[c[1]] * c[2] * least}
      best == CHOOSE c \in fits : \A d \in fits : d[1] < c[1] \/ (d[1] = c[1] /\ d[2] <= c[2])
  IN  IF fits = {} THEN 1 ELSE Candidates[best[1]] * best[2]

\* _normalize_timing: how many cases a suite has.
Cases(sec, workloads) ==
  LET t == Timing(sec)
  IN  IF sec >= workloads * t.depths * t.jobs * t.least THEN workloads * t.depths * t.jobs
      ELSE workloads * Shrunk(sec, workloads, t.least)

\* round: to the nearest, and to the even one of two.
Rounded(a, n) ==
  LET q == a \div n
      r == 2 * (a % n)
  IN  IF r > n \/ (r = n /\ q % 2 = 1) THEN q + 1 ELSE q

\* _plan_cases, all weights being 1: every case has the same fraction, so the seconds that
\* are missing, or too many, are dealt out in the order of the cases, round after round.
Runtimes(sec, n, least) ==
  LET start == Max({least, Rounded(sec, n)})
      diff  == sec - n * start
      less  == IF start > least THEN Min({-diff, n * (start - least)}) ELSE 0
  IN  [i \in 1 .. n |-> IF diff >= 0 THEN start + (diff + n - i) \div n
                        ELSE start - (less + n - i) \div n]

(* The tests: workloads of a suite, suites, and the device of its disk.     *)
FioTests ==
  [FioDisksScalingTest      |-> [workloads |-> 6,  suites |-> 1, device |-> FALSE],
   FioDisksNightly          |-> [workloads |-> 10, suites |-> 1, device |-> FALSE],
   FioDisksDMDelay          |-> [workloads |-> 6,  suites |-> 1, device |-> TRUE],
   FioDisksDMDust           |-> [workloads |-> 1,  suites |-> 1, device |-> TRUE],
   FioDisksVariationTest    |-> [workloads |-> 16, suites |-> 3, device |-> FALSE],
   FioDisksParallelLoadTest |-> [workloads |-> 4,  suites |-> 3, device |-> FALSE]]
Parallel == "FioDisksParallelLoadTest"
InTurn == DOMAIN FioTests \ {Parallel}

\* The seconds and the cases of one suite of a test.
SuiteSec(t) == IF t = "FioDisksVariationTest" THEN budget \div FioTests[t].suites ELSE budget
CasesOf(t) == IF SuiteSec(t) = 0 THEN 0 ELSE Cases(SuiteSec(t), FioTests[t].workloads)

DriveInit == todo = [s \in 1 .. 3 |-> Over] /\ queue = 0 /\ put = 0

\* A suite of no seconds raises.
Planned(t) == [run EXCEPT !.pc = "fio", !.size = CasesOf(t) * FioTests[t].suites]
SuiteSetUp(t) ==
  /\ In(t, "setup") /\ ~ FioTests[t].device
  /\ run' = IF SuiteSec(t) = 0 THEN Done(run) ELSE Planned(t)
  /\ UNCHANGED <<machineVars, driveVars>>

\* Not the system for it, or no block device, or no device: a result that is dropped.
NoDevice == run' = Done(run) /\ UNCHANGED stray
DeviceMade == stray' = stray \cup {"dm"}
DeviceSetUp(t) ==
  /\ In(t, "setup") /\ FioTests[t].device
  /\ \/ NoDevice
     \/ run' = Planned(t) /\ DeviceMade
  /\ UNCHANGED <<faults, futures, excused, driveVars>>

\* dm-dust marks its bad blocks afterwards, and leaves the device when it cannot.  Its read
\* suite is a generator nobody iterates.
BadBlocksFail ==
  /\ In("FioDisksDMDust", "setup") /\ run' = Done(run)
  /\ DeviceMade /\ excused' = excused \cup {"dm"}
  /\ UNCHANGED <<faults, futures, driveVars>>

Case(t) ==
  /\ In(t, "fio") /\ t # Parallel
  /\ \E how \in {"ok", "bad"} :
       LET r == [Row(run, IF how = "ok" THEN "PASSED" ELSE "FAILED", {<<"fio", how>>})
                 EXCEPT !.sub = @ + 1]
       IN  run' = IF r.sub % CasesOf(t) = 0 THEN [r EXCEPT !.pc = "archive"] ELSE r
  /\ UNCHANGED <<machineVars, driveVars>>

\* tar and download raise when they fail: the device stays.
Archive(t) ==
  /\ In(t, "archive")
  /\ \/ /\ run' = IF run.sub < run.size THEN [run EXCEPT !.pc = "fio"]
                  ELSE IF FioTests[t].device THEN [run EXCEPT !.pc = "remove"] ELSE Done(run)
        /\ UNCHANGED excused
     \/ /\ run' = Done(run)
        /\ excused' = IF FioTests[t].device THEN excused \cup {"dm"} ELSE excused
  /\ UNCHANGED <<faults, futures, stray, driveVars>>

\* dmsetup remove, whose result is not looked at.
RemoveDevice(t) ==
  /\ In(t, "remove") /\ run' = Done(run)
  /\ \/ stray' = stray \ {"dm"} /\ UNCHANGED excused
     \/ excused' = excused \cup {"dm"} /\ UNCHANGED stray
  /\ UNCHANGED <<faults, futures, driveVars>>

(***************************************************************************)
(* FioDisksParallelLoadTest: the threads, and the loop that waits for them *)
(* and for the queue.                                                      *)
(***************************************************************************)
StartSuites ==
  /\ In(Parallel, "fio")
  /\ todo' = [s \in 1 .. 3 |-> CasesOf(Parallel)]
  /\ run' = [run EXCEPT !.pc = "futures"]
  /\ queue' = 0 /\ put' = 0 /\ UNCHANGED machineVars

\* A suite that raises ends its thread, and nobody looks at its exception.
SuitePuts(s) ==
  /\ todo[s] > 0 /\ todo' = [todo EXCEPT ![s] = @ - 1]
  /\ queue' = queue + 1 /\ put' = put + 1
  /\ UNCHANGED <<run, machineVars>>
SuiteEnds(s) ==
  /\ todo[s] = 0 /\ todo' = [todo EXCEPT ![s] = Over]
  /\ UNCHANGED <<run, queue, put, machineVars>>

\* MUTANT of LookAtFutures: the queue is not looked at after the threads have ended.
LeaveWithFutures ==
  /\ In(Parallel, "futures")
  /\ run' = IF \A s \in 1 .. 3 : todo[s] = Over THEN Done(run) ELSE [run EXCEPT !.pc = "get"]
  /\ UNCHANGED <<driveVars, machineVars>>

\* any(not f.done()) or not q.empty(): the futures are looked at first.
LookAtFutures ==
  /\ In(Parallel, "futures")
  /\ run' = [run EXCEPT !.pc = IF \A s \in 1 .. 3 : todo[s] = Over THEN "queue" ELSE "get"]
  /\ UNCHANGED <<driveVars, machineVars>>
LookAtQueue ==
  /\ In(Parallel, "queue")
  /\ run' = IF queue = 0 THEN Done(run) ELSE [run EXCEPT !.pc = "get"]
  /\ UNCHANGED <<driveVars, machineVars>>

\* q.get gives up after half a second.
Get ==
  /\ In(Parallel, "get")
  /\ \/ /\ queue > 0 /\ queue' = queue - 1
        /\ \E how \in {"ok", "bad"} :
             run' = [Row(run, IF how = "ok" THEN "PASSED" ELSE "FAILED", {<<"fio", how>>})
                     EXCEPT !.pc = "futures"]
     \/ queue = 0 /\ run' = [run EXCEPT !.pc = "futures"] /\ UNCHANGED queue
  /\ UNCHANGED <<todo, put, machineVars>>

DriveTestsStep ==
  \/ BadBlocksFail
  \/ \E t \in DOMAIN FioTests : SuiteSetUp(t) \/ DeviceSetUp(t)
  \/ \E t \in InTurn : Case(t) \/ Archive(t) \/ RemoveDevice(t)
  \/ StartSuites \/ LookAtFutures \/ LookAtQueue \/ Get
  \/ \E s \in 1 .. 3 : SuitePuts(s) \/ SuiteEnds(s)
=============================================================================
