--------------------------- MODULE WebTasksProofs ---------------------------
(***************************************************************************)
(* Proofs about WebTasks, for any number of workers, pages and tasks,      *)
(* every catalog of suites and every configuration.                        *)
(***************************************************************************)
EXTENDS WebTasks, SumLemmas, FiniteSetTheorems, TLAPS

(***************************************************************************)
(* What the variables are made of.                                         *)
(***************************************************************************)
\* What a worker may be doing; it has a task unless it is idle.
IsWork(r) ==
  /\ DOMAIN r = DOMAIN Started
  /\ r.pc \in Phases /\ r.task \in Tasks \cup {NoTask} /\ (r.task = NoTask <=> r.pc = "idle")
  /\ r.round \in 0 .. Runs

IsProgress(p) == DOMAIN p = DOMAIN Template

WorkOK == DOMAIN work = Workers /\ \A w \in Workers : IsWork(work[w])

TablesOK ==
  /\ DOMAIN status = Tasks /\ queue \in Seq(Tasks)
  /\ DOMAIN progress = Workers /\ \A w \in Workers : IsProgress(progress[w])
  /\ DOMAIN procToTask = Workers /\ DOMAIN file = Tasks
  /\ writing \in [Workers -> BOOLEAN]

(***************************************************************************)
(* The tasks: those that wait are in the queue once, one that runs has at  *)
(* most one worker, and its file tells what its worker's process has       *)
(* counted, unless it is being rewritten.                                  *)
(***************************************************************************)
QueueInv ==
  /\ \A m, n \in DOMAIN queue : queue[m] = queue[n] => m = n
  /\ \A n \in DOMAIN queue : status[queue[n]] = "queued"

Tells(w) ==
  LET t == work[w].task
  IN  /\ progress[w].count = work[w].done /\ progress[w].run = work[w].round
      /\ writing[w] => file[t] = Torn
      /\ ~ writing[w] => file[t] = Whole(progress[w])

WorkerInv(w) ==
  /\ procToTask[w] = work[w].task
  /\ work[w].task = NoTask => ~ writing[w]
  /\ work[w].task # NoTask => status[work[w].task] = "running" /\ Tells(w)

FileInv ==
  /\ QueueInv
  /\ \A w \in Workers : WorkerInv(w)
  /\ \A v, w \in Workers : work[v].task = work[w].task => v = w \/ work[v].task = NoTask
  /\ \A t \in Tasks : status[t] = "completed" => \E p : file[t] = Whole(p) /\ p.run = Runs

(***************************************************************************)
(* The kinds of steps.                                                     *)
(***************************************************************************)
LEMMA Constants_ == NoTask \notin Tasks /\ Runs \in Nat /\ IsFiniteSet(Workers)
BY BoundAssumption, FS_CardinalityType DEF NoTask

\* Worker w goes on with its task, ...
GoesOn(w, r) ==
  /\ work' = [work EXCEPT ![w] = r] /\ IsWork(r)
  /\ r.task = work[w].task /\ work[w].task # NoTask
  /\ UNCHANGED <<status, queue>>
\* ... logging nothing, or a record that says how far it has come;
Silent(w) ==
  \E r : GoesOn(w, r) /\ r.done = work[w].done /\ r.round = work[w].round /\ UNCHANGED progressVars
Logs(w) ==
  \E r, p : /\ GoesOn(w, r) /\ IsProgress(p) /\ p.count = r.done /\ p.run = r.round
            /\ Emit(w, p, procToTask[w])
\* or it ends it.
Ends(w) ==
  \E end \in {"completed", "failed"} :
    /\ work[w].task # NoTask
    /\ end = "completed" => work[w].round = Runs
    /\ EndTask(w, end)

Elsewhere == UNCHANGED <<work, progressVars, status, queue, configRows>>

\* What is not a worker's step.
LEMMA OtherSteps ==
  ASSUME [Next]_vars
  PROVE  \/ \E p \in Pages, t \in Tasks : RunTests(p, t)
         \/ Elsewhere
         \/ \E w \in Workers : Worker(w) \/ Crash(w)
BY DEF Next, User, OpenConfig, ResetConfig, WriteConfig, RestartWeb, PollStatus, vars, Elsewhere,
   webVars, fileVars, taskVars, workVars

LEMMA WorkerSteps ==
  ASSUME WorkOK, TablesOK, FileInv, NEW w \in Workers, Worker(w)
  PROVE  TakeTask(w) \/ Silent(w) \/ Logs(w) \/ Ends(w) \/ Close(w)
<1>0. IsWork(work[w]) /\ WorkerInv(w) /\ IsProgress(progress[w]) /\ Runs \in Nat
  BY Constants_ DEF WorkOK, TablesOK, FileInv
<1> USE DEF At, Become, Alone, taskVars
<1>1. CASE LoadConfig(w)
  <2> DEFINE r == [work[w] EXCEPT !.pc = "announce",
                     !.config = IF configFile \in {Nothing, Torn}
                                THEN Config(DefaultConfig(DefaultSuites)) ELSE configFile]
  <2>1. work' = [work EXCEPT ![w] = r] /\ UNCHANGED <<status, queue, progressVars>>
    BY <1>1 DEF LoadConfig
  <2>2. /\ IsWork(r) /\ r.task = work[w].task /\ r.done = work[w].done /\ r.round = work[w].round
        /\ work[w].task # NoTask
    BY <1>0, <1>1 DEF LoadConfig, IsWork, Started, Phases
  <2> QED
    BY <2>1, <2>2 DEF Silent, GoesOn
<1>2. CASE Announce(w)
  <2> DEFINE r == [work[w] EXCEPT !.pc = "connect"]
             p == [progress[w] EXCEPT !.total = Announced(suites[w], work[w].config.of)]
  <2>1. /\ work' = [work EXCEPT ![w] = r] /\ UNCHANGED <<status, queue>>
        /\ Emit(w, p, procToTask[w]) /\ work[w].pc = "announce"
    BY <1>2 DEF Announce, LogTestsCount
  <2>2. /\ IsWork(r) /\ r.task = work[w].task /\ r.done = work[w].done /\ r.round = work[w].round
        /\ work[w].task # NoTask
    BY <1>0, <2>1 DEF IsWork, Started, Phases
  <2>3. IsProgress(p) /\ p.count = r.done /\ p.run = r.round
    BY <1>0, <2>2 DEF IsProgress, Template, WorkerInv, Tells
  <2> QED
    BY <2>1, <2>2, <2>3 DEF Logs, GoesOn
<1>3. CASE StartRun(w)
  <2> DEFINE r == [work[w] EXCEPT !.pc = "select", !.round = @ + 1, !.done = 0]
             p == [progress[w] EXCEPT !.run = work[w].round + 1, !.count = 0]
  <2>1. /\ work' = [work EXCEPT ![w] = r] /\ UNCHANGED <<status, queue>>
        /\ Emit(w, p, procToTask[w]) /\ work[w].pc \in {"connect", "tests"}
        /\ work[w].round < Runs
    BY <1>3 DEF StartRun, LogRunStarts, BetweenRuns
  <2>2. /\ IsWork(r) /\ r.task = work[w].task /\ r.done = 0 /\ r.round = work[w].round + 1
        /\ work[w].task # NoTask
    BY <1>0, <2>1 DEF IsWork, Started, Phases
  <2>3. IsProgress(p) /\ p.count = r.done /\ p.run = r.round
    BY <1>0, <2>2 DEF IsProgress, Template
  <2> QED
    BY <2>1, <2>2, <2>3 DEF Logs, GoesOn
<1>4. CASE StartTest(w)
  <2> DEFINE r == [work[w] EXCEPT !.pc = "testing"]
             p == [progress[w] EXCEPT !.busy = TRUE]
  <2>1. /\ work' = [work EXCEPT ![w] = r] /\ UNCHANGED <<status, queue>>
        /\ Emit(w, p, procToTask[w]) /\ work[w].pc = "tests"
    BY <1>4 DEF StartTest, LogTestStarts
  <2>2. /\ IsWork(r) /\ r.task = work[w].task /\ r.done = work[w].done /\ r.round = work[w].round
        /\ work[w].task # NoTask
    BY <1>0, <2>1 DEF IsWork, Started, Phases
  <2>3. IsProgress(p) /\ p.count = r.done /\ p.run = r.round
    BY <1>0, <2>2 DEF IsProgress, Template, WorkerInv, Tells
  <2> QED
    BY <2>1, <2>2, <2>3 DEF Logs, GoesOn
<1>5. CASE FinishTest(w)
  <2> DEFINE r == [work[w] EXCEPT !.pc = "tests", !.left = @ - 1, !.done = @ + 1]
             p == [progress[w] EXCEPT !.count = @ + 1, !.busy = FALSE]
  <2>1. /\ work' = [work EXCEPT ![w] = r] /\ UNCHANGED <<status, queue>>
        /\ Emit(w, p, procToTask[w]) /\ work[w].pc = "testing"
    BY <1>5 DEF FinishTest, LogTestFinished
  <2>2. /\ IsWork(r) /\ r.task = work[w].task /\ r.done = work[w].done + 1
        /\ r.round = work[w].round /\ work[w].task # NoTask
    BY <1>0, <2>1 DEF IsWork, Started, Phases
  <2>3. IsProgress(p) /\ p.count = r.done /\ p.run = r.round
    BY <1>0, <2>2 DEF IsProgress, Template, WorkerInv, Tells
  <2> QED
    BY <2>1, <2>2, <2>3 DEF Logs, GoesOn
<1>6. CASE RaiseTest(w)
  <2> DEFINE r == [work[w] EXCEPT !.pc = "tests", !.left = @ - 1]
  <2>1. /\ work' = [work EXCEPT ![w] = r] /\ UNCHANGED <<status, queue, progressVars>>
        /\ work[w].pc = "testing"
    BY <1>6 DEF RaiseTest
  <2>2. /\ IsWork(r) /\ r.task = work[w].task /\ r.done = work[w].done /\ r.round = work[w].round
        /\ work[w].task # NoTask
    BY <1>0, <2>1 DEF IsWork, Started, Phases
  <2> QED
    BY <2>1, <2>2 DEF Silent, GoesOn
<1>7. CASE InsertConfiguration(w)
  <2> DEFINE r == [work[w] EXCEPT !.pc = "tests"]
  <2>1. /\ work' = [work EXCEPT ![w] = r] /\ UNCHANGED <<status, queue, progressVars>>
        /\ work[w].pc = "insert"
    BY <1>7 DEF InsertConfiguration
  <2>2. /\ IsWork(r) /\ r.task = work[w].task /\ r.done = work[w].done /\ r.round = work[w].round
        /\ work[w].task # NoTask
    BY <1>0, <2>1 DEF IsWork, Started, Phases
  <2> QED
    BY <2>1, <2>2 DEF Silent, GoesOn
<1>8. CASE StartSuite(w)
  <2> DEFINE r == [work[w] EXCEPT !.pc = "insert", !.todo = Tail(@), !.found = configRows > 0,
                               !.left = SystemTests + Cardinality(Head(work[w].todo))]
  <2>1. /\ work' = [work EXCEPT ![w] = r] /\ UNCHANGED <<status, queue, progressVars>>
        /\ work[w].pc = "tests"
    BY <1>8 DEF StartSuite
  <2>2. /\ IsWork(r) /\ r.task = work[w].task /\ r.done = work[w].done /\ r.round = work[w].round
        /\ work[w].task # NoTask
    BY <1>0, <2>1 DEF IsWork, Started, Phases
  <2> QED
    BY <2>1, <2>2 DEF Silent, GoesOn
<1>9. CASE SelectTests(w)
  <2> DEFINE c == Configured(suites[w], work[w].config.of)
             r == [work[w] EXCEPT !.pc = "tests", !.plan = TestsToRun(c), !.todo = TestsToRun(c)]
  <2>1. work[w].pc = "select" /\ work[w].task # NoTask
    BY <1>0, <1>9 DEF SelectTests, IsWork
  <2>2. CASE c.ok
    <3>1. work' = [work EXCEPT ![w] = r] /\ UNCHANGED <<status, queue, progressVars>>
      BY <1>9, <2>2 DEF SelectTests
    <3>2. /\ IsWork(r) /\ r.task = work[w].task /\ r.done = work[w].done
          /\ r.round = work[w].round
      BY <1>0, <2>1 DEF IsWork, Started, Phases
    <3> QED
      BY <2>1, <3>1, <3>2 DEF Silent, GoesOn
  <2>3. CASE ~ c.ok
    <3>1. EndTask(w, "failed")
      BY <1>9, <2>3 DEF SelectTests
    <3> QED
      BY <2>1, <3>1 DEF Ends
  <2> QED
    BY <2>2, <2>3
<1>10. CASE UnknownSuite(w) \/ NoMachine(w) \/ RunRaises(w)
  <2>1. EndTask(w, "failed") /\ work[w].pc # "idle"
    BY <1>10 DEF UnknownSuite, NoMachine, RunRaises
  <2> QED
    BY <1>0, <2>1 DEF Ends, IsWork
<1>11. CASE Complete(w)
  <2>1. EndTask(w, "completed") /\ work[w].pc # "idle" /\ work[w].round = Runs
    BY <1>11 DEF Complete, BetweenRuns
  <2> QED
    BY <1>0, <2>1 DEF Ends, IsWork
<1> QED
  BY <1>1, <1>2, <1>3, <1>4, <1>5, <1>6, <1>7, <1>8, <1>9, <1>10, <1>11 DEF Worker

(***************************************************************************)
(* The kinds of steps preserve the invariant.                              *)
(***************************************************************************)
TypeInv == WorkOK /\ TablesOK
Inv == TypeInv /\ FileInv

LEMMA InitInv == Init => Inv
<1> SUFFICES ASSUME Init PROVE Inv
  OBVIOUS
<1>1. TypeInv
  BY Constants_ DEF Init, ProgressInit, TypeInv, WorkOK, TablesOK, IsWork, IsProgress, Started, Phases
<1>2. FileInv
  BY DEF Init, ProgressInit, FileInv, QueueInv, WorkerInv, Started
<1> QED
  BY <1>1, <1>2 DEF Inv

\* A test run is queued.
LEMMA RunTestsInv ==
  ASSUME Inv, NEW p \in Pages, NEW t \in Tasks, RunTests(p, t)
  PROVE  Inv'
<1>1. /\ status[t] = "none" /\ status' = [status EXCEPT ![t] = "queued"]
      /\ queue' = Append(queue, t) /\ UNCHANGED <<work, progress, procToTask, file, writing>>
  BY DEF RunTests, workVars, progressVars
<1>2. TypeInv'
  BY <1>1 DEF Inv, TypeInv, WorkOK, TablesOK, IsWork, IsProgress
<1>3. QueueInv'
  <2>1. queue \in Seq(Tasks) /\ QueueInv /\ DOMAIN status = Tasks
    BY DEF Inv, TypeInv, TablesOK, FileInv
  <2>2. /\ DOMAIN queue = 1 .. Len(queue) /\ DOMAIN queue' = 1 .. Len(queue) + 1
        /\ Len(queue) \in Nat /\ queue'[Len(queue) + 1] = t
        /\ \A n \in 1 .. Len(queue) : queue'[n] = queue[n] /\ queue[n] \in Tasks
    BY <1>1, <2>1
  <2>3. \A n \in 1 .. Len(queue) : queue[n] # t
    BY <1>1, <2>1, <2>2 DEF QueueInv
  <2>4. \A n \in 1 .. Len(queue) + 1 : n \in 1 .. Len(queue) \/ n = Len(queue) + 1
    BY <2>2
  <2> QED
    BY <1>1, <2>1, <2>2, <2>3, <2>4 DEF QueueInv
<1>4. \A u \in Tasks : status'[u] # status[u] => u = t
  BY <1>1 DEF Inv, TypeInv, TablesOK
<1>5. \A w \in Workers : WorkerInv(w)'
  BY <1>1, <1>4 DEF Inv, TypeInv, WorkOK, IsWork, FileInv, WorkerInv, Tells
<1>6. \A u \in Tasks : status'[u] = "completed" => \E q : file'[u] = Whole(q) /\ q.run = Runs
  BY <1>1, <1>4 DEF Inv, TypeInv, TablesOK, FileInv
<1> QED
  BY <1>1, <1>2, <1>3, <1>5, <1>6 DEF Inv, FileInv

LEMMA SilentInv == ASSUME Inv, NEW w \in Workers, Silent(w) PROVE Inv'
<1>1. PICK r : GoesOn(w, r) /\ r.done = work[w].done /\ r.round = work[w].round
               /\ UNCHANGED progressVars
  BY DEF Silent
<1>2. /\ work' = [work EXCEPT ![w] = r] /\ IsWork(r) /\ r.task = work[w].task
      /\ UNCHANGED <<status, queue, progress, procToTask, file, writing>>
  BY <1>1 DEF GoesOn, progressVars
<1>3. \A v \in Workers : /\ work'[v].task = work[v].task /\ work'[v].done = work[v].done
                         /\ work'[v].round = work[v].round /\ IsWork(work'[v])
  BY <1>1, <1>2 DEF Inv, TypeInv, WorkOK
<1>4. TypeInv'
  BY <1>2, <1>3 DEF Inv, TypeInv, WorkOK, TablesOK, IsWork, IsProgress
<1>5. \A v \in Workers : WorkerInv(v)'
  BY <1>2, <1>3 DEF Inv, FileInv, WorkerInv, Tells
<1> QED
  BY <1>2, <1>3, <1>4, <1>5 DEF Inv, FileInv, QueueInv

LEMMA LogsInv == ASSUME Inv, NEW w \in Workers, Logs(w) PROVE Inv'
<1>1. PICK r, p : /\ GoesOn(w, r) /\ IsProgress(p) /\ p.count = r.done /\ p.run = r.round
                  /\ Emit(w, p, procToTask[w])
  BY DEF Logs
<1> DEFINE t == work[w].task
<1>2. /\ work' = [work EXCEPT ![w] = r] /\ IsWork(r) /\ r.task = t /\ t # NoTask
      /\ UNCHANGED <<status, queue>>
  BY <1>1 DEF GoesOn
<1>3. /\ WorkerInv(w) /\ procToTask[w] = t /\ status[t] = "running" /\ t \in Tasks
  BY <1>2 DEF Inv, FileInv, WorkerInv, TypeInv, WorkOK, IsWork
<1>4. /\ progress' = [progress EXCEPT ![w] = p] /\ procToTask' = [procToTask EXCEPT ![w] = t]
      /\ writing' = [writing EXCEPT ![w] = TRUE] /\ file' = [file EXCEPT ![t] = Torn]
  BY <1>1, <1>2, <1>3 DEF Emit
<1>5. TypeInv'
  <2>1. WorkOK'
    BY <1>2 DEF Inv, TypeInv, WorkOK, IsWork
  <2>2. writing' \in [Workers -> BOOLEAN]
    BY <1>4 DEF Inv, TypeInv, TablesOK
  <2>3. TablesOK'
    BY <1>1, <1>2, <1>4, <2>2 DEF Inv, TypeInv, TablesOK, IsProgress
  <2> QED
    BY <2>1, <2>3 DEF TypeInv
<1>6. WorkerInv(w)'
  <2>1. work'[w] = r /\ progress'[w] = p /\ procToTask'[w] = t /\ writing'[w] = TRUE /\ file'[t] = Torn
    BY <1>2, <1>3, <1>4 DEF Inv, TypeInv, WorkOK, TablesOK
  <2> QED
    BY <1>1, <1>2, <1>3, <2>1 DEF WorkerInv, Tells
<1>7. ASSUME NEW v \in Workers, v # w PROVE WorkerInv(v)'
  <2>1. /\ work'[v] = work[v] /\ progress'[v] = progress[v] /\ procToTask'[v] = procToTask[v]
        /\ writing'[v] = writing[v]
    BY <1>2, <1>4, <1>7 DEF Inv, TypeInv, WorkOK, TablesOK
  <2>2. work[v].task # NoTask => file'[work[v].task] = file[work[v].task]
    BY <1>2, <1>4, <1>7 DEF Inv, TypeInv, WorkOK, IsWork, TablesOK, FileInv
  <2> QED
    BY <1>2, <2>1, <2>2 DEF Inv, FileInv, WorkerInv, Tells
<1>8. ASSUME NEW u \in Tasks, status'[u] = "completed"
      PROVE  \E q : file'[u] = Whole(q) /\ q.run = Runs
  <2>1. u # t
    BY <1>2, <1>3, <1>8
  <2> QED
    BY <1>2, <1>4, <1>8, <2>1 DEF Inv, TypeInv, TablesOK, FileInv
<1>9. \A v \in Workers : work'[v].task = work[v].task
  BY <1>2 DEF Inv, TypeInv, WorkOK
<1> QED
  BY <1>2, <1>5, <1>6, <1>7, <1>8, <1>9 DEF Inv, FileInv, QueueInv

\* The file is closed.
LEMMA CloseInv == ASSUME Inv, NEW w \in Workers, Close(w) PROVE Inv'
<1> DEFINE t == work[w].task
<1>1. writing[w] /\ UNCHANGED <<work, status, queue, progress, procToTask>>
      /\ writing' = [writing EXCEPT ![w] = FALSE]
      /\ file' = [file EXCEPT ![procToTask[w]] = Whole(progress[w])]
  BY DEF Close, CloseFile, workVars, taskVars
<1>2. procToTask[w] = t /\ t # NoTask /\ t \in Tasks /\ status[t] = "running"
  BY <1>1 DEF Inv, FileInv, WorkerInv, TypeInv, WorkOK, IsWork
<1>3. TypeInv'
  <2>1. writing' \in [Workers -> BOOLEAN]
    BY <1>1 DEF Inv, TypeInv, TablesOK
  <2> QED
    BY <1>1, <2>1 DEF Inv, TypeInv, WorkOK, TablesOK, IsProgress, IsWork
<1>4. WorkerInv(w)'
  <2>1. writing'[w] = FALSE /\ file'[t] = Whole(progress[w])
    BY <1>1, <1>2 DEF Inv, TypeInv, TablesOK
  <2> QED
    BY <1>1, <1>2, <2>1 DEF Inv, FileInv, WorkerInv, Tells
<1>5. ASSUME NEW v \in Workers, v # w PROVE WorkerInv(v)'
  <2>1. writing'[v] = writing[v]
    BY <1>1, <1>5 DEF Inv, TypeInv, TablesOK
  <2>2. work[v].task # NoTask => file'[work[v].task] = file[work[v].task]
    BY <1>1, <1>2, <1>5 DEF Inv, TypeInv, WorkOK, IsWork, TablesOK, FileInv
  <2> QED
    BY <1>1, <2>1, <2>2 DEF Inv, FileInv, WorkerInv, Tells
<1>6. ASSUME NEW u \in Tasks, status'[u] = "completed"
      PROVE  \E q : file'[u] = Whole(q) /\ q.run = Runs
  <2>1. u # t
    BY <1>1, <1>2, <1>6
  <2> QED
    BY <1>1, <1>2, <1>6, <2>1 DEF Inv, TypeInv, TablesOK, FileInv
<1> QED
  BY <1>1, <1>3, <1>4, <1>5, <1>6 DEF Inv, FileInv, QueueInv

\* A worker is left without a task: it has ended it, or the worker was killed.
Drops(w) ==
  /\ \E r : work' = [work EXCEPT ![w] = r] /\ IsWork(r) /\ r.task = NoTask
  /\ progress' = [progress EXCEPT ![w] = Template]
  /\ procToTask' = [procToTask EXCEPT ![w] = NoTask]
  /\ writing' = [writing EXCEPT ![w] = FALSE]
  /\ UNCHANGED <<file, queue>>

LEMMA DropsInv ==
  ASSUME Inv, NEW w \in Workers, Drops(w),
         \A v \in Workers : v # w /\ work[v].task # NoTask => status'[work[v].task] = "running",
         \A n \in DOMAIN queue : status'[queue[n]] = "queued",
         \A t \in Tasks : status'[t] = "completed" => \E p : file[t] = Whole(p) /\ p.run = Runs,
         DOMAIN status' = Tasks
  PROVE  Inv'
<1>1. PICK r : work' = [work EXCEPT ![w] = r] /\ IsWork(r) /\ r.task = NoTask
  BY DEF Drops
<1>2. /\ progress' = [progress EXCEPT ![w] = Template]
      /\ procToTask' = [procToTask EXCEPT ![w] = NoTask]
      /\ writing' = [writing EXCEPT ![w] = FALSE] /\ UNCHANGED <<file, queue>>
  BY DEF Drops
<1>3. TypeInv'
  <2>1. writing' \in [Workers -> BOOLEAN]
    BY <1>2 DEF Inv, TypeInv, TablesOK
  <2>2. TablesOK'
    BY <1>2, <2>1 DEF Inv, TypeInv, TablesOK, IsProgress
  <2>3. WorkOK'
    BY <1>1 DEF Inv, TypeInv, WorkOK, IsWork
  <2> QED
    BY <2>2, <2>3 DEF TypeInv
<1>4. work'[w].task = NoTask /\ procToTask'[w] = NoTask /\ writing'[w] = FALSE
  BY <1>1, <1>2 DEF Inv, TypeInv, WorkOK, TablesOK
<1>5. ASSUME NEW v \in Workers, v # w PROVE WorkerInv(v)' /\ work'[v] = work[v]
  <2>1. /\ work'[v] = work[v] /\ progress'[v] = progress[v] /\ procToTask'[v] = procToTask[v]
        /\ writing'[v] = writing[v]
    BY <1>1, <1>2, <1>5 DEF Inv, TypeInv, WorkOK, TablesOK
  <2> QED
    BY <1>2, <1>5, <2>1 DEF Inv, FileInv, WorkerInv, Tells
<1>6. WorkerInv(w)'
  BY <1>4 DEF WorkerInv
<1>7. QueueInv'
  BY <1>2 DEF Inv, FileInv, QueueInv
<1>8. \A u, v \in Workers : work'[u].task = work'[v].task => u = v \/ work'[u].task = NoTask
  BY <1>4, <1>5 DEF Inv, FileInv
<1> QED
  BY <1>2, <1>3, <1>5, <1>6, <1>7, <1>8 DEF Inv, FileInv

LEMMA EndsInv == ASSUME Inv, NEW w \in Workers, Ends(w) PROVE Inv'
<1>1. PICK end \in {"completed", "failed"} :
        /\ work[w].task # NoTask
        /\ end = "completed" => work[w].round = Runs
        /\ EndTask(w, end)
  BY DEF Ends
<1> DEFINE t == work[w].task
<1>2. /\ status' = [status EXCEPT ![t] = end] /\ queue' = queue
      /\ work' = [work EXCEPT ![w] = [Started EXCEPT !.fresh = FALSE]]
      /\ Emit(w, Template, NoTask)
  BY <1>1 DEF EndTask, Become, LogTaskEnded
<1>3. /\ t \in Tasks /\ status[t] = "running" /\ Tells(w) /\ ~ writing[w]
      /\ DOMAIN status = Tasks
  BY <1>1, <1>2 DEF Inv, FileInv, WorkerInv, TypeInv, WorkOK, TablesOK, IsWork, Emit
<1>4. Drops(w)
  <2>1. IsWork([Started EXCEPT !.fresh = FALSE]) /\ [Started EXCEPT !.fresh = FALSE].task = NoTask
    BY Constants_ DEF IsWork, Started, Phases
  <2> QED
    BY <1>2, <2>1 DEF Drops, Emit
<1>5. ASSUME NEW v \in Workers, v # w, work[v].task # NoTask
      PROVE  status'[work[v].task] = "running"
  <2>1. work[v].task \in Tasks /\ work[v].task # t /\ status[work[v].task] = "running"
    BY <1>1, <1>5 DEF Inv, FileInv, WorkerInv, TypeInv, WorkOK, IsWork
  <2> QED
    BY <1>2, <1>3, <2>1
<1>6. ASSUME NEW n \in DOMAIN queue PROVE status'[queue[n]] = "queued"
  <2>1. status[queue[n]] = "queued" /\ queue[n] \in Tasks /\ queue[n] # t
    BY <1>3 DEF Inv, TypeInv, TablesOK, FileInv, QueueInv
  <2> QED
    BY <1>2, <1>3, <2>1
<1>7. ASSUME NEW u \in Tasks, status'[u] = "completed"
      PROVE  \E p : file[u] = Whole(p) /\ p.run = Runs
  <2>1. CASE u = t
    <3>1. file[t] = Whole(progress[w]) /\ progress[w].run = Runs
      BY <1>1, <1>2, <1>3, <1>7, <2>1 DEF Tells
    <3> QED
      BY <2>1, <3>1
  <2>2. CASE u # t
    BY <1>2, <1>3, <1>7, <2>2 DEF Inv, FileInv
  <2> QED
    BY <2>1, <2>2
<1> QED
  BY <1>2, <1>3, <1>4, <1>5, <1>6, <1>7, DropsInv

LEMMA CrashInv == ASSUME Inv, NEW w \in Workers, Crash(w) PROVE Inv'
<1>1. /\ work' = [work EXCEPT ![w] = Started] /\ UNCHANGED <<file, queue, status>>
      /\ progress' = [progress EXCEPT ![w] = Template]
      /\ procToTask' = [procToTask EXCEPT ![w] = NoTask]
      /\ writing' = [writing EXCEPT ![w] = FALSE]
  BY DEF Crash, Become, taskVars
<1>2. IsWork(Started) /\ Started.task = NoTask
  BY Constants_ DEF IsWork, Started, Phases
<1>3. Drops(w)
  BY <1>1, <1>2 DEF Drops
<1>4. \A v \in Workers : v # w /\ work[v].task # NoTask => status'[work[v].task] = "running"
  BY <1>1 DEF Inv, FileInv, WorkerInv
<1>5. \A n \in DOMAIN queue : status'[queue[n]] = "queued"
  BY <1>1 DEF Inv, FileInv, QueueInv
<1>6. \A t \in Tasks : status'[t] = "completed" => \E p : file[t] = Whole(p) /\ p.run = Runs
  BY <1>1 DEF Inv, FileInv
<1>7. DOMAIN status' = Tasks
  BY <1>1 DEF Inv, TypeInv, TablesOK
<1> QED
  BY <1>3, <1>4, <1>5, <1>6, <1>7, DropsInv

\* A worker takes the first task of the queue.
LEMMA TakeTaskInv == ASSUME Inv, NEW w \in Workers, TakeTask(w) PROVE Inv'
<1> DEFINE t == Head(queue)
           r == [Started EXCEPT !.pc = "config", !.task = t, !.fresh = work[w].fresh]
<1>1. /\ work[w].pc = "idle" /\ queue # <<>> /\ queue' = Tail(queue)
      /\ status' = [status EXCEPT ![t] = "running"] /\ work' = [work EXCEPT ![w] = r]
      /\ Emit(w, Template, t)
  BY DEF TakeTask, At, Become, LogTaskRunning
<1>2. /\ queue \in Seq(Tasks) /\ Len(queue) \in Nat /\ Len(queue) > 0 /\ t = queue[1]
      /\ DOMAIN queue = 1 .. Len(queue) /\ DOMAIN queue' = 1 .. Len(queue) - 1
      /\ \A n \in 1 .. Len(queue) - 1 : queue'[n] = queue[n + 1]
      /\ t \in Tasks /\ queue' \in Seq(Tasks)
  BY <1>1 DEF Inv, TypeInv, TablesOK
<1>3. status[t] = "queued" /\ t # NoTask /\ DOMAIN status = Tasks
  BY <1>2, Constants_ DEF Inv, TypeInv, TablesOK, FileInv, QueueInv
<1> HIDE DEF t
<1>4. /\ progress' = [progress EXCEPT ![w] = Template] /\ file' = [file EXCEPT ![t] = Torn]
      /\ procToTask' = [procToTask EXCEPT ![w] = t] /\ writing' = [writing EXCEPT ![w] = TRUE]
  BY <1>1, <1>3 DEF Emit
<1>5. IsWork(r) /\ r.task = t /\ r.done = 0 /\ r.round = 0
  BY <1>2, <1>3, Constants_ DEF IsWork, Started, Phases
<1> HIDE DEF r
<1>6. TypeInv'
  <2>1. WorkOK'
    BY <1>1, <1>5 DEF Inv, TypeInv, WorkOK, IsWork
  <2>2. writing' \in [Workers -> BOOLEAN]
    BY <1>4 DEF Inv, TypeInv, TablesOK
  <2>3. DOMAIN status' = Tasks
    BY <1>1, <1>3
  <2>4. TablesOK'
    BY <1>2, <1>4, <2>2, <2>3 DEF Inv, TypeInv, TablesOK, IsProgress
  <2> QED
    BY <2>1, <2>4 DEF TypeInv
<1>7. WorkerInv(w)'
  <2>1. /\ work'[w] = r /\ progress'[w] = Template /\ procToTask'[w] = t /\ writing'[w] = TRUE
        /\ file'[t] = Torn /\ status'[t] = "running"
    BY <1>1, <1>2, <1>3, <1>4 DEF Inv, TypeInv, WorkOK, TablesOK
  <2> QED
    BY <1>3, <1>5, <2>1 DEF WorkerInv, Tells, Template
<1>8. ASSUME NEW v \in Workers, v # w
      PROVE  work'[v] = work[v] /\ work[v].task # t /\ WorkerInv(v)'
  <2>1. /\ work'[v] = work[v] /\ progress'[v] = progress[v] /\ procToTask'[v] = procToTask[v]
        /\ writing'[v] = writing[v]
    BY <1>1, <1>4, <1>8 DEF Inv, TypeInv, WorkOK, TablesOK
  <2>2. work[v].task # t
    BY <1>3 DEF Inv, FileInv, WorkerInv
  <2>3. work[v].task # NoTask => /\ file'[work[v].task] = file[work[v].task]
                                 /\ status'[work[v].task] = status[work[v].task]
    BY <1>1, <1>3, <1>4, <2>2 DEF Inv, TypeInv, WorkOK, IsWork, TablesOK
  <2> QED
    BY <2>1, <2>2, <2>3 DEF Inv, FileInv, WorkerInv, Tells
<1>9. QueueInv'
  <2>1. \A n \in 1 .. Len(queue) - 1 : n + 1 \in 1 .. Len(queue) /\ n + 1 # 1
    BY <1>2
  <2>2. \A m, n \in 1 .. Len(queue) - 1 : m + 1 = n + 1 => m = n
    BY <1>2
  <2>3. \A n \in 1 .. Len(queue) - 1 : queue'[n] # t /\ status[queue'[n]] = "queued"
    BY <1>2, <2>1 DEF Inv, FileInv, QueueInv
  <2>4. \A n \in 1 .. Len(queue) - 1 : status'[queue'[n]] = "queued"
    BY <1>1, <1>2, <1>3, <2>3
  <2>5. \A m, n \in 1 .. Len(queue) - 1 : queue'[m] = queue'[n] => m = n
    BY <1>2, <2>1, <2>2 DEF Inv, FileInv, QueueInv
  <2> QED
    BY <1>2, <2>4, <2>5 DEF QueueInv
<1>10. ASSUME NEW u \in Tasks, status'[u] = "completed"
       PROVE  \E p : file'[u] = Whole(p) /\ p.run = Runs
  <2>1. u # t /\ status[u] = "completed"
    BY <1>1, <1>2, <1>3, <1>10
  <2> QED
    BY <1>4, <2>1 DEF Inv, TypeInv, TablesOK, FileInv
<1>11. work'[w].task = t
  BY <1>1, <1>5 DEF Inv, TypeInv, WorkOK
<1> QED
  BY <1>6, <1>7, <1>8, <1>9, <1>10, <1>11 DEF Inv, FileInv

LEMMA NextInv == Inv /\ [Next]_vars => Inv'
<1> SUFFICES ASSUME Inv, [Next]_vars PROVE Inv'
  OBVIOUS
<1>1. CASE Elsewhere
  BY <1>1 DEF Elsewhere, Inv, TypeInv, WorkOK, TablesOK, IsWork, IsProgress, FileInv, QueueInv,
              WorkerInv, Tells, progressVars
<1>2. ASSUME NEW w \in Workers, Worker(w) PROVE Inv'
  BY <1>2, WorkerSteps, TakeTaskInv, SilentInv, LogsInv, EndsInv, CloseInv DEF Inv, TypeInv
<1> QED
  BY <1>1, <1>2, OtherSteps, RunTestsInv, CrashInv

LEMMA InvCorrect == Spec => []Inv
BY InitInv, NextInv, PTL DEF Spec

\* Whoever reads a progress file, whatever the workers are doing meanwhile, is told of the
\* task's own present run, or nothing; and in the end of its last one.
THEOREM ProgressTruthfulCorrect == Spec => []ProgressTruthful
<1>1. Inv => ProgressTruthful
  <2> SUFFICES ASSUME Inv PROVE ProgressTruthful
    OBVIOUS
  <2>1. ASSUME NEW w \in Workers, work[w].task # NoTask, NEW r \in Shown(work[w].task)
        PROVE  r.count = work[w].done /\ r.run = work[w].round
    <3>1. /\ WorkerInv(w) /\ file[work[w].task].state = "whole" /\ r = file[work[w].task].of
      BY <2>1 DEF Inv, FileInv, Shown
    <3>2. CASE writing[w]
      BY <2>1, <3>1, <3>2 DEF WorkerInv, Tells, Torn
    <3>3. CASE ~ writing[w]
      <4>1. file[work[w].task] = Whole(progress[w])
        BY <2>1, <3>1, <3>3 DEF WorkerInv, Tells
      <4>2. r = progress[w]
        BY <3>1, <4>1 DEF Whole
      <4> QED
        BY <2>1, <3>1, <4>2 DEF WorkerInv, Tells
    <3> QED
      BY <3>2, <3>3
  <2>2. ASSUME NEW t \in Tasks, status[t] = "completed" PROVE \E r \in Shown(t) : r.run = Runs
    <3>1. PICK p : file[t] = Whole(p) /\ p.run = Runs
      BY <2>2 DEF Inv, FileInv
    <3>2. file[t].state = "whole" /\ file[t].of = p
      BY <3>1 DEF Whole
    <3> QED
      BY <3>1, <3>2 DEF Shown
  <2> QED
    BY <2>1, <2>2 DEF ProgressTruthful
<1> QED
  BY <1>1, InvCorrect, PTL

(***************************************************************************)
(* The table of configurations: a worker that has looked and found nothing *)
(* may still insert a row; once there is a row, no other worker finds      *)
(* nothing.                                                                *)
(***************************************************************************)
Pending == {w \in Workers : work[w].pc = "insert" /\ ~ work[w].found}

ConfigInv == configRows \in Nat /\ configRows + Cardinality(Pending) <= Cardinality(Workers)

\* Worker w is at another step than the insertion, or has found a row.
LEMMA NotPending ==
  ASSUME WorkOK, NEW w \in Workers, NEW r, work' = [work EXCEPT ![w] = r],
         r.pc = "insert" => r.found
  PROVE  Pending' \subseteq Pending \ {w}
<1>1. \A v \in Workers : work'[v] = IF v = w THEN r ELSE work[v]
  BY DEF WorkOK
<1> QED
  BY <1>1 DEF Pending

LEMMA ConfigSteps ==
  ASSUME WorkOK, NEW w \in Workers, Worker(w) \/ Crash(w), configRows \in Nat
  PROVE  \/ configRows' = configRows /\ Pending' \subseteq Pending
         \/ configRows' = 0
         \/ configRows' = configRows + 1 /\ w \in Pending /\ Pending' \subseteq Pending \ {w}
<1>0. IsWork(work[w])
  BY DEF WorkOK
<1> USE DEF At, Become, Alone
<1>1. CASE Close(w)
  BY <1>1 DEF Close, workVars, Pending
<1>2. CASE StartSuite(w)
  <2> DEFINE found == configRows > 0
             r == [work[w] EXCEPT !.pc = "insert", !.todo = Tail(@), !.found = found,
                                  !.left = SystemTests + Cardinality(Head(work[w].todo))]
  <2>1. work' = [work EXCEPT ![w] = r] /\ configRows' = configRows
    BY <1>2 DEF StartSuite
  <2>2. r.found = found
    BY <1>0 DEF IsWork, Started
  <2>3. CASE found
    <3> HIDE DEF found, r
    <3>1. r.found
      BY <2>2, <2>3
    <3> QED
      BY <2>1, <3>1, NotPending
  <2>4. CASE ~ found
    BY <2>1, <2>4
  <2> QED
    BY <2>3, <2>4
<1>3. CASE InsertConfiguration(w)
  <2> DEFINE r == [work[w] EXCEPT !.pc = "tests"]
  <2>1. /\ work' = [work EXCEPT ![w] = r] /\ work[w].pc = "insert"
        /\ configRows' = IF work[w].found THEN configRows ELSE configRows + 1
    BY <1>3 DEF InsertConfiguration
  <2>2. r.pc # "insert"
    BY <1>0 DEF IsWork, Started
  <2>3. Pending' \subseteq Pending \ {w}
    BY <2>1, <2>2, NotPending
  <2>4. CASE work[w].found
    BY <2>1, <2>3, <2>4
  <2>5. CASE ~ work[w].found
    <3>1. w \in Pending
      BY <2>1, <2>5 DEF Pending
    <3> QED
      BY <2>1, <2>3, <2>5, <3>1
  <2> QED
    BY <2>4, <2>5
<1>4. CASE ~ (Close(w) \/ StartSuite(w) \/ InsertConfiguration(w))
  <2>0. DOMAIN work = Workers
    BY DEF WorkOK
  <2>1. /\ configRows' = configRows /\ work' = [work EXCEPT ![w] = work'[w]]
        /\ work'[w].pc # "insert"
    <3>1. CASE TakeTask(w)
      BY <2>0, <3>1 DEF TakeTask, Started
    <3>2. CASE LoadConfig(w)
      BY <1>0, <2>0, <3>2 DEF LoadConfig, IsWork, Started
    <3>3. CASE Announce(w)
      BY <1>0, <2>0, <3>3 DEF Announce, IsWork, Started
    <3>4. CASE UnknownSuite(w) \/ NoMachine(w) \/ Complete(w) \/ RunRaises(w)
      BY <2>0, <3>4 DEF UnknownSuite, NoMachine, Complete, RunRaises, EndTask, Started
    <3>5. CASE StartRun(w)
      BY <1>0, <2>0, <3>5 DEF StartRun, IsWork, Started
    <3>6. CASE SelectTests(w)
      <4>1. CASE Configured(suites[w], work[w].config.of).ok
        BY <1>0, <2>0, <3>6, <4>1 DEF SelectTests, IsWork, Started
      <4>2. CASE ~ Configured(suites[w], work[w].config.of).ok
        BY <2>0, <3>6, <4>2 DEF SelectTests, EndTask, Started
      <4> QED
        BY <4>1, <4>2
    <3>7. CASE StartTest(w) \/ FinishTest(w) \/ RaiseTest(w)
      BY <1>0, <2>0, <3>7 DEF StartTest, FinishTest, RaiseTest, IsWork, Started
    <3>8. CASE Crash(w)
      BY <2>0, <3>8 DEF Crash, Started
    <3> QED
      BY <1>4, <3>1, <3>2, <3>3, <3>4, <3>5, <3>6, <3>7, <3>8 DEF Worker
  <2> QED
    BY <2>1, NotPending
<1> QED
  BY <1>1, <1>2, <1>3, <1>4

LEMMA NextConfigInv == WorkOK /\ ConfigInv /\ [Next]_vars => ConfigInv'
<1> SUFFICES ASSUME WorkOK, ConfigInv, [Next]_vars PROVE ConfigInv'
  OBVIOUS
<1>1. /\ IsFiniteSet(Pending) /\ IsFiniteSet(Pending') /\ Pending' \subseteq Workers
      /\ Cardinality(Pending) \in Nat /\ Cardinality(Pending') \in Nat
      /\ Cardinality(Pending') <= Cardinality(Workers)
      /\ Cardinality(Workers) \in Nat /\ configRows \in Nat
  <2>1. Pending \subseteq Workers /\ Pending' \subseteq Workers
    BY DEF Pending
  <2> QED
    BY <2>1, Constants_, FS_Subset, FS_CardinalityType DEF ConfigInv
<1>2. CASE configRows' = configRows /\ Pending' \subseteq Pending
  <2>1. Cardinality(Pending') <= Cardinality(Pending)
    BY <1>1, <1>2, FS_Subset
  <2> QED
    BY <1>1, <1>2, <2>1 DEF ConfigInv
<1>3. CASE configRows' = 0
  BY <1>1, <1>3 DEF ConfigInv
<1>4. ASSUME NEW w \in Workers, configRows' = configRows + 1, w \in Pending,
             Pending' \subseteq Pending \ {w}
      PROVE  ConfigInv'
  <2>1. /\ IsFiniteSet(Pending \ {w})
        /\ Cardinality(Pending \ {w}) = Cardinality(Pending) - 1
    BY <1>1, <1>4, FS_RemoveElement
  <2>2. Cardinality(Pending') <= Cardinality(Pending \ {w})
    BY <1>4, <2>1, FS_Subset
  <2> QED
    BY <1>1, <1>4, <2>1, <2>2 DEF ConfigInv
<1>5. CASE Elsewhere
  BY <1>5, <1>2 DEF Elsewhere, Pending
<1>6. CASE \E p \in Pages, t \in Tasks : RunTests(p, t)
  BY <1>6, <1>2 DEF RunTests, workVars, Pending
<1> QED
  BY <1>1, <1>2, <1>3, <1>4, <1>5, <1>6, OtherSteps, ConfigSteps

\* The look-up and the insertion are two transactions, and still no machine gets more
\* rows than there are workers, however many tasks they run and however they end.
THEOREM RowPerWorkerAtMostCorrect == Spec => []RowPerWorkerAtMost
<1>1. Init => ConfigInv
  <2> SUFFICES ASSUME Init PROVE ConfigInv
    OBVIOUS
  <2>1. Pending = {} /\ configRows = 0
    BY DEF Init, Pending, Started
  <2> QED
    BY <2>1, Constants_, FS_EmptySet, FS_CardinalityType DEF ConfigInv
<1>2. ConfigInv => RowPerWorkerAtMost
  <2> SUFFICES ASSUME ConfigInv PROVE RowPerWorkerAtMost
    OBVIOUS
  <2>1. Cardinality(Pending) \in Nat /\ Cardinality(Workers) \in Nat
    <3>1. Pending \subseteq Workers
      BY DEF Pending
    <3> QED
      BY <3>1, Constants_, FS_Subset, FS_CardinalityType
  <2> QED
    BY <2>1 DEF ConfigInv, RowPerWorkerAtMost
<1>3. Inv => WorkOK
  BY DEF Inv, TypeInv
<1> QED
  BY <1>1, <1>2, <1>3, InvCorrect, NextConfigInv, PTL DEF Spec

(***************************************************************************)
(* What _run_single makes of a configuration c: its loop over the names,   *)
(* and the loop that collects what c asks for.  A loop is the function on  *)
(* the sets of places that FoldLeft chooses.                               *)
(***************************************************************************)
StepOf(kind, c, acc, name) ==
  IF kind = "configure" THEN Configure(acc, name, c) ELSE AndAsked(acc, name, c)

Loops(g, kind, c, base, D) ==
  g = [s \in D |-> IF s = {} THEN base ELSE StepOf(kind, c, g[Others(s)], c.suites[Max(s)])]
ConfigureLoops(g, c, base, D) ==
  g = [s \in D |-> IF s = {} THEN base ELSE Configure(g[Others(s)], c.suites[Max(s)], c)]
AskLoops(g, c, D) ==
  g = [s \in D |-> IF s = {} THEN <<>> ELSE AndAsked(g[Others(s)], c.suites[Max(s)], c)]

LEMMA LoopExists ==
  ASSUME NEW kind, NEW c, NEW base, NEW n \in Nat
  PROVE  \E g : Loops(g, kind, c, base, SUBSET (1 .. n))
<1> DEFINE S == SUBSET (1 .. n)
           D(k) == {s \in S : Cardinality(s) <= k}
           T == {k \in Nat : \E g : Loops(g, kind, c, base, D(k))}
<1>0. \A s \in S : IsFiniteSet(s) /\ Cardinality(s) \in Nat /\ Cardinality(s) <= n
  <2>1. IsFiniteSet(1 .. n) /\ Cardinality(1 .. n) = n
    BY FS_Interval
  <2> QED
    BY <2>1, FS_Subset, FS_CardinalityType
<1>1. 0 \in T
  <2> DEFINE g == [s \in D(0) |-> base]
  <2>1. \A s \in D(0) : s = {}
    BY <1>0, FS_EmptySet
  <2>2. Loops(g, kind, c, base, D(0))
    BY <2>1, Zenon DEF Loops
  <2> QED
    BY <2>2
<1>2. ASSUME NEW k \in Nat, k \in T PROVE k + 1 \in T
  <2>1. PICK g : Loops(g, kind, c, base, D(k))
    BY <1>2
  <2> DEFINE h == [s \in D(k + 1) |-> IF s = {} THEN base
                                      ELSE StepOf(kind, c, g[Others(s)], c.suites[Max(s)])]
  <2>2. D(k) \subseteq D(k + 1)
    BY <1>0
  <2>3. ASSUME NEW s \in D(k) PROVE h[s] = g[s]
    BY <2>1, <2>2, Zenon DEF Loops
  <2>4. ASSUME NEW s \in D(k + 1), s # {} PROVE Others(s) \in D(k)
    BY <1>0, <2>4, OthersOK
  <2>5. Loops(h, kind, c, base, D(k + 1))
    <3>1. \A s \in D(k + 1) : s # {} => h[Others(s)] = g[Others(s)]
      BY <2>3, <2>4
    <3> HIDE DEF D
    <3> QED
      BY <3>1, Zenon DEF Loops
  <2>6. \E f : Loops(f, kind, c, base, D(k + 1))
    BY <2>5
  <2> HIDE DEF D
  <2> QED
    BY <2>6
<1>3. n \in T
  <2> HIDE DEF T
  <2> QED
    BY <1>1, <1>2, AllNats
<1>4. D(n) = S
  BY <1>0
<1> QED
  BY <1>3, <1>4

\* The base, and after each name the step for it.
Stepwise(g, kind, c, base, n) ==
  /\ g[1 .. 0] = base
  /\ \A k \in 1 .. n : g[1 .. k] = StepOf(kind, c, g[1 .. k - 1], c.suites[k])

LEMMA LoopSteps ==
  ASSUME NEW kind, NEW c, NEW base, NEW n \in Nat, NEW g, Loops(g, kind, c, base, SUBSET (1 .. n))
  PROVE  Stepwise(g, kind, c, base, n)
<1>1. 1 .. 0 = {}
  OBVIOUS
<1>2. g[1 .. 0] = base
  BY <1>1 DEF Loops
<1>3. ASSUME NEW k \in 1 .. n PROVE g[1 .. k] = StepOf(kind, c, g[1 .. k - 1], c.suites[k])
  <2>1. 1 .. k \in SUBSET (1 .. n) /\ 1 .. k # {} /\ k \in 1 .. k
    OBVIOUS
  <2>2. Max(1 .. k) \in 1 .. k /\ k <= Max(1 .. k)
    BY <2>1, MaxOK
  <2>3. Max(1 .. k) = k
    BY <2>2
  <2>4. Others(1 .. k) = 1 .. k - 1
    BY <2>3 DEF Others
  <2>5. g[1 .. k] = StepOf(kind, c, g[Others(1 .. k)], c.suites[Max(1 .. k)])
    BY <2>1, Zenon DEF Loops
  <2> QED
    BY <2>3, <2>4, <2>5
<1> QED
  BY <1>2, <1>3 DEF Stepwise

LEMMA ConfiguredIsLoop ==
  ASSUME NEW c, c.suites \in Seq(STRING), NEW ss
  PROVE  LET base == [ok |-> TRUE, suites |-> ss, run |-> <<>>]
             n    == Len(c.suites)
         IN  \E g : Loops(g, "configure", c, base, SUBSET (1 .. n)) /\ Configured(ss, c) = g[1 .. n]
<1> DEFINE base == [ok |-> TRUE, suites |-> ss, run |-> <<>>]
           D == DOMAIN c.suites
<1>1. D = 1 .. Len(c.suites) /\ Len(c.suites) \in Nat
  OBVIOUS
<1>2. Configured(ss, c) = (CHOOSE g : ConfigureLoops(g, c, base, SUBSET D))[D]
  BY DEF Configured, FoldLeft, MapThenFoldSet, ConfigureLoops, Others
<1>3. \A g : ConfigureLoops(g, c, base, SUBSET D) <=> Loops(g, "configure", c, base, SUBSET D)
  BY DEF ConfigureLoops, Loops, StepOf
<1>4. \E g : Loops(g, "configure", c, base, SUBSET D)
  BY <1>1, LoopExists
<1> DEFINE G == CHOOSE g : ConfigureLoops(g, c, base, SUBSET D)
<1>5. ConfigureLoops(G, c, base, SUBSET D)
  BY <1>3, <1>4
<1> HIDE DEF G
<1>6. Loops(G, "configure", c, base, SUBSET D)
  BY <1>3, <1>5
<1>7. Configured(ss, c) = G[D]
  BY <1>2 DEF G
<1> QED
  BY <1>1, <1>6, <1>7

\* What c asks for, before the default for a list without any known name.
Listed(c) == FoldLeft(LAMBDA ts, name : AndAsked(ts, name, c), <<>>, c.suites)

LEMMA ListedIsLoop ==
  ASSUME NEW c, c.suites \in Seq(STRING)
  PROVE  LET n == Len(c.suites)
         IN  \E g : Loops(g, "ask", c, <<>>, SUBSET (1 .. n)) /\ Listed(c) = g[1 .. n]
<1> DEFINE D == DOMAIN c.suites
<1>1. D = 1 .. Len(c.suites) /\ Len(c.suites) \in Nat
  OBVIOUS
<1>2. Listed(c) = (CHOOSE g : AskLoops(g, c, SUBSET D))[D]
  BY DEF Listed, FoldLeft, MapThenFoldSet, AskLoops, Others
<1>3. \A g : AskLoops(g, c, SUBSET D) <=> Loops(g, "ask", c, <<>>, SUBSET D)
  BY DEF AskLoops, Loops, StepOf
<1>4. \E g : Loops(g, "ask", c, <<>>, SUBSET D)
  BY <1>1, LoopExists
<1> DEFINE G == CHOOSE g : AskLoops(g, c, SUBSET D)
<1>5. AskLoops(G, c, SUBSET D)
  BY <1>3, <1>4
<1> HIDE DEF G
<1>6. Loops(G, "ask", c, <<>>, SUBSET D)
  BY <1>3, <1>5
<1>7. Listed(c) = G[D]
  BY <1>2 DEF G
<1> QED
  BY <1>1, <1>6, <1>7

(***************************************************************************)
(* Side by side, the two loops come to the same: the suites that run have  *)
(* the tests that c asks for, whichever of its rounds the suites were      *)
(* left by.                                                                *)
(***************************************************************************)
\* Every suite has the tests of the catalog, or those c selects.
SuitesOf(c, ss) ==
  /\ DOMAIN ss = DOMAIN Catalog
  /\ \A s \in DOMAIN Catalog : ss[s].tests \in {Catalog[s], Asked(c, s)}

Known   == DOMAIN Catalog
Sets(c) == {Asked(c, s) : s \in Known}

SideBySide(c, acc, asked) ==
  /\ DOMAIN acc = {"ok", "suites", "run"} /\ acc.ok \in BOOLEAN
  /\ SuitesOf(c, acc.suites)
  /\ acc.run \in Seq(Known) /\ asked \in Seq(Sets(c))
  /\ acc.ok =>
       /\ Len(acc.run) = Len(asked)
       /\ \A i \in 1 .. Len(asked) :
            asked[i] = Asked(c, acc.run[i]) /\ acc.suites[acc.run[i]].tests = asked[i]

LEMMA SelectedOK ==
  ASSUME NEW c, NEW s \in Known, NEW tests \in {Catalog[s], Asked(c, s)}
  PROVE  Selected(c, s, tests) = Asked(c, s)
BY DEF Selected, Asked

LEMMA RoundOK ==
  ASSUME NEW c, NEW acc, NEW asked, SideBySide(c, acc, asked), NEW name
  PROVE  SideBySide(c, Configure(acc, name, c), AndAsked(asked, name, c))
<1> DEFINE old      == acc.suites[name]
           override == name \in DOMAIN c.durations /\ c.durations[name] # old.total
           value    == IF override THEN c.durations[name] ELSE old.total
           kept     == Selected(c, name, old.tests)
           new      == Timed(kept, Timed(old.tests, value).total)
           next     == Configure(acc, name, c)
           more     == AndAsked(asked, name, c)
<1> SUFFICES SideBySide(c, next, more)
  OBVIOUS
<1>0. /\ DOMAIN acc = {"ok", "suites", "run"} /\ acc.ok \in BOOLEAN
      /\ SuitesOf(c, acc.suites) /\ acc.run \in Seq(Known) /\ asked \in Seq(Sets(c))
  BY DEF SideBySide
<1>1. CASE name \notin Known
  <2>1. next = acc /\ more = asked
    BY <1>1 DEF Configure, AndAsked, Known
  <2> QED
    BY <2>1
<1>2. CASE name \in Known
  <2>1. more = Append(asked, Asked(c, name)) /\ Asked(c, name) \in Sets(c)
    BY <1>2 DEF AndAsked, Sets, Known
  <2>2. more \in Seq(Sets(c)) /\ Len(more) = Len(asked) + 1
    BY <2>1 DEF SideBySide
  <2>3. CASE ~ acc.ok
    <3>1. next = acc
      BY <2>3 DEF Configure
    <3> HIDE DEF next, more
    <3>2. SideBySide(c, acc, more)
      BY <1>0, <2>2, <2>3 DEF SideBySide
    <3> QED
      BY <3>1, <3>2
  <2>4. CASE acc.ok /\ override /\ ~ Fits(old.tests, value)
    <3>1. next = [acc EXCEPT !.ok = FALSE]
      BY <1>2, <2>4 DEF Configure, Known
    <3> HIDE DEF next, more
    <3>2. next.ok = FALSE /\ next.suites = acc.suites /\ next.run = acc.run /\ DOMAIN next = DOMAIN acc
      BY <3>1 DEF SideBySide
    <3>3. DOMAIN next = {"ok", "suites", "run"} /\ next.ok \in BOOLEAN
      BY <1>0, <3>2
    <3>4. SuitesOf(c, next.suites) /\ next.run \in Seq(Known)
      BY <1>0, <3>2
    <3> QED
      BY <2>2, <3>2, <3>3, <3>4 DEF SideBySide
  <2>5. CASE acc.ok /\ ~ (override /\ ~ Fits(old.tests, value))
    <3>1. next = [acc EXCEPT !.suites[name] = new, !.run = Append(@, name)]
      BY <1>2, <2>5 DEF Configure, Known
    <3>2. new.tests = Asked(c, name)
      <4>1. old.tests \in {Catalog[name], Asked(c, name)}
        BY <1>2 DEF SideBySide, SuitesOf, Known
      <4>2. kept = Asked(c, name)
        BY <1>2, <4>1, SelectedOK
      <4> QED
        BY <4>2 DEF Timed
    <3> HIDE DEF next, more, new
    <3>3. /\ DOMAIN next = DOMAIN acc /\ next.ok = acc.ok /\ next.run = Append(acc.run, name)
          /\ next.suites = [acc.suites EXCEPT ![name] = new]
      BY <3>1 DEF SideBySide
    <3>4. \A s \in Known : next.suites[s] = IF s = name THEN new ELSE acc.suites[s]
      BY <3>3 DEF SideBySide, SuitesOf, Known
    <3>5. SuitesOf(c, next.suites)
      BY <3>2, <3>3, <3>4 DEF SideBySide, SuitesOf, Known
    <3>6. next.run \in Seq(Known) /\ Len(next.run) = Len(acc.run) + 1 /\ Len(acc.run) = Len(asked)
      BY <1>2, <2>5, <3>3 DEF SideBySide
    <3>7. ASSUME NEW i \in 1 .. Len(more)
          PROVE  more[i] = Asked(c, next.run[i]) /\ next.suites[next.run[i]].tests = more[i]
      <4>1. CASE i = Len(more)
        <5>1. more[i] = Asked(c, name) /\ next.run[i] = name
          BY <2>1, <2>2, <3>3, <3>6, <4>1 DEF SideBySide
        <5> QED
          BY <1>2, <3>2, <3>4, <5>1
      <4>2. CASE i # Len(more)
        <5>1. /\ i \in 1 .. Len(asked) /\ more[i] = asked[i] /\ next.run[i] = acc.run[i]
              /\ acc.run[i] \in Known
          BY <2>1, <2>2, <3>3, <3>6, <3>7, <4>2 DEF SideBySide
        <5>2. asked[i] = Asked(c, acc.run[i]) /\ acc.suites[acc.run[i]].tests = asked[i]
          BY <2>5, <5>1 DEF SideBySide
        <5> QED
          BY <3>2, <3>4, <5>1, <5>2
      <4> QED
        BY <4>1, <4>2
    <3>8. DOMAIN next = {"ok", "suites", "run"} /\ next.ok \in BOOLEAN
      BY <1>0, <3>3
    <3>9. Len(next.run) = Len(more)
      BY <2>2, <3>6
    <3> QED
      BY <2>2, <3>5, <3>6, <3>7, <3>8, <3>9 DEF SideBySide
  <2> QED
    BY <2>3, <2>4, <2>5
<1> QED
  BY <1>1, <1>2

LEMMA ListedTyped ==
  ASSUME NEW c, c.suites \in Seq(STRING), NEW ss, SuitesOf(c, ss)
  PROVE  SideBySide(c, Configured(ss, c), Listed(c))
<1> DEFINE n    == Len(c.suites)
           base == [ok |-> TRUE, suites |-> ss, run |-> <<>>]
           done == Configured(ss, c)
<1>1. PICK g : Loops(g, "configure", c, base, SUBSET (1 .. n)) /\ done = g[1 .. n]
  BY ConfiguredIsLoop
<1>2. PICK h : Loops(h, "ask", c, <<>>, SUBSET (1 .. n)) /\ Listed(c) = h[1 .. n]
  BY ListedIsLoop
<1>3. n \in Nat
  OBVIOUS
<1> HIDE DEF n, done
<1> HIDE DEF base
<1>4. Stepwise(g, "configure", c, base, n) /\ Stepwise(h, "ask", c, <<>>, n)
  BY <1>1, <1>2, <1>3, LoopSteps
<1>5. g[1 .. 0] = base /\ h[1 .. 0] = <<>>
  BY <1>4 DEF Stepwise
<1> DEFINE T == {k \in Nat : k <= n => SideBySide(c, g[1 .. k], h[1 .. k])}
<1>6. 0 \in T
  <2>1. SideBySide(c, base, <<>>)
    BY DEF SideBySide, base
  <2> QED
    BY <1>5, <2>1
<1>7. ASSUME NEW k \in Nat, k \in T PROVE k + 1 \in T
  <2>1. SUFFICES ASSUME k + 1 <= n PROVE SideBySide(c, g[1 .. k + 1], h[1 .. k + 1])
    OBVIOUS
  <2>2. k + 1 \in 1 .. n /\ (k + 1) - 1 = k /\ SideBySide(c, g[1 .. k], h[1 .. k])
    BY <1>3, <1>7, <2>1
  <2>3. /\ g[1 .. k + 1] = StepOf("configure", c, g[1 .. k], c.suites[k + 1])
        /\ h[1 .. k + 1] = StepOf("ask", c, h[1 .. k], c.suites[k + 1])
    BY <1>4, <2>2 DEF Stepwise
  <2>4. /\ g[1 .. k + 1] = Configure(g[1 .. k], c.suites[k + 1], c)
        /\ h[1 .. k + 1] = AndAsked(h[1 .. k], c.suites[k + 1], c)
    BY <2>3 DEF StepOf
  <2> QED
    BY <2>2, <2>4, RoundOK
<1> HIDE DEF T
<1>8. n \in T
  BY <1>3, <1>6, <1>7, AllNats
<1> QED
  BY <1>1, <1>2, <1>3, <1>8 DEF T, done

LEMMA ConfiguredOK ==
  ASSUME NEW c, c.suites \in Seq(STRING), NEW ss, SuitesOf(c, ss)
  PROVE  LET done == Configured(ss, c)
         IN  SuitesOf(c, done.suites) /\ (done.ok => TestsToRun(done) = AskedOf(c))
<1> DEFINE done == Configured(ss, c)
<1>1. SideBySide(c, done, Listed(c))
  BY ListedTyped
<1>2. AskedOf(c) = IF Listed(c) = <<>> THEN <<AllSubsystems>> ELSE Listed(c)
  BY DEF AskedOf, Listed
<1>3. ASSUME done.ok PROVE TestsToRun(done) = AskedOf(c)
  <2>1. /\ done.run \in Seq(Known) /\ Listed(c) \in Seq(Sets(c)) /\ Len(done.run) = Len(Listed(c))
        /\ \A i \in 1 .. Len(Listed(c)) : done.suites[done.run[i]].tests = Listed(c)[i]
    BY <1>1, <1>3 DEF SideBySide
  <2> HIDE DEF done
  <2>2. done.run = <<>> <=> Listed(c) = <<>>
    BY <2>1
  <2>3. Listed(c) = [i \in DOMAIN done.run |-> done.suites[done.run[i]].tests]
    BY <2>1
  <2> QED
    BY <1>2, <2>2, <2>3 DEF TestsToRun
<1> QED
  BY <1>1, <1>3 DEF SideBySide, done

LEMMA AtImportOK == ASSUME NEW c PROVE SuitesOf(c, AtImport)
BY DEF SuitesOf, AtImport, Timed

(***************************************************************************)
(* The number of tests announced, if every name exists.                    *)
(***************************************************************************)
LEMMA ListedAll ==
  ASSUME NEW c, c.suites \in Seq(STRING), \A i \in DOMAIN c.suites : c.suites[i] \in Known
  PROVE  /\ DOMAIN Listed(c) = DOMAIN c.suites
         /\ \A i \in DOMAIN c.suites : Listed(c)[i] = Asked(c, c.suites[i])
<1> DEFINE n == Len(c.suites)
           list(k, asked) == /\ asked \in Seq(Sets(c)) /\ Len(asked) = k
                             /\ \A i \in 1 .. k : asked[i] = Asked(c, c.suites[i])
<1>1. PICK h : Loops(h, "ask", c, <<>>, SUBSET (1 .. n)) /\ Listed(c) = h[1 .. n]
  BY ListedIsLoop
<1>2. n \in Nat /\ DOMAIN c.suites = 1 .. n
  OBVIOUS
<1> HIDE DEF n
<1>3. Stepwise(h, "ask", c, <<>>, n)
  BY <1>1, <1>2, LoopSteps
<1> DEFINE T == {k \in Nat : k <= n => list(k, h[1 .. k])}
<1>4. 0 \in T
  <2>1. list(0, <<>>)
    OBVIOUS
  <2> QED
    BY <1>3, <2>1 DEF Stepwise
<1>5. ASSUME NEW k \in Nat, k \in T PROVE k + 1 \in T
  <2>1. SUFFICES ASSUME k + 1 <= n PROVE list(k + 1, h[1 .. k + 1])
    OBVIOUS
  <2>2. k + 1 \in 1 .. n /\ (k + 1) - 1 = k /\ list(k, h[1 .. k])
    BY <1>2, <1>5, <2>1
  <2>3. h[1 .. k + 1] = AndAsked(h[1 .. k], c.suites[k + 1], c)
    BY <1>3, <2>2 DEF Stepwise, StepOf
  <2>4. c.suites[k + 1] \in Known
    BY <1>2, <2>2
  <2>5. /\ h[1 .. k + 1] = Append(h[1 .. k], Asked(c, c.suites[k + 1]))
        /\ Asked(c, c.suites[k + 1]) \in Sets(c)
    BY <2>3, <2>4 DEF AndAsked, Known, Sets
  <2> QED
    BY <2>2, <2>5
<1> HIDE DEF T
<1>6. n \in T
  BY <1>2, <1>4, <1>5, AllNats
<1>7. list(n, Listed(c))
  BY <1>1, <1>2, <1>6 DEF T
<1> QED
  BY <1>2, <1>7

LEMMA AnnouncedOK ==
  ASSUME NEW c, c.suites \in Seq(STRING), NamesExist(c)
  PROVE  Announced(AtImport, c) = NumberOf(AskedOf(c))
<1>1. /\ DOMAIN Listed(c) = DOMAIN c.suites
      /\ \A i \in DOMAIN c.suites : Listed(c)[i] = Asked(c, c.suites[i]) /\ c.suites[i] \in Known
  BY ListedAll DEF NamesExist, Known
<1>2. AskedOf(c) = IF Listed(c) = <<>> THEN <<AllSubsystems>> ELSE Listed(c)
  BY DEF AskedOf, Listed
<1>3. Listed(c) \in Seq(Sets(c))
  <2>1. PICK done : SideBySide(c, done, Listed(c))
    BY AtImportOK, ListedTyped
  <2> QED
    BY <2>1 DEF SideBySide
<1>4. CASE c.suites = <<>>
  <2>1. Listed(c) = <<>>
    BY <1>1, <1>3, <1>4
  <2> DEFINE f == [i \in DOMAIN <<AllSubsystems>> |->
                     Cardinality(<<AllSubsystems>>[i]) + SystemTests]
             a == Cardinality(AllSubsystems) + SystemTests
  <2>2. a \in Int
    BY CatalogAssumption, FS_CardinalityType DEF SystemTests
  <2>3. DOMAIN f = {1} /\ f[1] = a
    OBVIOUS
  <2>4. IsFiniteSet({1}) /\ Cardinality({1}) = 1
    BY FS_Singleton
  <2> HIDE DEF f, a
  <2>5. SumFunctionOnSet(f, {1}) = a * 1
    <3>1. \A y \in {1} : f[y] = a
      BY <2>3
    <3>2. SumFunctionOnSet(f, {1}) = a * Cardinality({1})
      BY <2>2, <2>4, <3>1, SumOfConstant, Zenon
    <3> QED
      BY <2>4, <3>2
  <2>6. NumberOf(AskedOf(c)) = SumFunctionOnSet(f, {1})
    BY <1>2, <2>1, <2>3 DEF NumberOf, SumFunction, f
  <2>7. Announced(AtImport, c) = a
    BY <1>4 DEF Announced, a
  <2> QED
    BY <2>2, <2>5, <2>6, <2>7
<1>5. CASE c.suites # <<>>
  <2>1. Listed(c) # <<>>
    BY <1>1, <1>3, <1>5
  <2>2. ASSUME NEW i \in DOMAIN c.suites
        PROVE  CountOf(AtImport, c, c.suites[i]) = Cardinality(Listed(c)[i]) + SystemTests
    <3> DEFINE name == c.suites[i]
    <3>1. name \in Known /\ Listed(c)[i] = Asked(c, name)
      BY <1>1, <2>2
    <3>2. AtImport[name].tests = Catalog[name] /\ IsFiniteSet(Catalog[name])
      BY <3>1, CatalogAssumption DEF AtImport, Timed, Known
    <3>3. Asked(c, name) = IF name \in DOMAIN c.selected THEN c.selected[name] ELSE Catalog[name]
      BY DEF Asked, NamesExist
    <3>4. Asked(c, name) \subseteq Catalog[name]
      BY DEF Asked
    <3>5. Cardinality(Asked(c, name)) \in Nat
      BY <3>2, <3>4, FS_Subset, FS_CardinalityType
    <3> HIDE DEF name
    <3>6. CountOf(AtImport, c, name) = SystemTests + Cardinality(Asked(c, name))
      BY <3>2, <3>3 DEF CountOf
    <3>7. CountOf(AtImport, c, name) = Cardinality(Asked(c, name)) + SystemTests
      BY <3>5, <3>6 DEF SystemTests
    <3> QED
      BY <3>1, <3>7 DEF name
  <2>3. [i \in DOMAIN c.suites |-> CountOf(AtImport, c, c.suites[i])]
          = [i \in DOMAIN Listed(c) |-> Cardinality(Listed(c)[i]) + SystemTests]
    BY <1>1, <2>2
  <2> QED
    BY <1>2, <1>5, <2>1, <2>3, Zenon DEF Announced, NumberOf
<1> QED
  BY <1>4, <1>5

(***************************************************************************)
(* A worker that has not ended a task: its suites are those of the import  *)
(* until it selects tests, and then they have either the tests of the      *)
(* catalog or those its configuration selects, so every run of the task    *)
(* comes to the same tests.  What it announced was counted at the import.  *)
(***************************************************************************)
Configs == Saved \cup {DefaultConfig(DefaultSuites)}
Files   == {Config(c) : c \in Configs}

FilesOK == configFile \in {Nothing, Torn} \cup Files /\ saving \in {Nothing} \cup Files

Selecting == {"connect", "select", "insert", "tests", "testing"}
FreshOf(r, ss, total) ==
  /\ r.pc \in {"idle", "config", "announce"} => ss = AtImport
  /\ r.pc \in {"announce"} \cup Selecting => r.config \in Files
  /\ r.pc \in Selecting => SuitesOf(r.config.of, ss) /\ total = Announced(AtImport, r.config.of)
  /\ r.pc \in {"insert", "tests", "testing"} => r.plan = AskedOf(r.config.of)

FreshOK(w) == work[w].fresh => FreshOf(work[w], suites[w], progress[w].total)
FreshInv   == FilesOK /\ DOMAIN suites = Workers /\ \A w \in Workers : FreshOK(w)

LEMMA ConfigsOK == \A f \in Files : f.of \in Configs /\ f.of.suites \in Seq(STRING)
BY ConfigAssumption DEF Files, Configs, Config, DefaultConfig

\* Only worker w changes, into r with its suites ss and its progress p.
Moves(w, r, ss, p) ==
  /\ DOMAIN suites' = Workers /\ work'[w] = r /\ suites'[w] = ss /\ progress'[w] = p
  /\ \A v \in Workers \ {w} :
       work'[v] = work[v] /\ suites'[v] = suites[v] /\ progress'[v] = progress[v]

LEMMA MovesOK ==
  ASSUME WorkOK, TablesOK, FreshInv, NEW w \in Workers, NEW r, NEW ss, NEW p, Moves(w, r, ss, p),
         UNCHANGED fileVars, r.fresh => FreshOf(r, ss, p.total)
  PROVE  FreshInv'
<1>1. FilesOK' /\ DOMAIN suites' = Workers
  BY DEF FreshInv, FilesOK, fileVars, Moves
<1>2. ASSUME NEW v \in Workers PROVE FreshOK(v)'
  <2>1. CASE v = w
    <3>1. work'[w] = r /\ suites'[w] = ss /\ progress'[w] = p
      BY DEF Moves
    <3> QED
      BY <2>1, <3>1 DEF FreshOK
  <2>2. CASE v # w
    <3>1. work'[v] = work[v] /\ suites'[v] = suites[v] /\ progress'[v] = progress[v]
      BY <2>2 DEF Moves
    <3> QED
      BY <3>1 DEF FreshInv, FreshOK
  <2> QED
    BY <2>1, <2>2
<1> QED
  BY <1>1, <1>2 DEF FreshInv

LEMMA WorkerFreshInv ==
  ASSUME WorkOK, TablesOK, FreshInv, NEW w \in Workers, Worker(w) \/ Crash(w)
  PROVE  FreshInv'
<1>0. /\ DOMAIN work[w] = DOMAIN Started /\ DOMAIN progress[w] = DOMAIN Template
      /\ FreshOK(w) /\ DOMAIN work = Workers /\ DOMAIN suites = Workers
      /\ DOMAIN progress = Workers /\ configFile \in {Nothing, Torn} \cup Files
  BY DEF WorkOK, IsWork, TablesOK, IsProgress, FreshInv, FilesOK
<1> DEFINE now == work[w]
           ss  == suites[w]
           p   == progress[w]
<1> USE DEF At, Become, Alone
<1>1. CASE TakeTask(w)
  <2> DEFINE r == [Started EXCEPT !.pc = "config", !.task = Head(queue), !.fresh = work[w].fresh]
  <2>1. Moves(w, r, ss, Template) /\ UNCHANGED fileVars /\ now.pc = "idle"
    BY <1>1, <1>0 DEF TakeTask, LogTaskRunning, Emit, Moves
  <2>2. r.fresh = now.fresh /\ r.pc = "config"
    BY DEF Started
  <2> HIDE DEF r
  <2>3. r.fresh => FreshOf(r, ss, Template.total)
    BY <1>0, <2>1, <2>2 DEF FreshOK, FreshOf, Selecting
  <2> QED
    BY <2>1, <2>3, MovesOK
<1>2. CASE LoadConfig(w)
  <2> DEFINE conf == IF configFile \in {Nothing, Torn} THEN Config(DefaultConfig(DefaultSuites))
                     ELSE configFile
             r == [work[w] EXCEPT !.pc = "announce", !.config = conf]
  <2>1. Moves(w, r, ss, p) /\ UNCHANGED fileVars /\ now.pc = "config"
    BY <1>2, <1>0 DEF LoadConfig, Moves, progressVars
  <2>2. conf \in Files
    BY <1>0 DEF Files, Configs
  <2> HIDE DEF conf
  <2>3. r.fresh = now.fresh /\ r.pc = "announce" /\ r.config = conf
    BY <1>0 DEF Started
  <2> HIDE DEF r
  <2>4. r.fresh => FreshOf(r, ss, p.total)
    BY <1>0, <2>1, <2>2, <2>3 DEF FreshOK, FreshOf, Selecting
  <2> QED
    BY <2>1, <2>4, MovesOK
<1>3. CASE Announce(w)
  <2> DEFINE r == [work[w] EXCEPT !.pc = "connect"]
             n == Announced(suites[w], work[w].config.of)
             q == [progress[w] EXCEPT !.total = n]
  <2>1. Moves(w, r, ss, q) /\ UNCHANGED fileVars /\ now.pc = "announce"
    BY <1>3, <1>0 DEF Announce, LogTestsCount, Emit, Moves
  <2>2. r.fresh = now.fresh /\ r.pc = "connect" /\ r.config = now.config
    BY <1>0 DEF Started
  <2> HIDE DEF r, n
  <2>3. q.total = n
    BY <1>0 DEF Template
  <2> HIDE DEF q
  <2>4. ASSUME r.fresh PROVE FreshOf(r, ss, q.total)
    <3>1. ss = AtImport /\ r.config \in Files
      BY <1>0, <2>1, <2>2, <2>4 DEF FreshOK, FreshOf
    <3>2. SuitesOf(r.config.of, ss) /\ q.total = Announced(AtImport, r.config.of)
      BY <2>2, <2>3, <3>1, AtImportOK DEF n
    <3> QED
      BY <2>2, <3>1, <3>2 DEF FreshOf, Selecting
  <2> QED
    BY <2>1, <2>4, MovesOK
<1>4. CASE StartRun(w)
  <2> DEFINE r == [work[w] EXCEPT !.pc = "select", !.round = @ + 1, !.done = 0]
             q == [progress[w] EXCEPT !.run = work[w].round + 1, !.count = 0]
  <2>1. Moves(w, r, ss, q) /\ UNCHANGED fileVars /\ now.pc \in {"connect", "tests"}
    BY <1>4, <1>0 DEF StartRun, LogRunStarts, Emit, BetweenRuns, Moves
  <2>2. r.fresh = now.fresh /\ r.pc = "select" /\ r.config = now.config /\ q.total = p.total
    BY <1>0 DEF Started, Template
  <2> HIDE DEF r, q
  <2>3. r.fresh => FreshOf(r, ss, q.total)
    BY <1>0, <2>1, <2>2 DEF FreshOK, FreshOf, Selecting
  <2> QED
    BY <2>1, <2>3, MovesOK
<1>5. CASE SelectTests(w)
  <2> DEFINE done == Configured(suites[w], work[w].config.of)
             r == [work[w] EXCEPT !.pc = "tests", !.plan = TestsToRun(done), !.todo = TestsToRun(done)]
  <2>1. CASE done.ok
    <3>1. Moves(w, r, done.suites, p) /\ UNCHANGED fileVars /\ now.pc = "select"
      BY <1>5, <1>0, <2>1 DEF SelectTests, Moves, progressVars
    <3> HIDE DEF done
    <3>2. r.fresh = now.fresh /\ r.pc = "tests" /\ r.config = now.config /\ r.plan = TestsToRun(done)
      BY <1>0 DEF Started
    <3> HIDE DEF r
    <3>3. ASSUME r.fresh PROVE FreshOf(r, done.suites, p.total)
      <4>1. /\ now.config \in Files /\ SuitesOf(now.config.of, ss)
            /\ p.total = Announced(AtImport, now.config.of)
        BY <1>0, <3>1, <3>2, <3>3 DEF FreshOK, FreshOf, Selecting
      <4>2. SuitesOf(now.config.of, done.suites) /\ TestsToRun(done) = AskedOf(now.config.of)
        BY <2>1, <4>1, ConfigsOK, ConfiguredOK DEF done
      <4> QED
        BY <3>2, <4>1, <4>2 DEF FreshOf, Selecting
    <3> QED
      BY <3>1, <3>3, MovesOK
  <2>2. CASE ~ done.ok
    <3>1. EndTask(w, "failed") /\ suites' = [suites EXCEPT ![w] = done.suites]
      BY <1>5, <2>2 DEF SelectTests
    <3> HIDE DEF done
    <3>2. Moves(w, [Started EXCEPT !.fresh = FALSE], done.suites, Template) /\ UNCHANGED fileVars
      BY <1>0, <3>1 DEF EndTask, LogTaskEnded, Emit, Moves
    <3>3. ~ [Started EXCEPT !.fresh = FALSE].fresh
      BY DEF Started
    <3> QED
      BY <3>2, <3>3, MovesOK
  <2> QED
    BY <2>1, <2>2
<1>6. CASE UnknownSuite(w) \/ NoMachine(w) \/ Complete(w) \/ RunRaises(w)
  <2>1. \E end : EndTask(w, end) /\ UNCHANGED suites
    BY <1>6 DEF UnknownSuite, NoMachine, Complete, RunRaises
  <2>2. Moves(w, [Started EXCEPT !.fresh = FALSE], ss, Template) /\ UNCHANGED fileVars
    BY <1>0, <2>1 DEF EndTask, LogTaskEnded, Emit, Moves
  <2>3. ~ [Started EXCEPT !.fresh = FALSE].fresh
    BY DEF Started
  <2> QED
    BY <2>2, <2>3, MovesOK
<1>7. CASE StartSuite(w) \/ InsertConfiguration(w) \/ StartTest(w) \/ FinishTest(w) \/ RaiseTest(w)
  <2>1. PICK r, q : /\ Moves(w, r, ss, q) /\ UNCHANGED fileVars
                    /\ now.pc \in {"insert", "tests", "testing"}
                    /\ r.pc \in {"insert", "tests", "testing"} /\ r.fresh = now.fresh
                    /\ r.config = now.config /\ r.plan = now.plan /\ q.total = p.total
    <3>1. CASE StartSuite(w)
      <4> DEFINE found == configRows > 0
                 left  == SystemTests + Cardinality(Head(work[w].todo))
                 r == [work[w] EXCEPT !.pc = "insert", !.todo = Tail(@), !.found = found,
                                      !.left = left]
      <4>1. Moves(w, r, ss, p) /\ UNCHANGED fileVars /\ now.pc = "tests"
        BY <1>0, <3>1 DEF StartSuite, Moves, progressVars
      <4> HIDE DEF found, left
      <4>2. /\ r.pc = "insert" /\ r.fresh = now.fresh
            /\ r.config = now.config /\ r.plan = now.plan
        BY <1>0 DEF Started
      <4> HIDE DEF r
      <4> QED
        BY <4>1, <4>2
    <3>2. CASE InsertConfiguration(w)
      <4> DEFINE r == [work[w] EXCEPT !.pc = "tests"]
      <4>1. Moves(w, r, ss, p) /\ UNCHANGED fileVars /\ now.pc = "insert"
        BY <1>0, <3>2 DEF InsertConfiguration, Moves, progressVars
      <4>2. /\ r.pc = "tests" /\ r.fresh = now.fresh
            /\ r.config = now.config /\ r.plan = now.plan
        BY <1>0 DEF Started
      <4> HIDE DEF r
      <4> QED
        BY <4>1, <4>2
    <3>3. CASE StartTest(w)
      <4> DEFINE r == [work[w] EXCEPT !.pc = "testing"]
                 q == [progress[w] EXCEPT !.busy = TRUE]
      <4>1. Moves(w, r, ss, q) /\ UNCHANGED fileVars /\ now.pc = "tests"
        BY <1>0, <3>3 DEF StartTest, LogTestStarts, Emit, Moves
      <4>2. /\ r.pc = "testing" /\ r.fresh = now.fresh /\ q.total = p.total
            /\ r.config = now.config /\ r.plan = now.plan
        BY <1>0 DEF Started, Template
      <4> HIDE DEF r, q
      <4> QED
        BY <4>1, <4>2
    <3>4. CASE FinishTest(w)
      <4> DEFINE r == [work[w] EXCEPT !.pc = "tests", !.left = @ - 1, !.done = @ + 1]
                 q == [progress[w] EXCEPT !.count = @ + 1, !.busy = FALSE]
      <4>1. Moves(w, r, ss, q) /\ UNCHANGED fileVars /\ now.pc = "testing"
        BY <1>0, <3>4 DEF FinishTest, LogTestFinished, Emit, Moves
      <4>2. /\ r.pc = "tests" /\ r.fresh = now.fresh /\ q.total = p.total
            /\ r.config = now.config /\ r.plan = now.plan
        BY <1>0 DEF Started, Template
      <4> HIDE DEF r, q
      <4> QED
        BY <4>1, <4>2
    <3>5. CASE RaiseTest(w)
      <4> DEFINE r == [work[w] EXCEPT !.pc = "tests", !.left = @ - 1]
      <4>1. Moves(w, r, ss, p) /\ UNCHANGED fileVars /\ now.pc = "testing"
        BY <1>0, <3>5 DEF RaiseTest, Moves, progressVars
      <4>2. /\ r.pc = "tests" /\ r.fresh = now.fresh
            /\ r.config = now.config /\ r.plan = now.plan
        BY <1>0 DEF Started
      <4> HIDE DEF r
      <4> QED
        BY <4>1, <4>2
    <3> QED
      BY <1>7, <3>1, <3>2, <3>3, <3>4, <3>5
  <2>2. r.fresh => FreshOf(r, ss, q.total)
    BY <1>0, <2>1 DEF FreshOK, FreshOf, Selecting
  <2> QED
    BY <2>1, <2>2, MovesOK
<1>8. CASE Close(w)
  <2>1. Moves(w, now, ss, p) /\ UNCHANGED fileVars
    BY <1>8, <1>0 DEF Close, CloseFile, workVars, Moves
  <2>2. now.fresh => FreshOf(now, ss, p.total)
    BY <1>0 DEF FreshOK
  <2> QED
    BY <2>1, <2>2, MovesOK
<1>9. CASE Crash(w)
  <2>1. Moves(w, Started, AtImport, Template) /\ UNCHANGED fileVars
    BY <1>0, <1>9 DEF Crash, Moves
  <2>2. FreshOf(Started, AtImport, Template.total)
    BY DEF FreshOf, Started, Selecting
  <2> QED
    BY <2>1, <2>2, MovesOK
<1> QED
  BY <1>1, <1>2, <1>3, <1>4, <1>5, <1>6, <1>7, <1>8, <1>9 DEF Worker

LEMMA NextFreshInv == WorkOK /\ TablesOK /\ FreshInv /\ [Next]_vars => FreshInv'
<1> SUFFICES ASSUME WorkOK, TablesOK, FreshInv, [Next]_vars PROVE FreshInv'
  OBVIOUS
<1>1. CASE \E w \in Workers : Worker(w) \/ Crash(w)
  BY <1>1, WorkerFreshInv
<1>2. ASSUME NEW c \in Saved, OpenConfig(c) PROVE FilesOK'
  BY <1>2 DEF OpenConfig, FilesOK, Files, Configs
<1>3. \/ \E w \in Workers : Worker(w) \/ Crash(w)
      \/ UNCHANGED <<suites, work, progress>> /\ UNCHANGED fileVars
      \/ UNCHANGED <<suites, work, progress>> /\ (ResetConfig \/ WriteConfig \/ RestartWeb)
      \/ UNCHANGED <<suites, work, progress>> /\ \E c \in Saved : OpenConfig(c)
  BY DEF Next, User, RunTests, OpenConfig, ResetConfig, WriteConfig, RestartWeb, PollStatus, vars,
         workVars, progressVars
<1>4. CASE UNCHANGED <<suites, work, progress>> /\ UNCHANGED fileVars
  <2>1. FilesOK'
    BY <1>4 DEF FreshInv, FilesOK, fileVars
  <2> QED
    BY <1>4, <2>1 DEF FreshInv, FreshOK
<1>5. CASE UNCHANGED <<suites, work, progress>> /\ (ResetConfig \/ WriteConfig \/ RestartWeb)
  <2>1. FilesOK'
    BY <1>5 DEF ResetConfig, WriteConfig, RestartWeb, FreshInv, FilesOK
  <2> QED
    BY <1>5, <2>1 DEF FreshInv, FreshOK
<1>6. CASE UNCHANGED <<suites, work, progress>> /\ \E c \in Saved : OpenConfig(c)
  <2>1. FilesOK'
    BY <1>2, <1>6
  <2> QED
    BY <1>6, <2>1 DEF FreshInv, FreshOK
<1> QED
  BY <1>1, <1>3, <1>4, <1>5, <1>6

(***************************************************************************)
(* FreshWorkerObeys: whatever the configuration lists, selects and         *)
(* overrides, however often a suite is listed, and in every run.           *)
(***************************************************************************)
THEOREM FreshWorkerObeysCorrect == Spec => []FreshWorkerObeys
<1>1. Init => FreshInv
  <2> SUFFICES ASSUME Init PROVE FreshInv
    OBVIOUS
  <2>1. \A w \in Workers : work[w] = Started /\ suites[w] = AtImport
    BY DEF Init
  <2>2. FreshOf(Started, AtImport, 0) /\ \A n : FreshOf(Started, AtImport, n)
    BY DEF FreshOf, Started, Selecting
  <2>3. FilesOK /\ DOMAIN suites = Workers
    BY DEF Init, FilesOK
  <2> QED
    BY <2>1, <2>2, <2>3 DEF FreshInv, FreshOK
<1>2. WorkOK /\ TablesOK /\ FreshInv /\ [Next]_vars => FreshInv'
  BY NextFreshInv
<1>3. FreshInv => FreshWorkerObeys
  <2> SUFFICES ASSUME FreshInv, NEW w \in Workers, work[w].fresh, work[w].pc = "insert"
               PROVE  /\ work[w].plan = AskedOf(work[w].config.of)
                      /\ NamesExist(work[w].config.of) => progress[w].total = NumberOf(work[w].plan)
    BY DEF FreshWorkerObeys, Obeys
  <2> DEFINE c == work[w].config.of
  <2>1. /\ work[w].config \in Files /\ work[w].plan = AskedOf(c)
        /\ progress[w].total = Announced(AtImport, c)
    BY DEF FreshInv, FreshOK, FreshOf, Selecting
  <2>2. c.suites \in Seq(STRING)
    BY <2>1, ConfigsOK
  <2> QED
    BY <2>1, <2>2, AnnouncedOK
<1>4. Inv => WorkOK /\ TablesOK
  BY DEF Inv, TypeInv
<1> QED
  BY <1>1, <1>2, <1>3, <1>4, InvCorrect, PTL DEF Spec
=============================================================================
