------------------------------ MODULE WebTasks ------------------------------
(***************************************************************************)
(* The service: pages of a browser, the web process, the task table, the   *)
(* worker processes that run the tasks, the configuration file of a        *)
(* distribution and the table of configurations they share.  All tasks are *)
(* default-mode tasks of one distribution.                                 *)
(***************************************************************************)
EXTENDS SuiteConfig, Progress

CONSTANTS
  Pages,         \* open pages of the distribution
  Saved,         \* the configurations a user may save
  DefaultSuites, \* the suites of the default configuration
  Runs,          \* test_runs_count of every task
  MaxSaves,      \* BOUND: saves of the configuration
  MaxTroubles    \* BOUND: workers killed, restarts of the web process, tests that raise

ASSUME BoundAssumption ==
  /\ IsFiniteSet(Workers) /\ IsFiniteSet(Tasks) /\ Tasks = 1 .. Cardinality(Tasks)
  /\ Runs \in Nat \ {0}
  /\ {MaxSaves, MaxTroubles} \subseteq Nat

\* The suites of a configuration are a list of names.
ASSUME ConfigAssumption ==
  DefaultSuites \in Seq(STRING) /\ \A c \in Saved : c.suites \in Seq(STRING)

VARIABLES
  page,       \* the task each page polls, or NoTask
  known,      \* test_runs: the tasks the web process remembers
  status,     \* the task table: status of each task
  queue,      \* tasks that wait for a worker
  configFile, \* the configuration file: absent, torn, or a configuration
  saving,     \* the configuration a request has opened the file for
  saves, troubles,
  suites,     \* the suite singletons of each worker
  work,       \* what each worker is doing
  configRows  \* rows in the table of configurations

webVars  == <<page, known>>
fileVars == <<configFile, saving, saves>>
taskVars == <<status, queue>>
workVars == <<suites, work, configRows, troubles>>
vars     == <<webVars, fileVars, taskVars, workVars, progressVars>>

Nothing == [is |-> "nothing"]
Config(c) == [is |-> "config", of |-> c]

Started == [pc |-> "idle", task |-> NoTask, config |-> Nothing, round |-> 0, plan |-> <<>>,
            todo |-> <<>>, left |-> 0, done |-> 0, found |-> FALSE, fresh |-> TRUE]

Phases == {"idle", "config", "announce", "connect", "select", "insert", "tests", "testing"}

TypeOK ==
  /\ page \in [Pages -> Tasks \cup {NoTask}] /\ known \subseteq Tasks
  /\ status \in [Tasks -> {"none", "queued", "running", "completed", "failed"}]
  /\ queue \in Seq(Tasks) /\ saves \in 0 .. MaxSaves
  /\ troubles \in 0 .. MaxTroubles
  /\ configFile \in {Nothing, Torn} \cup {Config(c) : c \in Saved}
  /\ saving \in {Nothing} \cup {Config(c) : c \in Saved}
  /\ configRows \in Nat
  /\ \A w \in Workers :
       /\ work[w].pc \in Phases /\ (work[w].task = NoTask) = (work[w].pc = "idle")
       /\ work[w].round \in 0 .. Runs /\ work[w].left \in Nat /\ work[w].done \in Nat
       /\ procToTask[w] = work[w].task
       /\ \A s \in DOMAIN Catalog :
            suites[w][s].tests # {} /\ suites[w][s].tests \subseteq Catalog[s]
            /\ Fits(suites[w][s].tests, suites[w][s].total)

Init ==
  /\ page = [p \in Pages |-> NoTask] /\ known = {}
  /\ configFile = Nothing /\ saving = Nothing /\ saves = 0
  /\ status = [t \in Tasks |-> "none"] /\ queue = <<>>
  /\ suites = [w \in Workers |-> AtImport] /\ work = [w \in Workers |-> Started]
  /\ configRows = 0 /\ troubles = 0
  /\ ProgressInit

Trouble == troubles < MaxTroubles /\ troubles' = troubles + 1

(***************************************************************************)
(* The web process and the pages.                                          *)
(***************************************************************************)
\* The run button is disabled while the page polls.
RunTests(p, t) ==
  /\ page[p] = NoTask /\ status[t] = "none" /\ \A u \in Tasks : u < t => status[u] # "none"
  /\ status' = [status EXCEPT ![t] = "queued"] /\ queue' = Append(queue, t)
  /\ known' = known \cup {t}
  /\ page' = [page EXCEPT ![p] = t]
  /\ UNCHANGED <<fileVars, workVars, progressVars>>

\* MUTANT of PollStatus: the page goes on polling after an answer it does not know.
PollForever(p) ==
  /\ page[p] # NoTask
  /\ page' = [page EXCEPT ![p] = IF page[p] \in known /\ status[page[p]] \in {"completed", "failed"}
                                 THEN NoTask ELSE @]
  /\ UNCHANGED <<known, fileVars, taskVars, workVars, progressVars>>

\* get_test_status, and what the page does with the answer.
PollStatus(p) ==
  LET t == page[p]
      answer == IF t \notin known THEN "unknown"
                ELSE IF status[t] \in {"queued", "running"} THEN "running" ELSE status[t]
  IN  /\ t # NoTask
      /\ page' = [page EXCEPT ![p] = IF answer = "running" THEN t ELSE NoTask]
      /\ UNCHANGED <<known, fileVars, taskVars, workVars, progressVars>>

\* test_runs is a dictionary of the process.
RestartWeb ==
  /\ Trouble /\ known' = {} /\ saving' = Nothing
  /\ UNCHANGED <<page, configFile, saves, taskVars, suites, work, configRows, progressVars>>

\* api_save_test_config opens the file with "w" and fills it when it closes it.
OpenConfig(c) ==
  /\ saving = Nothing /\ saves < MaxSaves /\ saves' = saves + 1
  /\ saving' = Config(c) /\ configFile' = Torn
  /\ UNCHANGED <<webVars, taskVars, workVars, progressVars>>

\* What is written to a file that was removed meanwhile is lost.
WriteConfig ==
  /\ saving # Nothing /\ saving' = Nothing
  /\ configFile' = IF configFile = Torn THEN saving ELSE Nothing
  /\ UNCHANGED <<webVars, saves, taskVars, workVars, progressVars>>

\* api_reset_test_config, which may come while a save has the file open: as many
\* resets as saves at most, for it needs a file.
ResetConfig ==
  /\ configFile # Nothing /\ configFile' = Nothing
  /\ UNCHANGED <<saving, saves, webVars, taskVars, workVars, progressVars>>

(***************************************************************************)
(* A worker process: run_test_task and run_tests.  A step that logs a      *)
(* record leaves the progress file open, and CloseFile comes next.         *)
(***************************************************************************)
At(w, from) == work[w].pc \in from /\ ~ writing[w]
Become(w, r) == work' = [work EXCEPT ![w] = r]

Alone == UNCHANGED <<webVars, fileVars, taskVars, troubles>>

TakeTask(w) ==
  /\ At(w, {"idle"}) /\ queue # <<>>
  /\ queue' = Tail(queue) /\ status' = [status EXCEPT ![Head(queue)] = "running"]
  /\ Become(w, [Started EXCEPT !.pc = "config", !.task = Head(queue), !.fresh = work[w].fresh])
  /\ LogTaskRunning(w, Head(queue))
  /\ UNCHANGED <<suites, configRows, troubles, webVars, fileVars>>

\* run_test_task returns, or raises, and the worker stores what became of it.
EndTask(w, end) ==
  /\ status' = [status EXCEPT ![work[w].task] = end]
  /\ Become(w, [Started EXCEPT !.fresh = FALSE]) /\ LogTaskEnded(w)
  /\ UNCHANGED <<queue, configRows, troubles, webVars, fileVars>>

\* load_test_config: a file that cannot be read is replaced by the default.
LoadConfig(w) ==
  /\ At(w, {"config"})
  /\ Become(w, [work[w] EXCEPT !.pc = "announce",
                  !.config = IF configFile \in {Nothing, Torn}
                             THEN Config(DefaultConfig(DefaultSuites)) ELSE configFile])
  /\ UNCHANGED <<suites, configRows, progressVars>> /\ Alone

Announce(w) ==
  /\ At(w, {"announce"}) /\ Countable(work[w].config.of)
  /\ LogTestsCount(w, Announced(suites[w], work[w].config.of))
  /\ Become(w, [work[w] EXCEPT !.pc = "connect"]) /\ UNCHANGED <<suites, configRows>> /\ Alone

UnknownSuite(w) ==
  /\ At(w, {"announce"}) /\ ~ Countable(work[w].config.of)
  /\ EndTask(w, "failed") /\ UNCHANGED suites

\* wait_remote finds no machine: sys.exit(1).
NoMachine(w) == At(w, {"connect"}) /\ EndTask(w, "failed") /\ UNCHANGED suites

\* The machine is there, or the last suite of a run is over.
BetweenRuns(w) ==
  \/ At(w, {"connect"})
  \/ At(w, {"tests"}) /\ work[w].left = 0 /\ work[w].todo = <<>>

StartRun(w) ==
  /\ BetweenRuns(w) /\ work[w].round < Runs
  /\ Become(w, [work[w] EXCEPT !.pc = "select", !.round = @ + 1, !.done = 0])
  /\ LogRunStarts(w, work[w].round + 1)
  /\ UNCHANGED <<suites, configRows>> /\ Alone

Complete(w) ==
  /\ BetweenRuns(w) /\ work[w].round = Runs
  /\ EndTask(w, "completed") /\ UNCHANGED suites

\* _run_single, up to the loop over suites_to_run.
SelectTests(w) ==
  LET configured == Configured(suites[w], work[w].config.of)
  IN  /\ At(w, {"select"})
      /\ suites' = [suites EXCEPT ![w] = configured.suites]
      /\ IF configured.ok
         THEN /\ Become(w, [work[w] EXCEPT !.pc = "tests", !.plan = TestsToRun(configured),
                                           !.todo = TestsToRun(configured)])
              /\ Alone /\ UNCHANGED <<configRows, progressVars>>
         ELSE EndTask(w, "failed")

\* TestsRunner(client, database, suite).run(), with two system tests of its own;
\* insert_configuration looks the configuration up in a transaction of its own.
StartSuite(w) ==
  /\ At(w, {"tests"}) /\ work[w].left = 0 /\ work[w].todo # <<>>
  /\ Become(w, [work[w] EXCEPT !.pc = "insert", !.todo = Tail(@), !.found = configRows > 0,
                               !.left = SystemTests + Cardinality(Head(work[w].todo))])
  /\ UNCHANGED <<suites, configRows, progressVars>> /\ Alone

\* MUTANT of InsertConfiguration: the look-up does not matter.
InsertAlways(w) ==
  /\ At(w, {"insert"}) /\ Become(w, [work[w] EXCEPT !.pc = "tests"])
  /\ configRows' = configRows + 1
  /\ UNCHANGED <<suites, progressVars>> /\ Alone

InsertConfiguration(w) ==
  /\ At(w, {"insert"}) /\ Become(w, [work[w] EXCEPT !.pc = "tests"])
  /\ configRows' = IF work[w].found THEN configRows ELSE configRows + 1
  /\ UNCHANGED <<suites, progressVars>> /\ Alone

StartTest(w) ==
  /\ At(w, {"tests"}) /\ work[w].left > 0
  /\ Become(w, [work[w] EXCEPT !.pc = "testing"]) /\ LogTestStarts(w)
  /\ UNCHANGED <<suites, configRows>> /\ Alone

FinishTest(w) ==
  /\ At(w, {"testing"})
  /\ Become(w, [work[w] EXCEPT !.pc = "tests", !.left = @ - 1, !.done = @ + 1])
  /\ LogTestFinished(w) /\ UNCHANGED <<suites, configRows>> /\ Alone

\* A test that raises is BROKEN, and logs no finish.
RaiseTest(w) ==
  /\ At(w, {"testing"}) /\ Trouble
  /\ Become(w, [work[w] EXCEPT !.pc = "tests", !.left = @ - 1])
  /\ UNCHANGED <<suites, configRows, progressVars, webVars, fileVars, taskVars>>

\* The connection is lost outside the try of a test.
RunRaises(w) ==
  /\ At(w, {"insert", "tests", "testing"}) /\ EndTask(w, "failed") /\ UNCHANGED suites

Close(w) == CloseFile(w) /\ UNCHANGED <<webVars, fileVars, taskVars, workVars>>

\* supervisord starts the worker again; nobody takes its task up.
Crash(w) ==
  /\ Trouble /\ Become(w, Started) /\ suites' = [suites EXCEPT ![w] = AtImport]
  /\ progress' = [progress EXCEPT ![w] = Template]
  /\ procToTask' = [procToTask EXCEPT ![w] = NoTask]
  /\ writing' = [writing EXCEPT ![w] = FALSE]
  /\ UNCHANGED <<file, configRows, webVars, fileVars, taskVars>>

Worker(w) ==
  \/ TakeTask(w) \/ LoadConfig(w) \/ Announce(w) \/ UnknownSuite(w) \/ NoMachine(w)
  \/ StartRun(w) \/ Complete(w) \/ SelectTests(w) \/ StartSuite(w) \/ InsertConfiguration(w)
  \/ StartTest(w) \/ FinishTest(w) \/ RaiseTest(w) \/ RunRaises(w) \/ Close(w)

User ==
  \/ \E p \in Pages, t \in Tasks : RunTests(p, t)
  \/ \E c \in Saved : OpenConfig(c)
  \/ ResetConfig

Next ==
  \/ User \/ WriteConfig \/ RestartWeb
  \/ \E p \in Pages : PollStatus(p)
  \/ \E w \in Workers : Worker(w) \/ Crash(w)

\* A page polls every two seconds; a worker goes on while its process lives, and the
\* machine answers (TestsRunner says what happens when it does not).
Fairness ==
  /\ \A p \in Pages : WF_vars(PollStatus(p))
  /\ \A w \in Workers : WF_vars(Worker(w))

Spec     == Init /\ [][Next]_vars
FairSpec == Spec /\ Fairness
-----------------------------------------------------------------------------
(***************************************************************************)
(* Properties.                                                             *)
(***************************************************************************)
\* What a configuration asks of a suite, from the catalog as it is imported.
Asked(config, name) ==
  IF name \in DOMAIN config.selected /\ Catalog[name] \cap config.selected[name] # {}
  THEN Catalog[name] \cap config.selected[name] ELSE Catalog[name]

AndAsked(asked, name, config) ==
  IF name \in DOMAIN Catalog THEN Append(asked, Asked(config, name)) ELSE asked

AskedOf(config) ==
  LET asked == FoldLeft(LAMBDA ts, name : AndAsked(ts, name, config), <<>>, config.suites)
  IN  IF asked = <<>> THEN <<AllSubsystems>> ELSE asked

\* Every name the configuration selects, of the suites it lists, exists.
NamesExist(config) ==
  /\ \A i \in DOMAIN config.suites : config.suites[i] \in DOMAIN Catalog
  /\ \A name \in DOMAIN config.selected :
       config.selected[name] # {} /\ config.selected[name] \subseteq Catalog[name]

\* When TestsRunner is given a suite.
Obeys(w) ==
  work[w].pc = "insert" =>
    /\ work[w].plan = AskedOf(work[w].config.of)
    /\ NamesExist(work[w].config.of) => progress[w].total = NumberOf(work[w].plan)

\* "Leave all unchecked to run all tests": a task runs the tests its configuration
\* asks for (_run_single), and run_tests has announced as many.
RunsWhatIsAsked == \A w \in Workers : Obeys(w)

\* The first task a worker process runs, in each of its runs, runs what is asked for and
\* announced, although a run writes its selection into the suites the next one reads.
FreshWorkerObeys == \A w \in Workers : work[w].fresh => Obeys(w)

\* A progress file tells the tests its own task has finished in its present run; the
\* file of a completed task is whole and tells of the last run.
ProgressTruthful ==
  /\ \A w \in Workers : work[w].task # NoTask =>
       \A r \in Shown(work[w].task) : r.count = work[w].done /\ r.run = work[w].round
  /\ \A t \in Tasks : status[t] = "completed" => \E r \in Shown(t) : r.run = Runs

\* However many suites and tasks run, the look-up that is not one transaction with the
\* insertion (insert_configuration) leaves at most one row per worker for one machine.
RowPerWorkerAtMost == configRows <= Cardinality(Workers)

\* A task whose worker was killed: it stays RUNNING in the table.
Orphaned(t) == status[t] = "running" /\ \A w \in Workers : work[w].task # t

\* A page that polls a task is told an end (completed, failed, or not known to a web
\* process that restarted), unless the task's worker was killed.
PagesAreAnswered ==
  \A p \in Pages, t \in Tasks : page[p] = t ~> (page[p] # t \/ Orphaned(t))
=============================================================================
