# A verification project for imgtests

`imgtests` (`src/src/imgtests`) tests operating-system images: it connects to a
machine under test over SSH, loads it with tools such as `stress-ng` and `fio`,
collects what the machine's journal says, stores results in PostgreSQL, and
reports on them. This directory holds TLA+ modules that model it, TLC
configurations that check the models on small instances, and proofs checked by
TLAPS. `PROJECT.json` is the index: which definition models which lines, which
run checks which property, which mutant breaks it, which hazards the code has.
Paths below are relative to `src/src/imgtests`.

## 1. Inventory

| Part | State it keeps | Operations | What is hard about it | What makes it correct |
|---|---|---|---|---|
| **Default runner** `runner.py` `TestsRunner`, `planning/base.py` | counters of results and statuses; one `Event` per group of tests; a thread pool; the SSH session of the client | `run`, `handle_tests`; per test: reconnect, start watchdog, run, collect system errors, clean up, join watchdog, publish counts | a watchdog thread per test shares session, pool and event with the main thread and with its successors; errors outside the `try` | counts, rows and published counts agree; a test starts clean; a watchdog only blames a machine that was lost, and then releases the test |
| **Plan builder** `planning/plan_builder.py`, `profiles.py`, `models.py` | dictionaries of tool arguments, shared by all tasks of the process | `build_plan`: divide seconds over stages, build tasks | rounding, loops that give and take seconds, aliasing of arguments | a plan fills its time, every stage has its share and at least a second |
| **Profiled runner, plan executor** `planning/executor.py`, `runner.py` `ProfiledPlanRunner` | results of a stage by task, counts, metrics; a data file per fio task on the machine | `_run_matrix` over `_run_one` over `execute`; a thread per task; retry of stress-ng, polls of systemd-analyze | completion order, exceptions in threads, losses of the connection in any phase, no watchdog | rows in plan order; counts complete or absent; no thread and no file outlives its stage |
| **Remote execution** `exec/exec.py` | paramiko `Transport` per client, a channel per command | `__call__`, `close`, `reconnect`, `upload`, `wait_remote`, `run_pipeline` | polling of two streams and an exit status that all change concurrently; timeouts | output complete, no channel left open, a call ends |
| **Results database** `database/` | configurations, experiments, rows | insert, update, list | committed-then-raised inserts; look-up-then-insert by two workers | see module `ExperimentLog`; at most one row per worker for one configuration |
| **Suite configuration, `run_tests`** `runner.py`, `suites/map.py` | suite singletons of the process | load config, announce the number of tests, override durations, filter tests, run n times | what one task changes is still there for the next | a task runs, and announces, what its configuration says |
| **Progress log** `logger.py` | counters per process, a JSON file per task | parse log records, rewrite the file | events inferred from messages; records of failed tests are missing; the file is torn while it is rewritten | the count shown is that of the tests finished in the task's present run |
| **Web interface** `web/tests_interface` | tasks in memory, configurations in files, distributions in a table | enqueue, status, progress, save/reset configuration | two workers, a web process that restarts, files rewritten while read | a page that polls is told an end |
| **Snapshots** `snapshot.py` | `snapshot_loaded` | `switch_to_snapshot`, `create_snapshot`, reconnect | a timeout is the sign of success | tests run on the snapshot asked for |
| **Fault injection** `exec/debugfs.py`, `suites/fault_injection.py` | parameters in the machine's debugfs | set, cycle, clean up | partial writes, results ignored | no later test runs with faults injected, unless the clean-up was cut off |
| **Network suites** `suites/network`, `exec/loaders/iperf3.py` | a deadline, a server process on the machine, futures | four tests: server, client, stress-ng beside them | server and client in two threads, a port held by a stray server, deadline arithmetic | results are earned and in time, servers are stopped |
| **Drive suites** `suites/drive`, `exec/loaders/dmsetup.py` | cases of a suite, device-mapper devices, a queue of results | plan cases, run them in turn or in three threads | rounding, exceptions between making and removing a device, futures and queue looked at one after the other | seconds add up, devices are removed, no result is left in the queue |
| **Other suites** `suites/`, `suites/general` | futures of the loads | sequences of loads with a row each; pairs of loads that keep each other going | resubmitted loads that outlive the row | a row says PASSED only of loads that ended well |
| **Loaders, observers, package managers** `exec/` | none | command lines and parsers | formats | conversions; only what the suites rely on is modelled |
| **Reporting** `reporting/` | a workbook | export, pair experiments, collect samples, statuses, charts, HTML | duplicate columns, missing runs, direction inferred from words, zero and negative baselines | fair pairs, only repetitions lost, statuses that agree |
| **Images, containers, dashboards** `docker`, `layers`, `metabase_prototype`, `scripts`, `conf` | – | build files | – | not modelled |

How they interact: the web interface enqueues a task; one of two `db_worker`
processes runs it (`tasks.py` → `run_tests` → `_run_single`). In default mode it
creates a `TestsRunner` per suite, in profiled mode one `ProfiledPlanRunner`,
which builds a plan per profile and executes it. Both runners drive the machine
through one `SSHClient` and write to the database through `ImgtestsDatabase`;
the log records they emit are what `ProgressHandler` turns into the progress the
web interface shows. Threads exist in three places: the watchdog of each test,
the pool of a stage, and paramiko's reader.

The behaviours that no test of the repository reaches (its tests cover the plan
builder, parsers and reports) are listed in `PROJECT.json` under `hazards`, each
with the properties that would notice it going wrong, or with the reason why no
property does yet.

## 2. Plan

Written, in this order:

1. `TestsRunner` implements `ExperimentLog`; proofs in `TestsRunnerProofs`.
2. `PlanBuilder`: exhaustive over small requests; proofs in `PlanBuilderProofs`,
   on the facts about sums in `SumLemmas`.
3. `PlanExecutor` implements `ExperimentLog`; proofs in `PlanExecutorProofs`.
4. `SshExec`, proofs in `SshExecProofs`.
5. `SuiteConfig` and `Progress`, composed in `WebTasks` with the web process,
   the pages, two workers and the table of configurations; proofs in
   `WebTasksProofs`.
6. `Machine`, and on it `LoadTests`, `NetworkTests`, `DriveTests`, composed in
   `Suites`: any test after any other; proofs in `SuitesProofs`.
7. `DistroComparison`: from the rows of the database to PASS and FAIL; proofs in
   `DistroComparisonProofs`.

Left:

* `run_pipeline`, `wait_remote` and `upload` beside `SshExec`'s call, and
  `Snapshot`, composed with the runner's `run`.

## 3. Modules written

### ExperimentLog

What a reader of the database relies on, whichever runner writes: result rows
are only appended (`AppendRow`, `insert_util_run_result`), and the counts in the
experiment's row are replaced by counts that never go down, whose total is
backed by stored rows and covered by the four statuses (`Publish`,
`update_experiment_tests_count`). It is the abstract specification that
`TestsRunner` and `PlanExecutor` are shown to implement.

### TestsRunner

State: `pc`, `cur`, `step`, `busy` are the main thread (where it is, which test,
how many remote commands of the phase are done, is one in flight); `wd[k]` is the
watchdog thread of test `k`; `event` the two `Event`s; `link` the `Transport` in
`client.ssh_session` and `channels` the pings that have a channel on it; `poolUp`
the executor; `rows`, `observed`, `db` the database; `leftovers` the temporary
directories of the machine; `remote` whether it answers.

A remote command takes two steps, issued and answered, so that anything may
happen between them: the machine falls silent, comes back or resets the
connection, a watchdog closes the session. Each phase of `handle_tests` has the
actions of its success and of its failure; what raises inside the `try` marks the
test BROKEN, what raises outside ends the run. A ping is `open` (opening the
channel) then `exec`; `PingCut` says that the session it was opened on was closed
or replaced. `KillSession` closes the session the client has *now*.

After `run` the pool is closed (`CloseRunner`) and `_run_single` goes on to its
next suite, which opens the session of the same client again. Of these later
suites only that session is modelled (`LaterReconnect`, `LaterConnected`,
`LaterClose`, any number of times): a watchdog that this run left behind sees
nothing else of them.

Abstracted: a test is a sequence of at most `MaxResults` commands, each followed
by a result of any of `ResultStatuses`; the part of `run` before the experiment is
inserted (snapshot, dependencies) is one step that succeeds or fails; `rm -rf` as
root on a connected machine is taken to succeed (the code only logs it if not).
`client is None` (tests on the local machine) has no connection to lose and is
left out.

### PlanBuilder

`build_plan` step by step: validation, truncation, each round of
`_distribute_positive_diff` and `_distribute_negative_diff`, the final fix, each
stage. Weights are the source's in hundredths; `raw` is kept exactly, as its
integer part and the numerator of its fraction, where the code uses floating
point. `shared` holds the one thing about the argument dictionaries that
changes: the duration `build_task` writes into the dictionary of a subsystem and
pattern. `OldDurations` are what an earlier plan of the same process left there.

### PlanExecutor

State: the main thread (`pc`, `prof`, `stage`, `row`, `busy`), the thread of each
task (`task`, `flight`, `tries`, `verdict`), `finished`, the order in which
`as_completed` yields, the local `counts` and `failures`, the database (`rows`
with the position each was written for, `ended`, `published`), and the `files` of
fio on the machine. A task is `begin` (what comes before the load: `which`,
`nproc`, `df`), `load`, `again` (the retry of stress-ng), `remove` (the `finally`
of `_run_fio`), `over`. The matrix of plans is a constant; the branch for unknown
tools is left out because `build_plan` emits only the four modelled ones.

### SshExec

One call of `SSHClient.__call__`: the caller's loop over stdout, stderr and exit
status, the clock, the command, and the connection. `buffered` counts packets
that have arrived and are not read; `fresh` counts those that arrived since the
stream was last found empty (a history variable for `OnlyLateOutputLost`).

### SuiteConfig, Progress, WebTasks

`SuiteConfig` has no variables: `Configure` is one round of the loop of
`_run_single` over `config["suites"]`, a function from the suites of the process
to the suites it leaves behind; `Configured`, `TestsToRun` and `Announced` are
what a task makes of them. `Progress` is `ProgressHandler`: one operation per
kind of record, each of which leaves the file `Torn` until `CloseFile`.

`WebTasks` composes them. `page`, `known`, `status`, `queue` are the pages, the
web process's `test_runs`, the task table and its queue; `configFile` and
`saving` the file of a distribution and a request that has opened it; `work[w]`
and `suites[w]` a worker process: `config` (load the file), `announce`,
`connect`, `select` (`_run_single` up to its loop), `insert` (a suite's
`insert_configuration`, after the look-up), `tests`, `testing`. A reset may fall
into a save: what the save then writes goes to a file that is gone. `RestartWeb` and
`Crash` are the processes supervisord starts again. What a test does, and how
its connection is lost, is `TestsRunner`'s and `Suites`' subject: here a test
finishes, raises, or takes the run with it.

### Machine, LoadTests, NetworkTests, DriveTests, Suites

`TestsRunner` sees a test as a generator of results; `Suites` looks inside. One
test runs at a time (`run`), with the futures it holds (`futures`), on a machine
that keeps what tests leave there: servers, loads and devices (`stray`), and
`faults`. `excused` is a history variable of `CleanStart`: what the code itself
lets stay. `LoadTests` has a catalogue of the tests that run one load after
another (how many, what a load may end in, what the row then says), the paired
loads of the syscalls suite step by step, and the fault-injection tests.
`NetworkTests` keeps the time that is left; `DriveTests` plans the cases of fio
suites, makes and removes devices and runs three suites in threads.

Where two tests of the source follow one pattern, they share its actions and
differ in a record of the catalogue. Loops that poll with `sleep` are one step
per look. A load is its end (`ok`, `bad`, `fatal`, `raised` and what its tool
adds); what it measured is left out. A load raises where its tool does: stress-ng
without a version, a kirk without its report. What its test does of that is
modelled in each of them: a sequence ends, and a test that waits for two loads
ends while the other one runs on (`PairRaises`, `StressRaises`).

### DistroComparison

`Export` (the workbook: which distribution each experiment ran on, the samples
of a row as numbered columns, the sheet each row goes to), `Group` (pairs of
experiments), `Read` and `CollectRow` (sums and numbers of samples by pair,
distribution, source and metric), `WriteStatuses`. Rows of one test with the
same columns share a sheet (`SheetOf`). Its title is the test's name cut to 31
characters; a title that is taken is cut further and numbered (`Title`,
`Suffix`). The source of a row is the title without a number at its end
(`Stripped`, `SourceOf`), so the title of a test is four things: its name, what
is left of that in a title, how long this is, and how much of it is a number. It is
assumed that tests with different titles have different ones once they are cut and
numbered too (no tests `a` and `a_1`, no two names of 31 characters that differ in
the last), that fewer than a thousand sheets share a base, and that a sheet has
room for its rows. A metric's column is a record of what its names say (`tool`,
`name`, `words`), which is what the regular expressions and word lists of the
source find out; the order in which `ContextDirection`, `ExplicitDirection` and
`GenericDirection` look at them is the source's. Percents are exact fractions
where the code uses floating point; values are integers.

## 4. Runs

Every property of a passing run has a mutant in `PROJECT.json`: a plausible bug
in a modelled definition under which TLC finds the property violated.

| Run | What it checks | Bounds, and why they are enough |
|---|---|---|
| `runner` | `TypeOK`, `NoSpuriousKill`, `OneWatchdog`, `StartsClean`, `Accounting`, `DbBacked`, `Observed`, `ImplementsLog`, `SilenceEndsTest`, `LostSessionFailsRun`, `Terminates`, `WatchdogsEnd` | one system test and two suite tests: two groups of tests, a first and a later test, watchdogs of several tests at once; one loss, at any step; sessions of later suites; results of one status, which is enough to tell counts from rows (the proofs have all four); a healthy ping takes less than 10 s, so that `join(10)` gives up on a silent machine only; fair threads |
| `runner_spurious_kill` | violates `NoSpuriousKill` | no loss at all, but a ping may take over 10 s |
| `plan_builder` | `FillsTheTime`, `NearItsShare`, `Answers` | all kinds and patterns, none to six subsystems, 0 to 42 seconds: both loops, every remainder of every layout, more stages than seconds; fractions repeat with the sum of the weights |
| `plan_task_duration` | violates `TaskLastsItsStage` | two subsystems, up to 12 seconds |
| `plan_sum` | violates `SumIsTotal` | two subsystems, up to 12 seconds: a plan of more stages than seconds |
| `ssh_exec` | `TypeOK`, `OnlyLateOutputLost`, `NoOpenChannel`, `EndIsNoticed`, `TimeoutEndsReading` | a window of few packets over both streams, every combination of input and timeout, two losses |
| `ssh_lost_output` | violates `OutputComplete` | plain call, healthy connection |
| `plan_executor` | `RowsFollowPlan`, `OnlyCompleteCounts`, `NoTaskOutlivesStage`, `FilesRemoved`, `HonestVerdict`, `ImplementsLog`, `LossFailsMatrix`, `Terminates` | two profiles, the first of two stages; two tasks at once, each tool once; two losses; fair threads |
| `service` | `FreshWorkerObeys`, `ProgressTruthful`, `RowPerWorkerAtMost`, `PagesAreAnswered` | two workers and two tasks, one page; one suite of two tests, one of them for a time; two runs per task, so that the second run of a task finds the selection of the first; one save, that may be reset, and one trouble, at any step. No symmetry is used: tasks are taken in order |
| `service_selection` | violates `RunsWhatIsAsked` | one worker, two tasks, two saves, no trouble |
| `suites` | `TypeOK`, `CleanStart`, `PassedIsEarned`, `QueueDrained`, `OnTime` | any two tests in turn: what a test leaves meets every other test; budgets at which the network tests are refused, run out of time, have a second each, or exceed what iperf3 takes, and at which fio shrinks its grid, fills it, or takes the next one; two fault directories; three packet-rate profiles for the source's many, which differ in bitrate only |
| `reporting` | `PairedFairly`, `OnlyRepeatsLost`, `StatusesAgree` | up to four experiments of two keys on two distributions and others, starting in any order or together, every set of ids asked for; distributions given once, twice or not at all; two pairs, samples that repeat, numbers around zero and around the epsilon of one percent, the sentinel; rows of two stages whose names differ in what a title has no room for, each with one metric or two, and of a test whose name ends in a number |

The type invariants of `PlanBuilder`, `PlanExecutor` and `WebTasks` are no run's
property: the proofs show `PlanExecutor`'s and contain what they need of the
other two. `MCService.cfg` does not check
for deadlock: the service may idle when nobody asks for a task, and a task whose
worker was killed is taken up by nobody. All other runs check it; programs that
have ended stutter in a step of their own.

What they show, in words:

* On a machine that was never lost, and whose pings take less than ten seconds,
  no watchdog closes a session or shuts the pool, and none outlives its test.
  Without the second condition that is false (`runner_spurious_kill`).
* The published counts of an experiment never claim more than its rows show, at
  no moment and under no failure; a test that raises is counted as BROKEN but not
  in the total, which is why the statuses may exceed the total by it.
* A session lost in a test ends the run, so no test starts on another's files.
* A watchdog that `join(10)` gave up on pings the sessions of later suites, and a
  run that failed on a healthy machine leaves one pinging too. `WatchdogsEnd` is what is
  left: once the client has no session any more, no watchdog stays alive.
* `SilenceEndsTest` is as strong as the code allows: a watchdog that was itself
  inside a ping when the machine fell silent waits as long as the test does.
* A plan fills its time exactly if there is a second for each stage; with fewer
  seconds than stages each stage gets one second, and the plan is longer than it
  was asked to be (`plan_sum`), which the docstring of `_allocate_durations`
  excludes and a test of the repository expects.
* In the profiled runner a lost connection surfaces when the system errors are
  collected: rows of failed tasks are stored, counts are not, and the profiles
  that are left do not run.
* A remote call loses only output that arrives in the last moment; a timeout ends
  the polling of a command that has paused its output, and nothing else.
* A worker process that has not run a task before runs what the configuration
  asks for and announces as many tests, in every run of the task; a later task
  of the process need not (`service_selection`). Two workers that meet a machine
  for the first time may write its configuration twice, never more often.
* The progress shown is never that of another task or run. A page is told an end
  even by a web process that has forgotten the task; only a task whose worker was
  killed stays running for ever.
* `CleanStart` is as strong as the code allows. What may stay on the machine when
  the next test starts: a stress-ng of the syscalls and network suites that was
  resubmitted or waited for in vain, what runs beside a stress-ng without a
  version or a kirk without its report, which raise, the loads beside a client that
  refused its time, a device after an archive that failed or a removal that did, faults when
  the clean-up could not write. Servers are always stopped or have ended.
* With the default time of a test the fault-injection tests have less than the
  sixty seconds each of their subtests needs, and end without a row; so does the
  iperf3 one at any time, as it reads an attribute it does not have
  (`suites/fault_injection.py`). The model has both as what the code does.
* A packet-rate test that is given exactly the time it announces as required runs
  out of it before the first profile, because a part of a second is gone; with a
  second more it runs out only if a profile took too long.
* In a comparison, a sample that equals the first of its row is lost and any other
  is kept; which experiments are paired follows from the order in which they
  started, and a run that one distribution lacks leaves out the other's last.
* The metrics of a test are compared whole only if the title of its sheets has room for
  a number (27 characters at most) and does not end in one. Else its sheets count
  as different sources: those of the executor's "Task result for
  stage=isolated_memory" are cut differently, and a metric that one distribution
  has on the one and the other on the other is not compared.

### Findings

Five disagreements between the code and what it says of itself, each shown by a
run (`PROJECT.json`, `findings`): the watchdog that declares a healthy machine
unavailable (`runner.py:202`); tasks that do not last their stage
(`profiles.py:227`); plans longer than they were asked to be
(`plan_builder.py:196`); output that is dropped (`exec.py:179`); a task that runs
another task's selection (`runner.py:571`).

## 5. Fairness

`Spec` of each module has none; safety needs none. `FairSpec` assumes weak
fairness of every thread of the program (each is a thread of the operating
system, runnable whenever its action is enabled) and of the clock of a call with
a timeout. Nothing is assumed of the machine: it may stay silent for ever, and
properties that need it to answer say so (`Terminates`). A
`TestsRunner` watchdog and main thread are separate fairness conditions, so that
one cannot starve the other. `TimeoutEndsReading` assumes that the command pauses
its output at some time, because the code does not look at the deadline while
there is output to read. In `WebTasks` a page polls every two seconds and a
worker goes on while its process lives; nobody has to save, reset, kill or
restart anything, and no suite has to follow another in `TestsRunner`. One fairness condition per worker is enough, because whatever
a worker may do next, it does next. `Suites` and `DistroComparison` are checked
for safety only.

## 6. Proofs

Every theorem holds for all values of the constants that satisfy the named
assumptions of the module it extends; `tlapm` checks every leaf. Each proof has
a lemma per action, or per kind of action, and a last step that combines them.
The invariants below are what the property needs to be inductive.

**`TestsRunnerProofs`, `SshExecProofs`**

* `TypeCorrect`: `TypeInv`, the type invariant split by the part of the state an
  action touches, is inductive.
* `AccountingCorrect`, `DbBackedCorrect`, `Refinement`: `Accounting` is not
  inductive with `DbBacked` alone; `DbInv` adds that the published counts were
  those of an earlier moment (their total and each status at most the present
  one) and that between tests they are exactly the present ones. With it every
  action maps to a step of `ExperimentLog` or to a stutter.
* `ObservedCorrect`: `ObserverInv` counts the observer rows within the phase.
* `StartsCleanCorrect`: `CleanInv` says which directories the steps of the
  cleanup done so far have emptied: all of them while a command is in flight or
  the session is up, all but the last one's otherwise, because that command may
  have been cut off.
* `NoSpuriousKillCorrect`, `OneWatchdogCorrect` assume `~SlowPings`:
  `HealthyInv` says that while nothing was lost the session is up in every
  phase that uses it, the only live watchdog is the current test's, and its ping has
  its channel.
* `OnlyLateCorrect`: `LookInv` says, for each place in the loop, which streams were
  found empty in this round. `NoOpenChannelCorrect`: `ChannelInv` adds that a call
  that could not open a channel has none.

**`PlanExecutorProofs`**, for every matrix of plans, every number of polls and of
losses

* `TypeCorrect`, `NoTaskOutlivesStageCorrect`: `PoolInv` ties the threads to
  `finished`: a slot is over when it was yielded, and yielded once. As a set of
  distinct slots with as many members as the stage has tasks is all of them
  (`AllYielded`), leaving the loop over `as_completed` leaves no thread.
* `FilesRemovedCorrect`: a file that is neither removed nor given up belongs to a
  fio task of the stage that runs, before the end of its `finally` (`FilesInv`).
* `RowsFollowPlanCorrect`: `RowsInv` says, for each place of the main thread,
  where the next row goes (`NextAt`).
* `OnlyCompleteCountsCorrect`, `HonestVerdictCorrect`, `Refinement`: `StoredInv`
  says how many rows of the stages so far are stored and that `counts` is, status
  by status, their number; `PublishInv` that nothing of a profile is published
  before its last step, and then all of it; `VerdictInv` whose failures are summed
  up. With them every action maps to steps of each profile's `ExperimentLog`.

**`PlanBuilderProofs`**, on `SumLemmas`, for every set of requests

* `FillsTheTimeCorrect` (`PlanInv`): the sum of the durations and `remaining` is
  the total until the loops end, and then the goal. Two facts make the loops end
  there. The shares, rounded down, leave less than a second per stage, so
  `remaining` is at most the number of stages (`SharesAddUp`). And while seconds
  are taken back, round `r` of at most `N` has at most `N - r` of them to take
  (`TakeInv`), because some stage with more than a second is met in each round
  (`Owes`): 36 iterations are enough for six stages, so the loop's own limit
  (`GuardAssumption`), the clamps behind it and `FixLast` never change a duration.
* `NearItsShareCorrect` (`NearInv`): the stages that were given a second are those
  with the largest fractions (`Given`), all of them with one (`GivenHasFraction`),
  and what is given goes once round the stages at most (`LeftOK`), so a duration
  is less than a second from its share. When seconds are taken back, stages of
  one pattern are level but for those between the one taken from and the end of the
  round (`TakeAlike`). `SharedOK` says what the shared dictionaries hold.

**`WebTasksProofs`**, for any number of workers, pages, tasks, and any catalogue

* `ProgressTruthfulCorrect`: `FileInv`; a task that waits is in the queue once, one
  that runs has one worker, and its file tells what that worker's process has
  counted unless it is being rewritten.
* `RowPerWorkerAtMostCorrect`: `ConfigInv`; rows and the workers that have looked
  in vain and may still insert one are together at most the workers.
* `FreshWorkerObeysCorrect`: `FreshInv`; until a fresh worker selects tests its
  suites are those of the import, and afterwards each suite has either the tests of the
  catalogue or those its configuration selects (`SuitesOf`), so that each of the
  runs comes to the same tests. The loop of `_run_single` and the one that collects
  what a configuration asks for go side by side (`SideBySide`, `RoundOK`), one round for
  each name of the list; a `FoldLeft` is unfolded into such rounds by an induction over the
  length of the list (`LoopExists`). `AnnouncedOK`: the numbers of tests added up when the
  configuration is loaded are the length of what is asked for.

**`SuitesProofs`**, for every budget, number of tests, fault directories, packet
rate profiles and every delay

* `CleanStartCorrect`, whichever load raises: `MachineInv` says which futures may run where, and that
  what is on the machine is excused, or the device or the faults of the test that
  still has to remove them.
* `PassedIsEarnedCorrect`: `EarnedInv`; `CatalogueOK` and `FaultRowsOK` go through the rows
  the catalogues promise.
* `QueueDrainedCorrect`: `QueueInv`; a thread of the parallel suites puts results only while the
  test looks at its futures or at the queue again, so that none is put behind the look
  that ends the test.
* `RateKeepsTimeCorrect`: `RateInv`; the share of a profile leaves the profiles
  after it a second and their overhead each.
* `OnTimeCorrect`: the above and `FioKeeps`, which is arithmetic: shrinking the
  grid, rounding and dealing out the seconds that are left keep to the time of a suite of any
  length.
* `TypeCorrect`: a test has a load, a case or a profile left where it starts one
  (`SubInv`).

**`DistroComparisonProofs`**, for any database and request, any metrics, numbers and
epsilon (invariant `Inv`: what each step wrote is a function of the request, and
later steps keep it)

* `PairedFairlyCorrect`: the experiments of a key are in order by their rank
  (`ListingOK`), so that pairing by place pairs by start and leaves out the last
  (`FairPairs`); the lists of the keys share no member, so neither do the pairs after they
  are put together (`FlattenOK`). An id that is configured for both distributions stands
  for one of them only (`DistroOfOK`), and then the other has no experiments in the workbook;
  where both are found they are what the experiments ran on (`OsKept`).
* `OnlyRepeatsLostCorrect`, for tests with names of any length: rows with the same
  test have the same base, and sources differ only where a number does not fit or
  the base ends in one. After `k` samples of a row the cells of a metric that count
  are as many as the samples kept so far, whatever number `NextKey` gives the
  next column (`FlatCellOK`, `RowOK`); what is collected for a metric is, at every moment,
  the sum over the rows read so far, and a row goes only to the side its experiment is on
  (`ValuesOK`, `PlaceOK`).
* `StatusesAgreeCorrect`: percents are compared as products of sums and numbers
  of samples; signs agree (`ChangeIs`), and a mean no worse than one within the
  epsilon is within it, or better, for a baseline of either sign (`NoWorseOK`,
  `StaysAbove`: multiply by what is positive and cancel).

**`SumLemmas`**: `FoldFunctionOnSet` takes an element after another, chosen
anyhow, and facts about it need induction. The library's induction theorems take
a predicate as a parameter, which the installed provers cannot instantiate; here
`LeastNat` (from the library's well-founded ordering of finite sets) gives
induction over the numbers, and with it over finite sets, as facts about sets of
numbers and sets of sets (`AllNats`, `AllSubsets`). With them: the fold exists
and does not depend on the choice (`FoldExists`, `FoldUnique`), and sums may be
split, added, compared, and changed at one place. The module also has what two proofs share:
a finite ordered set has a member of each rank (`EveryRank`), and the places of a sequence
have a greatest one, which is what `FoldLeft` takes away first (`MaxOK`, `OthersOK`).

The assumptions on constants are what the code gives: a matrix has a plan, a
plan a stage and a stage a task (`MatrixAssumption`), tasks are numbered as they are enqueued, workers are
finitely many (`BoundAssumption`), a configuration is a list of names
(`ConfigAssumption`), a machine has a processor
(`LoadAssumption`), what is asked of a comparison is a list, only Poky and SUSE can be
configured, and the database and the columns are finite, a column is one test's and titles are no longer than
Excel's (`RequestAssumption`, `ComparisonAssumption`), and the limit of the loop that takes seconds back is at least 36
(`GuardAssumption`; the source has 10000). Some definitions have a form the prover can
look into: `++` in `LoadTests` stands for `@@`, `Order` in `PlanBuilder` for a
comparison of names.

Only model-checked:

* all liveness, whose proofs need `ENABLED`: `SilenceEndsTest`, `LostSessionFailsRun`,
  `Terminates` and `WatchdogsEnd` of the default runner; `Answers` of the plan builder; `EndIsNoticed` and
  `TimeoutEndsReading` of a remote call; `LossFailsMatrix` and `Terminates` of the plan
  executor; `PagesAreAnswered` of the service;
* the five properties that are violated.


## 7. Not modelled

* Snapshots: one step of the default runner's set-up that may fail. `snapshot.py`
  drives the monitor of a virtual machine, takes a `loadvm` that runs into its
  timeout for success and gives a reconnect up after three minutes; which of
  these is right depends on the monitor, not on the code.
* `build_profiled_settings`, the local-machine branch (`client is None`) of the
  runners, the table of distributions of the web interface.
* Conversions: command lines and parsers of the loaders, observers and package
  managers; regular expressions of the reports, which `DistroComparison` takes
  as what they find; layout, charts and HTML.
* Data that no property tells apart: what a load measured, sizes of files,
  texts of log records.
* Images, containers, dashboards, environment variables.
