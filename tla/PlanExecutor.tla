---------------------------- MODULE PlanExecutor ----------------------------
(***************************************************************************)
(* The profiled runner: ProfiledPlanRunner runs one plan after another     *)
(* (_run_matrix), PlanExecutor.execute runs the stages of a plan, and the  *)
(* tasks of a stage run in a thread pool, each over channels of the one    *)
(* SSH connection.  A remote command is issued by one step and answered by *)
(* another.  There is no watchdog: a machine that falls silent holds the   *)
(* run up for as long as it is silent.                                     *)
(***************************************************************************)
EXTENDS Naturals, Sequences, FiniteSets

CONSTANTS
  Matrix,     \* the plans: sequences of stages, which are sequences of tools
  Polls,      \* rounds a "systemd-analyze time" task may wait for the end of boot
  MaxLosses   \* BOUND: times the machine is lost

\* "time" and "chain" are the two options of systemd-analyze.
Tools == {"stress-ng", "fio", "time", "chain"}

\* _run_matrix refuses an empty matrix, and build_plan returns no plan without a stage.
ASSUME MatrixAssumption == Matrix \in Seq(Seq(Seq(Tools)) \ {<<>>}) \ {<<>>}
ASSUME BoundAssumption  == Polls \in Nat /\ MaxLosses \in Nat

Profiles == DOMAIN Matrix
Stages(p) == DOMAIN Matrix[p]
Slots     == UNION {UNION {DOMAIN Matrix[p][k] : k \in Stages(p)} : p \in Profiles}

\* Commands of _collect_system_errors.
CollectSteps == 3

VARIABLES
  pc,         \* where the main thread is
  prof,       \* the profile it runs
  stage,      \* the stage it runs
  row,        \* results of the stage (or system errors) already stored
  busy,       \* is a remote command of the main thread in flight?
  task,       \* what the thread of each task of the stage does
  flight,     \* is a remote command of that thread in flight?
  tries,      \* further polls of systemd-analyze time
  verdict,    \* status of each task: None until it is known
  finished,   \* the order in which as_completed yields the tasks
  counts,     \* the counts of execute()
  failures,   \* total_failures
  rows,       \* the experiment's rows: [at |-> <<stage, task>>, status]
  ended,      \* the experiments whose ended_at was updated
  published,  \* counts in each experiment's row
  files,      \* fio data files on the machine
  abandoned,  \* history: files whose removal failed
  link,       \* "up", "silent", "lost"
  losses      \* how often it was lost

poolVars == <<task, flight, tries, verdict, finished>>
logVars  == <<rows, ended, published>>
netVars  == <<files, abandoned, link, losses>>
vars     == <<pc, prof, stage, row, busy, poolVars, counts, failures, logVars, netVars>>

None     == "none"
Verdicts == {"PASSED", "FAILED"}
Zero     == [s \in Verdicts |-> 0]
MainPCs  == {"config", "connect", "experiment", "stage", "run", "rows", "collect", "ended_at",
             "counts", "report", "done", "failed"}
Ended    == pc \in {"done", "failed"}

TypeOK ==
  /\ pc \in MainPCs /\ prof \in Profiles /\ stage \in Nat /\ row \in Nat /\ busy \in BOOLEAN
  /\ task \in [Slots -> {"idle", "begin", "load", "again", "remove", "over"}]
  /\ flight \in [Slots -> BOOLEAN]
  /\ tries \in [Slots -> 0 .. Polls]
  /\ verdict \in [Slots -> Verdicts \cup {None}]
  /\ finished \in Seq(Slots)
  /\ counts \in [Verdicts -> Nat] /\ failures \in Nat
  /\ rows \in [Profiles -> Seq([at : Nat \X Nat, status : Verdicts \cup {None}])]
  /\ ended \subseteq Profiles
  /\ published \in [Profiles -> [Verdicts -> Nat]]
  /\ files \subseteq Profiles \X Nat \X Slots /\ abandoned \subseteq Profiles \X Nat \X Slots
  /\ link \in {"up", "silent", "lost"} /\ losses \in 0 .. MaxLosses

Init ==
  /\ pc = "config" /\ prof = 1 /\ stage = 1 /\ row = 0 /\ busy = FALSE
  /\ task = [i \in Slots |-> "idle"] /\ flight = [i \in Slots |-> FALSE]
  /\ tries = [i \in Slots |-> 0] /\ verdict = [i \in Slots |-> None] /\ finished = <<>>
  /\ counts = Zero /\ failures = 0
  /\ rows = [p \in Profiles |-> <<>>] /\ ended = {}
  /\ published = [p \in Profiles |-> Zero]
  /\ files = {} /\ abandoned = {} /\ link = "up" /\ losses = 0

(***************************************************************************)
(* The main thread.                                                        *)
(***************************************************************************)
Goto(from, to) == pc = from /\ pc' = to

\* The tools of the current stage.
Current == Matrix[prof][stage]

\* A command in flight is answered by the machine, or by paramiko when the
\* connection is lost (its exit status is -1 then).
Answered == link # "silent"

\* A remote command of the main thread; one that cannot be issued raises.
Issue(at) ==
  /\ pc = at /\ ~busy /\ link = "up"
  /\ busy' = TRUE
  /\ UNCHANGED <<pc, prof, stage, row, poolVars, counts, failures, logVars, netVars>>

IssueRaises(at) ==
  /\ Goto(at, "failed") /\ ~busy /\ link # "up"
  /\ UNCHANGED <<prof, stage, row, busy, poolVars, counts, failures, logVars, netVars>>

\* resolve_config_id: the machine is asked about itself, the configuration
\* is looked up or inserted; either may raise.
ResolveConfig ==
  /\ pc = "config" /\ busy /\ Answered
  /\ pc' \in {"experiment", "failed"}
  /\ busy' = FALSE
  /\ UNCHANGED <<prof, stage, row, poolVars, counts, failures, logVars, netVars>>

\* self._client.reconnect() before every profile but the first.
Reconnect ==
  /\ pc = "connect"
  /\ \/ pc' = "experiment" /\ link # "silent" /\ link' = "up"
     \/ pc' = "failed" /\ link' = "lost"
  /\ UNCHANGED <<prof, stage, row, busy, poolVars, counts, failures, logVars, files,
                 abandoned, losses>>

\* start_experiment; the counts of execute() are fresh.
StartExperiment ==
  /\ Goto("experiment", "stage")
  /\ stage' = 1 /\ counts' = Zero
  /\ UNCHANGED <<prof, row, busy, poolVars, failures, logVars, netVars>>

\* insert_util_run_result commits the row; the refresh after it may raise.
Insert(at, status, next) ==
  /\ rows' = [rows EXCEPT ![prof] = Append(@, [at |-> at, status |-> status])]
  /\ pc' \in {next, "failed"}
  /\ UNCHANGED <<ended, published>>

\* The wait for the stage's offset is over: its row is inserted, and its
\* tasks are submitted to a pool with one thread for each of them.
StartStage ==
  /\ pc = "stage" /\ stage <= Len(Matrix[prof])
  /\ Insert(<<stage, 0>>, None, "run")
  /\ row' = 0
  /\ task' = [i \in Slots |-> IF pc' = "run" /\ i <= Len(Current) THEN "begin" ELSE "idle"]
  /\ flight' = [i \in Slots |-> FALSE] /\ tries' = [i \in Slots |-> 0]
  /\ verdict' = [i \in Slots |-> None] /\ finished' = <<>>
  /\ UNCHANGED <<prof, stage, busy, counts, failures, netVars>>

\* MUTANT: the pool is left when the first task has ended.
FirstTaskEnds ==
  /\ Goto("run", "rows")
  /\ Current = <<>> \/ finished # <<>>
  /\ UNCHANGED <<prof, stage, row, busy, poolVars, counts, failures, logVars, netVars>>

\* The with statement waits for every thread of the pool.
StageEnds ==
  /\ Goto("run", "rows")
  /\ Len(finished) = Len(Current)
  /\ UNCHANGED <<prof, stage, row, busy, poolVars, counts, failures, logVars, netVars>>

\* A task is counted and its row inserted.
StoreTask(i) ==
  /\ pc = "rows" /\ row < Len(Current)
  /\ row' = row + 1
  /\ counts' = [counts EXCEPT ![verdict[i]] = @ + 1]
  /\ Insert(<<stage, i>>, verdict[i], "rows")
  /\ UNCHANGED <<prof, stage, busy, poolVars, failures, netVars>>

\* MUTANT: the results are stored in the order in which the tasks finished.
StoreAsCompleted == pc = "rows" /\ row < Len(Current) /\ StoreTask(finished[row + 1])

\* [results_by_idx[i] for i in range(len(stage.tasks))]
StoreResult == StoreTask(row + 1)

StageStored ==
  /\ Goto("rows", "stage") /\ row = Len(Current)
  /\ stage' = stage + 1
  /\ UNCHANGED <<prof, row, busy, poolVars, counts, failures, logVars, netVars>>

LastStage ==
  /\ Goto("stage", "collect") /\ stage > Len(Matrix[prof])
  /\ row' = 0
  /\ UNCHANGED <<prof, stage, busy, poolVars, counts, failures, logVars, netVars>>

\* _collect_system_errors: a command and a row, three times.
CollectInserts ==
  /\ pc = "collect" /\ busy /\ Answered
  /\ row' = row + 1
  /\ Insert(<<stage, row + 1>>, None, IF row + 1 = CollectSteps THEN "ended_at" ELSE "collect")
  /\ busy' = FALSE
  /\ UNCHANGED <<prof, stage, poolVars, counts, failures, netVars>>

\* MUTANT: _collect_system_errors swallows what it raises.
CollectSwallows ==
  /\ Goto("collect", "ended_at") /\ ~busy /\ link # "up"
  /\ UNCHANGED <<prof, stage, row, busy, poolVars, counts, failures, logVars, netVars>>

CollectRaises == IssueRaises("collect")

UpdateEndedAt ==
  /\ Goto("ended_at", "counts")
  /\ ended' = ended \cup {prof}
  /\ UNCHANGED <<prof, stage, row, busy, poolVars, counts, failures, rows, published, netVars>>

PublishCounts(c) ==
  /\ Goto("counts", "report")
  /\ published' = [published EXCEPT ![prof] = c]
  /\ UNCHANGED <<prof, stage, row, busy, poolVars, counts, failures, rows, ended, netVars>>

\* MUTANT: a failed task is published as if it had also passed.
PublishTwice == PublishCounts([counts EXCEPT !["PASSED"] = @ + counts["FAILED"]])

UpdateTestsCount == PublishCounts(counts)

\* An insert or an update is refused.
DatabaseFails ==
  /\ \/ pc \in {"experiment", "stage", "rows", "ended_at", "counts"}
     \/ pc = "collect" /\ busy /\ Answered
  /\ pc' = "failed" /\ busy' = FALSE
  /\ UNCHANGED <<prof, stage, row, poolVars, counts, failures, logVars, netVars>>

\* Tasks with a return code other than 0, and where the matrix goes on.
NextProfile(failed) ==
  /\ pc = "report" /\ busy /\ Answered
  /\ failures' = failed
  /\ IF prof < Len(Matrix) THEN pc' = "connect" /\ prof' = prof + 1
                           ELSE pc' = "done" /\ UNCHANGED prof
  /\ busy' = FALSE
  /\ UNCHANGED <<stage, row, poolVars, counts, logVars, netVars>>

\* MUTANT: the failures of the last profile alone are returned.
LastFailures == NextProfile(counts["FAILED"])

\* get_os_release, the HTML report, and _run_one's sum of the failures.
Report == NextProfile(failures + counts["FAILED"])

ReportFails ==
  /\ Goto("report", "failed") /\ busy /\ Answered
  /\ busy' = FALSE
  /\ UNCHANGED <<prof, stage, row, poolVars, counts, failures, logVars, netVars>>

Main ==
  \/ (\E at \in {"config", "collect", "report"} : Issue(at))
  \/ IssueRaises("config") \/ IssueRaises("report") \/ CollectRaises
  \/ ResolveConfig \/ Reconnect \/ StartExperiment \/ StartStage \/ StageEnds \/ StoreResult
  \/ StageStored \/ LastStage \/ CollectInserts \/ UpdateEndedAt \/ UpdateTestsCount
  \/ DatabaseFails \/ Report \/ ReportFails

(***************************************************************************)
(* The thread of task i: _run_task.                                        *)
(***************************************************************************)
mainVars == <<pc, prof, stage, row, busy, counts, failures, logVars>>

File(i) == <<prof, stage, i>>

\* The thread goes on with step to.
Continue(i, to) ==
  /\ task' = [task EXCEPT ![i] = to]
  /\ flight' = [flight EXCEPT ![i] = FALSE]
  /\ UNCHANGED <<verdict, finished>>

\* The task's status is known; fio still has its file to remove.
EndsWith(i, status) ==
  /\ verdict' = [verdict EXCEPT ![i] = status]
  /\ flight' = [flight EXCEPT ![i] = FALSE]
  /\ IF Current[i] = "fio" /\ task[i] = "load"
     THEN task' = [task EXCEPT ![i] = "remove"] /\ UNCHANGED finished
     ELSE task' = [task EXCEPT ![i] = "over"] /\ finished' = Append(finished, i)

\* A channel is opened for the next command; fio's load creates its file.
TaskIssues(i) ==
  /\ task[i] \notin {"idle", "over"} /\ ~flight[i] /\ link = "up"
  /\ flight' = [flight EXCEPT ![i] = TRUE]
  /\ files' = IF task[i] = "load" /\ Current[i] = "fio" THEN files \cup {File(i)} ELSE files
  /\ UNCHANGED <<mainVars, task, tries, verdict, finished, abandoned, link, losses>>

\* No channel can be opened: the exception ends the task as FAILED, once fio
\* has tried to remove its file.
TaskRaises(i) ==
  /\ task[i] \in {"begin", "load", "again"} /\ ~flight[i] /\ link # "up"
  /\ EndsWith(i, "FAILED")
  /\ UNCHANGED <<mainVars, tries, netVars>>

TaskAnswered(i, step) == task[i] = step /\ flight[i] /\ Answered

\* What comes before the load (which, nproc, df) has answered.  Where the tool
\* is missing or nproc or df is of no use, the load is not run; a missing fio
\* is noticed only when the file is to be removed already.  systemd-analyze
\* goes on in any case.
BeginAnswered(i) ==
  /\ TaskAnswered(i, "begin")
  /\ \/ Continue(i, "load")
     \/ Current[i] \in {"stress-ng", "fio"} /\ EndsWith(i, "FAILED")
  /\ UNCHANGED <<mainVars, tries, netVars>>

FioMissing(i) ==
  /\ TaskAnswered(i, "begin") /\ Current[i] = "fio"
  /\ task' = [task EXCEPT ![i] = "remove"] /\ flight' = [flight EXCEPT ![i] = FALSE]
  /\ verdict' = [verdict EXCEPT ![i] = "FAILED"]
  /\ UNCHANGED <<mainVars, tries, finished, netVars>>

\* The load's return code is the verdict; "chain" ignores it.
LoadAnswered(i) ==
  /\ TaskAnswered(i, "load") /\ Current[i] # "time"
  /\ \/ link = "up" /\ EndsWith(i, "PASSED")
     \/ EndsWith(i, IF Current[i] = "chain" THEN "PASSED" ELSE "FAILED")
  /\ UNCHANGED <<mainVars, tries, netVars>>

\* stress-ng could not initialize: it is run once more, for half the time.
StressRetries(i) ==
  /\ TaskAnswered(i, "load") /\ Current[i] = "stress-ng" /\ link = "up"
  /\ Continue(i, "again")
  /\ UNCHANGED <<mainVars, tries, netVars>>

RetryAnswered(i) ==
  /\ TaskAnswered(i, "again")
  /\ (link = "up" /\ EndsWith(i, "PASSED")) \/ EndsWith(i, "FAILED")
  /\ UNCHANGED <<mainVars, tries, netVars>>

\* systemd-analyze time: the machine has booted, or is polled again until the
\* stage's duration is used up.
TimeAnswers(i, again, used) ==
  /\ TaskAnswered(i, "load") /\ Current[i] = "time"
  /\ \/ link = "up" /\ EndsWith(i, "PASSED") /\ UNCHANGED tries
     \/ again /\ Continue(i, "load") /\ tries' = [tries EXCEPT ![i] = @ + used]
     \/ ~again /\ EndsWith(i, "FAILED") /\ UNCHANGED tries
  /\ UNCHANGED <<mainVars, netVars>>

\* MUTANTS: one poll too many; the time that is left is not counted down.
PollOnceMore(i) == TimeAnswers(i, tries[i] <= Polls, 1)
PollForever(i)  == TimeAnswers(i, TRUE, 0)

TimeAnswered(i) == TimeAnswers(i, tries[i] < Polls, 1)

\* The finally of _run_fio: rm -f, whatever became of the load; exceptions
\* are suppressed.
RemoveFile(i, removed) ==
  /\ task[i] = "remove"
  /\ IF removed THEN files' = files \ {File(i)} /\ UNCHANGED abandoned
                ELSE abandoned' = abandoned \cup {File(i)} /\ UNCHANGED files
  /\ EndsWith(i, verdict[i])
  /\ UNCHANGED <<mainVars, tries, link, losses>>

\* MUTANT: the file of a load that failed is kept.
RemoveIfPassed(i) ==
  /\ task[i] = "remove" /\ flight[i] /\ link = "up"
  /\ files' = IF verdict[i] = "PASSED" THEN files \ {File(i)} ELSE files
  /\ EndsWith(i, verdict[i])
  /\ UNCHANGED <<mainVars, tries, abandoned, link, losses>>

FileRemoved(i)  == flight[i] /\ link = "up" /\ RemoveFile(i, TRUE)
RemoveFails(i)  == link # "up" /\ (flight[i] => link = "lost") /\ RemoveFile(i, FALSE)

Task(i) ==
  \/ TaskIssues(i) \/ TaskRaises(i) \/ BeginAnswered(i) \/ FioMissing(i)
  \/ LoadAnswered(i) \/ StressRetries(i) \/ RetryAnswered(i) \/ TimeAnswered(i)
  \/ FileRemoved(i) \/ RemoveFails(i)

(***************************************************************************)
(* The machine under test.                                                 *)
(***************************************************************************)
linkless == <<mainVars, poolVars, files, abandoned>>

FallsSilent ==
  /\ link = "up" /\ losses < MaxLosses
  /\ link' = "silent" /\ losses' = losses + 1
  /\ UNCHANGED linkless

AnswersAgain ==
  /\ link = "silent" /\ link' = "up"
  /\ UNCHANGED <<linkless, losses>>

\* It closes the connection (sshd killed, machine rebooted).
Resets ==
  /\ link # "lost" /\ losses < MaxLosses
  /\ link' = "lost" /\ losses' = losses + 1
  /\ UNCHANGED linkless

Quiet == Ended /\ UNCHANGED vars

Next ==
  \/ Main \/ (\E i \in Slots : Task(i))
  \/ FallsSilent \/ AnswersAgain \/ Resets \/ Quiet

\* Every thread that can run does; the machine may stay silent for ever.
Spec     == Init /\ [][Next]_vars
FairSpec == Spec /\ WF_vars(Main) /\ \A i \in Slots : WF_vars(Task(i))

(***************************************************************************)
(* Properties.                                                             *)
(***************************************************************************)
\* The position of the row after position at; the rows of the system errors
\* follow the last stage.
RowAfter(p, at) ==
  IF at[1] \in Stages(p) /\ at[2] = Len(Matrix[p][at[1]])
  THEN IF at[1] = Len(Matrix[p]) THEN <<at[1] + 1, 1>> ELSE <<at[1] + 1, 0>>
  ELSE <<at[1], at[2] + 1>>

\* An experiment's rows follow its plan, without gap or repetition: each
\* stage, then its tasks in their order, whichever finished first.
RowsFollowPlan ==
  \A p \in Profiles : \A n \in DOMAIN rows[p] :
    rows[p][n].at = IF n = 1 THEN <<1, 0>> ELSE RowAfter(p, rows[p][n - 1].at)

RowsWith(p, status) == {n \in DOMAIN rows[p] : rows[p][n].status = status}
PlannedTasks(p)     == {t \in Stages(p) \X Slots : t[2] <= Len(Matrix[p][t[1]])}
Complete(p) ==
  /\ p \in ended
  /\ Len(rows[p]) = Len(Matrix[p]) + Cardinality(PlannedTasks(p)) + CollectSteps
  /\ \A s \in Verdicts : published[p][s] = Cardinality(RowsWith(p, s))
  /\ published[p]["PASSED"] + published[p]["FAILED"] = Cardinality(PlannedTasks(p))

\* The matrix goes on to a profile only when the database tells the whole story
\* of the profiles before it; an experiment that was cut shows no counts.
OnlyCompleteCounts ==
  /\ \A p \in Profiles : p < prof => Complete(p)
  /\ \A p \in Profiles : published[p] # Zero => Complete(p)

\* No thread of a stage outlives it, however its tasks and the run end.
NoTaskOutlivesStage == pc # "run" => \A i \in Slots : task[i] \in {"idle", "over"}

\* A fio file that is left on the machine is one whose removal was tried and
\* failed with the connection, or that is still in use.
FilesRemoved ==
  \A f \in files \ abandoned :
    pc = "run" /\ f[1] = prof /\ f[2] = stage /\ task[f[3]] \in {"load", "remove"}

\* run() reports failure if and only if some stored task of some profile failed.
HonestVerdict ==
  pc = "done" => (failures > 0 <=> \E p \in Profiles : RowsWith(p, "FAILED") # {})

\* Task rows and published counts of each experiment are what a reader of the
\* database relies on: see module ExperimentLog.  (Equivalent to \A p : Log(p)!Spec,
\* in a form that can be model-checked.)
Log(p) == INSTANCE ExperimentLog WITH
            stored    <- Cardinality(RowsWith(p, "PASSED")) + Cardinality(RowsWith(p, "FAILED")),
            published <- [total |-> published[p]["PASSED"] + published[p]["FAILED"],
                          statuses |-> [s \in {"PASSED", "FAILED", "SKIPPED", "BROKEN"} |->
                                          IF s \in Verdicts THEN published[p][s] ELSE 0]]
ImplementsLog ==
  /\ \A p \in Profiles : Log(p)!Init
  /\ [][\A p \in Profiles : Log(p)!Next \/ UNCHANGED Log(p)!vars]_vars

\* A connection lost before the system errors are collected fails the whole
\* matrix: the profiles that are left do not run, and the experiment keeps its
\* zero counts although the rows of its failed tasks are stored.
LossFailsMatrix ==
  pc \in {"stage", "run", "rows"} /\ link = "lost"
    ~> pc = "failed" /\ published[prof] = Zero

\* A run ends, if the machine does not stay silent.
Terminates == []<>(link # "silent") => <>Ended
=============================================================================
