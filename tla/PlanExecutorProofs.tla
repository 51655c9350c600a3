------------------------- MODULE PlanExecutorProofs -------------------------
(***************************************************************************)
(* Proofs about PlanExecutor, for every matrix of plans, every number of   *)
(* polls and every number of losses.                                       *)
(***************************************************************************)
EXTENDS PlanExecutor, FiniteSetTheorems, TLAPS

(***************************************************************************)
(* The main thread: what is in range where.                                *)
(***************************************************************************)
Publishing == {"ended_at", "counts", "report", "done"}

ControlOK ==
  /\ pc \in MainPCs /\ prof \in Profiles /\ stage \in Nat \ {0} /\ row \in Nat
  /\ busy \in BOOLEAN
  /\ pc = "stage" => stage <= Len(Matrix[prof]) + 1
  /\ pc \in {"run", "rows"} => stage \in Stages(prof)
  /\ pc = "run" => row = 0
  /\ pc = "rows" => row <= Len(Current)
  /\ pc = "collect" => stage = Len(Matrix[prof]) + 1 /\ row < CollectSteps
  /\ pc \in Publishing => stage = Len(Matrix[prof]) + 1 /\ row = CollectSteps
  /\ pc = "done" => prof = Len(Matrix)

(***************************************************************************)
(* The pool: a slot is over when it was yielded, once; in the stage that   *)
(* runs the slots of its tasks are not idle and the others are.            *)
(***************************************************************************)
Yielded == {finished[n] : n \in DOMAIN finished}

PoolOK ==
  /\ task \in [Slots -> {"idle", "begin", "load", "again", "remove", "over"}]
  /\ flight \in [Slots -> BOOLEAN]
  /\ tries \in [Slots -> 0 .. Polls]
  /\ verdict \in [Slots -> Verdicts \cup {None}]
  /\ finished \in Seq(Slots)

PoolInv ==
  /\ \A m, n \in DOMAIN finished : finished[m] = finished[n] => m = n
  /\ \A i \in Slots : task[i] = "over" <=> i \in Yielded
  /\ \A i \in Slots : task[i] \in {"over", "remove"} => verdict[i] \in Verdicts
  /\ pc \notin {"run", "rows"} => \A i \in Slots : task[i] \in {"idle", "over"}
  /\ pc \in {"run", "rows"} => \A i \in Slots : task[i] = "idle" <=> i > Len(Current)
  /\ pc = "rows" => \A i \in Slots : i <= Len(Current) => task[i] = "over"

(***************************************************************************)
(* The machine's files: one that is neither removed nor given up belongs   *)
(* to a fio task of the stage that runs, before the end of its finally.    *)
(***************************************************************************)
FilesOK == files \subseteq Profiles \X Nat \X Slots /\ abandoned \subseteq Profiles \X Nat \X Slots
LinkOK  == link \in {"up", "silent", "lost"} /\ losses \in 0 .. MaxLosses

FilesInv ==
  \A f \in files \ abandoned :
    /\ pc = "run" /\ f[1] = prof /\ f[2] = stage
    /\ Current[f[3]] = "fio" /\ task[f[3]] \in {"load", "remove"}

(***************************************************************************)
(* The rows: where the next one goes.                                      *)
(***************************************************************************)
Row == [at : Nat \X Nat, status : Verdicts \cup {None}]
RowsOK == rows \in [Profiles -> Seq(Row)]

NextAt(p) == IF rows[p] = <<>> THEN <<1, 0>> ELSE RowAfter(p, rows[p][Len(rows[p])].at)

RowsInv ==
  /\ RowsFollowPlan
  /\ \A p \in Profiles : p > prof => rows[p] = <<>>
  /\ pc \in {"config", "connect", "experiment"} => rows[prof] = <<>>
  /\ pc = "stage" => NextAt(prof) = IF stage <= Len(Matrix[prof]) THEN <<stage, 0>> ELSE <<stage, 1>>
  /\ pc \in {"run", "rows"} => NextAt(prof) = RowAfter(prof, <<stage, row>>)
  /\ pc = "collect" => NextAt(prof) = <<stage, row + 1>>

(***************************************************************************)
(* The counts: what is stored, counted and published of a profile.         *)
(***************************************************************************)
\* The planned tasks of the stages before stage k.
TasksBefore(p, k) == {t \in PlannedTasks(p) : t[1] < k}
Before == Cardinality(TasksBefore(prof, stage))

CountsOK ==
  /\ counts \in [Verdicts -> Nat] /\ failures \in Nat
  /\ ended \subseteq Profiles /\ published \in [Profiles -> [Verdicts -> Nat]]

\* n rows of the current profile are stored besides those of the tasks of the stages before
\* the current one, and the c of them that are tasks are counted, by their status.
StoredUpTo(n, c) ==
  /\ IsFiniteSet(TasksBefore(prof, stage))
  /\ Len(rows[prof]) = Before + n
  /\ counts["PASSED"] + counts["FAILED"] = Before + c
  /\ \A s \in Verdicts : counts[s] = Cardinality(RowsWith(prof, s))

StoredInv ==
  /\ pc = "stage" => StoredUpTo(stage - 1, 0)
  /\ pc = "run"   => StoredUpTo(stage, 0)
  /\ pc = "rows"  => StoredUpTo(stage + row, row)
  /\ pc \in {"collect"} \cup Publishing => StoredUpTo(stage - 1 + row, 0)

\* Nothing is published of a profile before its last step, and then all of it.
PublishInv ==
  /\ OnlyCompleteCounts
  /\ \A p \in Profiles : p > prof => published[p] = Zero
  /\ pc \notin {"report", "done", "failed"} => published[prof] = Zero
  /\ pc = "counts" => prof \in ended
  /\ pc \in {"report", "done"} => Complete(prof)

\* The failures summed up are those of the profiles the matrix has left.
VerdictInv ==
  failures > 0 <=> \E p \in Profiles : (p < prof \/ pc = "done") /\ RowsWith(p, "FAILED") # {}

(***************************************************************************)
(* What a plan is made of, and what each kind of step leaves alone.        *)
(***************************************************************************)
LEMMA PlanFacts ==
  /\ Len(Matrix) \in Nat \ {0} /\ Profiles = 1 .. Len(Matrix)
  /\ Slots \subseteq Nat \ {0}
  /\ \A p \in Profiles :
       /\ Len(Matrix[p]) \in Nat \ {0} /\ Stages(p) = 1 .. Len(Matrix[p])
       /\ \A k \in Stages(p) : /\ Matrix[p][k] \in Seq(Tools) /\ Len(Matrix[p][k]) \in Nat
                               /\ DOMAIN Matrix[p][k] = 1 .. Len(Matrix[p][k])
                               /\ DOMAIN Matrix[p][k] \subseteq Slots
<1>1. Len(Matrix) \in Nat \ {0} /\ Profiles = 1 .. Len(Matrix)
  BY MatrixAssumption DEF Profiles
<1>2. ASSUME NEW p \in Profiles
      PROVE  /\ Matrix[p] \in Seq(Seq(Tools)) /\ Len(Matrix[p]) \in Nat \ {0}
             /\ Stages(p) = 1 .. Len(Matrix[p])
  BY <1>1, MatrixAssumption DEF Stages
<1>3. ASSUME NEW p \in Profiles, NEW k \in Stages(p)
      PROVE  /\ Matrix[p][k] \in Seq(Tools) /\ Len(Matrix[p][k]) \in Nat
             /\ DOMAIN Matrix[p][k] = 1 .. Len(Matrix[p][k])
             /\ DOMAIN Matrix[p][k] \subseteq Slots
  <2>1. Matrix[p][k] \in Seq(Tools)
    BY <1>2
  <2>2. DOMAIN Matrix[p][k] \subseteq Slots
    BY DEF Slots
  <2> QED
    BY <2>1, <2>2
<1>4. Slots \subseteq Nat \ {0}
  BY <1>3 DEF Slots
<1> QED
  BY <1>1, <1>2, <1>3, <1>4

LEMMA TaskFrame == ASSUME NEW i \in Slots, Task(i) PROVE UNCHANGED mainVars
BY DEF Task, TaskIssues, TaskRaises, BeginAnswered, FioMissing, LoadAnswered, StressRetries,
   RetryAnswered, TimeAnswered, TimeAnswers, FileRemoved, RemoveFails, RemoveFile

Others == FallsSilent \/ AnswersAgain \/ Resets \/ Quiet \/ UNCHANGED vars

LEMMA OthersFrame == Others => UNCHANGED linkless
BY DEF Others, FallsSilent, AnswersAgain, Resets, Quiet, vars, linkless, mainVars, netVars

LEMMA NextCases ==
  [Next]_vars <=> Main \/ (\E i \in Slots : Task(i)) \/ Others
BY DEF Next, Others, Quiet

LEMMA MainFrame ==
  Main => /\ UNCHANGED <<files, abandoned, losses>>
          /\ StartStage \/ UNCHANGED poolVars
BY DEF Main, Issue, IssueRaises, CollectRaises, ResolveConfig, Reconnect, StartExperiment,
   StartStage, StageEnds, StoreResult, StoreTask, StageStored, LastStage, CollectInserts,
   UpdateEndedAt, UpdateTestsCount, PublishCounts, DatabaseFails, Report, NextProfile,
   ReportFails, netVars

(***************************************************************************)
(* Type correctness.                                                       *)
(***************************************************************************)
LEMMA NextControlOK == ControlOK /\ [Next]_vars => ControlOK'
<1> SUFFICES ASSUME ControlOK, [Next]_vars PROVE ControlOK'
  OBVIOUS
<1>1. /\ prof \in Profiles /\ Len(Matrix) \in Nat /\ Profiles = 1 .. Len(Matrix)
      /\ Len(Matrix[prof]) \in Nat \ {0} /\ Stages(prof) = 1 .. Len(Matrix[prof])
      /\ stage \in Stages(prof) => Len(Current) \in Nat
  BY PlanFacts DEF ControlOK, Current
<1> USE <1>1 DEF ControlOK, Publishing, MainPCs, Goto, CollectSteps
<1>2. CASE \E at \in {"config", "collect", "report"} : Issue(at)
  BY <1>2 DEF Issue, Current
<1>3. CASE IssueRaises("config") \/ IssueRaises("report") \/ CollectRaises \/ ResolveConfig
           \/ Reconnect \/ StartExperiment \/ DatabaseFails \/ ReportFails
  <2>1. /\ pc' \in {"failed", "experiment"} \/ (pc' = "stage" /\ stage' = 1)
        /\ stage' \in {stage, 1} /\ busy' \in BOOLEAN /\ UNCHANGED <<prof, row>>
    BY <1>3 DEF IssueRaises, CollectRaises, ResolveConfig, Reconnect, StartExperiment,
       DatabaseFails, ReportFails
  <2> QED
    BY <2>1
<1>4. CASE StartStage \/ StageEnds \/ StageStored \/ LastStage
  <2>1. CASE StartStage
    BY <2>1 DEF StartStage, Insert
  <2>2. CASE StageEnds
    BY <2>2 DEF StageEnds
  <2>3. CASE StageStored
    BY <2>3 DEF StageStored
  <2>4. CASE LastStage
    BY <2>4 DEF LastStage
  <2> QED
    BY <1>4, <2>1, <2>2, <2>3, <2>4
<1>5. CASE StoreResult
  BY <1>5 DEF StoreResult, StoreTask, Insert, Current
<1>6. CASE CollectInserts \/ UpdateEndedAt \/ UpdateTestsCount \/ Report
  <2>1. CASE CollectInserts
    <3>1. /\ pc = "collect" /\ row' = row + 1 /\ busy' \in BOOLEAN /\ UNCHANGED <<prof, stage>>
          /\ pc' = "failed" \/ pc' = IF row + 1 = CollectSteps THEN "ended_at" ELSE "collect"
      BY <2>1 DEF CollectInserts, Insert
    <3> QED
      BY <3>1
  <2>2. CASE UpdateEndedAt \/ UpdateTestsCount
    BY <2>2 DEF UpdateEndedAt, UpdateTestsCount, PublishCounts
  <2>3. CASE Report
    <3>1. /\ pc = "report" /\ busy' \in BOOLEAN /\ UNCHANGED <<row, stage>>
          /\ \/ prof < Len(Matrix) /\ pc' = "connect" /\ prof' = prof + 1
             \/ ~ (prof < Len(Matrix)) /\ pc' = "done" /\ prof' = prof
      BY <2>3 DEF Report, NextProfile
    <3> QED
      BY <3>1
  <2> QED
    BY <1>6, <2>1, <2>2, <2>3
<1>7. CASE (\E i \in Slots : Task(i)) \/ Others
  <2>1. UNCHANGED <<pc, prof, stage, row, busy>>
    BY <1>7, TaskFrame, OthersFrame DEF linkless, mainVars
  <2> QED
    BY <2>1 DEF Current
<1> QED
  BY <1>2, <1>3, <1>4, <1>5, <1>6, <1>7, NextCases DEF Main

LEMMA NextLinkOK == LinkOK /\ [Next]_vars => LinkOK'
<1> SUFFICES ASSUME LinkOK, [Next]_vars PROVE LinkOK'
  OBVIOUS
<1> USE BoundAssumption DEF LinkOK
<1>1. CASE Main
  <2>1. link' \in {link, "up", "lost"}
    BY <1>1 DEF Main, Issue, IssueRaises, CollectRaises, ResolveConfig, Reconnect,
       StartExperiment, StartStage, StageEnds, StoreResult, StoreTask, StageStored, LastStage,
       CollectInserts, UpdateEndedAt, UpdateTestsCount, PublishCounts, DatabaseFails, Report,
       NextProfile, ReportFails, netVars
  <2> QED
    BY <1>1, <2>1, MainFrame
<1>2. ASSUME NEW i \in Slots, Task(i) PROVE LinkOK'
  BY <1>2 DEF Task, TaskIssues, TaskRaises, BeginAnswered, FioMissing, LoadAnswered,
     StressRetries, RetryAnswered, TimeAnswered, TimeAnswers, FileRemoved, RemoveFails,
     RemoveFile, netVars
<1>3. CASE Others
  BY <1>3 DEF Others, FallsSilent, AnswersAgain, Resets, Quiet, vars, netVars
<1> QED
  BY <1>1, <1>2, <1>3, NextCases

LEMMA NextPoolTypes ==
  PoolOK /\ [Next]_vars => flight' \in [Slots -> BOOLEAN] /\ tries' \in [Slots -> 0 .. Polls]
<1> SUFFICES ASSUME PoolOK, [Next]_vars
             PROVE  flight' \in [Slots -> BOOLEAN] /\ tries' \in [Slots -> 0 .. Polls]
  OBVIOUS
<1> USE DEF PoolOK
<1>1. CASE Main
  <2>1. CASE StartStage
    BY <2>1, BoundAssumption DEF StartStage
  <2> QED
    BY <1>1, <2>1, MainFrame DEF poolVars
<1>2. ASSUME NEW i \in Slots, Task(i)
      PROVE  flight' \in [Slots -> BOOLEAN] /\ tries' \in [Slots -> 0 .. Polls]
  <2>1. flight' \in {[flight EXCEPT ![i] = TRUE], [flight EXCEPT ![i] = FALSE]}
    BY <1>2 DEF Task, TaskIssues, TaskRaises, BeginAnswered, FioMissing, LoadAnswered,
       StressRetries, RetryAnswered, TimeAnswered, TimeAnswers, FileRemoved, RemoveFails,
       RemoveFile, EndsWith, Continue
  <2>2. tries' = tries \/ (tries[i] < Polls /\ tries' = [tries EXCEPT ![i] = @ + 1])
    <3>1. CASE TimeAnswered(i)
      BY <3>1 DEF TimeAnswered, TimeAnswers
    <3> QED
      BY <1>2, <3>1 DEF Task, TaskIssues, TaskRaises, BeginAnswered, FioMissing, LoadAnswered,
         StressRetries, RetryAnswered, FileRemoved, RemoveFails, RemoveFile
  <2>3. tries' \in [Slots -> 0 .. Polls]
    <3>1. tries[i] \in 0 .. Polls /\ Polls \in Nat
      BY BoundAssumption
    <3>2. CASE tries[i] < Polls /\ tries' = [tries EXCEPT ![i] = tries[i] + 1]
      <4>1. tries[i] + 1 \in 0 .. Polls
        BY <3>1, <3>2
      <4> QED
        BY <3>2, <4>1
    <3> QED
      BY <2>2, <3>2
  <2> QED
    BY <2>1, <2>3
<1>3. CASE Others
  BY <1>3, OthersFrame DEF linkless, poolVars
<1> QED
  BY <1>1, <1>2, <1>3, NextCases

\* The ways a thread of the pool goes on: it issues a command, it has its answer, its
\* verdict is known and its file is left to be removed, or it ends.
Issues(i)    == UNCHANGED <<task, verdict, finished>>
GoesOn(i)    == /\ task[i] \in {"begin", "load"}
                /\ \E to \in {"load", "again"} : task' = [task EXCEPT ![i] = to]
                /\ task[i] = "load" => Current[i] # "fio"
                /\ UNCHANGED <<verdict, finished>>
Judged(i)    == \E status \in Verdicts : verdict' = [verdict EXCEPT ![i] = status]
HasToRemove(i) == /\ Judged(i) /\ Current[i] = "fio" /\ task[i] \in {"begin", "load"}
                  /\ task' = [task EXCEPT ![i] = "remove"] /\ UNCHANGED finished
Yields(i)    == /\ Judged(i)
                /\ task[i] = "load" => Current[i] # "fio"
                /\ task' = [task EXCEPT ![i] = "over"] /\ finished' = Append(finished, i)

LEMMA TaskStep ==
  ASSUME PoolOK, PoolInv, NEW i \in Slots, Task(i)
  PROVE  /\ task[i] \in {"begin", "load", "again", "remove"}
         /\ Issues(i) \/ GoesOn(i) \/ HasToRemove(i) \/ Yields(i)
<1>1. task[i] \in {"begin", "load", "again", "remove"}
  BY DEF PoolOK, Task, TaskIssues, TaskRaises, BeginAnswered, FioMissing, LoadAnswered,
     StressRetries, RetryAnswered, TimeAnswered, TimeAnswers, FileRemoved, RemoveFails,
     RemoveFile, TaskAnswered
<1> SUFFICES Issues(i) \/ GoesOn(i) \/ HasToRemove(i) \/ Yields(i)
  BY <1>1
<1>2. ASSUME NEW status \in Verdicts, EndsWith(i, status) PROVE HasToRemove(i) \/ Yields(i)
  <2>1. Judged(i)
    BY <1>2 DEF EndsWith, Judged
  <2> QED
    BY <1>1, <1>2, <2>1 DEF EndsWith, HasToRemove, Yields
<1>3. CASE TaskIssues(i)
  BY <1>3 DEF TaskIssues, Issues
<1>4. CASE TaskRaises(i)
  BY <1>2, <1>4 DEF TaskRaises, Verdicts
<1>5. CASE BeginAnswered(i)
  <2>1. CASE Continue(i, "load")
    BY <1>5, <2>1 DEF BeginAnswered, TaskAnswered, Continue, GoesOn
  <2> QED
    BY <1>2, <1>5, <2>1 DEF BeginAnswered, Verdicts
<1>6. CASE FioMissing(i)
  BY <1>6 DEF FioMissing, TaskAnswered, HasToRemove, Judged, Verdicts
<1>7. CASE LoadAnswered(i) \/ RetryAnswered(i)
  <2>1. EndsWith(i, "PASSED") \/ EndsWith(i, "FAILED")
    BY <1>7 DEF LoadAnswered, RetryAnswered
  <2> QED
    BY <1>2, <2>1 DEF Verdicts
<1>8. CASE StressRetries(i)
  BY <1>8 DEF StressRetries, TaskAnswered, Continue, GoesOn
<1>9. CASE TimeAnswered(i)
  <2>1. CASE Continue(i, "load")
    BY <1>9, <2>1 DEF TimeAnswered, TimeAnswers, TaskAnswered, Continue, GoesOn
  <2> QED
    BY <1>2, <1>9, <2>1 DEF TimeAnswered, TimeAnswers, Verdicts
<1>10. CASE FileRemoved(i) \/ RemoveFails(i)
  <2>1. task[i] = "remove" /\ EndsWith(i, verdict[i])
    BY <1>10 DEF FileRemoved, RemoveFails, RemoveFile
  <2>2. verdict[i] \in Verdicts
    BY <2>1 DEF PoolInv
  <2> QED
    BY <1>1, <1>2, <2>1, <2>2
<1> QED
  BY <1>1, <1>3, <1>4, <1>5, <1>6, <1>7, <1>8, <1>9, <1>10 DEF Task

\* When as many tasks were yielded as the stage has, every task of it is over.
LEMMA AllYielded ==
  ASSUME ControlOK, PoolOK, PoolInv, pc = "run", Len(finished) = Len(Current)
  PROVE  \A i \in Slots : i <= Len(Current) => task[i] = "over"
<1> DEFINE n == Len(Current)
<1>1. n \in Nat /\ DOMAIN finished = 1 .. n /\ Slots \subseteq Nat \ {0}
  BY PlanFacts DEF ControlOK, PoolOK, Current
<1>2. ASSUME NEW m \in 1 .. n PROVE finished[m] \in 1 .. n
  <2>1. finished[m] \in Slots /\ finished[m] \in Yielded
    BY <1>1 DEF PoolOK, Yielded
  <2>2. task[finished[m]] = "over"
    BY <2>1 DEF PoolInv
  <2>3. ~ (finished[m] > n)
    BY <2>1, <2>2 DEF PoolInv
  <2>4. finished[m] \in Nat \ {0}
    BY <1>1, <2>1
  <2> QED
    BY <1>1, <2>3, <2>4
<1>3. finished \in [1 .. n -> 1 .. n]
  BY <1>1, <1>2 DEF PoolOK
<1>4. finished \in Injection(1 .. n, 1 .. n)
  BY <1>1, <1>3 DEF PoolInv, Injection, IsInjective
<1>5. finished \in Surjection(1 .. n, 1 .. n)
  <2>1. IsFiniteSet(1 .. n)
    BY <1>1, FS_Interval
  <2> QED
    BY <1>4, <2>1, FS_Injection
<1>6. ASSUME NEW i \in Slots, i <= n PROVE i \in Yielded
  <2>1. i \in 1 .. n
    BY <1>1, <1>6
  <2> QED
    BY <1>1, <1>5, <2>1 DEF Surjection, Yielded
<1> QED
  BY <1>6 DEF PoolInv

LEMMA NextPoolOK == PoolOK /\ PoolInv /\ [Next]_vars => PoolOK'
<1> SUFFICES ASSUME PoolOK, PoolInv, [Next]_vars PROVE PoolOK'
  OBVIOUS
<1>0. flight' \in [Slots -> BOOLEAN] /\ tries' \in [Slots -> 0 .. Polls]
  BY NextPoolTypes
<1> DEFINE Rest == /\ task' \in [Slots -> {"idle", "begin", "load", "again", "remove", "over"}]
                   /\ verdict' \in [Slots -> Verdicts \cup {None}] /\ finished' \in Seq(Slots)
<1>1. CASE Main
  <2>1. CASE StartStage
    <3>1. Rest
      BY <2>1 DEF StartStage
    <3> QED
      BY <1>0, <3>1 DEF PoolOK
  <2> QED
    BY <1>0, <1>1, <2>1, MainFrame DEF PoolOK, poolVars
<1>2. ASSUME NEW i \in Slots, Task(i) PROVE Rest
  <2>1. Issues(i) \/ GoesOn(i) \/ HasToRemove(i) \/ Yields(i)
    BY <1>2, TaskStep
  <2> USE DEF PoolOK, Judged
  <2>2. CASE Issues(i)
    BY <2>2 DEF Issues
  <2>3. CASE GoesOn(i)
    BY <2>3 DEF GoesOn
  <2>4. CASE HasToRemove(i)
    BY <2>4 DEF HasToRemove
  <2>5. CASE Yields(i)
    BY <2>5 DEF Yields
  <2> QED
    BY <2>1, <2>2, <2>3, <2>4, <2>5
<1>3. CASE Others
  BY <1>3, OthersFrame DEF linkless, poolVars, PoolOK
<1> QED
  BY <1>0, <1>1, <1>2, <1>3, NextCases DEF PoolOK

LEMMA PoolEmpty == ControlOK /\ PoolOK /\ PoolInv => NoTaskOutlivesStage
<1> SUFFICES ASSUME ControlOK, PoolOK, PoolInv, pc # "run", NEW i \in Slots
             PROVE  task[i] \in {"idle", "over"}
  BY DEF NoTaskOutlivesStage
<1>1. CASE pc = "rows"
  <2>1. Len(Current) \in Nat /\ i \in Nat
    BY <1>1, PlanFacts DEF ControlOK, Current
  <2>2. CASE i <= Len(Current)
    BY <1>1, <2>2 DEF PoolInv
  <2>3. CASE i > Len(Current)
    BY <1>1, <2>3 DEF PoolInv
  <2> QED
    BY <2>1, <2>2, <2>3
<1>2. CASE pc # "rows"
  BY <1>2 DEF PoolInv
<1> QED
  BY <1>1, <1>2

LEMMA NextPoolInv == ControlOK /\ PoolOK /\ PoolInv /\ [Next]_vars => PoolInv'
<1> SUFFICES ASSUME ControlOK, PoolOK, PoolInv, [Next]_vars PROVE PoolInv'
  OBVIOUS
<1>0. NoTaskOutlivesStage
  BY PoolEmpty
<1> USE DEF Yielded
<1>1. CASE Main
  <2>1. CASE StartStage
    <3>1. /\ task' = [i \in Slots |-> IF pc' = "run" /\ i <= Len(Current) THEN "begin" ELSE "idle"]
          /\ finished' = <<>> /\ Current' = Current /\ pc' \in {"run", "failed"}
      BY <2>1 DEF StartStage, Insert, Current
    <3> QED
      BY <3>1, PlanFacts DEF PoolInv, ControlOK, Current
  <2>2. CASE StageEnds
    BY <2>2, AllYielded DEF StageEnds, Goto, PoolInv, Current, poolVars
  <2>3. CASE StoreResult
    <3>1. UNCHANGED <<poolVars, Current>> /\ pc = "rows" /\ pc' \in {"rows", "failed"}
      BY <2>3 DEF StoreResult, StoreTask, Insert, Current
    <3> QED
      BY <1>0, <3>1 DEF PoolInv, poolVars, NoTaskOutlivesStage
  <2>4. CASE ~ (StartStage \/ StageEnds \/ StoreResult)
    <3>1. UNCHANGED poolVars
      BY <1>1, <2>4, MainFrame
    <3>2. pc # "run" /\ pc' \notin {"run", "rows"}
      BY <1>1, <2>4
      DEF Main, Issue, IssueRaises, CollectRaises, ResolveConfig, Reconnect, StartExperiment,
          StageStored, LastStage, CollectInserts, Insert, UpdateEndedAt, UpdateTestsCount,
          PublishCounts, DatabaseFails, Report, NextProfile, ReportFails, Goto
    <3> QED
      BY <1>0, <3>1, <3>2 DEF PoolInv, poolVars, NoTaskOutlivesStage
  <2> QED
    BY <2>1, <2>2, <2>3, <2>4
<1>2. ASSUME NEW i \in Slots, Task(i) PROVE PoolInv'
  <2>1. /\ task[i] \in {"begin", "load", "again", "remove"}
        /\ Issues(i) \/ GoesOn(i) \/ HasToRemove(i) \/ Yields(i)
    BY <1>2, TaskStep
  <2>2. UNCHANGED <<pc, Current>>
    BY <1>2, TaskFrame DEF mainVars, Current
  <2>3. pc = "run"
    BY <1>0, <2>1 DEF NoTaskOutlivesStage
  <2> USE DEF PoolOK, PoolInv, Judged
  <2>4. CASE Issues(i)
    BY <2>2, <2>4 DEF Issues
  <2>5. CASE GoesOn(i)
    BY <2>1, <2>2, <2>3, <2>5 DEF GoesOn
  <2>6. CASE HasToRemove(i)
    BY <2>1, <2>2, <2>3, <2>6 DEF HasToRemove
  <2>7. CASE Yields(i)
    <3>1. i \notin Yielded /\ Len(finished) \in Nat
      BY <2>1
    <3>2. /\ DOMAIN finished = 1 .. Len(finished)
          /\ DOMAIN finished' = 1 .. Len(finished) + 1
          /\ \A k \in DOMAIN finished' :
               finished'[k] = IF k = Len(finished) + 1 THEN i ELSE finished[k]
      BY <2>7, <3>1 DEF Yields
    <3>3. ASSUME NEW m \in DOMAIN finished', NEW n \in DOMAIN finished',
                 finished'[m] = finished'[n]
          PROVE  m = n
      <4>1. \A k \in DOMAIN finished : finished[k] # i
        BY <3>1
      <4> QED
        BY <3>1, <3>2, <3>3, <4>1
    <3>4. Yielded' = Yielded \cup {i}
      <4>1. Yielded' = {finished'[k] : k \in 1 .. Len(finished) + 1}
        BY <3>2
      <4>2. finished'[Len(finished) + 1] = i
        BY <3>1, <3>2
      <4>3. ASSUME NEW k \in 1 .. Len(finished) PROVE finished'[k] = finished[k]
        <5>1. k \in 1 .. Len(finished) + 1 /\ k # Len(finished) + 1
          BY <3>1
        <5> QED
          BY <3>2, <5>1
      <4>4. 1 .. Len(finished) + 1 = 1 .. Len(finished) \cup {Len(finished) + 1}
        BY <3>1
      <4> QED
        BY <3>2, <4>1, <4>2, <4>3, <4>4
    <3> QED
      BY <2>1, <2>2, <2>3, <2>7, <3>3, <3>4 DEF Yields
  <2> QED
    BY <2>1, <2>4, <2>5, <2>6, <2>7
<1>3. CASE Others
  BY <1>3, OthersFrame DEF linkless, poolVars, mainVars, PoolInv, Current
<1> QED
  BY <1>1, <1>2, <1>3, NextCases

LEMMA NextFilesOK == ControlOK /\ FilesOK /\ [Next]_vars => FilesOK'
<1> SUFFICES ASSUME ControlOK, FilesOK, [Next]_vars PROVE FilesOK'
  OBVIOUS
<1> USE DEF FilesOK
<1>1. CASE Main
  BY <1>1, MainFrame
<1>2. ASSUME NEW i \in Slots, Task(i) PROVE FilesOK'
  <2>1. File(i) \in Profiles \X Nat \X Slots
    BY DEF ControlOK, File
  <2>2. files' \subseteq files \cup {File(i)} /\ abandoned' \subseteq abandoned \cup {File(i)}
    BY <1>2 DEF Task, TaskIssues, TaskRaises, BeginAnswered, FioMissing, LoadAnswered,
       StressRetries, RetryAnswered, TimeAnswered, TimeAnswers, FileRemoved, RemoveFails,
       RemoveFile, netVars
  <2> QED
    BY <2>1, <2>2
<1>3. CASE Others
  BY <1>3, OthersFrame DEF linkless
<1> QED
  BY <1>1, <1>2, <1>3, NextCases

LEMMA NextRowsOK == ControlOK /\ PoolOK /\ PoolInv /\ RowsOK /\ [Next]_vars => RowsOK'
<1> SUFFICES ASSUME ControlOK, PoolOK, RowsOK, [Next]_vars PROVE RowsOK'
  OBVIOUS
<1>1. ASSUME NEW at \in Nat \X Nat, NEW status \in Verdicts \cup {None}, NEW next,
             Insert(at, status, next)
      PROVE  RowsOK'
  <2>1. [at |-> at, status |-> status] \in Row
    BY DEF Row
  <2>2. Append(rows[prof], [at |-> at, status |-> status]) \in Seq(Row)
    BY <2>1 DEF RowsOK, ControlOK
  <2> QED
    BY <1>1, <2>2 DEF Insert, RowsOK
<1>2. CASE Main
  <2>1. CASE StartStage
    <3>1. <<stage, 0>> \in Nat \X Nat /\ Insert(<<stage, 0>>, None, "run")
      BY <2>1 DEF StartStage, ControlOK
    <3> QED
      BY <1>1, <3>1
  <2>2. CASE StoreResult
    <3>1. /\ row + 1 \in Slots /\ <<stage, row + 1>> \in Nat \X Nat
          /\ Insert(<<stage, row + 1>>, verdict[row + 1], "rows")
      BY <2>2, PlanFacts DEF StoreResult, StoreTask, ControlOK, Current
    <3> QED
      BY <1>1, <3>1 DEF PoolOK
  <2>3. CASE CollectInserts
    <3>1. /\ <<stage, row + 1>> \in Nat \X Nat
          /\ \E next : Insert(<<stage, row + 1>>, None, next)
      BY <2>3 DEF CollectInserts, ControlOK
    <3> QED
      BY <1>1, <3>1
  <2>4. CASE ~ (StartStage \/ StoreResult \/ CollectInserts)
    <3>1. rows' = rows
      BY <1>2, <2>4
      DEF Main, Issue, IssueRaises, CollectRaises, ResolveConfig, Reconnect, StartExperiment,
          StageEnds, StageStored, LastStage, UpdateEndedAt, UpdateTestsCount, PublishCounts,
          DatabaseFails, Report, NextProfile, ReportFails, logVars
    <3> QED
      BY <3>1 DEF RowsOK
  <2> QED
    BY <2>1, <2>2, <2>3, <2>4
<1>3. CASE (\E i \in Slots : Task(i)) \/ Others
  <2>1. rows' = rows
    BY <1>3, TaskFrame, OthersFrame DEF linkless, mainVars, logVars
  <2> QED
    BY <2>1 DEF RowsOK
<1> QED
  BY <1>2, <1>3, NextCases

LEMMA NextCountsOK ==
  ControlOK /\ PoolOK /\ PoolInv /\ CountsOK /\ [Next]_vars => CountsOK'
<1> SUFFICES ASSUME ControlOK, PoolOK, PoolInv, CountsOK, [Next]_vars PROVE CountsOK'
  OBVIOUS
<1> USE DEF CountsOK
<1>1. CASE Main
  <2>1. CASE StartExperiment
    BY <2>1 DEF StartExperiment, Zero, logVars
  <2>2. CASE StoreResult
    <3>1. row + 1 \in Slots /\ row + 1 <= Len(Current) /\ pc = "rows"
      BY <2>2, PlanFacts DEF StoreResult, StoreTask, ControlOK, Current
    <3>2. verdict[row + 1] \in Verdicts
      BY <3>1 DEF PoolInv
    <3>3. counts' = [counts EXCEPT ![verdict[row + 1]] = @ + 1] /\ UNCHANGED <<failures, ended, published>>
      BY <2>2 DEF StoreResult, StoreTask, Insert
    <3> QED
      BY <3>2, <3>3
  <2>3. CASE UpdateEndedAt \/ UpdateTestsCount
    BY <2>3 DEF UpdateEndedAt, UpdateTestsCount, PublishCounts, ControlOK
  <2>4. CASE Report
    <3>1. failures' = failures + counts["FAILED"] /\ UNCHANGED <<counts, ended, published>>
      BY <2>4 DEF Report, NextProfile, logVars
    <3> QED
      BY <3>1 DEF Verdicts
  <2>5. CASE ~ (StartExperiment \/ StoreResult \/ UpdateEndedAt \/ UpdateTestsCount \/ Report)
    <3>1. UNCHANGED <<counts, failures, ended, published>>
      BY <1>1, <2>5
      DEF Main, Issue, IssueRaises, CollectRaises, ResolveConfig, Reconnect, StartStage,
          StageEnds, StageStored, LastStage, CollectInserts, Insert, DatabaseFails,
          ReportFails, logVars
    <3> QED
      BY <3>1
  <2> QED
    BY <2>1, <2>2, <2>3, <2>4, <2>5
<1>2. CASE (\E i \in Slots : Task(i)) \/ Others
  BY <1>2, TaskFrame, OthersFrame DEF linkless, mainVars, logVars
<1> QED
  BY <1>1, <1>2, NextCases

TypeInv == ControlOK /\ LinkOK /\ PoolOK /\ PoolInv /\ FilesOK /\ RowsOK /\ CountsOK

LEMMA InitTypeInv == Init => TypeInv
<1> SUFFICES ASSUME Init PROVE TypeInv
  OBVIOUS
<1>1. ControlOK
  <2>1. 1 \in Profiles
    BY PlanFacts
  <2>2. busy \in BOOLEAN
    BY DEF Init
  <2> QED
    BY <2>1, <2>2 DEF Init, ControlOK, MainPCs, Publishing
<1>2. PoolOK /\ PoolInv
  BY BoundAssumption DEF Init, PoolOK, PoolInv, Yielded
<1>3. LinkOK /\ FilesOK
  BY BoundAssumption DEF Init, LinkOK, FilesOK
<1>4. RowsOK /\ CountsOK
  BY DEF Init, RowsOK, CountsOK, Zero
<1> QED
  BY <1>1, <1>2, <1>3, <1>4 DEF TypeInv

LEMMA TypeInvCorrect == Spec => []TypeInv
<1>1. TypeInv /\ [Next]_vars => TypeInv'
  BY NextControlOK, NextLinkOK, NextPoolOK, NextPoolInv, NextFilesOK, NextRowsOK, NextCountsOK
     DEF TypeInv
<1> QED
  BY <1>1, InitTypeInv, PTL DEF Spec

\* Every variable keeps its type, for any matrix and any number of losses.
THEOREM TypeCorrect == Spec => []TypeOK
<1>1. TypeInv => TypeOK
  BY DEF TypeInv, TypeOK, ControlOK, LinkOK, PoolOK, FilesOK, RowsOK, CountsOK, Row
<1> QED
  BY <1>1, TypeInvCorrect, PTL

\* The with statement of the pool keeps its promise: no thread of a stage runs on when the
\* stage is over, also where the run has failed.
THEOREM NoTaskOutlivesStageCorrect == Spec => []NoTaskOutlivesStage
<1>1. TypeInv => NoTaskOutlivesStage
  BY PoolEmpty DEF TypeInv
<1> QED
  BY <1>1, TypeInvCorrect, PTL

(***************************************************************************)
(* The files of fio.                                                       *)
(***************************************************************************)
LEMMA NextFilesInv == TypeInv /\ FilesInv /\ [Next]_vars => FilesInv'
<1> SUFFICES ASSUME TypeInv, FilesInv, [Next]_vars PROVE FilesInv'
  OBVIOUS
<1> USE DEF TypeInv
<1>0. \A f \in files : f \in Profiles \X Nat \X Slots
  BY DEF FilesOK
<1>1. CASE Main
  <2>1. CASE StageEnds
    <3>1. \A i \in Slots : i <= Len(Current) => task[i] = "over"
      BY <2>1, AllYielded DEF StageEnds, Goto
    <3>2. ASSUME NEW f \in files \ abandoned PROVE FALSE
      <4>1. f[3] \in Slots /\ pc = "run" /\ task[f[3]] \in {"load", "remove"}
        BY <1>0, <3>2 DEF FilesInv
      <4>2. ~ (f[3] > Len(Current)) /\ f[3] \in Nat /\ Len(Current) \in Nat
        BY <4>1, PlanFacts DEF PoolInv, ControlOK, Current
      <4> QED
        BY <3>1, <4>1, <4>2
    <3> QED
      BY <1>1, <3>2, MainFrame DEF FilesInv
  <2>2. CASE ~ StageEnds
    <3>1. pc # "run"
      BY <1>1, <2>2
      DEF Main, Issue, IssueRaises, CollectRaises, ResolveConfig, Reconnect, StartExperiment,
          StartStage, StoreResult, StoreTask, StageStored, LastStage, CollectInserts, Insert,
          UpdateEndedAt, UpdateTestsCount, PublishCounts, DatabaseFails, Report, NextProfile,
          ReportFails, Goto
    <3> QED
      BY <1>1, <3>1, MainFrame DEF FilesInv
  <2> QED
    BY <2>1, <2>2
<1>2. ASSUME NEW i \in Slots, Task(i), NEW f \in files' \ abandoned'
      PROVE  (/\ pc = "run" /\ f[1] = prof /\ f[2] = stage
              /\ Current[f[3]] = "fio" /\ task[f[3]] \in {"load", "remove"})'
  <2>1. /\ task[i] \in {"begin", "load", "again", "remove"}
        /\ Issues(i) \/ GoesOn(i) \/ HasToRemove(i) \/ Yields(i)
    BY <1>2, TaskStep
  <2>2. pc = "run" /\ UNCHANGED <<pc, prof, stage, Current>>
    BY <1>2, <2>1, TaskFrame, PoolEmpty DEF NoTaskOutlivesStage, mainVars, Current
  <2>3. ASSUME f \in files \ abandoned
        PROVE  /\ f = <<prof, stage, f[3]>> /\ f[3] \in Slots
               /\ Current[f[3]] = "fio" /\ task[f[3]] \in {"load", "remove"}
    BY <1>0, <2>3 DEF FilesInv
  <2>4. CASE TaskIssues(i)
    <3>1. f \in files \/ f = <<prof, stage, i>>
      BY <1>2, <2>4 DEF TaskIssues, File
    <3>2. abandoned' = abandoned /\ task' = task
      BY <2>4 DEF TaskIssues
    <3>3. CASE f \notin files
      BY <1>2, <2>2, <2>4, <3>1, <3>2, <3>3 DEF TaskIssues
    <3> QED
      BY <1>2, <2>2, <2>3, <3>2, <3>3
  <2>5. CASE FileRemoved(i) \/ RemoveFails(i)
    <3>1. f \in files \ abandoned /\ f # <<prof, stage, i>>
      BY <1>2, <2>5 DEF FileRemoved, RemoveFails, RemoveFile, File
    <3>2. f[3] # i
      BY <2>3, <3>1
    <3>3. task'[f[3]] = task[f[3]]
      BY <2>1, <2>3, <3>1, <3>2 DEF Issues, GoesOn, HasToRemove, Yields, PoolOK
    <3> QED
      BY <2>2, <2>3, <3>1, <3>3
  <2>6. CASE ~ (TaskIssues(i) \/ FileRemoved(i) \/ RemoveFails(i))
    <3>1. UNCHANGED <<files, abandoned>> /\ task[i] # "remove"
      BY <1>2, <2>6
      DEF Task, TaskRaises, BeginAnswered, FioMissing, LoadAnswered, StressRetries,
          RetryAnswered, TimeAnswered, TimeAnswers, TaskAnswered, netVars
    <3>2. task'[f[3]] \in {"load", "remove"}
      <4>1. CASE Issues(i)
        BY <1>2, <2>3, <3>1, <4>1 DEF Issues
      <4>2. CASE f[3] # i
        BY <1>2, <2>1, <2>3, <3>1, <4>2 DEF Issues, GoesOn, HasToRemove, Yields, PoolOK
      <4>3. CASE f[3] = i /\ HasToRemove(i)
        BY <2>3, <4>3 DEF HasToRemove, PoolOK
      <4>4. CASE f[3] = i /\ (GoesOn(i) \/ Yields(i))
        BY <1>2, <2>3, <3>1, <4>4 DEF GoesOn, Yields
      <4> QED
        BY <2>1, <4>1, <4>2, <4>3, <4>4
    <3> QED
      BY <1>2, <2>2, <2>3, <3>1, <3>2
  <2> QED
    BY <2>4, <2>5, <2>6
<1>3. CASE Others
  BY <1>3, OthersFrame DEF linkless, mainVars, poolVars, FilesInv, Current
<1> QED
  BY <1>1, <1>2, <1>3, NextCases DEF FilesInv

\* Whatever becomes of a load and of the connection, a data file that fio left on the
\* machine is in use, or its removal was tried.
THEOREM FilesRemovedCorrect == Spec => []FilesRemoved
<1>1. Init => FilesInv
  BY DEF Init, FilesInv
<1>2. FilesInv => FilesRemoved
  BY DEF FilesInv, FilesRemoved
<1> QED
  BY <1>1, <1>2, NextFilesInv, TypeInvCorrect, PTL DEF Spec

(***************************************************************************)
(* The order of the rows.                                                  *)
(***************************************************************************)
LEMMA InsertFollows ==
  ASSUME RowsOK, prof \in Profiles, prof' = prof, NEW at \in Nat \X Nat,
         NEW status \in Verdicts \cup {None},
         RowsFollowPlan, at = NextAt(prof),
         rows' = [rows EXCEPT ![prof] = Append(@, [at |-> at, status |-> status])]
  PROVE  /\ RowsFollowPlan' /\ NextAt(prof)' = RowAfter(prof, at)
         /\ \A p \in Profiles : p # prof => rows'[p] = rows[p]
<1> DEFINE new == [at |-> at, status |-> status]
           len == Len(rows[prof])
<1>1. rows[prof] \in Seq(Row) /\ len \in Nat /\ new \in Row
  <2>1. new \in Row
    BY DEF Row
  <2>2. rows[prof] \in Seq(Row)
    BY DEF RowsOK
  <2> QED
    BY <2>1, <2>2
<1>2. \A p \in Profiles : rows'[p] = IF p = prof THEN Append(rows[prof], new) ELSE rows[p]
  BY DEF RowsOK
<1>3. /\ Len(rows'[prof]) = len + 1 /\ DOMAIN rows'[prof] = 1 .. len + 1
      /\ rows'[prof][len + 1] = new
      /\ \A n \in 1 .. len : rows'[prof][n] = rows[prof][n]
  <2> HIDE DEF new
  <2>1. rows'[prof] = Append(rows[prof], new)
    BY <1>2
  <2> QED
    BY <1>1, <2>1
<1>4. NextAt(prof)' = RowAfter(prof, at)
  <2>1. rows'[prof] # <<>>
    BY <1>1, <1>3
  <2>2. rows'[prof][Len(rows'[prof])].at = at
    BY <1>3
  <2> QED
    BY <2>1, <2>2 DEF NextAt
<1>5. ASSUME NEW n \in DOMAIN rows'[prof]
      PROVE  rows'[prof][n].at = IF n = 1 THEN <<1, 0>> ELSE RowAfter(prof, rows'[prof][n - 1].at)
  <2>1. CASE n <= len
    <3>1. /\ n \in DOMAIN rows[prof] /\ rows'[prof][n] = rows[prof][n]
          /\ n # 1 => rows'[prof][n - 1] = rows[prof][n - 1]
      BY <1>1, <1>3, <2>1
    <3> QED
      BY <3>1 DEF RowsFollowPlan
  <2>2. CASE n = len + 1
    <3>1. CASE len = 0
      <4>1. rows[prof] = <<>>
        BY <1>1, <3>1
      <4> QED
        BY <1>3, <2>2, <3>1, <4>1 DEF NextAt
    <3>2. CASE len # 0
      <4>1. rows[prof] # <<>> /\ n # 1 /\ n - 1 = len /\ rows'[prof][len] = rows[prof][len]
        BY <1>1, <1>3, <2>2, <3>2
      <4> QED
        BY <1>3, <2>2, <4>1 DEF NextAt
    <3> QED
      BY <3>1, <3>2
  <2> QED
    BY <1>1, <1>3, <2>1, <2>2
<1>6. RowsFollowPlan'
  <2>1. ASSUME NEW p \in Profiles, NEW n \in DOMAIN rows'[p]
        PROVE  rows'[p][n].at = IF n = 1 THEN <<1, 0>> ELSE RowAfter(p, rows'[p][n - 1].at)
    <3>1. CASE p = prof
      <4>1. n \in DOMAIN rows'[prof]
        BY <2>1, <3>1
      <4>2. rows'[prof][n].at = IF n = 1 THEN <<1, 0>> ELSE RowAfter(prof, rows'[prof][n - 1].at)
        BY <1>5, <4>1
      <4> QED
        BY <3>1, <4>2
    <3>2. CASE p # prof
      <4>1. rows'[p] = rows[p]
        BY <1>2, <3>2
      <4> QED
        BY <2>1, <4>1 DEF RowsFollowPlan
    <3> QED
      BY <3>1, <3>2
  <2> QED
    BY <2>1 DEF RowsFollowPlan
<1> QED
  BY <1>2, <1>4, <1>6

LEMMA RowAfterFacts ==
  ASSUME NEW p \in Profiles, NEW k \in Nat \ {0}, NEW i \in Nat
  PROVE  /\ k \in Stages(p) /\ i # Len(Matrix[p][k]) => RowAfter(p, <<k, i>>) = <<k, i + 1>>
         /\ k \in Stages(p) /\ i = Len(Matrix[p][k]) =>
              RowAfter(p, <<k, i>>) = IF k + 1 <= Len(Matrix[p]) THEN <<k + 1, 0>> ELSE <<k + 1, 1>>
         /\ k = Len(Matrix[p]) + 1 => RowAfter(p, <<k, i>>) = <<k, i + 1>>
BY PlanFacts DEF RowAfter

LEMMA NextRowsInv == TypeInv /\ RowsInv /\ [Next]_vars => RowsInv'
<1> SUFFICES ASSUME TypeInv, RowsInv, [Next]_vars PROVE RowsInv'
  OBVIOUS
<1>0. /\ ControlOK /\ RowsOK /\ PoolOK /\ RowsFollowPlan
      /\ prof \in Profiles /\ stage \in Nat \ {0} /\ row \in Nat
      /\ Len(Matrix[prof]) \in Nat \ {0} /\ Profiles = 1 .. Len(Matrix)
      /\ Len(Matrix) \in Nat
  BY PlanFacts DEF TypeInv, ControlOK, RowsInv
<1>1. CASE StartStage
  <2>1. /\ rows' = [rows EXCEPT ![prof] = Append(@, [at |-> <<stage, 0>>, status |-> None])]
        /\ pc = "stage" /\ stage <= Len(Matrix[prof]) /\ pc' \in {"run", "failed"}
        /\ row' = 0 /\ UNCHANGED <<prof, stage>>
    BY <1>1 DEF StartStage, Insert
  <2>2. /\ RowsFollowPlan' /\ NextAt(prof)' = RowAfter(prof, <<stage, 0>>)
        /\ \A p \in Profiles : p # prof => rows'[p] = rows[p]
    BY <1>0, <2>1, InsertFollows DEF RowsInv
  <2> QED
    BY <1>0, <2>1, <2>2 DEF RowsInv
<1>2. CASE StoreResult
  <2>1. /\ rows' = [rows EXCEPT ![prof] =
                      Append(@, [at |-> <<stage, row + 1>>, status |-> verdict[row + 1]])]
        /\ pc = "rows" /\ row < Len(Current) /\ pc' \in {"rows", "failed"}
        /\ row' = row + 1 /\ UNCHANGED <<prof, stage>>
    BY <1>2 DEF StoreResult, StoreTask, Insert
  <2>2. stage \in Stages(prof) /\ row + 1 \in Slots /\ row # Len(Current)
    BY <1>0, <2>1, PlanFacts DEF ControlOK, Current
  <2>3. NextAt(prof) = <<stage, row + 1>>
    BY <1>0, <2>1, <2>2, RowAfterFacts DEF RowsInv, Current
  <2>4. /\ RowsFollowPlan' /\ NextAt(prof)' = RowAfter(prof, <<stage, row + 1>>)
        /\ \A p \in Profiles : p # prof => rows'[p] = rows[p]
    <3>1. verdict[row + 1] \in Verdicts \cup {None} /\ <<stage, row + 1>> \in Nat \X Nat
      BY <1>0, <2>2 DEF PoolOK
    <3> QED
      BY <1>0, <2>1, <2>3, <3>1, InsertFollows
  <2> QED
    BY <1>0, <2>1, <2>4 DEF RowsInv
<1>3. CASE CollectInserts
  <2>1. /\ rows' = [rows EXCEPT ![prof] = Append(@, [at |-> <<stage, row + 1>>, status |-> None])]
        /\ pc = "collect" /\ pc' \in {"collect", "ended_at", "failed"}
        /\ row' = row + 1 /\ UNCHANGED <<prof, stage>>
    BY <1>3 DEF CollectInserts, Insert
  <2>2. stage = Len(Matrix[prof]) + 1
    BY <1>0, <2>1 DEF ControlOK
  <2>3. /\ RowsFollowPlan' /\ NextAt(prof)' = RowAfter(prof, <<stage, row + 1>>)
        /\ \A p \in Profiles : p # prof => rows'[p] = rows[p]
    <3>1. <<stage, row + 1>> \in Nat \X Nat /\ NextAt(prof) = <<stage, row + 1>>
      BY <1>0, <2>1 DEF RowsInv
    <3> QED
      BY <1>0, <2>1, <3>1, InsertFollows
  <2>4. RowAfter(prof, <<stage, row + 1>>) = <<stage, row + 1 + 1>>
    <3>1. row + 1 \in Nat
      BY <1>0
    <3> QED
      BY <1>0, <2>2, <3>1, RowAfterFacts
  <2> QED
    BY <1>0, <2>1, <2>3, <2>4 DEF RowsInv
<1>4. CASE StageEnds
  BY <1>4 DEF StageEnds, Goto, logVars, RowsInv, RowsFollowPlan, NextAt
<1>5. CASE StageStored
  <2>1. /\ pc = "rows" /\ row = Len(Current) /\ pc' = "stage" /\ stage' = stage + 1
        /\ UNCHANGED <<prof, row, rows>>
    BY <1>5 DEF StageStored, Goto, logVars
  <2>2. stage \in Stages(prof) /\ NextAt(prof) = RowAfter(prof, <<stage, row>>)
    BY <1>0, <2>1 DEF ControlOK, RowsInv
  <2>3. NextAt(prof) = IF stage + 1 <= Len(Matrix[prof]) THEN <<stage + 1, 0>> ELSE <<stage + 1, 1>>
    BY <1>0, <2>1, <2>2, RowAfterFacts DEF Current
  <2> QED
    BY <2>1, <2>3 DEF RowsInv, RowsFollowPlan, NextAt
<1>6. CASE LastStage
  <2>1. /\ pc = "stage" /\ stage > Len(Matrix[prof]) /\ pc' = "collect" /\ row' = 0
        /\ UNCHANGED <<prof, stage, rows>>
    BY <1>6 DEF LastStage, Goto, logVars
  <2> QED
    BY <1>0, <2>1 DEF RowsInv, RowsFollowPlan, NextAt
<1>7. CASE StartExperiment
  <2>1. pc = "experiment" /\ pc' = "stage" /\ stage' = 1 /\ UNCHANGED <<prof, rows>>
    BY <1>7 DEF StartExperiment, Goto, logVars
  <2> QED
    BY <1>0, <2>1 DEF RowsInv, RowsFollowPlan, NextAt
<1>8. CASE Report
  <2>1. /\ pc' \in {"connect", "done"} /\ rows' = rows /\ prof' \in Profiles /\ prof' >= prof
        /\ pc' = "connect" => prof' = prof + 1
    BY <1>0, <1>8 DEF Report, NextProfile, logVars
  <2> QED
    BY <1>0, <2>1 DEF RowsInv, RowsFollowPlan
<1>9. CASE Main /\ ~ (StartStage \/ StoreResult \/ CollectInserts \/ StageEnds \/ StageStored
                      \/ LastStage \/ StartExperiment \/ Report)
  <2>1. /\ UNCHANGED <<prof, stage, row, rows>>
        /\ pc' = pc \/ pc' = "failed" \/ pc' \in {"counts", "report"}
           \/ (pc \in {"config", "connect"} /\ pc' = "experiment")
    BY <1>9
    DEF Main, Issue, IssueRaises, CollectRaises, ResolveConfig, Reconnect, UpdateEndedAt,
        UpdateTestsCount, PublishCounts, DatabaseFails, ReportFails, Goto, logVars
  <2> QED
    BY <2>1 DEF RowsInv, RowsFollowPlan, NextAt
<1>10. CASE (\E i \in Slots : Task(i)) \/ Others
  <2>1. UNCHANGED <<pc, prof, stage, row, rows>>
    BY <1>10, TaskFrame, OthersFrame DEF linkless, mainVars, logVars
  <2> QED
    BY <2>1 DEF RowsInv, RowsFollowPlan, NextAt
<1> QED
  BY <1>1, <1>2, <1>3, <1>4, <1>5, <1>6, <1>7, <1>8, <1>9, <1>10, NextCases

\* Whatever order the tasks of a stage finish in, and wherever the run is cut, the rows of
\* an experiment follow its plan without gap or repetition.
THEOREM RowsFollowPlanCorrect == Spec => []RowsFollowPlan
<1>1. Init => RowsInv
  BY PlanFacts DEF Init, RowsInv, RowsFollowPlan
<1>2. RowsInv => RowsFollowPlan
  BY DEF RowsInv
<1> QED
  BY <1>1, <1>2, NextRowsInv, TypeInvCorrect, PTL DEF Spec

(***************************************************************************)
(* Counting rows and planned tasks.                                        *)
(***************************************************************************)
LEMMA RowsWithFinite ==
  ASSUME RowsOK, NEW p \in Profiles, NEW status
  PROVE  IsFiniteSet(RowsWith(p, status)) /\ Cardinality(RowsWith(p, status)) \in Nat
<1>1. rows[p] \in Seq(Row)
  BY DEF RowsOK
<1>2. RowsWith(p, status) \in SUBSET (1 .. Len(rows[p])) /\ IsFiniteSet(1 .. Len(rows[p]))
  BY <1>1, FS_Interval DEF RowsWith
<1>3. IsFiniteSet(RowsWith(p, status))
  BY <1>2, FS_Subset
<1> QED
  BY <1>3, FS_CardinalityType

LEMMA InsertCounts ==
  ASSUME RowsOK, prof \in Profiles, prof' = prof, NEW at \in Nat \X Nat,
         NEW status \in Verdicts \cup {None},
         rows' = [rows EXCEPT ![prof] = Append(@, [at |-> at, status |-> status])],
         NEW s \in Verdicts
  PROVE  /\ Len(rows'[prof]) = Len(rows[prof]) + 1
         /\ Cardinality(RowsWith(prof, s)') =
              Cardinality(RowsWith(prof, s)) + (IF s = status THEN 1 ELSE 0)
<1> DEFINE new == [at |-> at, status |-> status]
           len == Len(rows[prof])
<1>1. rows[prof] \in Seq(Row)
  BY DEF RowsOK
<1>2. new \in Row /\ new.status = status
  BY DEF Row
<1>3. rows'[prof] = Append(rows[prof], new)
  BY DEF RowsOK
<1> HIDE DEF new
<1>4. /\ len \in Nat /\ DOMAIN rows[prof] = 1 .. len
      /\ Len(rows'[prof]) = len + 1 /\ DOMAIN rows'[prof] = 1 .. len + 1
      /\ rows'[prof][len + 1] = new
  BY <1>1, <1>2, <1>3
<1>5. \A n \in 1 .. len : rows'[prof][n] = rows[prof][n]
  BY <1>1, <1>2, <1>3
<1>6. RowsWith(prof, s)' = {n \in 1 .. len + 1 : rows'[prof][n].status = s}
  BY <1>4 DEF RowsWith
<1>7. RowsWith(prof, s) = {n \in 1 .. len : rows[prof][n].status = s}
  BY <1>4 DEF RowsWith
<1>8. /\ IsFiniteSet(RowsWith(prof, s)) /\ Cardinality(RowsWith(prof, s)) \in Nat
      /\ len + 1 \notin RowsWith(prof, s)
  <2>1. len + 1 \notin 1 .. len
    BY <1>4
  <2> QED
    BY <1>7, <2>1, RowsWithFinite
<1>9. 1 .. len + 1 = 1 .. len \cup {len + 1}
  BY <1>4
<1>10. CASE s = status
  <2>1. RowsWith(prof, s)' = RowsWith(prof, s) \cup {len + 1}
    BY <1>2, <1>4, <1>5, <1>6, <1>7, <1>9, <1>10
  <2>2. Cardinality(RowsWith(prof, s) \cup {len + 1}) = Cardinality(RowsWith(prof, s)) + 1
    BY <1>8, FS_AddElement
  <2> QED
    BY <1>4, <1>10, <2>1, <2>2
<1>11. CASE s # status
  <2>1. RowsWith(prof, s)' = RowsWith(prof, s)
    BY <1>2, <1>4, <1>5, <1>6, <1>7, <1>9, <1>11
  <2> QED
    BY <1>4, <1>8, <1>11, <2>1
<1> QED
  BY <1>10, <1>11

LEMMA FirstStage == ASSUME NEW p \in Profiles PROVE TasksBefore(p, 1) = {}
<1> SUFFICES ASSUME NEW t \in TasksBefore(p, 1) PROVE FALSE
  OBVIOUS
<1>1. t[1] \in Stages(p) /\ t[1] < 1
  BY DEF TasksBefore, PlannedTasks
<1> QED
  BY <1>1, PlanFacts

LEMMA NextStage ==
  ASSUME NEW p \in Profiles, NEW k \in Stages(p), IsFiniteSet(TasksBefore(p, k))
  PROVE  /\ IsFiniteSet(TasksBefore(p, k + 1))
         /\ Cardinality(TasksBefore(p, k + 1)) =
              Cardinality(TasksBefore(p, k)) + Len(Matrix[p][k])
<1> DEFINE n == Len(Matrix[p][k])
           tasks == {k} \X (1 .. n)
<1>1. /\ n \in Nat /\ 1 .. n \subseteq Slots /\ Slots \subseteq Nat \ {0}
      /\ Stages(p) \subseteq Nat /\ k \in Nat
  BY PlanFacts
<1>2. IsFiniteSet(tasks) /\ Cardinality(tasks) = n
  <2>1. IsFiniteSet(1 .. n) /\ Cardinality(1 .. n) = n
    <3>1. 1 \in Int /\ n \in Int
      BY <1>1
    <3>2. IsFiniteSet(1 .. n) /\ Cardinality(1 .. n) = IF 1 > n THEN 0 ELSE n - 1 + 1
      BY <3>1, FS_Interval
    <3> QED
      BY <1>1, <3>2
  <2>2. IsFiniteSet({k}) /\ Cardinality({k}) = 1
    BY FS_Singleton
  <2>3. IsFiniteSet(tasks) /\ Cardinality(tasks) = 1 * n
    <3>1. /\ IsFiniteSet({k} \X (1 .. n))
          /\ Cardinality({k} \X (1 .. n)) = Cardinality({k}) * Cardinality(1 .. n)
      BY <2>1, <2>2, FS_Product, Zenon
    <3> QED
      BY <2>1, <2>2, <3>1
  <2> QED
    BY <1>1, <2>3
<1>3. TasksBefore(p, k + 1) = TasksBefore(p, k) \cup tasks
  <2>1. ASSUME NEW t \in TasksBefore(p, k + 1) PROVE t \in TasksBefore(p, k) \cup tasks
    <3>1. /\ t \in Stages(p) \X Slots /\ t \in PlannedTasks(p)
          /\ t[1] < k + 1 /\ t[2] <= Len(Matrix[p][t[1]])
      BY DEF TasksBefore, PlannedTasks
    <3>2. CASE t[1] = k
      <4>1. t[2] <= n /\ t[2] \in Nat \ {0} /\ t = <<t[1], t[2]>>
        <5>1. Len(Matrix[p][t[1]]) = n
          BY <3>2
        <5>2. t[2] \in Slots /\ t = <<t[1], t[2]>>
          BY <3>1
        <5> QED
          BY <1>1, <3>1, <5>1, <5>2
      <4>2. t[2] \in 1 .. n
        BY <1>1, <4>1
      <4> QED
        BY <3>2, <4>1, <4>2
    <3>3. CASE t[1] # k
      <4>1. t[1] < k
        BY <1>1, <3>1, <3>3
      <4> QED
        BY <3>1, <4>1 DEF TasksBefore
    <3> QED
      BY <3>2, <3>3
  <2>2. ASSUME NEW t \in TasksBefore(p, k) PROVE t \in TasksBefore(p, k + 1)
    BY <1>1 DEF TasksBefore, PlannedTasks
  <2>3. ASSUME NEW t \in tasks PROVE t \in TasksBefore(p, k + 1)
    BY <1>1 DEF TasksBefore, PlannedTasks
  <2> QED
    BY <2>1, <2>2, <2>3
<1>4. TasksBefore(p, k) \cap tasks = {}
  <2> SUFFICES ASSUME NEW t \in TasksBefore(p, k), t \in tasks PROVE FALSE
    OBVIOUS
  <2>1. t[1] < k /\ t[1] = k
    BY DEF TasksBefore
  <2> QED
    BY <1>1, <2>1
<1>5. /\ IsFiniteSet(TasksBefore(p, k) \cup tasks)
      /\ Cardinality(TasksBefore(p, k) \cup tasks) =
           Cardinality(TasksBefore(p, k)) + Cardinality(tasks)
           - Cardinality(TasksBefore(p, k) \cap tasks)
  BY <1>2, FS_Union
<1>6. Cardinality(TasksBefore(p, k) \cap tasks) = 0 /\ Cardinality(TasksBefore(p, k)) \in Nat
  BY <1>4, FS_EmptySet, FS_CardinalityType
<1> HIDE DEF n, tasks
<1>7. Cardinality(TasksBefore(p, k) \cup tasks) = Cardinality(TasksBefore(p, k)) + n
  BY <1>1, <1>2, <1>5, <1>6
<1> QED
  BY <1>3, <1>5, <1>7 DEF n

LEMMA AllStages ==
  ASSUME NEW p \in Profiles PROVE TasksBefore(p, Len(Matrix[p]) + 1) = PlannedTasks(p)
<1>1. ASSUME NEW t \in PlannedTasks(p) PROVE t[1] < Len(Matrix[p]) + 1
  <2>1. t[1] \in Stages(p)
    BY DEF PlannedTasks
  <2> QED
    BY <2>1, PlanFacts
<1> QED
  BY <1>1 DEF TasksBefore

(***************************************************************************)
(* The rows stored and counted in the current profile.                     *)
(***************************************************************************)
\* A row is inserted: of no task, or of a task that is counted.
LEMMA InsertStored ==
  ASSUME TypeInv, UNCHANGED <<prof, stage>>, NEW n \in Nat, NEW c \in Nat, StoredUpTo(n, c),
         NEW at \in Nat \X Nat, NEW status \in Verdicts \cup {None},
         rows' = [rows EXCEPT ![prof] = Append(@, [at |-> at, status |-> status])],
         counts' = IF status = None THEN counts ELSE [counts EXCEPT ![status] = @ + 1]
  PROVE  /\ IsFiniteSet(TasksBefore(prof, stage)) /\ Before \in Nat
         /\ Len(rows'[prof]) = Before + n + 1
         /\ counts'["PASSED"] + counts'["FAILED"] = Before + (IF status = None THEN c ELSE c + 1)
         /\ \A s \in Verdicts : counts'[s] = Cardinality(RowsWith(prof, s)')
<1>1. /\ RowsOK /\ prof \in Profiles /\ counts \in [Verdicts -> Nat] /\ Before \in Nat
      /\ counts["PASSED"] \in Nat /\ counts["FAILED"] \in Nat /\ None \notin Verdicts
  BY FS_CardinalityType DEF TypeInv, ControlOK, CountsOK, StoredUpTo, Before, Verdicts, None
<1>2. ASSUME NEW s \in Verdicts
      PROVE  /\ Len(rows'[prof]) = Len(rows[prof]) + 1
             /\ Cardinality(RowsWith(prof, s)') =
                  Cardinality(RowsWith(prof, s)) + (IF s = status THEN 1 ELSE 0)
  BY <1>1, InsertCounts
<1>3. Len(rows'[prof]) = Before + n + 1
  <2>1. Len(rows[prof]) = Before + n
    BY DEF StoredUpTo
  <2>2. Len(rows'[prof]) = Len(rows[prof]) + 1
    BY <1>2 DEF Verdicts
  <2> QED
    BY <1>1, <2>1, <2>2
<1>4. ASSUME NEW s \in Verdicts PROVE counts'[s] = counts[s] + (IF s = status THEN 1 ELSE 0)
  BY <1>1
<1>5. counts'["PASSED"] + counts'["FAILED"] = Before + (IF status = None THEN c ELSE c + 1)
  <2>1. counts["PASSED"] + counts["FAILED"] = Before + c
    BY DEF StoredUpTo
  <2>2. /\ counts'["PASSED"] = counts["PASSED"] + (IF "PASSED" = status THEN 1 ELSE 0)
        /\ counts'["FAILED"] = counts["FAILED"] + (IF "FAILED" = status THEN 1 ELSE 0)
    BY <1>4 DEF Verdicts
  <2> QED
    BY <1>1, <2>1, <2>2 DEF Verdicts, None
<1>6. ASSUME NEW s \in Verdicts PROVE counts'[s] = Cardinality(RowsWith(prof, s)')
  BY <1>2, <1>4 DEF StoredUpTo
<1> QED
  BY <1>1, <1>3, <1>5, <1>6 DEF StoredUpTo

LEMMA NextStoredInv == TypeInv /\ RowsInv /\ StoredInv /\ [Next]_vars => StoredInv'
<1> SUFFICES ASSUME TypeInv, RowsInv, StoredInv, [Next]_vars PROVE StoredInv'
  OBVIOUS
<1>0. /\ ControlOK /\ PoolOK /\ PoolInv
      /\ prof \in Profiles /\ stage \in Nat \ {0} /\ row \in Nat
      /\ Len(Matrix[prof]) \in Nat \ {0} /\ None \notin Verdicts
  BY PlanFacts DEF TypeInv, ControlOK, None, Verdicts
<1> USE DEF Publishing
<1>1. CASE StartExperiment
  <2>1. /\ pc = "experiment" /\ pc' = "stage" /\ stage' = 1 /\ counts' = Zero
        /\ UNCHANGED <<prof, rows>>
    BY <1>1 DEF StartExperiment, Goto, logVars
  <2>2. rows[prof] = <<>> /\ TasksBefore(prof, 1) = {}
    BY <1>0, <2>1, FirstStage DEF RowsInv
  <2>3. \A s : RowsWith(prof, s)' = {}
    BY <2>1, <2>2 DEF RowsWith
  <2>4. Zero["PASSED"] = 0 /\ Zero["FAILED"] = 0 /\ \A s \in Verdicts : Zero[s] = 0
    BY DEF Zero, Verdicts
  <2>5. StoredUpTo(stage - 1, 0)'
    <3>1. /\ IsFiniteSet(TasksBefore(prof', stage')) /\ Cardinality(TasksBefore(prof', stage')) = 0
          /\ \A s \in Verdicts : counts'[s] = Cardinality(RowsWith(prof, s)')
      BY <2>1, <2>2, <2>3, <2>4, FS_EmptySet
    <3>2. Before' = 0
      BY <3>1 DEF Before
    <3>3. Len(rows'[prof']) = Before' + (stage' - 1)
      BY <2>1, <2>2, <3>2
    <3>4. counts'["PASSED"] + counts'["FAILED"] = Before' + 0
      BY <2>1, <2>4, <3>2
    <3> QED
      BY <3>1, <3>3, <3>4 DEF StoredUpTo
  <2> QED
    BY <2>1, <2>5 DEF StoredInv
<1>2. CASE StartStage
  <2>1. /\ rows' = [rows EXCEPT ![prof] = Append(@, [at |-> <<stage, 0>>, status |-> None])]
        /\ pc = "stage" /\ pc' \in {"run", "failed"}
        /\ UNCHANGED <<prof, stage, counts>>
    BY <1>2 DEF StartStage, Insert
  <2>2. StoredUpTo(stage - 1, 0) /\ stage - 1 \in Nat /\ <<stage, 0>> \in Nat \X Nat
    BY <1>0, <2>1 DEF StoredInv
  <2>3. StoredUpTo(stage, 0)'
    <3>1. /\ IsFiniteSet(TasksBefore(prof, stage)) /\ Before \in Nat
          /\ Len(rows'[prof]) = Before + (stage - 1) + 1
          /\ counts'["PASSED"] + counts'["FAILED"] = Before + 0
          /\ \A s \in Verdicts : counts'[s] = Cardinality(RowsWith(prof, s)')
      BY <2>1, <2>2, InsertStored
    <3>2. Len(rows'[prof]) = Before + stage
      BY <1>0, <3>1
    <3> QED
      BY <2>1, <3>1, <3>2 DEF StoredUpTo, Before, RowsWith
  <2> QED
    BY <2>1, <2>3 DEF StoredInv
<1>3. CASE StoreResult
  <2>1. /\ rows' = [rows EXCEPT ![prof] =
                      Append(@, [at |-> <<stage, row + 1>>, status |-> verdict[row + 1]])]
        /\ counts' = [counts EXCEPT ![verdict[row + 1]] = @ + 1]
        /\ pc = "rows" /\ row < Len(Current) /\ row' = row + 1 /\ pc' \in {"rows", "failed"}
        /\ UNCHANGED <<prof, stage>>
    BY <1>3 DEF StoreResult, StoreTask, Insert
  <2>2. row + 1 \in Slots /\ row + 1 <= Len(Current)
    BY <1>0, <2>1, PlanFacts DEF ControlOK, Current
  <2>3. verdict[row + 1] \in Verdicts
    BY <1>0, <2>1, <2>2 DEF PoolInv
  <2>4. StoredUpTo(stage + row, row) /\ stage + row \in Nat /\ <<stage, row + 1>> \in Nat \X Nat
    BY <1>0, <2>1 DEF StoredInv
  <2>5. StoredUpTo(stage + row, row)'
    <3>1. /\ IsFiniteSet(TasksBefore(prof, stage)) /\ Before \in Nat
          /\ Len(rows'[prof]) = Before + (stage + row) + 1
          /\ counts'["PASSED"] + counts'["FAILED"] = Before + (row + 1)
          /\ \A s \in Verdicts : counts'[s] = Cardinality(RowsWith(prof, s)')
      <4>1. /\ verdict[row + 1] # None /\ verdict[row + 1] \in Verdicts \cup {None}
            /\ counts' = IF verdict[row + 1] = None THEN counts
                          ELSE [counts EXCEPT ![verdict[row + 1]] = @ + 1]
        BY <1>0, <2>1, <2>3
      <4>2. /\ IsFiniteSet(TasksBefore(prof, stage)) /\ Before \in Nat
            /\ Len(rows'[prof]) = Before + (stage + row) + 1
            /\ counts'["PASSED"] + counts'["FAILED"] =
                 Before + (IF verdict[row + 1] = None THEN row ELSE row + 1)
            /\ \A s \in Verdicts : counts'[s] = Cardinality(RowsWith(prof, s)')
        <5> DEFINE v == verdict[row + 1]
                   n == stage + row
        <5>1. /\ v \in Verdicts \cup {None} /\ n \in Nat /\ row \in Nat
              /\ StoredUpTo(n, row) /\ <<stage, row + 1>> \in Nat \X Nat
              /\ rows' = [rows EXCEPT ![prof] = Append(@, [at |-> <<stage, row + 1>>, status |-> v])]
              /\ counts' = IF v = None THEN counts ELSE [counts EXCEPT ![v] = @ + 1]
              /\ UNCHANGED <<prof, stage>>
          BY <1>0, <2>1, <2>4, <4>1
        <5> HIDE DEF v, n
        <5>2. /\ IsFiniteSet(TasksBefore(prof, stage)) /\ Before \in Nat
              /\ Len(rows'[prof]) = Before + n + 1
              /\ counts'["PASSED"] + counts'["FAILED"] = Before + (IF v = None THEN row ELSE row + 1)
              /\ \A s \in Verdicts : counts'[s] = Cardinality(RowsWith(prof, s)')
          BY <5>1, InsertStored
        <5> QED
          BY <5>2 DEF v, n
      <4> QED
        BY <4>1, <4>2
    <3>2. Len(rows'[prof]) = Before + (stage + row')
      BY <1>0, <2>1, <3>1
    <3> QED
      BY <2>1, <3>1, <3>2 DEF StoredUpTo, Before, RowsWith
  <2> QED
    BY <2>1, <2>5 DEF StoredInv
<1>4. CASE CollectInserts
  <2>1. /\ rows' = [rows EXCEPT ![prof] = Append(@, [at |-> <<stage, row + 1>>, status |-> None])]
        /\ pc = "collect" /\ pc' \in {"collect", "ended_at", "failed"} /\ row' = row + 1
        /\ UNCHANGED <<prof, stage, counts>>
    BY <1>4 DEF CollectInserts, Insert
  <2>2. /\ StoredUpTo(stage - 1 + row, 0) /\ stage - 1 + row \in Nat
        /\ <<stage, row + 1>> \in Nat \X Nat
    BY <1>0, <2>1 DEF StoredInv
  <2>3. StoredUpTo(stage - 1 + row, 0)'
    <3>1. /\ IsFiniteSet(TasksBefore(prof, stage)) /\ Before \in Nat
          /\ Len(rows'[prof]) = Before + (stage - 1 + row) + 1
          /\ counts'["PASSED"] + counts'["FAILED"] = Before + 0
          /\ \A s \in Verdicts : counts'[s] = Cardinality(RowsWith(prof, s)')
      BY <2>1, <2>2, InsertStored
    <3>2. Len(rows'[prof]) = Before + (stage - 1 + row')
      BY <1>0, <2>1, <3>1
    <3> QED
      BY <2>1, <3>1, <3>2 DEF StoredUpTo, Before, RowsWith
  <2> QED
    BY <2>1, <2>3 DEF StoredInv
<1>5. CASE StageStored
  <2>1. /\ pc = "rows" /\ row = Len(Current) /\ pc' = "stage" /\ stage' = stage + 1
        /\ UNCHANGED <<prof, row, rows, counts>>
    BY <1>5 DEF StageStored, Goto, logVars
  <2>2. StoredUpTo(stage + row, row) /\ stage \in Stages(prof)
    BY <1>0, <2>1 DEF StoredInv, ControlOK
  <2>3. /\ IsFiniteSet(TasksBefore(prof, stage + 1))
        /\ Cardinality(TasksBefore(prof, stage + 1)) = Before + row
    BY <1>0, <2>1, <2>2, NextStage DEF StoredUpTo, Before, Current
  <2>4. Before \in Nat
    BY <2>2, FS_CardinalityType DEF StoredUpTo, Before
  <2>5. RowsWith(prof, "PASSED")' = RowsWith(prof, "PASSED")
        /\ RowsWith(prof, "FAILED")' = RowsWith(prof, "FAILED")
    BY <2>1 DEF RowsWith
  <2>6. /\ Len(rows[prof]) = Before + row + stage
        /\ counts["PASSED"] + counts["FAILED"] = Before + row
    BY <1>0, <2>2, <2>4 DEF StoredUpTo
  <2>7. StoredUpTo(stage - 1, 0)'
    BY <1>0, <2>1, <2>2, <2>3, <2>4, <2>5, <2>6 DEF StoredUpTo, Before, Verdicts
  <2> QED
    BY <2>1, <2>7 DEF StoredInv
<1>6. CASE LastStage
  <2>1. /\ pc = "stage" /\ pc' = "collect" /\ row' = 0 /\ UNCHANGED <<prof, stage, rows, counts>>
    BY <1>6 DEF LastStage, Goto, logVars
  <2>2. StoredUpTo(stage - 1, 0)
    BY <2>1 DEF StoredInv
  <2>3. StoredUpTo(stage - 1 + row, 0)'
    BY <1>0, <2>1, <2>2 DEF StoredUpTo, Before, RowsWith
  <2> QED
    BY <2>1, <2>3 DEF StoredInv
<1>7. CASE StageEnds
  <2>1. /\ pc = "run" /\ pc' = "rows" /\ row = 0
        /\ UNCHANGED <<prof, stage, row, rows, counts>>
    BY <1>0, <1>7 DEF StageEnds, Goto, logVars, ControlOK
  <2>2. StoredUpTo(stage, 0)
    BY <2>1 DEF StoredInv
  <2>3. StoredUpTo(stage + row, row)'
    BY <1>0, <2>1, <2>2 DEF StoredUpTo, Before, RowsWith
  <2> QED
    BY <2>1, <2>3 DEF StoredInv
<1>8. CASE Main /\ ~ (StartExperiment \/ StartStage \/ StoreResult \/ CollectInserts
                      \/ StageStored \/ LastStage \/ StageEnds)
  <2>1. CASE Report
    <3>1. /\ pc = "report" /\ pc' \in {"connect", "done"}
          /\ UNCHANGED <<stage, row, rows, counts>>
          /\ pc' = "done" => prof' = prof
      BY <2>1 DEF Report, NextProfile, logVars
    <3>2. CASE pc' = "done"
      BY <3>1, <3>2 DEF StoredInv, StoredUpTo, Before, RowsWith
    <3> QED
      BY <3>1, <3>2 DEF StoredInv
  <2>2. CASE ~ Report
    <3>1. /\ UNCHANGED <<prof, stage, row, rows, counts>>
          /\ pc' = pc \/ pc' \in {"failed", "experiment"}
             \/ (pc \in Publishing /\ pc' \in Publishing)
      BY <1>8, <2>2
      DEF Main, Issue, IssueRaises, CollectRaises, ResolveConfig, Reconnect, UpdateEndedAt,
          UpdateTestsCount, PublishCounts, DatabaseFails, ReportFails, Goto, logVars
    <3> QED
      BY <3>1 DEF StoredInv, StoredUpTo, Before, RowsWith
  <2> QED
    BY <2>1, <2>2
<1>9. CASE (\E i \in Slots : Task(i)) \/ Others
  <2>1. UNCHANGED <<pc, prof, stage, row, rows, counts>>
    BY <1>9, TaskFrame, OthersFrame DEF linkless, mainVars, logVars
  <2> QED
    BY <2>1 DEF StoredInv, StoredUpTo, Before, RowsWith
<1> QED
  BY <1>1, <1>2, <1>3, <1>4, <1>5, <1>6, <1>7, <1>8, <1>9, NextCases

(***************************************************************************)
(* What is published, and the verdict.                                     *)
(***************************************************************************)
\* Rows are only inserted by three steps, into the current profile, while nothing is
\* published of it.
LEMMA RowsFrame ==
  ASSUME RowsOK, [Next]_vars
  PROVE  \/ rows' = rows
         \/ /\ pc \in {"stage", "rows", "collect"}
            /\ pc' \in {"run", "rows", "collect", "ended_at", "failed"}
            /\ UNCHANGED <<prof, ended, published, failures>>
            /\ \A p \in Profiles : p # prof => rows'[p] = rows[p]
<1>1. CASE StartStage
  BY <1>1 DEF StartStage, Insert, RowsOK
<1>2. CASE StoreResult
  BY <1>2 DEF StoreResult, StoreTask, Insert, RowsOK
<1>3. CASE CollectInserts
  BY <1>3 DEF CollectInserts, Insert, RowsOK
<1>4. CASE Main /\ ~ (StartStage \/ StoreResult \/ CollectInserts)
  BY <1>4
  DEF Main, Issue, IssueRaises, CollectRaises, ResolveConfig, Reconnect, StartExperiment,
      StageEnds, StageStored, LastStage, UpdateEndedAt, UpdateTestsCount, PublishCounts,
      DatabaseFails, Report, NextProfile, ReportFails, logVars
<1>5. CASE (\E i \in Slots : Task(i)) \/ Others
  BY <1>5, TaskFrame, OthersFrame DEF linkless, mainVars, logVars
<1> QED
  BY <1>1, <1>2, <1>3, <1>4, <1>5, NextCases

\* When the counts are published, every planned task has its row and is counted.
LEMMA Completes ==
  ASSUME TypeInv, StoredInv, PublishInv, UpdateTestsCount
  PROVE  Complete(prof)'
<1>1. /\ pc = "counts" /\ published' = [published EXCEPT ![prof] = counts]
      /\ UNCHANGED <<prof, stage, row, rows, ended>>
  BY DEF UpdateTestsCount, PublishCounts, Goto
<1>2. /\ prof \in ended /\ stage = Len(Matrix[prof]) + 1 /\ row = CollectSteps
      /\ prof \in Profiles /\ Len(Matrix[prof]) \in Nat
      /\ StoredUpTo(stage - 1 + row, 0) /\ published \in [Profiles -> [Verdicts -> Nat]]
  BY <1>1, PlanFacts DEF TypeInv, ControlOK, CountsOK, StoredInv, PublishInv, Publishing
<1>3. Before = Cardinality(PlannedTasks(prof)) /\ Before \in Nat
  BY <1>2, AllStages, FS_CardinalityType DEF Before, StoredUpTo
<1>4. /\ Len(rows[prof]) = Len(Matrix[prof]) + Cardinality(PlannedTasks(prof)) + CollectSteps
      /\ counts["PASSED"] + counts["FAILED"] = Cardinality(PlannedTasks(prof))
  BY <1>2, <1>3 DEF StoredUpTo, CollectSteps
<1>5. published'[prof] = counts /\ \A s \in Verdicts : counts[s] = Cardinality(RowsWith(prof, s))
  BY <1>1, <1>2 DEF StoredUpTo
<1>6. RowsWith(prof, "PASSED")' = RowsWith(prof, "PASSED")
      /\ RowsWith(prof, "FAILED")' = RowsWith(prof, "FAILED")
  BY <1>1 DEF RowsWith
<1> QED
  BY <1>1, <1>2, <1>4, <1>5, <1>6 DEF Complete, Verdicts

LEMMA NextPublishInv ==
  TypeInv /\ StoredInv /\ PublishInv /\ [Next]_vars => PublishInv'
<1> SUFFICES ASSUME TypeInv, StoredInv, PublishInv, [Next]_vars PROVE PublishInv'
  OBVIOUS
<1>0. /\ RowsOK /\ prof \in Profiles /\ Profiles = 1 .. Len(Matrix) /\ Len(Matrix) \in Nat
      /\ ended \subseteq Profiles /\ published \in [Profiles -> [Verdicts -> Nat]]
  BY PlanFacts DEF TypeInv, ControlOK, CountsOK
<1>1. CASE rows' # rows
  <2>1. /\ pc \in {"stage", "rows", "collect"}
        /\ pc' \in {"run", "rows", "collect", "ended_at", "failed"}
        /\ UNCHANGED <<prof, ended, published, failures>>
        /\ \A p \in Profiles : p # prof => rows'[p] = rows[p]
    BY <1>0, <1>1, RowsFrame
  <2>2. published[prof] = Zero
    BY <2>1 DEF PublishInv
  <2>3. ASSUME NEW p \in Profiles, p # prof, Complete(p) PROVE Complete(p)'
    BY <2>1, <2>3 DEF Complete, RowsWith
  <2>4. OnlyCompleteCounts'
    BY <1>0, <2>1, <2>2, <2>3 DEF PublishInv, OnlyCompleteCounts
  <2> QED
    BY <2>1, <2>2, <2>4 DEF PublishInv
<1>2. CASE UpdateTestsCount
  <2>1. /\ pc = "counts" /\ pc' = "report" /\ published' = [published EXCEPT ![prof] = counts]
        /\ UNCHANGED <<prof, rows, ended>>
    BY <1>2 DEF UpdateTestsCount, PublishCounts, Goto
  <2>2. Complete(prof)'
    BY <1>2, Completes
  <2>3. \A p \in Profiles : p # prof => published'[p] = published[p]
    BY <1>0, <2>1
  <2>4. ASSUME NEW p \in Profiles, p # prof, Complete(p) PROVE Complete(p)'
    BY <2>1, <2>3, <2>4 DEF Complete, RowsWith
  <2>5. ASSUME NEW p \in Profiles, p = prof PROVE Complete(p)'
    BY <2>1, <2>2, <2>5 DEF Complete, RowsWith
  <2>6. OnlyCompleteCounts'
    BY <1>0, <2>1, <2>3, <2>4, <2>5 DEF PublishInv, OnlyCompleteCounts
  <2>7. \A p \in Profiles : p > prof' => published'[p] = Zero
    BY <1>0, <2>1, <2>3 DEF PublishInv
  <2> QED
    BY <1>0, <2>1, <2>2, <2>6, <2>7 DEF PublishInv
<1>3. CASE UpdateEndedAt
  <2>1. /\ pc = "ended_at" /\ pc' = "counts" /\ ended' = ended \cup {prof}
        /\ UNCHANGED <<prof, rows, published>>
    BY <1>3 DEF UpdateEndedAt, Goto
  <2>2. ASSUME NEW p \in Profiles, Complete(p) PROVE Complete(p)'
    BY <2>1, <2>2 DEF Complete, RowsWith
  <2> QED
    BY <2>1, <2>2 DEF PublishInv, OnlyCompleteCounts
<1>4. CASE rows' = rows /\ ~ UpdateTestsCount /\ ~ UpdateEndedAt
  <2>1. UNCHANGED <<rows, ended, published>>
    <3>1. CASE Main
      BY <1>4, <3>1
      DEF Main, Issue, IssueRaises, CollectRaises, ResolveConfig, Reconnect, StartExperiment,
          StartStage, StageEnds, StoreResult, StoreTask, Insert, StageStored, LastStage,
          CollectInserts, DatabaseFails, Report, NextProfile, ReportFails, logVars
    <3> QED
      BY <3>1, TaskFrame, OthersFrame, NextCases DEF linkless, mainVars, logVars
  <2>2. ASSUME NEW p \in Profiles, Complete(p) PROVE Complete(p)'
    BY <2>1, <2>2 DEF Complete, RowsWith
  <2>3. CASE Report
    <3>1. /\ pc = "report"
          /\ \/ pc' = "connect" /\ prof' = prof + 1 /\ prof < Len(Matrix)
             \/ pc' = "done" /\ prof' = prof
      BY <2>3 DEF Report, NextProfile
    <3>2. Complete(prof)
      BY <3>1 DEF PublishInv
    <3> QED
      BY <1>0, <2>1, <2>2, <3>1, <3>2 DEF PublishInv, OnlyCompleteCounts
  <2>4. CASE ~ Report
    <3>1. /\ prof' = prof
          /\ \/ pc' = pc \/ pc' = "failed"
             \/ pc \notin {"counts", "report", "done", "failed"} /\ pc' \notin {"counts", "report", "done"}
      <4>1. CASE Main
        BY <1>4, <2>4, <4>1
        DEF Main, Issue, IssueRaises, CollectRaises, ResolveConfig, Reconnect, StartExperiment,
            StartStage, StageEnds, StoreResult, StoreTask, Insert, StageStored, LastStage,
            CollectInserts, DatabaseFails, ReportFails, Goto
      <4> QED
        BY <4>1, TaskFrame, OthersFrame, NextCases DEF linkless, mainVars
    <3> QED
      BY <1>0, <2>1, <2>2, <3>1 DEF PublishInv, OnlyCompleteCounts
  <2> QED
    BY <2>3, <2>4
<1> QED
  BY <1>1, <1>2, <1>3, <1>4

LEMMA NextVerdictInv ==
  TypeInv /\ StoredInv /\ VerdictInv /\ [Next]_vars => VerdictInv'
<1> SUFFICES ASSUME TypeInv, StoredInv, VerdictInv, [Next]_vars PROVE VerdictInv'
  OBVIOUS
<1>0. /\ RowsOK /\ prof \in Profiles /\ Profiles = 1 .. Len(Matrix) /\ Len(Matrix) \in Nat
      /\ failures \in Nat /\ counts["FAILED"] \in Nat
      /\ pc = "done" => prof = Len(Matrix)
  BY PlanFacts DEF TypeInv, ControlOK, CountsOK, Verdicts
<1>1. CASE rows' # rows
  <2>1. /\ pc # "done" /\ pc' # "done" /\ UNCHANGED <<prof, failures>>
        /\ \A p \in Profiles : p # prof => rows'[p] = rows[p]
    BY <1>0, <1>1, RowsFrame
  <2>2. \A p \in Profiles : p < prof => RowsWith(p, "FAILED")' = RowsWith(p, "FAILED")
    BY <1>0, <2>1 DEF RowsWith
  <2> QED
    BY <1>0, <2>1, <2>2 DEF VerdictInv
<1>2. CASE Report
  <2>1. /\ pc = "report" /\ failures' = failures + counts["FAILED"] /\ rows' = rows
        /\ \/ pc' = "connect" /\ prof' = prof + 1
           \/ pc' = "done" /\ prof' = prof /\ ~ (prof < Len(Matrix))
    BY <1>2 DEF Report, NextProfile, logVars
  <2>2. counts["FAILED"] = Cardinality(RowsWith(prof, "FAILED"))
    BY <2>1 DEF StoredInv, StoredUpTo, Publishing, Verdicts
  <2>3. counts["FAILED"] = 0 <=> RowsWith(prof, "FAILED") = {}
    BY <1>0, <2>2, RowsWithFinite, FS_EmptySet
  <2>4. \A p \in Profiles : RowsWith(p, "FAILED")' = RowsWith(p, "FAILED")
    BY <2>1 DEF RowsWith
  <2>5. \A p \in Profiles : (p < prof' \/ pc' = "done") <=> (p < prof \/ p = prof)
    BY <1>0, <2>1
  <2>6. failures' > 0 <=> failures > 0 \/ counts["FAILED"] # 0
    BY <1>0, <2>1
  <2>7. failures > 0 <=> \E p \in Profiles : p < prof /\ RowsWith(p, "FAILED") # {}
    BY <2>1 DEF VerdictInv
  <2> QED
    BY <1>0, <2>3, <2>4, <2>5, <2>6, <2>7 DEF VerdictInv
<1>3. CASE rows' = rows /\ ~ Report
  <2>1. UNCHANGED <<prof, failures>> /\ (pc' = "done" <=> pc = "done")
    <3>1. CASE Main
      BY <1>3, <3>1
      DEF Main, Issue, IssueRaises, CollectRaises, ResolveConfig, Reconnect, StartExperiment,
          StartStage, StageEnds, StoreResult, StoreTask, Insert, StageStored, LastStage,
          CollectInserts, UpdateEndedAt, UpdateTestsCount, PublishCounts, DatabaseFails,
          ReportFails, Goto
    <3> QED
      BY <3>1, TaskFrame, OthersFrame, NextCases DEF linkless, mainVars
  <2>2. \A p \in Profiles : RowsWith(p, "FAILED")' = RowsWith(p, "FAILED")
    BY <1>3 DEF RowsWith
  <2> QED
    BY <2>1, <2>2 DEF VerdictInv
<1> QED
  BY <1>1, <1>2, <1>3

LEMMA StoredInvCorrect == Spec => [](RowsInv /\ StoredInv)
<1>1. Init => RowsInv /\ StoredInv
  BY PlanFacts DEF Init, RowsInv, RowsFollowPlan, StoredInv, Publishing
<1>2. TypeInv /\ RowsInv /\ StoredInv /\ [Next]_vars => (RowsInv /\ StoredInv)'
  BY NextRowsInv, NextStoredInv
<1> QED
  BY <1>1, <1>2, TypeInvCorrect, PTL DEF Spec

LEMMA PublishInvCorrect == Spec => []PublishInv
<1>1. Init => PublishInv
  BY PlanFacts DEF Init, PublishInv, OnlyCompleteCounts
<1> QED
  BY <1>1, NextPublishInv, StoredInvCorrect, TypeInvCorrect, PTL DEF Spec

\* The matrix goes on only when the database tells the whole story of the profiles before,
\* and an experiment that was cut, wherever it was, shows no counts.
THEOREM OnlyCompleteCountsCorrect == Spec => []OnlyCompleteCounts
<1>1. PublishInv => OnlyCompleteCounts
  BY DEF PublishInv
<1> QED
  BY <1>1, PublishInvCorrect, PTL

\* The verdict of a matrix that ran to its end is that of the rows it has stored.
THEOREM HonestVerdictCorrect == Spec => []HonestVerdict
<1>1. Init => VerdictInv
  BY PlanFacts DEF Init, VerdictInv
<1>2. VerdictInv => HonestVerdict
  BY DEF VerdictInv, HonestVerdict
<1> QED
  BY <1>1, <1>2, NextVerdictInv, StoredInvCorrect, TypeInvCorrect, PTL DEF Spec

(***************************************************************************)
(* The profiled runner implements the abstract log of every experiment.    *)
(***************************************************************************)
LEMMA InitLog == ASSUME Init, NEW p \in Profiles PROVE Log(p)!Init
<1>1. RowsWith(p, "PASSED") = {} /\ RowsWith(p, "FAILED") = {}
  BY DEF Init, RowsWith
<1>2. Cardinality({}) = 0
  BY FS_EmptySet
<1>3. \A s \in Verdicts : published[p][s] = 0
  BY DEF Init, Zero
<1> QED
  BY <1>1, <1>2, <1>3 DEF Log!Init, Log!Status, Verdicts

\* A row that is inserted is that of a task, which has a status, or has none.
LEMMA InsertedRow ==
  ASSUME TypeInv, [Next]_vars, rows' # rows
  PROVE  /\ UNCHANGED <<prof, published>>
         /\ \E at \in Nat \X Nat, status \in Verdicts \cup {None} :
              rows' = [rows EXCEPT ![prof] = Append(@, [at |-> at, status |-> status])]
<1>0. /\ ControlOK /\ RowsOK /\ verdict \in [Slots -> Verdicts \cup {None}]
      /\ stage \in Nat /\ row \in Nat /\ prof \in Profiles
  BY DEF TypeInv, PoolOK, ControlOK
<1>1. UNCHANGED <<prof, published>>
  BY <1>0, RowsFrame
<1>2. CASE StartStage
  <2>1. rows' = [rows EXCEPT ![prof] = Append(@, [at |-> <<stage, 0>>, status |-> None])]
    BY <1>2 DEF StartStage, Insert
  <2> QED
    BY <1>0, <1>1, <2>1
<1>3. CASE StoreResult
  <2>1. /\ rows' = [rows EXCEPT ![prof] = Append(@, [at |-> <<stage, row + 1>>,
                                                     status |-> verdict[row + 1]])]
        /\ pc = "rows" /\ row < Len(Current)
    BY <1>3 DEF StoreResult, StoreTask, Insert
  <2>2. row + 1 \in Slots
    <3>1. /\ stage \in Stages(prof) /\ Len(Current) \in Nat
          /\ DOMAIN Current = 1 .. Len(Current) /\ DOMAIN Current \subseteq Slots
      BY <1>0, <2>1, PlanFacts DEF ControlOK, Current
    <3>2. row + 1 \in 1 .. Len(Current)
      BY <1>0, <2>1, <3>1
    <3> QED
      BY <3>1, <3>2
  <2>3. verdict[row + 1] \in Verdicts \cup {None} /\ <<stage, row + 1>> \in Nat \X Nat
    BY <1>0, <2>2
  <2> QED
    BY <1>1, <2>1, <2>3
<1>4. CASE CollectInserts
  <2>1. rows' = [rows EXCEPT ![prof] = Append(@, [at |-> <<stage, row + 1>>, status |-> None])]
    BY <1>4 DEF CollectInserts, Insert
  <2>2. <<stage, row + 1>> \in Nat \X Nat
    BY <1>0
  <2> QED
    BY <1>1, <2>1, <2>2
<1>5. CASE ~ (StartStage \/ StoreResult \/ CollectInserts)
  <2>1. CASE Main
    BY <1>5, <2>1
    DEF Main, Issue, IssueRaises, CollectRaises, ResolveConfig, Reconnect, StartExperiment,
        StageEnds, StageStored, LastStage, UpdateEndedAt, UpdateTestsCount, PublishCounts,
        DatabaseFails, Report, NextProfile, ReportFails, logVars
  <2> QED
    BY <2>1, TaskFrame, OthersFrame, NextCases DEF linkless, mainVars, logVars
<1> QED
  BY <1>2, <1>3, <1>4, <1>5

LEMMA StepLog ==
  ASSUME TypeInv, StoredInv, PublishInv, [Next]_vars, NEW p \in Profiles
  PROVE  Log(p)!Next \/ UNCHANGED Log(p)!vars
<1>0. /\ RowsOK /\ prof \in Profiles /\ published \in [Profiles -> [Verdicts -> Nat]]
      /\ \A s \in Verdicts : Cardinality(RowsWith(p, s)) \in Nat
  BY RowsWithFinite DEF TypeInv, ControlOK, CountsOK
<1>1. CASE rows' # rows /\ p = prof
  <2>1. UNCHANGED <<prof, published>>
    BY <1>1, InsertedRow
  <2>2. PICK at \in Nat \X Nat, status \in Verdicts \cup {None} :
          rows' = [rows EXCEPT ![prof] = Append(@, [at |-> at, status |-> status])]
    BY <1>1, InsertedRow
  <2>3. ASSUME NEW s \in Verdicts
        PROVE  Cardinality(RowsWith(p, s)') =
                 Cardinality(RowsWith(p, s)) + (IF s = status THEN 1 ELSE 0)
    <3>1. Cardinality(RowsWith(prof, s)') =
            Cardinality(RowsWith(prof, s)) + (IF s = status THEN 1 ELSE 0)
      BY <1>0, <2>1, <2>2, InsertCounts
    <3> QED
      BY <1>1, <2>1, <3>1 DEF RowsWith
  <2>4. \/ Cardinality(RowsWith(p, "PASSED")') + Cardinality(RowsWith(p, "FAILED")')
             = Cardinality(RowsWith(p, "PASSED")) + Cardinality(RowsWith(p, "FAILED")) + 1
        \/ Cardinality(RowsWith(p, "PASSED")') + Cardinality(RowsWith(p, "FAILED")')
             = Cardinality(RowsWith(p, "PASSED")) + Cardinality(RowsWith(p, "FAILED"))
    BY <1>0, <2>3 DEF Verdicts
  <2> QED
    BY <2>1, <2>4 DEF Log!Next, Log!AppendRow, Log!vars
<1>2. CASE rows' # rows /\ p # prof
  <2>1. rows'[p] = rows[p] /\ published' = published
    BY <1>0, <1>2, RowsFrame
  <2>2. \A s \in Verdicts : RowsWith(p, s)' = RowsWith(p, s)
    BY <2>1 DEF RowsWith
  <2> QED
    BY <2>1, <2>2 DEF Log!vars, Verdicts
<1>3. CASE UpdateTestsCount /\ p = prof
  <2>1. /\ published[p] = Zero /\ UNCHANGED <<prof, rows>>
    BY <1>3 DEF UpdateTestsCount, PublishCounts, Goto, PublishInv
  <2>2. \A s \in Verdicts : RowsWith(p, s)' = RowsWith(p, s)
    BY <2>1 DEF RowsWith
  <2>3. \A s \in Verdicts : published'[p][s] = Cardinality(RowsWith(p, s))
    BY <1>3, <2>1, <2>2, Completes DEF Complete
  <2>4. \A s \in Verdicts : published[p][s] = 0
    BY <2>1 DEF Zero
  <2> QED
    BY <1>0, <2>2, <2>3, <2>4 DEF Log!Next, Log!Publish, Log!Status, Verdicts
<1>4. CASE UpdateTestsCount /\ p # prof
  <2>1. rows' = rows /\ published'[p] = published[p]
    BY <1>0, <1>4 DEF UpdateTestsCount, PublishCounts
  <2>2. \A s \in Verdicts : RowsWith(p, s)' = RowsWith(p, s)
    BY <2>1 DEF RowsWith
  <2> QED
    BY <2>1, <2>2 DEF Log!vars, Verdicts
<1>5. CASE rows' = rows /\ ~ UpdateTestsCount
  <2>1. published' = published
    <3>1. CASE Main
      BY <1>5, <3>1
      DEF Main, Issue, IssueRaises, CollectRaises, ResolveConfig, Reconnect, StartExperiment,
          StartStage, StageEnds, StoreResult, StoreTask, Insert, StageStored, LastStage,
          CollectInserts, UpdateEndedAt, DatabaseFails, Report, NextProfile, ReportFails, logVars
    <3> QED
      BY <3>1, TaskFrame, OthersFrame, NextCases DEF linkless, mainVars, logVars
  <2>2. \A s \in Verdicts : RowsWith(p, s)' = RowsWith(p, s)
    BY <1>5 DEF RowsWith
  <2> QED
    BY <2>1, <2>2 DEF Log!vars, Verdicts
<1> QED
  BY <1>1, <1>2, <1>3, <1>4, <1>5

\* Every behaviour of the profiled runner, whatever fails in it, is, for each of its
\* experiments, one of the experiment log that the dashboards and the reports read.
THEOREM Refinement == Spec => ImplementsLog
<1>1. Init => \A p \in Profiles : Log(p)!Init
  BY InitLog
<1>2. TypeInv /\ StoredInv /\ PublishInv /\ [Next]_vars
        => [\A p \in Profiles : Log(p)!Next \/ UNCHANGED Log(p)!vars]_vars
  BY StepLog
<1> QED
  BY <1>1, <1>2, TypeInvCorrect, StoredInvCorrect, PublishInvCorrect, PTL DEF Spec, ImplementsLog
=============================================================================
