------------------------------ MODULE Progress ------------------------------
(***************************************************************************)
(* ProgressHandler: what a worker process makes of its own log records.    *)
(* The handler keeps one record of progress per process and, while the     *)
(* process runs a task, rewrites the task's progress file at every record: *)
(* the file is opened with "w" and filled when it is closed, so a reader   *)
(* may find it empty in between.                                           *)
(***************************************************************************)
EXTENDS Naturals

CONSTANTS Workers, Tasks

VARIABLES
  progress,     \* progress_data of each process
  procToTask,   \* proc_to_task of each process, or NoTask
  file,         \* the progress file of each task: absent, torn or a record
  writing       \* is the process between the opening and the closing of its file?

progressVars == <<progress, procToTask, file, writing>>

NoTask == 0
Absent == [state |-> "absent"]
Torn   == [state |-> "torn"]
Whole(p) == [state |-> "whole", of |-> p]

Template == [total |-> 0, count |-> 0, run |-> 0, busy |-> FALSE]

ProgressInit ==
  /\ progress = [w \in Workers |-> Template] /\ procToTask = [w \in Workers |-> NoTask]
  /\ file = [t \in Tasks |-> Absent] /\ writing = [w \in Workers |-> FALSE]

\* emit: the record p after the message was matched, the file reopened if a task is on.
Emit(w, p, t) ==
  /\ ~ writing[w]
  /\ progress' = [progress EXCEPT ![w] = p]
  /\ procToTask' = [procToTask EXCEPT ![w] = t]
  /\ writing' = [writing EXCEPT ![w] = t # NoTask]
  /\ file' = IF t = NoTask THEN file ELSE [file EXCEPT ![t] = Torn]

CloseFile(w) ==
  /\ writing[w] /\ writing' = [writing EXCEPT ![w] = FALSE]
  /\ file' = [file EXCEPT ![procToTask[w]] = Whole(progress[w])]
  /\ UNCHANGED <<progress, procToTask>>

(* The messages, each with what emit does on it. *)
LogTaskRunning(w, t) == Emit(w, Template, t)
LogTaskEnded(w)      == Emit(w, Template, NoTask)
LogTestsCount(w, n)  == Emit(w, [progress[w] EXCEPT !.total = n], procToTask[w])
\* MUTANT of LogRunStarts: the count of the run before is kept.
KeepCount(w, i) == Emit(w, [progress[w] EXCEPT !.run = i], procToTask[w])

LogRunStarts(w, i)   == Emit(w, [progress[w] EXCEPT !.run = i, !.count = 0], procToTask[w])
LogTestStarts(w)     == Emit(w, [progress[w] EXCEPT !.busy = TRUE], procToTask[w])
LogTestFinished(w) ==
  Emit(w, [progress[w] EXCEPT !.count = @ + 1, !.busy = FALSE], procToTask[w])

\* get_run_progress: a torn file is answered by an empty object.
Shown(t) == IF file[t].state = "whole" THEN {file[t].of} ELSE {}
=============================================================================
