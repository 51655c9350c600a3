------------------------- MODULE TestsRunnerProofs -------------------------
(***************************************************************************)
(* Proofs about TestsRunner, for every number of tests, every set of pool  *)
(* tests and every bound.                                                  *)
(***************************************************************************)
EXTENDS TestsRunner, TLAPS

(***************************************************************************)
(* Type correctness, one part of TypeOK at a time: few actions touch each. *)
(***************************************************************************)
\* The program counters between two iterations of the for loop, and inside one.
Outside == {"prepare", "close", "done", "failed"}

\* cur is a test while one is handled, and the first one before the loop.
MainOK ==
  /\ pc \in MainPCs /\ cur \in 1 .. NTests + 1 /\ step \in Nat
  /\ pc \notin Outside => cur \in Tests
  /\ pc = "prepare" => cur = 1

FlagsOK == busy \in BOOLEAN /\ poolUp \in BOOLEAN

NetOK ==
  /\ link \in {"down", "handshake", "up"} /\ channels \subseteq Tests
  /\ remote \in {"reachable", "silent"} /\ losses \in 0 .. MaxLosses

ThreadsOK ==
  /\ event \in [Calls -> BOOLEAN] /\ wd \in [Tests -> WdStates]
  /\ leftovers \subseteq TmpDirs

CountsOK ==
  /\ rows \in Nat /\ observed \in Nat /\ cnt \in Nat /\ raised \in Nat
  /\ statuses \in [Status -> Nat]
  /\ db \in [total : Nat, statuses : [Status -> Nat]]

TypeInv == MainOK /\ FlagsOK /\ NetOK /\ ThreadsOK /\ CountsOK

LEMMA InitTypeInv == Init => TypeInv
<1> SUFFICES ASSUME Init PROVE TypeInv
  OBVIOUS
<1>1. MainOK
  BY TestsAssumption DEF Init, MainOK, MainPCs, Outside
<1>2. FlagsOK
  BY DEF Init, FlagsOK
<1>3. NetOK
  BY BoundAssumption DEF Init, NetOK
<1>4. ThreadsOK
  BY DEF Init, ThreadsOK, WdStates
<1>5. CountsOK
  <2>1. NoStatuses \in [Status -> Nat]
    BY DEF NoStatuses
  <2> QED
    BY <2>1 DEF Init, CountsOK
<1> QED
  BY <1>1, <1>2, <1>3, <1>4, <1>5 DEF TypeInv

LEMMA NextMainOK == MainOK /\ [Next]_vars => MainOK'
<1> SUFFICES ASSUME MainOK, [Next]_vars PROVE MainOK'
  OBVIOUS
<1> USE TestsAssumption DEF MainOK, Outside, MainPCs, Tests, Goto
<1>1. CASE StartExperiment \/ UpdateTestsCount
  BY <1>1 DEF StartExperiment, UpdateTestsCount, PublishCounts, AfterTest
<1>2. CASE PrepareFails \/ Reconnect \/ ReconnectFails \/ Connected \/ ConnectFails
           \/ StartWatchdog
  BY <1>2 DEF PrepareFails, Reconnect, ReconnectFails, Connected, ConnectFails,
     StartWatchdog
<1>3. CASE TestIssue \/ TestYields \/ TestRaises \/ TestEnds
  BY <1>3 DEF TestIssue, TestYields, TestRaises, TestBreaks, TestEnds
<1>4. CASE CollectIssue \/ CollectInserts \/ CollectRaises \/ CollectDone
  BY <1>4 DEF CollectIssue, CollectInserts, CollectRaises, CollectCut, CollectDone
<1>5. CASE CleanupIssue \/ CleanupCommandEnds \/ CleanupRaises \/ CleanupDone
  BY <1>5 DEF CleanupIssue, CleanupCommandEnds, CleanupRaises, CleanupCut, CleanupDone
<1>6. CASE SetEvent \/ Join \/ JoinTimesOut \/ ClearEvent
  BY <1>6 DEF SetEvent, Join, JoinTimesOut, ClearEvent
<1>7. CASE UpdateEndedAt \/ UpdateRaises \/ CloseClient
  BY <1>7 DEF UpdateEndedAt, UpdateRaises, CloseClient
<1>8. CASE (\E k \in Tests : Watchdog(k)) \/ Environment \/ CloseRunner \/ Later
           \/ UNCHANGED vars
  <2>1. UNCHANGED mainVars
    BY <1>8 DEF Watchdog, WaitSees, WaitExpires, PingOpens, PingFails, PingCrashes,
                PingReturns, CheckEvent, KillSession, ShutPool, WatchdogEnds,
                Environment, FallsSilent, AnswersAgain, Resets, CloseRunner, Later,
                LaterReconnect, LaterConnected, LaterClose, vars
  <2> QED
    BY <2>1 DEF mainVars
<1> QED
  BY <1>1, <1>2, <1>3, <1>4, <1>5, <1>6, <1>7, <1>8 DEF Next, Main, Quiet

LEMMA NextNetOK == NetOK /\ [Next]_vars => NetOK'
<1> SUFFICES ASSUME NetOK, [Next]_vars PROVE NetOK'
  OBVIOUS
<1> USE BoundAssumption DEF NetOK, SessionCloses
<1>1. CASE Reconnect \/ ReconnectFails \/ Connected \/ ConnectFails \/ CloseClient
  BY <1>1 DEF Reconnect, ReconnectFails, Connected, ConnectFails, CloseClient
<1>2. ASSUME NEW k \in Tests, Watchdog(k) PROVE NetOK'
  BY <1>2 DEF Watchdog, WaitSees, WaitExpires, PingOpens, PingFails, PingCrashes,
              PingReturns, CheckEvent, KillSession, ShutPool, WatchdogEnds, WdGoto,
              PingLeaves, netVars
<1>3. CASE Environment \/ Later
  BY <1>3 DEF Environment, FallsSilent, AnswersAgain, Resets, Later, LaterReconnect,
              LaterConnected, LaterClose
<1>4. CASE UNCHANGED netVars
  BY <1>4 DEF netVars
<1> QED
  BY <1>1, <1>2, <1>3, <1>4 DEF Next, Main, Quiet, vars, StartExperiment, PrepareFails,
     StartWatchdog, TestIssue, TestYields, TestRaises, TestBreaks, TestEnds, CollectIssue,
     CollectInserts, CollectRaises, CollectCut, CollectDone, CleanupIssue,
     CleanupCommandEnds, CleanupRaises, CleanupCut, CleanupDone, SetEvent, Join,
     JoinTimesOut, ClearEvent, UpdateEndedAt, UpdateTestsCount, PublishCounts, UpdateRaises,
     CloseRunner

LEMMA NextFlagsOK == FlagsOK /\ [Next]_vars => FlagsOK'
<1> SUFFICES ASSUME FlagsOK, [Next]_vars PROVE FlagsOK'
  OBVIOUS
<1> USE DEF FlagsOK
<1>1. CASE TestIssue \/ TestYields \/ TestRaises
  BY <1>1 DEF TestIssue, TestYields, TestRaises, TestBreaks, CommandEnds
<1>2. CASE CollectIssue \/ CollectInserts \/ CollectRaises
  BY <1>2 DEF CollectIssue, CollectInserts, CollectRaises, CollectCut
<1>3. CASE CleanupIssue \/ CleanupCommandEnds
  BY <1>3 DEF CleanupIssue, CleanupCommandEnds
<1>4. ASSUME NEW k \in Tests, Watchdog(k) PROVE FlagsOK'
  BY <1>4 DEF Watchdog, WaitSees, WaitExpires, PingOpens, PingFails, PingCrashes,
              PingReturns, CheckEvent, KillSession, ShutPool, WatchdogEnds, mainVars
<1>5. CASE CloseRunner
  BY <1>5 DEF CloseRunner, mainVars
<1>6. CASE UNCHANGED <<busy, poolUp>>
  BY <1>6
<1> QED
  BY <1>1, <1>2, <1>3, <1>4, <1>5, <1>6 DEF Next, Main, Quiet, vars, mainVars, StartExperiment,
     PrepareFails, Reconnect, ReconnectFails, Connected, ConnectFails, StartWatchdog,
     TestEnds, CollectDone, CleanupRaises, CleanupCut, CleanupDone, SetEvent, Join,
     JoinTimesOut, ClearEvent, UpdateEndedAt, UpdateTestsCount, PublishCounts, UpdateRaises,
     CloseClient, Environment, FallsSilent, AnswersAgain, Resets, Later, LaterReconnect,
     LaterConnected, LaterClose

LEMMA NextThreadsOK == MainOK /\ ThreadsOK /\ [Next]_vars => ThreadsOK'
<1> SUFFICES ASSUME MainOK, ThreadsOK, [Next]_vars PROVE ThreadsOK'
  OBVIOUS
<1> USE DEF ThreadsOK
<1>1. CASE StartWatchdog
  BY <1>1 DEF StartWatchdog, WdStates
<1>2. CASE TestYields \/ TestRaises \/ CleanupCommandEnds
  BY <1>2 DEF TestYields, TestRaises, TestBreaks, CommandEnds, CleanupCommandEnds
<1>3. CASE SetEvent \/ ClearEvent
  BY <1>3 DEF SetEvent, ClearEvent
<1>4. ASSUME NEW k \in Tests, Watchdog(k) PROVE ThreadsOK'
  BY <1>4 DEF Watchdog, WaitSees, WaitExpires, PingOpens, PingFails, PingCrashes,
              PingReturns, CheckEvent, KillSession, ShutPool, WatchdogEnds, WdGoto,
              PingLeaves, WdStates
<1>5. CASE UNCHANGED <<event, wd, leftovers>>
  BY <1>5
<1> QED
  BY <1>1, <1>2, <1>3, <1>4, <1>5 DEF Next, Main, Quiet, vars, StartExperiment,
     PrepareFails, Reconnect, ReconnectFails, Connected, ConnectFails, TestIssue, TestEnds,
     CollectIssue, CollectInserts, CollectRaises, CollectCut, CollectDone, CleanupIssue,
     CleanupRaises, CleanupCut, CleanupDone, Join, JoinTimesOut, UpdateEndedAt,
     UpdateTestsCount, PublishCounts, UpdateRaises, CloseClient, CloseRunner, Environment,
     FallsSilent, AnswersAgain, Resets, Later, LaterReconnect, LaterConnected, LaterClose

LEMMA NextCountsOK == MainOK /\ CountsOK /\ [Next]_vars => CountsOK'
<1> SUFFICES ASSUME MainOK, CountsOK, [Next]_vars PROVE CountsOK'
  OBVIOUS
<1> USE DEF CountsOK
<1>1. CASE TestYields
  <2>1. PICK s \in ResultStatuses : statuses' = [statuses EXCEPT ![s] = @ + 1]
    BY <1>1 DEF TestYields
  <2> QED
    BY <1>1, <2>1, StatusAssumption DEF TestYields
<1>2. CASE TestRaises
  BY <1>2 DEF TestRaises, TestBreaks, Status
<1>3. CASE CollectInserts \/ CollectRaises
  BY <1>3 DEF CollectInserts, CollectRaises, CollectCut
<1>4. CASE UpdateTestsCount
  BY <1>4 DEF UpdateTestsCount, PublishCounts
<1>5. CASE UNCHANGED countVars
  BY <1>5 DEF countVars
<1> QED
  BY <1>1, <1>2, <1>3, <1>4, <1>5 DEF Next, Main, Quiet, vars, StartExperiment,
     PrepareFails, Reconnect, ReconnectFails, Connected, ConnectFails, StartWatchdog,
     TestIssue, TestEnds, CollectIssue, CollectDone, CleanupIssue, CleanupCommandEnds,
     CleanupRaises, CleanupCut, CleanupDone, SetEvent, Join, JoinTimesOut, ClearEvent,
     UpdateEndedAt, UpdateRaises, CloseClient, Watchdog, WaitSees, WaitExpires, PingOpens,
     PingFails, PingCrashes, PingReturns, CheckEvent, KillSession, ShutPool, WatchdogEnds,
     CloseRunner, Environment, FallsSilent, AnswersAgain, Resets, Later, LaterReconnect,
     LaterConnected, LaterClose

LEMMA NextTypeInv == TypeInv /\ [Next]_vars => TypeInv'
  BY NextMainOK, NextNetOK, NextFlagsOK, NextThreadsOK, NextCountsOK DEF TypeInv

LEMMA TypeInvCorrect == Spec => []TypeInv
  BY InitTypeInv, NextTypeInv, PTL DEF Spec

\* Every variable keeps its type; in particular cur never leaves the list of
\* tests the runner was given, whatever is lost while it works through it.
THEOREM TypeCorrect == Spec => []TypeOK
<1>1. TypeInv => TypeOK
  BY DEF TypeInv, MainOK, FlagsOK, NetOK, ThreadsOK, CountsOK, TypeOK
<1> QED
  BY <1>1, TypeInvCorrect, PTL

(***************************************************************************)
(* The counters, the rows and the experiment's row.                        *)
(***************************************************************************)
\* Before the first test, between two tests and after the last one.
Between == {"prepare", "reconnect", "connect", "start", "close", "done"}

\* UpdateTestsCount publishes the counters; until the next one they only grow.
DbInv ==
  /\ pc \in Between => db = [total |-> cnt, statuses |-> statuses]
  /\ db.total <= cnt
  /\ \A s \in Status : db.statuses[s] <= statuses[s]

CountInv == CountsOK /\ Accounting /\ DbInv

LEMMA InitCountInv == Init => CountInv
<1> SUFFICES ASSUME Init PROVE CountInv
  OBVIOUS
<1>1. CountsOK
  BY InitTypeInv DEF TypeInv
<1>2. \A s \in Status : NoStatuses[s] = 0
  BY DEF NoStatuses
<1>3. Accounting
  BY <1>2 DEF Init, Accounting, Status
<1>4. DbInv
  BY <1>1, <1>2 DEF Init, DbInv, CountsOK
<1> QED
  BY <1>1, <1>3, <1>4 DEF CountInv

\* The actions that touch neither the counters nor the published counts, and
\* reach no program counter at which the two must agree.
LEMMA SameCounts ==
  ASSUME CountInv, UNCHANGED countVars, pc' \in Between => pc \in Between
  PROVE  CountInv'
<1>1. UNCHANGED <<rows, cnt, statuses, raised, db, observed>>
  BY DEF countVars
<1>2. CountsOK' /\ Accounting'
  BY <1>1 DEF CountInv, CountsOK, Accounting
<1>3. DbInv'
  BY <1>1 DEF CountInv, DbInv
<1> QED
  BY <1>2, <1>3 DEF CountInv

LEMMA NextCountInv == MainOK /\ CountInv /\ [Next]_vars => CountInv'
<1> SUFFICES ASSUME MainOK, CountInv, [Next]_vars PROVE CountInv'
  OBVIOUS
<1>0. CountsOK'
  BY NextCountsOK DEF CountInv
<1>1. CASE TestYields
  <2>1. PICK s \in Status : statuses' = [statuses EXCEPT ![s] = @ + 1]
    BY <1>1, StatusAssumption DEF TestYields
  <2>2. statuses \in [Status -> Nat] /\ cnt \in Nat /\ rows \in Nat /\ raised \in Nat
    BY DEF CountInv, CountsOK
  <2>3. rows' = rows + 1 /\ cnt' = cnt + 1 /\ raised' = raised /\ db' = db /\ pc' = "run"
    BY <1>1 DEF TestYields
  <2>4. Accounting'
    BY <2>1, <2>2, <2>3 DEF CountInv, Accounting, Status
  <2>5. DbInv'
    BY <1>0, <2>1, <2>2, <2>3 DEF CountInv, DbInv, Between, CountsOK
  <2> QED
    BY <1>0, <2>4, <2>5 DEF CountInv
<1>2. CASE TestRaises
  <2>1. statuses' = [statuses EXCEPT !["BROKEN"] = @ + 1] /\ rows' \in {rows, rows + 1}
        /\ raised' = raised + 1 /\ cnt' = cnt + 0 /\ db' = db /\ pc' = "collect"
    BY <1>2 DEF TestRaises, TestBreaks, Goto
  <2>2. statuses \in [Status -> Nat] /\ cnt \in Nat /\ rows \in Nat /\ raised \in Nat
    BY DEF CountInv, CountsOK
  <2>3. Accounting'
    BY <2>1, <2>2 DEF CountInv, Accounting, Status
  <2>4. DbInv'
    BY <1>0, <2>1, <2>2 DEF CountInv, DbInv, Between, CountsOK
  <2> QED
    BY <1>0, <2>3, <2>4 DEF CountInv
<1>3. CASE CollectInserts \/ CollectRaises
  <2>1. UNCHANGED <<rows, cnt, statuses, raised, db>> /\ pc' \in {"collect", "failed"}
    BY <1>3 DEF CollectInserts, CollectRaises, CollectCut, Goto
  <2> QED
    BY <1>0, <2>1 DEF CountInv, Accounting, DbInv, Between
<1>4. CASE UpdateTestsCount
  <2>1. UNCHANGED <<rows, cnt, statuses, raised>> /\ db' = [total |-> cnt, statuses |-> statuses]
    BY <1>4 DEF UpdateTestsCount, PublishCounts
  <2> QED
    BY <1>0, <2>1 DEF CountInv, CountsOK, Accounting, DbInv
<1>5. CASE StartExperiment \/ PrepareFails \/ Reconnect \/ ReconnectFails \/ Connected
           \/ ConnectFails \/ StartWatchdog \/ TestIssue \/ TestEnds \/ CollectIssue
           \/ CollectDone \/ CleanupIssue \/ CleanupCommandEnds \/ CleanupRaises \/ CleanupDone
           \/ SetEvent \/ Join \/ JoinTimesOut \/ ClearEvent \/ UpdateEndedAt \/ UpdateRaises
           \/ CloseClient
  <2>1. UNCHANGED countVars /\ (pc' \in Between => pc \in Between)
    BY <1>5 DEF Goto, Between, StartExperiment, PrepareFails, Reconnect, ReconnectFails,
       Connected, ConnectFails, StartWatchdog, TestIssue, TestEnds, CollectIssue,
       CollectDone, CleanupIssue, CleanupCommandEnds, CleanupRaises, CleanupCut,
       CleanupDone, SetEvent, Join, JoinTimesOut, ClearEvent, UpdateEndedAt, UpdateRaises,
       CloseClient
  <2> QED
    BY <2>1, SameCounts
<1>6. CASE (\E k \in Tests : Watchdog(k)) \/ Environment \/ CloseRunner \/ Later
           \/ UNCHANGED vars
  <2>1. UNCHANGED <<mainVars, countVars>>
    BY <1>6 DEF Watchdog, WaitSees, WaitExpires, PingOpens, PingFails, PingCrashes,
                PingReturns, CheckEvent, KillSession, ShutPool, WatchdogEnds,
                Environment, FallsSilent, AnswersAgain, Resets, CloseRunner, Later,
                LaterReconnect, LaterConnected, LaterClose, vars
  <2> QED
    BY <2>1, SameCounts DEF mainVars
<1> QED
  BY <1>1, <1>2, <1>3, <1>4, <1>5, <1>6 DEF Next, Main, Quiet

LEMMA CountInvCorrect == Spec => []CountInv
<1>1. TypeInv => MainOK
  BY DEF TypeInv
<1> QED
  BY <1>1, InitCountInv, NextCountInv, TypeInvCorrect, PTL DEF Spec

\* The counters the runner publishes agree with the rows it inserts, however
\* many tests raise and wherever the run is cut.
THEOREM AccountingCorrect == Spec => []Accounting
<1>1. CountInv => Accounting
  BY DEF CountInv
<1> QED
  BY <1>1, CountInvCorrect, PTL

\* What the experiment's row claims never runs ahead of the stored rows.
THEOREM DbBackedCorrect == Spec => []DbBacked
<1>1. CountInv => DbBacked
  BY DEF CountInv, CountsOK, Accounting, DbInv, DbBacked, Between
<1> QED
  BY <1>1, CountInvCorrect, PTL

(***************************************************************************)
(* The runner implements the abstract log of an experiment.                *)
(***************************************************************************)
LEMMA InitLog == Init => Log!Init
  BY DEF Init, Log!Init, Log!Status, NoStatuses, Status

LEMMA StepLog == MainOK /\ CountInv /\ CountInv' /\ [Next]_vars => [Log!Next]_(Log!vars)
<1> SUFFICES ASSUME MainOK, CountInv, CountInv', [Next]_vars PROVE [Log!Next]_(Log!vars)
  OBVIOUS
<1>1. CASE TestYields \/ TestRaises
  <2>1. rows' \in {rows, rows + 1} /\ UNCHANGED db
    BY <1>1 DEF TestYields, TestRaises, TestBreaks
  <2> QED
    BY <2>1 DEF Log!Next, Log!AppendRow, Log!vars
<1>2. CASE UpdateTestsCount
  <2>1. db' = [total |-> cnt, statuses |-> statuses] /\ UNCHANGED <<rows, cnt, statuses, raised>>
    BY <1>2 DEF UpdateTestsCount, PublishCounts
  <2>2. db'.total \in db.total .. rows
    BY <2>1 DEF CountInv, CountsOK, Accounting, DbInv
  <2>3. \A s \in Status : db'.statuses[s] >= db.statuses[s]
    BY <2>1 DEF CountInv, CountsOK, DbInv
  <2>4. db'.total <= db'.statuses["PASSED"] + db'.statuses["FAILED"]
                     + db'.statuses["SKIPPED"] + db'.statuses["BROKEN"]
    BY <2>1 DEF CountInv, CountsOK, Accounting, Status
  <2> QED
    BY <2>1, <2>2, <2>3, <2>4 DEF Log!Next, Log!Publish, Log!Status, Status
<1>3. CASE ~(TestYields \/ TestRaises \/ UpdateTestsCount)
  <2>1. UNCHANGED <<rows, db>>
    BY <1>3 DEF Next, Main, Quiet, vars, countVars, StartExperiment, PrepareFails,
     Reconnect, ReconnectFails, Connected, ConnectFails, StartWatchdog, TestIssue, TestEnds,
     CollectIssue, CollectInserts, CollectRaises, CollectCut, CollectDone, CleanupIssue,
     CleanupCommandEnds, CleanupRaises, CleanupCut, CleanupDone,
     SetEvent, Join, JoinTimesOut, ClearEvent, UpdateEndedAt, UpdateRaises, CloseClient,
     Watchdog, WaitSees, WaitExpires, PingOpens, PingFails, PingCrashes, PingReturns,
     CheckEvent, KillSession, ShutPool, WatchdogEnds, Environment, FallsSilent,
     AnswersAgain, Resets, CloseRunner, Later, LaterReconnect, LaterConnected, LaterClose
  <2> QED
    BY <2>1 DEF Log!vars
<1> QED
  BY <1>1, <1>2, <1>3

\* Every behaviour of the runner, its failing ones included, is one of the
\* experiment log that the dashboards and the reports read.
THEOREM Refinement == Spec => ImplementsLog
<1>1. TypeInv => MainOK
  BY DEF TypeInv
<1> QED
  BY <1>1, InitLog, StepLog, TypeInvCorrect, CountInvCorrect, PTL DEF Spec, ImplementsLog,
     Log!Spec

(***************************************************************************)
(* Every test handled to the end has its observer rows.                    *)
(***************************************************************************)
\* One row per completed step of _collect_system_errors, three per test whose
\* collection is complete.
ObserverInv ==
  /\ pc \in Between \cup {"run"} => observed = CollectSteps * (cur - 1)
  /\ pc = "collect" => observed = CollectSteps * (cur - 1) + step
  /\ pc \in {"cleanup", "set", "join", "clear", "ended_at", "counts"} =>
       observed = CollectSteps * cur

LEMMA NextObserverInv == TypeInv /\ ObserverInv /\ [Next]_vars => ObserverInv'
<1> SUFFICES ASSUME TypeInv, ObserverInv, [Next]_vars PROVE ObserverInv'
  OBVIOUS
<1>0. MainOK /\ observed \in Nat
  BY DEF TypeInv, CountsOK
<1> USE <1>0, TestsAssumption DEF MainOK, MainPCs, ObserverInv, Between, CollectSteps, Goto
<1>1. CASE StartExperiment \/ UpdateTestsCount
  BY <1>1 DEF StartExperiment, UpdateTestsCount, PublishCounts, AfterTest, countVars
<1>2. CASE PrepareFails \/ Reconnect \/ ReconnectFails \/ Connected \/ ConnectFails
           \/ StartWatchdog
  BY <1>2 DEF PrepareFails, Reconnect, ReconnectFails, Connected, ConnectFails,
     StartWatchdog, countVars
<1>3. CASE TestIssue \/ TestYields \/ TestRaises \/ TestEnds
  BY <1>3 DEF TestIssue, TestYields, TestRaises, TestBreaks, TestEnds, countVars
<1>4. CASE CollectIssue \/ CollectInserts \/ CollectRaises \/ CollectDone
  BY <1>4 DEF CollectIssue, CollectInserts, CollectRaises, CollectCut, CollectDone,
     countVars
<1>5. CASE CleanupIssue \/ CleanupCommandEnds \/ CleanupRaises \/ CleanupDone
  BY <1>5 DEF CleanupIssue, CleanupCommandEnds, CleanupRaises, CleanupCut, CleanupDone,
     countVars
<1>6. CASE SetEvent \/ Join \/ JoinTimesOut \/ ClearEvent
  BY <1>6 DEF SetEvent, Join, JoinTimesOut, ClearEvent, countVars
<1>7. CASE UpdateEndedAt \/ UpdateRaises \/ CloseClient
  BY <1>7 DEF UpdateEndedAt, UpdateRaises, CloseClient, countVars
<1>8. CASE (\E k \in Tests : Watchdog(k)) \/ Environment \/ CloseRunner \/ Later
           \/ UNCHANGED vars
  <2>1. UNCHANGED <<mainVars, countVars>>
    BY <1>8 DEF Watchdog, WaitSees, WaitExpires, PingOpens, PingFails, PingCrashes,
                PingReturns, CheckEvent, KillSession, ShutPool, WatchdogEnds,
                Environment, FallsSilent, AnswersAgain, Resets, CloseRunner, Later,
                LaterReconnect, LaterConnected, LaterClose, vars
  <2> QED
    BY <2>1 DEF mainVars, countVars
<1> QED
  BY <1>1, <1>2, <1>3, <1>4, <1>5, <1>6, <1>7, <1>8 DEF Next, Main, Quiet

\* A test is never passed over without its three observer rows.
THEOREM ObservedCorrect == Spec => []Observed
<1>1. Init => ObserverInv
  BY DEF Init, ObserverInv, CollectSteps
<1>2. ObserverInv => Observed
  BY DEF ObserverInv, Observed, Between
<1> QED
  BY <1>1, <1>2, NextObserverInv, TypeInvCorrect, PTL DEF Spec

(***************************************************************************)
(* A test finds the temporary directories empty.                           *)
(***************************************************************************)
\* The directories that the first n commands of cleanup empty.
RemovedUpTo(n) == (IF n >= 1 THEN {"/tmp"} ELSE {}) \cup (IF n >= 2 THEN {"/var/tmp"} ELSE {})

\* A session cut during cleanup makes the command in flight remove nothing;
\* the next one then raises, so no later command hides the omission.
CleanInv ==
  /\ pc \in Between \cup {"set", "join", "clear", "ended_at", "counts"} => leftovers = {}
  /\ pc \in {"run", "collect", "cleanup"} /\ cur <= NSystem => leftovers = {}
  /\ pc = "cleanup" =>
       /\ leftovers \cap RemovedUpTo(step - 1) = {}
       /\ busy \/ link = "up" => leftovers \cap RemovedUpTo(step) = {}

LEMMA NextCleanInv == TypeInv /\ CleanInv /\ [Next]_vars => CleanInv'
<1> SUFFICES ASSUME TypeInv, CleanInv, [Next]_vars PROVE CleanInv'
  OBVIOUS
<1>0. MainOK /\ leftovers \subseteq TmpDirs
  BY DEF TypeInv, ThreadsOK
<1> USE <1>0, TestsAssumption DEF MainOK, MainPCs, CleanInv, Between, Goto
<1>1. CASE StartExperiment \/ UpdateTestsCount
  BY <1>1 DEF StartExperiment, UpdateTestsCount, PublishCounts, AfterTest
<1>2. CASE PrepareFails \/ Reconnect \/ ReconnectFails \/ Connected \/ ConnectFails
           \/ StartWatchdog
  BY <1>2 DEF PrepareFails, Reconnect, ReconnectFails, Connected, ConnectFails,
     StartWatchdog
<1>3. CASE TestIssue \/ TestYields \/ TestRaises \/ TestEnds
  BY <1>3 DEF TestIssue, TestYields, TestRaises, TestBreaks, TestEnds, CommandEnds
<1>4. CASE CollectIssue \/ CollectInserts \/ CollectRaises \/ CollectDone
  BY <1>4 DEF CollectIssue, CollectInserts, CollectRaises, CollectCut, CollectDone,
     RemovedUpTo
<1>5. CASE CleanupIssue \/ CleanupRaises \/ CleanupDone
  <2>1. CASE CleanupIssue
    BY <2>1 DEF CleanupIssue
  <2>2. CASE CleanupRaises
    BY <2>2 DEF CleanupRaises, CleanupCut
  <2>3. CASE CleanupDone
    <3>1. step = IF cur <= NSystem THEN 0 ELSE 4
      BY <2>3 DEF CleanupDone, CleanupSteps
    <3>2. RemovedUpTo(4 - 1) = TmpDirs
      BY DEF RemovedUpTo, TmpDirs
    <3>3. leftovers = {}
      BY <2>3, <3>1, <3>2 DEF CleanupDone
    <3> QED
      BY <2>3, <3>3 DEF CleanupDone
  <2> QED
    BY <1>5, <2>1, <2>2, <2>3
<1>6. CASE CleanupCommandEnds
  <2>1. leftovers \cap RemovedUpTo(step) = {} /\ pc = "cleanup" /\ step' = step + 1
        /\ ~busy' /\ UNCHANGED <<pc, cur, link>>
    BY <1>6 DEF CleanupCommandEnds, netVars
  <2>2. CASE leftovers' = leftovers \ RemovedBy(step + 1)
    <3>1. leftovers' \cap RemovedUpTo(step + 1) = {}
      <4>1. RemovedUpTo(step + 1) \subseteq RemovedUpTo(step) \cup RemovedBy(step + 1)
        BY DEF RemovedUpTo, RemovedBy
      <4> QED
        BY <2>1, <2>2, <4>1
    <3> QED
      BY <2>1, <2>2, <3>1
  <2>3. CASE link # "up" /\ UNCHANGED leftovers
    BY <2>1, <2>3
  <2> QED
    BY <1>6, <2>2, <2>3 DEF CleanupCommandEnds
<1>7. CASE SetEvent \/ Join \/ JoinTimesOut \/ ClearEvent
  BY <1>7 DEF SetEvent, Join, JoinTimesOut, ClearEvent
<1>8. CASE UpdateEndedAt \/ UpdateRaises \/ CloseClient
  BY <1>8 DEF UpdateEndedAt, UpdateRaises, CloseClient
<1>9. CASE (\E k \in Tests : Watchdog(k)) \/ Environment \/ CloseRunner \/ Later
           \/ UNCHANGED vars
  <2>1. UNCHANGED <<mainVars, leftovers>>
    BY <1>9 DEF Watchdog, WaitSees, WaitExpires, PingOpens, PingFails, PingCrashes,
                PingReturns, CheckEvent, KillSession, ShutPool, WatchdogEnds,
                Environment, FallsSilent, AnswersAgain, Resets, CloseRunner, Later,
                LaterReconnect, LaterConnected, LaterClose, vars
  <2>2. link' = "up" => link = "up" \/ pc = "done"
    BY <1>9 DEF Watchdog, WaitSees, WaitExpires, PingOpens, PingFails, PingCrashes,
                PingReturns, CheckEvent, KillSession, ShutPool, WatchdogEnds, SessionCloses,
                Environment, FallsSilent, AnswersAgain, Resets, CloseRunner, Later, LaterRun,
                LaterReconnect, LaterConnected, LaterClose, vars, netVars
  <2> QED
    BY <2>1, <2>2 DEF mainVars
<1> QED
  BY <1>1, <1>2, <1>3, <1>4, <1>5, <1>6, <1>7, <1>8, <1>9 DEF Next, Main, Quiet

\* No test of a suite runs on files an earlier one left behind, wherever the
\* session is lost.
THEOREM StartsCleanCorrect == Spec => []StartsClean
<1>1. Init => CleanInv
  BY DEF Init, CleanInv
<1>2. CleanInv => StartsClean
  BY DEF CleanInv, StartsClean, Between
<1> QED
  BY <1>1, <1>2, NextCleanInv, TypeInvCorrect, PTL DEF Spec

(***************************************************************************)
(* On a machine that is never lost the watchdogs never interfere.          *)
(***************************************************************************)
\* As long as the remote was not lost: the session is up whenever it can be
\* used, only the watchdog of the test in hand is alive, its ping's channel is
\* never cut, and it leaves its loop only because it saw the event.
HealthyInv ==
  losses = 0 =>
    /\ remote = "reachable" /\ (poolUp \/ pc = "done")
    /\ pc \in {"start", "run", "collect", "cleanup", "set", "join"} => link = "up"
    /\ \A k \in Tests :
         /\ wd[k] \notin {"kill", "shutdown"}
         /\ Live(k) => /\ k = cur /\ link = "up"
                       /\ pc \in {"run", "collect", "cleanup", "set", "join", "failed"}
         /\ wd[k] \in {"open", "exec"} => k \in channels
         /\ wd[k] = "check" => event[CallOf(k)]

LEMMA NextHealthyInv ==
  ASSUME ~SlowPings
  PROVE  TypeInv /\ HealthyInv /\ [Next]_vars => HealthyInv'
<1> SUFFICES ASSUME TypeInv, HealthyInv, [Next]_vars, losses' = 0 PROVE HealthyInv'
  BY DEF HealthyInv
<1>0. losses = 0 /\ MainOK /\ ThreadsOK /\ channels \subseteq Tests
  BY BoundAssumption DEF TypeInv, NetOK, Next, Main, Quiet, vars, netVars, StartExperiment,
     PrepareFails, Reconnect, ReconnectFails, Connected, ConnectFails, StartWatchdog,
     TestIssue, TestYields, TestRaises, TestBreaks, TestEnds, CollectIssue, CollectInserts,
     CollectRaises, CollectCut, CollectDone, CleanupIssue, CleanupCommandEnds,
     CleanupRaises, CleanupCut, CleanupDone, SetEvent, Join, JoinTimesOut, ClearEvent,
     UpdateEndedAt, UpdateTestsCount, PublishCounts, UpdateRaises, CloseClient, Watchdog,
     WaitSees, WaitExpires, PingOpens, PingFails, PingCrashes, PingReturns, CheckEvent,
     KillSession, ShutPool, WatchdogEnds, CloseRunner, Environment, FallsSilent,
     AnswersAgain, Resets, Later, LaterReconnect, LaterConnected, LaterClose
<1>1. poolUp \/ pc = "done"
  BY <1>0 DEF HealthyInv
<1> USE <1>0 DEF HealthyInv, MainOK, MainPCs, Goto, Live
<1>2. CASE StartExperiment \/ PrepareFails
  BY <1>2, TestsAssumption DEF StartExperiment, PrepareFails, AfterTest, netVars
<1>3. CASE Reconnect \/ ReconnectFails \/ Connected \/ ConnectFails
  BY <1>3 DEF Reconnect, ReconnectFails, Connected, ConnectFails, SessionCloses
<1>4. CASE StartWatchdog
  BY <1>4 DEF StartWatchdog, netVars, ThreadsOK
<1>5. CASE TestIssue \/ TestYields \/ TestRaises \/ TestEnds
  BY <1>5 DEF TestIssue, TestYields, TestRaises, TestBreaks, TestEnds, netVars
<1>6. CASE CollectIssue \/ CollectInserts \/ CollectRaises \/ CollectDone
  BY <1>6 DEF CollectIssue, CollectInserts, CollectRaises, CollectCut, CollectDone, netVars
<1>7. CASE CleanupIssue \/ CleanupCommandEnds \/ CleanupRaises \/ CleanupDone
  BY <1>7 DEF CleanupIssue, CleanupCommandEnds, CleanupRaises, CleanupCut, CleanupDone,
     netVars
<1>8. CASE SetEvent
  BY <1>8 DEF SetEvent, netVars, ThreadsOK
<1>9. CASE Join \/ JoinTimesOut
  BY <1>9 DEF Join, JoinTimesOut, netVars
<1>10. CASE ClearEvent
  BY <1>10 DEF ClearEvent, netVars, ThreadsOK
<1>11. CASE UpdateEndedAt \/ UpdateTestsCount \/ UpdateRaises \/ CloseClient
  BY <1>11 DEF UpdateEndedAt, UpdateTestsCount, PublishCounts, UpdateRaises, CloseClient,
     SessionCloses, AfterTest, netVars
<1>12. ASSUME NEW k \in Tests, Watchdog(k) PROVE HealthyInv'
  <2>1. wd[k] \notin {"kill", "shutdown"} /\ (wd[k] = "check" => event[CallOf(k)])
        /\ (wd[k] \in {"open", "exec"} => k \in channels)
    OBVIOUS
  <2> USE DEF WdGoto, PingLeaves, PingCut, ThreadsOK, mainVars, netVars
  <2>2. CASE WaitSees(k)
    BY <2>2 DEF WaitSees
  <2>3. CASE WaitExpires(k)
    BY <2>3 DEF WaitExpires
  <2>4. CASE PingOpens(k) \/ PingReturns(k)
    BY <2>4 DEF PingOpens, PingReturns
  <2>5. CASE PingFails(k) \/ PingCrashes(k)
    BY <2>5 DEF PingFails, PingCrashes
  <2>6. CASE CheckEvent(k)
    BY <2>6 DEF CheckEvent
  <2>7. CASE KillSession(k) \/ ShutPool(k) \/ WatchdogEnds(k)
    BY <2>1, <2>7 DEF KillSession, ShutPool, WatchdogEnds
  <2> QED
    BY <1>12, <2>2, <2>3, <2>4, <2>5, <2>6, <2>7 DEF Watchdog
<1>13. CASE Environment
  BY <1>13, BoundAssumption DEF Environment, FallsSilent, AnswersAgain, Resets, TypeInv,
     NetOK
<1>14. CASE CloseRunner \/ Later
  BY <1>14 DEF CloseRunner, Later, LaterRun, LaterReconnect, LaterConnected, LaterClose,
     SessionCloses, mainVars, netVars
<1>15. CASE UNCHANGED vars
  BY <1>15 DEF vars, mainVars, netVars
<1> QED
  BY <1>2, <1>3, <1>4, <1>5, <1>6, <1>7, <1>8, <1>9, <1>10, <1>11, <1>12, <1>13, <1>14, <1>15
     DEF Next, Main, Quiet

LEMMA HealthyInvCorrect ==
  ASSUME ~SlowPings
  PROVE  Spec => []HealthyInv
<1>1. Init => HealthyInv
  BY DEF Init, HealthyInv, Live
<1>2. TypeInv /\ HealthyInv /\ [Next]_vars => HealthyInv'
  BY NextHealthyInv
<1> QED
  BY <1>1, <1>2, TypeInvCorrect, PTL DEF Spec

\* On a machine that answers a ping within the ten seconds of join, no watchdog
\* closes the session or shuts the pool down unless the machine was lost.
THEOREM NoSpuriousKillCorrect ==
  ASSUME ~SlowPings
  PROVE  Spec => []NoSpuriousKill
<1>1. HealthyInv => NoSpuriousKill
  BY DEF HealthyInv, NoSpuriousKill
<1>2. Spec => []HealthyInv
  BY HealthyInvCorrect
<1> QED
  BY <1>1, <1>2, PTL

\* Under the same assumption no watchdog outlives its test.
THEOREM OneWatchdogCorrect ==
  ASSUME ~SlowPings
  PROVE  Spec => []OneWatchdog
<1>1. HealthyInv => OneWatchdog
  BY DEF HealthyInv, OneWatchdog
<1>2. Spec => []HealthyInv
  BY HealthyInvCorrect
<1> QED
  BY <1>1, <1>2, PTL
=============================================================================
