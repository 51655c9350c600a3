---------------------------- MODULE TestsRunner ----------------------------
(***************************************************************************)
(* The default runner: TestsRunner.run and TestsRunner.handle_tests, one   *)
(* watchdog thread per test (__is_remote_alive), the paramiko session they *)
(* share, the runner's thread pool, and the experiment's rows and counts   *)
(* in the database.  Threads interleave at every call that can block or    *)
(* fail: a remote command is opened by one step and answered by another.   *)
(***************************************************************************)
EXTENDS Naturals

CONSTANTS
  NSystem,         \* tests of the first handle_tests call (system tests)
  NTests,          \* tests of both calls, numbered in running order
  PoolTests,       \* tests whose code submits work to the runner's pool
  ResultStatuses,  \* the statuses a test's results carry
  MaxResults,      \* BOUND: results one test yields
  MaxLosses,       \* BOUND: times the remote is lost
  SlowPings        \* may a machine that was never lost take over 10 s for a ping?

Status == {"PASSED", "FAILED", "SKIPPED", "BROKEN"}

ASSUME TestsAssumption  == NSystem \in Nat /\ NTests \in Nat /\ NSystem <= NTests
ASSUME PoolAssumption   == PoolTests \subseteq 1 .. NTests
ASSUME StatusAssumption == ResultStatuses \subseteq Status
ASSUME BoundAssumption  == MaxResults \in Nat /\ MaxLosses \in Nat
ASSUME SlowAssumption   == SlowPings \in BOOLEAN

Tests   == 1 .. NTests
Calls   == {"system", "suite"}
TmpDirs == {"/tmp", "/var/tmp"}

\* handle_tests makes a fresh Event per call; the threads of a call share it.
CallOf(i) == IF i <= NSystem THEN "system" ELSE "suite"

\* Remote commands of _collect_system_errors, and of cleanup (a system test
\* overrides cleanup by a log line).
CollectSteps    == 3
CleanupSteps(i) == IF i <= NSystem THEN 0 ELSE 4

\* The first two commands of DefaultCleanupMixin.cleanup remove files; sync
\* and drop_caches remove none.
RemovedBy(n) == CASE n = 1 -> {"/tmp"} [] n = 2 -> {"/var/tmp"} [] OTHER -> {}

MainPCs  == {"prepare", "reconnect", "connect", "start", "run", "collect", "cleanup", "set",
             "join", "clear", "ended_at", "counts", "close", "done", "failed"}
WdStates == {"none", "wait", "open", "exec", "check", "kill", "shutdown", "ended"}

VARIABLES
  pc,         \* where the main thread is
  cur,        \* the test it handles
  step,       \* remote commands completed in the current phase
  busy,       \* is a remote command of the main thread in flight?
  link,       \* the Transport in client.ssh_session: "down", "handshake", "up"
  channels,   \* the watchdogs whose ping has a channel on that Transport
  remote,     \* does the machine under test answer?
  losses,     \* how often it was lost
  poolUp,     \* does the executor accept work?
  event,      \* test_completed_event of each call
  wd,         \* the watchdog thread of each test
  leftovers,  \* temporary directories holding a test's files
  rows,       \* loader rows of the experiment in util_run_result
  observed,   \* observer rows of the experiment in util_run_result
  cnt,        \* __tests_cnt
  statuses,   \* __tests_statuses
  raised,     \* history: tests that ended in an exception
  db          \* counts in the experiment's row

mainVars   == <<pc, cur, step, busy>>
netVars    == <<link, channels, remote, losses>>
countVars  == <<rows, observed, cnt, statuses, raised, db>>
vars == <<mainVars, netVars, poolUp, event, wd, leftovers, countVars>>

NoStatuses == [s \in Status |-> 0]

TypeOK ==
  /\ pc \in MainPCs
  /\ cur \in 1 .. NTests + 1
  /\ step \in Nat
  /\ busy \in BOOLEAN
  /\ link \in {"down", "handshake", "up"}
  /\ channels \subseteq Tests
  /\ remote \in {"reachable", "silent"}
  /\ losses \in 0 .. MaxLosses
  /\ poolUp \in BOOLEAN
  /\ event \in [Calls -> BOOLEAN]
  /\ wd \in [Tests -> WdStates]
  /\ leftovers \subseteq TmpDirs
  /\ rows \in Nat
  /\ observed \in Nat
  /\ cnt \in Nat
  /\ statuses \in [Status -> Nat]
  /\ raised \in Nat
  /\ db \in [total : Nat, statuses : [Status -> Nat]]

Init ==
  /\ pc = "prepare" /\ cur = 1 /\ step = 0 /\ busy = FALSE
  /\ link = "up" /\ channels = {} /\ remote = "reachable" /\ losses = 0
  /\ poolUp = TRUE
  /\ event = [c \in Calls |-> FALSE]
  /\ wd = [i \in Tests |-> "none"]
  /\ leftovers = {}
  /\ rows = 0 /\ observed = 0 /\ cnt = 0 /\ statuses = NoStatuses /\ raised = 0
  /\ db = [total |-> 0, statuses |-> NoStatuses]

(***************************************************************************)
(* The main thread.                                                        *)
(***************************************************************************)
Goto(from, to) == pc = from /\ pc' = to

\* Where handle_tests and run go when test i has been handled.
AfterTest(i) == IF i < NTests THEN "reconnect" ELSE "close"

\* Closing the session ends every channel that is open on it.
SessionCloses == link' = "down" /\ channels' = {}

\* An answer can come: from the remote, or from paramiko when the session is
\* closed (a pending recv_exit_status then returns -1).
Answered == remote = "reachable" \/ link # "up"

\* run(): the snapshot part, then start_experiment inserts the row.
StartExperiment ==
  /\ Goto("prepare", AfterTest(0)) /\ Answered
  /\ UNCHANGED <<cur, step, busy, netVars, poolUp, event, wd, leftovers, countVars>>

PrepareFails ==
  /\ Goto("prepare", "failed") /\ Answered
  /\ UNCHANGED <<cur, step, busy, netVars, poolUp, event, wd, leftovers, countVars>>

\* client.reconnect(): close the old Transport, open the TCP connection of a
\* new one.  If that raises, ssh_session still is the closed one.
Reconnect ==
  /\ Goto("reconnect", "connect")
  /\ remote = "reachable"
  /\ link' = "handshake" /\ channels' = {}
  /\ UNCHANGED <<cur, step, busy, remote, losses, poolUp, event, wd, leftovers, countVars>>

ReconnectFails ==
  /\ Goto("reconnect", "failed")
  /\ SessionCloses
  /\ UNCHANGED <<cur, step, busy, remote, losses, poolUp, event, wd, leftovers, countVars>>

Connected ==
  /\ Goto("connect", "start")
  /\ link = "handshake" /\ remote = "reachable"
  /\ link' = "up"
  /\ UNCHANGED <<cur, step, busy, channels, remote, losses, poolUp, event, wd, leftovers,
                 countVars>>

\* The handshake fails: the remote is gone, or a watchdog closed the session.
ConnectFails ==
  /\ Goto("connect", "failed")
  /\ SessionCloses
  /\ UNCHANGED <<cur, step, busy, remote, losses, poolUp, event, wd, leftovers, countVars>>

\* MUTANT: the counters are reset for every test.
CountersReset ==
  /\ Goto("start", "run")
  /\ step' = 0
  /\ wd' = [wd EXCEPT ![cur] = "wait"]
  /\ cnt' = 0 /\ statuses' = NoStatuses /\ raised' = 0
  /\ UNCHANGED <<cur, busy, netVars, poolUp, event, leftovers, rows, observed, db>>

StartWatchdog ==
  /\ Goto("start", "run")
  /\ step' = 0
  /\ wd' = [wd EXCEPT ![cur] = "wait"]
  /\ UNCHANGED <<cur, busy, netVars, poolUp, event, leftovers, countVars>>

\* The test opens a channel for its next command; work given to a pool that
\* was shut down, and a channel on a closed session, raise instead.
TestIssue ==
  /\ pc = "run" /\ ~busy /\ step < MaxResults
  /\ link = "up"
  /\ cur \in PoolTests => poolUp
  /\ busy' = TRUE
  /\ UNCHANGED <<pc, cur, step, netVars, poolUp, event, wd, leftovers, countVars>>

\* The command ends, having left files if the test is one of a suite.
CommandEnds ==
  /\ busy /\ Answered
  /\ busy' = FALSE
  /\ leftovers' \in {leftovers} \cup (IF cur <= NSystem THEN {} ELSE {TmpDirs})

\* The test yields a result; its row is inserted, then it is counted.
TestYields ==
  /\ pc = "run" /\ CommandEnds
  /\ step' = step + 1
  /\ \E s \in ResultStatuses : statuses' = [statuses EXCEPT ![s] = @ + 1]
  /\ rows' = rows + 1
  /\ cnt' = cnt + 1
  /\ UNCHANGED <<pc, cur, netVars, poolUp, event, wd, observed, raised, db>>

\* except Exception: the test is BROKEN and not added to __tests_cnt.  The
\* insert may have committed its row before it raised (session.refresh).
TestBreaks(counted) ==
  /\ Goto("run", "collect")
  /\ \/ ~busy /\ UNCHANGED <<busy, leftovers, rows>>
     \/ CommandEnds /\ rows' \in {rows, rows + 1}
  /\ step' = 0
  /\ statuses' = [statuses EXCEPT !["BROKEN"] = @ + 1]
  /\ raised' = raised + 1
  /\ cnt' = cnt + counted
  /\ UNCHANGED <<cur, netVars, poolUp, event, wd, observed, db>>

\* MUTANT: a test that raises is counted as well (finally: __tests_cnt += 1).
RaisedIsCounted == TestBreaks(1)

TestRaises == TestBreaks(0)

\* The generator is exhausted.
TestEnds ==
  /\ Goto("run", "collect") /\ ~busy
  /\ step' = 0
  /\ UNCHANGED <<cur, busy, netVars, poolUp, event, wd, leftovers, countVars>>

\* _collect_system_errors: a command and a row, three times.  It is outside
\* the try: what it raises leaves handle_tests and run.
CollectIssue ==
  /\ pc = "collect" /\ ~busy /\ step < CollectSteps
  /\ link = "up"
  /\ busy' = TRUE
  /\ UNCHANGED <<pc, cur, step, netVars, poolUp, event, wd, leftovers, countVars>>

CollectInserts ==
  /\ pc = "collect" /\ busy /\ Answered
  /\ busy' = FALSE
  /\ step' = step + 1
  /\ observed' = observed + 1
  /\ UNCHANGED <<pc, cur, netVars, poolUp, event, wd, leftovers, rows, cnt, statuses, raised, db>>

\* It raises: at a channel that cannot be opened, in or after the insert.
CollectCut(to) ==
  /\ Goto("collect", to) /\ step < CollectSteps
  /\ \/ ~busy /\ link # "up" /\ UNCHANGED observed
     \/ busy /\ Answered /\ observed' \in {observed, observed + 1}
  /\ busy' = FALSE /\ step' = 0
  /\ UNCHANGED <<cur, netVars, poolUp, event, wd, leftovers, rows, cnt, statuses, raised, db>>

\* MUTANTS: _collect_system_errors swallows what it raises; what it raises
\* ends the tests, but not the run.
CollectSwallows == CollectCut("cleanup")
CollectBreaks   == CollectCut("close")

CollectRaises == CollectCut("failed")

CollectDone ==
  /\ Goto("collect", "cleanup") /\ step = CollectSteps
  /\ step' = 0
  /\ UNCHANGED <<cur, busy, netVars, poolUp, event, wd, leftovers, countVars>>

\* test_instance.cleanup: a failing command is only logged, but a channel
\* that cannot be opened raises, again outside any try.
\* Assumed: sudo rm -rf removes what it is told to while the machine is connected.
CleanupIssue ==
  /\ pc = "cleanup" /\ ~busy /\ step < CleanupSteps(cur)
  /\ link = "up"
  /\ busy' = TRUE
  /\ UNCHANGED <<pc, cur, step, netVars, poolUp, event, wd, leftovers, countVars>>

CleanupCommandEnds ==
  /\ pc = "cleanup" /\ busy /\ Answered
  /\ busy' = FALSE
  /\ step' = step + 1
  /\ \/ leftovers' = leftovers \ RemovedBy(step + 1)
     \/ link # "up" /\ UNCHANGED leftovers
  /\ UNCHANGED <<pc, cur, netVars, poolUp, event, wd, countVars>>

\* A channel cannot be opened for the next command.
CleanupCut(to) ==
  /\ Goto("cleanup", to) /\ step < CleanupSteps(cur)
  /\ ~busy /\ link # "up"
  /\ step' = 0
  /\ UNCHANGED <<cur, busy, netVars, poolUp, event, wd, leftovers, countVars>>

\* MUTANT: cleanup swallows what it raises.
CleanupSwallows == CleanupCut("set")

CleanupRaises == CleanupCut("failed")

CleanupDone ==
  /\ Goto("cleanup", "set") /\ step = CleanupSteps(cur)
  /\ step' = 0
  /\ UNCHANGED <<cur, busy, netVars, poolUp, event, wd, leftovers, countVars>>

\* MUTANT: the event is not set.
EventNotSet ==
  /\ Goto("set", "join")
  /\ UNCHANGED <<cur, step, busy, netVars, poolUp, event, wd, leftovers, countVars>>

\* MUTANT: the event is set, and cleared without joining the thread.
NoJoin ==
  /\ Goto("set", "clear")
  /\ event' = [event EXCEPT ![CallOf(cur)] = TRUE]
  /\ UNCHANGED <<cur, step, busy, netVars, poolUp, wd, leftovers, countVars>>

SetEvent ==
  /\ Goto("set", "join")
  /\ event' = [event EXCEPT ![CallOf(cur)] = TRUE]
  /\ UNCHANGED <<cur, step, busy, netVars, poolUp, wd, leftovers, countVars>>

Join ==
  /\ Goto("join", "clear")
  /\ wd[cur] = "ended"
  /\ UNCHANGED <<cur, step, busy, netVars, poolUp, event, wd, leftovers, countVars>>

\* MUTANT: join with a timeout that a ping to a healthy machine can exceed.
ShortJoin ==
  /\ Goto("join", "clear")
  /\ UNCHANGED <<cur, step, busy, netVars, poolUp, event, wd, leftovers, countVars>>

\* join(10) gives up on a thread that is inside a call that blocks: a ping to
\* a silent or a slow machine, or executor.shutdown waiting for running work.
JoinTimesOut ==
  /\ Goto("join", "clear")
  /\ \/ wd[cur] \in {"open", "exec"} /\ (SlowPings \/ remote = "silent")
     \/ wd[cur] = "shutdown"
  /\ UNCHANGED <<cur, step, busy, netVars, poolUp, event, wd, leftovers, countVars>>

ClearEvent ==
  /\ Goto("clear", "ended_at")
  /\ event' = [event EXCEPT ![CallOf(cur)] = FALSE]
  /\ UNCHANGED <<cur, step, busy, netVars, poolUp, wd, leftovers, countVars>>

UpdateEndedAt ==
  /\ Goto("ended_at", "counts")
  /\ UNCHANGED <<cur, step, busy, netVars, poolUp, event, wd, leftovers, countVars>>

PublishCounts(total) ==
  /\ Goto("counts", AfterTest(cur))
  /\ db' = [total |-> total, statuses |-> statuses]
  /\ cur' = cur + 1
  /\ UNCHANGED <<step, busy, netVars, poolUp, event, wd, leftovers,
                 rows, observed, cnt, statuses, raised>>

\* MUTANTS: the total is one too low; the total is the sum of the statuses.
TotalTooLow     == PublishCounts(cnt - 1)
TotalOfStatuses == PublishCounts(cnt + raised)

UpdateTestsCount == PublishCounts(cnt)

\* The database refuses one of the two updates.
UpdateRaises ==
  /\ pc \in {"ended_at", "counts"} /\ pc' = "failed"
  /\ UNCHANGED <<cur, step, busy, netVars, poolUp, event, wd, leftovers, countVars>>

\* run() ends with client.close().
CloseClient ==
  /\ Goto("close", "done")
  /\ SessionCloses
  /\ UNCHANGED <<cur, step, busy, remote, losses, poolUp, event, wd, leftovers, countVars>>

\* _run_single then closes the runner: shutdown(wait=False) of its pool.
CloseRunner ==
  /\ pc = "done" /\ poolUp
  /\ poolUp' = FALSE
  /\ UNCHANGED <<mainVars, netVars, event, wd, leftovers, countVars>>

Main ==
  \/ StartExperiment \/ PrepareFails
  \/ Reconnect \/ ReconnectFails \/ Connected \/ ConnectFails \/ StartWatchdog
  \/ TestIssue \/ TestYields \/ TestRaises \/ TestEnds
  \/ CollectIssue \/ CollectInserts \/ CollectRaises \/ CollectDone
  \/ CleanupIssue \/ CleanupCommandEnds \/ CleanupRaises \/ CleanupDone
  \/ SetEvent \/ Join \/ JoinTimesOut \/ ClearEvent
  \/ UpdateEndedAt \/ UpdateTestsCount \/ UpdateRaises \/ CloseClient
  \/ CloseRunner

(***************************************************************************)
(* The watchdog thread of test k: __is_remote_alive.                       *)
(***************************************************************************)
WdGoto(k, from, to) == wd[k] = from /\ wd' = [wd EXCEPT ![k] = to]

\* A ping ends: its channel is closed.
PingLeaves(k, from, to) == WdGoto(k, from, to) /\ channels' = channels \ {k}

\* The session a ping was opened on is closed, or replaced by a new one.
PingCut(k) == k \notin channels

\* event.wait(5.0) returns True: the loop is left.
WaitSees(k) ==
  /\ WdGoto(k, "wait", "check")
  /\ event[CallOf(k)]
  /\ UNCHANGED <<mainVars, netVars, poolUp, event, leftovers, countVars>>

\* MUTANT: the loop goes on after a ping that raises.
PingErrorIgnored(k) ==
  /\ ~event[CallOf(k)]
  /\ IF link = "up"
     THEN WdGoto(k, "wait", "open") /\ channels' = channels \cup {k}
     ELSE wd[k] = "wait" /\ UNCHANGED <<wd, channels>>
  /\ UNCHANGED <<mainVars, link, remote, losses, poolUp, event, leftovers, countVars>>

\* event.wait(5.0) times out: the next ping opens a channel on the session
\* the client has now, or raises SSHException because that one is not active.
WaitExpires(k) ==
  /\ ~event[CallOf(k)]
  /\ IF link = "up"
     THEN WdGoto(k, "wait", "open") /\ channels' = channels \cup {k}
     ELSE WdGoto(k, "wait", "check") /\ UNCHANGED channels
  /\ UNCHANGED <<mainVars, link, remote, losses, poolUp, event, leftovers, countVars>>

PingOpens(k) ==
  /\ WdGoto(k, "open", "exec")
  /\ ~PingCut(k) /\ remote = "reachable"
  /\ UNCHANGED <<mainVars, netVars, poolUp, event, leftovers, countVars>>

\* SSHException: the session was closed under the ping, or the channel was
\* not opened within paramiko's channel timeout.
PingFails(k) ==
  /\ \/ PingLeaves(k, "open", "check") /\ (PingCut(k) \/ remote = "silent")
     \/ PingLeaves(k, "exec", "check") /\ PingCut(k)
  /\ UNCHANGED <<mainVars, link, remote, losses, poolUp, event, leftovers, countVars>>

\* The session was cut and paramiko re-raises what its reader saw (EOFError):
\* not an SSHException, so the thread dies of it.
PingCrashes(k) ==
  /\ PingCut(k)
  /\ WdGoto(k, "open", "ended") \/ WdGoto(k, "exec", "ended")
  /\ UNCHANGED <<mainVars, netVars, poolUp, event, leftovers, countVars>>

\* The ping returns, with the remote's answer or with -1 of a closed channel.
PingReturns(k) ==
  /\ PingLeaves(k, "exec", "wait")
  /\ PingCut(k) \/ remote = "reachable"
  /\ UNCHANGED <<mainVars, link, remote, losses, poolUp, event, leftovers, countVars>>

\* if not test_completed_event.is_set()
CheckEvent(k) ==
  /\ IF event[CallOf(k)] THEN WdGoto(k, "check", "ended") ELSE WdGoto(k, "check", "kill")
  /\ UNCHANGED <<mainVars, netVars, poolUp, event, leftovers, countVars>>

\* MUTANT: the watchdog does not close the client.
SessionSurvives(k) ==
  /\ WdGoto(k, "kill", "shutdown")
  /\ UNCHANGED <<mainVars, netVars, poolUp, event, leftovers, countVars>>

\* client.close(): whatever session the client has now.  A Transport that has
\* not started its handshake ignores close().
KillSession(k) ==
  /\ WdGoto(k, "kill", "shutdown")
  /\ \/ SessionCloses
     \/ link = "handshake" /\ UNCHANGED <<link, channels>>
  /\ UNCHANGED <<mainVars, remote, losses, poolUp, event, leftovers, countVars>>

\* executor.shutdown(cancel_futures=True) refuses new work at once ...
ShutPool(k) ==
  /\ wd[k] = "shutdown" /\ poolUp
  /\ poolUp' = FALSE
  /\ UNCHANGED <<mainVars, netVars, event, wd, leftovers, countVars>>

\* ... and returns when the work that was running has ended.
WatchdogEnds(k) ==
  /\ WdGoto(k, "shutdown", "ended")
  /\ ~poolUp
  /\ UNCHANGED <<mainVars, netVars, poolUp, event, leftovers, countVars>>

Watchdog(k) ==
  \/ WaitSees(k) \/ WaitExpires(k)
  \/ PingOpens(k) \/ PingFails(k) \/ PingCrashes(k) \/ PingReturns(k)
  \/ CheckEvent(k) \/ KillSession(k) \/ ShutPool(k) \/ WatchdogEnds(k)

(***************************************************************************)
(* The machine under test.                                                 *)
(***************************************************************************)
\* It stops answering without closing the connection (a hung guest).
FallsSilent ==
  /\ remote = "reachable" /\ losses < MaxLosses
  /\ remote' = "silent" /\ losses' = losses + 1
  /\ UNCHANGED <<mainVars, link, channels, poolUp, event, wd, leftovers, countVars>>

AnswersAgain ==
  /\ remote = "silent"
  /\ remote' = "reachable"
  /\ UNCHANGED <<mainVars, link, channels, losses, poolUp, event, wd, leftovers, countVars>>

\* It closes the connection (sshd killed, guest rebooted).
Resets ==
  /\ link # "down" /\ losses < MaxLosses
  /\ SessionCloses /\ losses' = losses + 1
  /\ UNCHANGED <<mainVars, remote, poolUp, event, wd, leftovers, countVars>>

Environment == FallsSilent \/ AnswersAgain \/ Resets

(***************************************************************************)
(* What comes after the run: _run_single runs its next suite, and run_tests*)
(* its next run, on the same client, with a runner, an event and a pool of *)
(* their own.  Of that only the client's session is modelled, which is all *)
(* that a watchdog this run left behind can see: it is opened again, closed*)
(* before each test and at the end, any number of times.                   *)
(***************************************************************************)
LaterRun == pc = "done" /\ ~poolUp

LaterReconnect ==
  /\ LaterRun /\ remote = "reachable" /\ link = "down"
  /\ link' = "handshake"
  /\ UNCHANGED <<mainVars, channels, remote, losses, poolUp, event, wd, leftovers, countVars>>

LaterConnected ==
  /\ LaterRun /\ remote = "reachable" /\ link = "handshake"
  /\ link' = "up"
  /\ UNCHANGED <<mainVars, channels, remote, losses, poolUp, event, wd, leftovers, countVars>>

LaterClose ==
  /\ LaterRun /\ link # "down"
  /\ SessionCloses
  /\ UNCHANGED <<mainVars, remote, losses, poolUp, event, wd, leftovers, countVars>>

Later == LaterReconnect \/ LaterConnected \/ LaterClose

Ended == pc \in {"done", "failed"}

\* Nothing runs any more: no main thread, no watchdog.
Quiet ==
  /\ Ended /\ \A k \in Tests : wd[k] \in {"none", "ended"}
  /\ UNCHANGED vars

Next == Main \/ (\E k \in Tests : Watchdog(k)) \/ Environment \/ Later \/ Quiet

\* The operating system runs every runnable thread; it owes nothing to the
\* machine under test, which may stay silent for ever, nor is a suite of the
\* process ever followed by another.
Fairness == WF_vars(Main) /\ \A k \in Tests : WF_vars(Watchdog(k))

Spec     == Init /\ [][Next]_vars
FairSpec == Spec /\ Fairness

(***************************************************************************)
(* Properties.                                                             *)
(***************************************************************************)
Live(k) == wd[k] \notin {"none", "ended"}

\* A watchdog may blame the remote (client.close, executor.shutdown) only if
\* the remote was lost at some time: a healthy run keeps its session and pool.
NoSpuriousKill ==
  losses = 0 => /\ poolUp \/ pc = "done"
                /\ \A k \in Tests : wd[k] \notin {"kill", "shutdown"}

\* As long as the remote was not lost, a watchdog never outlives its test: no
\* thread of an earlier test can act on the session of a later one.
OneWatchdog ==
  losses = 0 => \A k \in Tests : Live(k) =>
    k = cur /\ pc \notin {"prepare", "reconnect", "connect", "start", "clear", "ended_at",
                          "counts", "close", "done"}

\* A test finds the temporary directories as cleanup leaves them, even when
\* the session was cut while the cleanup of the test before it was running.
StartsClean == pc \in {"reconnect", "connect", "start", "close", "done"} => leftovers = {}

\* The counters agree with the rows: every counted result has a row; every
\* status beyond the counted results is a test that raised, recorded BROKEN.
Accounting ==
  /\ cnt <= rows /\ rows <= cnt + raised
  /\ statuses["PASSED"] + statuses["FAILED"] + statuses["SKIPPED"] + statuses["BROKEN"]
       = cnt + raised
  /\ raised <= statuses["BROKEN"]

\* What the experiment's row claims is backed by rows already inserted, and
\* between tests it is exactly what the runner counted.
DbBacked ==
  /\ db.total <= rows
  /\ pc \in {"reconnect", "connect", "start", "close", "done"} =>
       db = [total |-> cnt, statuses |-> statuses]

\* A test that was handled to the end has its three observer rows.
Observed ==
  pc \in {"reconnect", "connect", "start", "run", "close", "done"} =>
    observed = CollectSteps * (cur - 1)

\* Rows and published counts are what a reader of the database relies on: see
\* module ExperimentLog.
Log == INSTANCE ExperimentLog WITH stored <- rows, published <- db
ImplementsLog == Log!Spec

\* What the watchdog is for: a test waiting on a machine that went silent is
\* released, if the watchdog was between two pings when that happened.
SilenceEndsTest ==
  pc = "run" /\ busy /\ remote = "silent" /\ wd[cur] = "wait"
    ~> remote = "reachable" \/ ~busy

\* A test that loses its session never lets the run go on: the system errors
\* are collected over the same session, outside the try.
LostSessionFailsRun ==
  pc = "run" /\ link = "down" ~> pc = "failed"

\* A run on a machine that always comes back ends, whatever the watchdogs do.
Terminates == []<>(remote = "reachable") => <>Ended

\* A watchdog that join(10) gave up on pings for as long as the client has a
\* session, the sessions of later suites included.  When the client is closed
\* for good, after the last suite or by the machine in a run that failed, no
\* watchdog stays alive, whatever it waited for and in whichever session.
WatchdogsEnd == <>[](link = "down") => <>[](\A k \in Tests : ~Live(k))
=============================================================================
