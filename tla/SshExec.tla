------------------------------ MODULE SshExec ------------------------------
(***************************************************************************)
(* SSHClient.__call__: one remote command over one paramiko channel.  The  *)
(* caller polls: it drains stdout, drains stderr, asks whether the exit    *)
(* status is there, and repeats.  The command, the network and paramiko's  *)
(* reader thread go on between any two of these steps.                     *)
(***************************************************************************)
EXTENDS Naturals

CONSTANTS
  Window,      \* BOUND: packets paramiko buffers before the command must wait
  Options,     \* the calls: is input_ given, is timeout given?
  MaxLosses    \* BOUND: times the machine is lost

ASSUME BoundAssumption  == Window \in Nat /\ MaxLosses \in Nat
ASSUME OptionAssumption == Options \subseteq [input : BOOLEAN, timeout : BOOLEAN]

Streams == {"stdout", "stderr"}
Reading == {"stdout", "stderr", "test"}

VARIABLES
  opts,      \* the options of this call
  pc,        \* where the caller is: "stdout" and "stderr" are the two loops of
             \* _read_available, "test" the rest of a round
  hasRead,   \* has_read of the current round
  expired,   \* monotonic() > endtime
  buffered,  \* packets of each stream that have arrived and are not read
  fresh,     \* history: packets that arrived since the stream was found empty
  chan,      \* the channel: "none", "open", "closed"
  status,    \* has the exit status arrived?
  proc,      \* the command: "none", "running", "succeeded", "failed", "killed"
  link,      \* "up", "silent" (no packets, connection open), "lost"
  losses

callVars == <<opts, pc, hasRead, expired>>
dataVars == <<buffered, fresh>>
vars     == <<callVars, dataVars, chan, status, proc, link, losses>>

Empty == [s \in Streams |-> 0]
Ended == {"returned", "raised"}

TypeOK ==
  /\ opts \in Options
  /\ pc \in {"open", "exec", "write"} \cup Reading \cup Ended
  /\ hasRead \in BOOLEAN /\ expired \in BOOLEAN
  /\ buffered \in [Streams -> 0 .. Window] /\ fresh \in [Streams -> 0 .. Window]
  /\ chan \in {"none", "open", "closed"} /\ status \in BOOLEAN
  /\ proc \in {"none", "running", "succeeded", "failed", "killed"}
  /\ link \in {"up", "silent", "lost"} /\ losses \in 0 .. MaxLosses

Init ==
  /\ opts \in Options
  /\ pc = "open" /\ hasRead = FALSE /\ expired = FALSE
  /\ buffered = Empty /\ fresh = Empty
  /\ chan = "none" /\ status = FALSE /\ proc = "none"
  /\ link = "up" /\ losses = 0

Goto(from, to) == pc = from /\ pc' = to

(***************************************************************************)
(* The caller.                                                             *)
(***************************************************************************)
OpenChannel ==
  /\ Goto("open", "exec") /\ link = "up"
  /\ chan' = "open"
  /\ UNCHANGED <<opts, hasRead, expired, dataVars, status, proc, link, losses>>

\* The transport is gone, or paramiko waited for an hour.
OpenFails ==
  /\ Goto("open", "raised") /\ link # "up"
  /\ UNCHANGED <<opts, hasRead, expired, dataVars, chan, status, proc, link, losses>>

\* exec_command waits for the server's reply, without a limit.
ExecCommand ==
  /\ Goto("exec", IF opts.input THEN "write" ELSE "stdout")
  /\ link = "up" /\ chan = "open"
  /\ proc' = "running"
  /\ UNCHANGED <<opts, hasRead, expired, dataVars, chan, status, link, losses>>

\* The server refuses, or the channel was closed under the request.
ExecFails ==
  /\ Goto("exec", "raised") /\ (link = "up" \/ chan = "closed")
  /\ chan' = "closed"
  /\ UNCHANGED <<opts, hasRead, expired, dataVars, status, proc, link, losses>>

\* The few bytes of input_ fit into the channel's window.
WriteInput ==
  /\ Goto("write", "stdout") /\ chan = "open"
  /\ UNCHANGED <<opts, hasRead, expired, dataVars, chan, status, proc, link, losses>>

\* The channel is closed already: by the loss of the connection, or because
\* the command has ended without waiting for its input.
WriteFails ==
  /\ Goto("write", "raised") /\ chan = "closed"
  /\ UNCHANGED <<opts, hasRead, expired, dataVars, chan, status, proc, link, losses>>

\* MUTANT: recv() without recv_ready().
ReadBlind(s) ==
  /\ pc = s
  /\ buffered' = [buffered EXCEPT ![s] = @ - 1]
  /\ hasRead' = TRUE
  /\ UNCHANGED <<opts, pc, expired, fresh, chan, status, proc, link, losses>>

\* recv_ready(), then recv().
Read(s) ==
  /\ pc = s /\ buffered[s] > 0
  /\ buffered' = [buffered EXCEPT ![s] = @ - 1]
  /\ hasRead' = TRUE
  /\ UNCHANGED <<opts, pc, expired, fresh, chan, status, proc, link, losses>>

LeaveLoop(s) ==
  /\ Goto(s, IF s = "stdout" THEN "stderr" ELSE "test")
  /\ fresh' = [fresh EXCEPT ![s] = 0]
  /\ UNCHANGED <<opts, hasRead, expired, buffered, chan, status, proc, link, losses>>

\* MUTANT: the loop over a stream may be left while there is output to read.
LeaveEarly(s) == LeaveLoop(s)

\* not recv_ready(): the loop over the stream is left.
Drained(s) == buffered[s] = 0 /\ LeaveLoop(s)

\* MUTANT: a closed channel does not count as the end of the command.
StatusArrived == status

\* exit_status_ready(), which a closed channel is as well.
StatusReady == status \/ chan = "closed"

Finished == StatusReady /\ ~hasRead

\* MUTANT: the deadline is looked at only in a round that read something.
DeadlineAfterRead == expired /\ hasRead

DeadlinePassed == expired

\* The round found the exit status and no output: the result is built from
\* the chunks read so far, and the channel is closed.
Break ==
  /\ Goto("test", "returned")
  /\ Finished
  /\ chan' = "closed"
  /\ UNCHANGED <<opts, hasRead, expired, dataVars, status, proc, link, losses>>

\* MUTANT: the channel is not closed.
TimesOutOpen ==
  /\ Goto("test", "raised")
  /\ ~Finished /\ DeadlinePassed
  /\ UNCHANGED <<opts, hasRead, expired, dataVars, chan, status, proc, link, losses>>

TimesOut ==
  /\ Goto("test", "raised")
  /\ ~Finished /\ DeadlinePassed
  /\ chan' = "closed"
  /\ UNCHANGED <<opts, hasRead, expired, dataVars, status, proc, link, losses>>

NextRound ==
  /\ Goto("test", "stdout")
  /\ ~Finished /\ ~DeadlinePassed
  /\ hasRead' = FALSE
  /\ UNCHANGED <<opts, expired, dataVars, chan, status, proc, link, losses>>

Caller ==
  \/ OpenChannel \/ OpenFails \/ ExecCommand \/ ExecFails \/ WriteInput \/ WriteFails
  \/ (\E s \in Streams : Read(s) \/ Drained(s))
  \/ Break \/ TimesOut \/ NextRound

\* The clock of the polling loop.
Expire ==
  /\ opts.timeout /\ pc \in Reading /\ ~expired
  /\ expired' = TRUE
  /\ UNCHANGED <<opts, pc, hasRead, dataVars, chan, status, proc, link, losses>>

(***************************************************************************)
(* The command and the connection.  What the command writes arrives in     *)
(* order, and before its exit status.                                      *)
(***************************************************************************)
Delivers == link = "up" /\ chan = "open"

Writes(s) ==
  /\ proc = "running" /\ Delivers
  /\ buffered["stdout"] + buffered["stderr"] < Window
  /\ buffered' = [buffered EXCEPT ![s] = @ + 1]
  /\ fresh' = [fresh EXCEPT ![s] = IF @ < Window THEN @ + 1 ELSE @]
  /\ UNCHANGED <<callVars, chan, status, proc, link, losses>>

WritesSome == \E s \in Streams : Writes(s)

Exits ==
  /\ proc = "running" /\ Delivers
  /\ proc' \in {"succeeded", "failed"} /\ status' = TRUE
  /\ UNCHANGED <<callVars, dataVars, chan, link, losses>>

\* A signal ends it: the channel is closed without an exit status.
Killed ==
  /\ proc = "running" /\ Delivers
  /\ proc' = "killed" /\ chan' = "closed"
  /\ UNCHANGED <<callVars, dataVars, status, link, losses>>

ServerCloses ==
  /\ status /\ Delivers
  /\ chan' = "closed"
  /\ UNCHANGED <<callVars, dataVars, status, proc, link, losses>>

FallsSilent ==
  /\ link = "up" /\ losses < MaxLosses
  /\ link' = "silent" /\ losses' = losses + 1
  /\ UNCHANGED <<callVars, dataVars, chan, status, proc>>

AnswersAgain ==
  /\ link = "silent" /\ link' = "up"
  /\ UNCHANGED <<callVars, dataVars, chan, status, proc, losses>>

Lost ==
  /\ link # "lost" /\ losses < MaxLosses
  /\ link' = "lost" /\ losses' = losses + 1
  /\ chan' = IF chan = "open" THEN "closed" ELSE chan
  /\ UNCHANGED <<callVars, dataVars, status, proc>>

Remote == WritesSome \/ Exits \/ Killed \/ ServerCloses \/ FallsSilent \/ AnswersAgain \/ Lost

Returned == pc \in Ended /\ UNCHANGED vars

Next == Caller \/ Expire \/ Remote \/ Returned

\* The caller's thread runs and time passes; the remote side owes nothing.
Spec     == Init /\ [][Next]_vars
FairSpec == Spec /\ WF_vars(Caller) /\ WF_vars(Expire)

(***************************************************************************)
(* Properties.                                                             *)
(***************************************************************************)
\* Only output that arrived after the last look at its stream is lost: what
\* was there when the final round looked is in the result.
OnlyLateOutputLost == pc = "returned" => \A s \in Streams : buffered[s] <= fresh[s]

\* However the call ends, it leaves no channel open on the session: where it
\* does not close the channel itself, the channel was closed under it.
NoOpenChannel == pc \in Ended => chan # "open"

\* A command that ended, was killed or was cut off is noticed on whatever
\* connection: the polling ends, with or without a timeout.
EndIsNoticed == pc \in Reading /\ (status \/ chan = "closed") ~> pc \in Ended

Pauses == <>[][~WritesSome]_vars

\* Once the command pauses its output, the timeout ends the polling even if
\* the machine never answers again.
TimeoutEndsReading == Pauses => (opts.timeout /\ pc \in Reading ~> pc \in Ended)

\* The docstring of common_run_command: its example prints what echo wrote.
OutputComplete == pc = "returned" /\ status => buffered = Empty
=============================================================================
