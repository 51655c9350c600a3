--------------------------- MODULE SshExecProofs ---------------------------
(***************************************************************************)
(* What SshExec promises for every window, every set of options and any    *)
(* number of losses, proved.                                               *)
(***************************************************************************)
EXTENDS SshExec, TLAPS

(***************************************************************************)
(* The state always has its type: in particular no stream is read beyond   *)
(* what has arrived, and paramiko's buffer never overflows.                *)
(***************************************************************************)
CallerOK ==
  /\ opts \in Options
  /\ pc \in {"open", "exec", "write"} \cup Reading \cup Ended
  /\ hasRead \in BOOLEAN /\ expired \in BOOLEAN

DataOK == buffered \in [Streams -> 0 .. Window] /\ fresh \in [Streams -> 0 .. Window]

RemoteOK ==
  /\ chan \in {"none", "open", "closed"} /\ status \in BOOLEAN
  /\ proc \in {"none", "running", "succeeded", "failed", "killed"}
  /\ link \in {"up", "silent", "lost"} /\ losses \in 0 .. MaxLosses

LEMMA TypeParts == TypeOK <=> CallerOK /\ DataOK /\ RemoteOK
BY DEF TypeOK, CallerOK, DataOK, RemoteOK

LEMMA InitType == Init => TypeOK
<1> SUFFICES ASSUME Init PROVE TypeOK
  OBVIOUS
<1>1. CallerOK
  BY OptionAssumption DEF Init, CallerOK
<1>2. DataOK
  BY BoundAssumption DEF Init, DataOK, Empty, Streams
<1>3. RemoteOK
  <2>1. status \in BOOLEAN
    BY DEF Init
  <2> QED
    BY <2>1, BoundAssumption, SMT DEF Init, RemoteOK
<1> QED
  BY <1>1, <1>2, <1>3, TypeParts

\* The caller's own variables are disturbed by the caller and the clock only.
LEMMA CallerType == CallerOK /\ [Next]_vars => CallerOK'
<1> SUFFICES ASSUME CallerOK, [Next]_vars PROVE CallerOK'
  OBVIOUS
<1> USE DEF CallerOK, Reading, Ended, Streams, Goto
<1>1. CASE OpenChannel \/ OpenFails \/ ExecCommand \/ ExecFails \/ WriteInput \/ WriteFails
  BY <1>1 DEF OpenChannel, OpenFails, ExecCommand, ExecFails, WriteInput, WriteFails
<1>2. ASSUME NEW s \in Streams, Read(s) \/ Drained(s) PROVE CallerOK'
  BY <1>2 DEF Read, Drained, LeaveLoop
<1>3. CASE Break \/ TimesOut \/ NextRound \/ Expire
  BY <1>3 DEF Break, TimesOut, NextRound, Expire
<1>4. CASE Remote
  BY <1>4 DEF Remote, WritesSome, Writes, Exits, Killed, ServerCloses, FallsSilent,
              AnswersAgain, Lost, callVars
<1>5. CASE Returned \/ UNCHANGED vars
  BY <1>5 DEF Returned, vars, callVars
<1> QED
  BY <1>1, <1>2, <1>3, <1>4, <1>5 DEF Next, Caller

LEMMA DataType == DataOK /\ [Next]_vars => DataOK'
<1> SUFFICES ASSUME DataOK, [Next]_vars PROVE DataOK'
  OBVIOUS
<1> USE BoundAssumption DEF DataOK, Streams
<1>1. ASSUME NEW s \in Streams, Read(s) PROVE DataOK'
  BY <1>1 DEF Read
<1>2. ASSUME NEW s \in Streams, Drained(s) PROVE DataOK'
  BY <1>2 DEF Drained, LeaveLoop
<1>3. ASSUME NEW s \in Streams, Writes(s) PROVE DataOK'
  BY <1>3 DEF Writes
<1>4. CASE \/ OpenChannel \/ OpenFails \/ ExecCommand \/ ExecFails \/ WriteInput \/ WriteFails
           \/ Break \/ TimesOut \/ NextRound \/ Expire
  BY <1>4 DEF OpenChannel, OpenFails, ExecCommand, ExecFails, WriteInput, WriteFails, Break,
              TimesOut, NextRound, Expire, dataVars
<1>5. CASE Exits \/ Killed \/ ServerCloses \/ FallsSilent \/ AnswersAgain \/ Lost
  BY <1>5 DEF Exits, Killed, ServerCloses, FallsSilent, AnswersAgain, Lost, dataVars
<1>6. CASE Returned \/ UNCHANGED vars
  BY <1>6 DEF Returned, vars, dataVars
<1> QED
  BY <1>1, <1>2, <1>3, <1>4, <1>5, <1>6 DEF Next, Caller, Remote, WritesSome

LEMMA RemoteType == RemoteOK /\ [Next]_vars => RemoteOK'
<1> SUFFICES ASSUME RemoteOK, [Next]_vars PROVE RemoteOK'
  OBVIOUS
<1> USE BoundAssumption DEF RemoteOK
<1>1. CASE OpenChannel \/ OpenFails \/ ExecCommand \/ ExecFails \/ WriteInput \/ WriteFails
  BY <1>1 DEF OpenChannel, OpenFails, ExecCommand, ExecFails, WriteInput, WriteFails
<1>2. ASSUME NEW s \in Streams, Read(s) \/ Drained(s) \/ Writes(s) PROVE RemoteOK'
  BY <1>2 DEF Read, Drained, LeaveLoop, Writes
<1>3. CASE Break \/ TimesOut \/ NextRound \/ Expire
  BY <1>3 DEF Break, TimesOut, NextRound, Expire
<1>4. CASE Exits \/ Killed \/ ServerCloses
  BY <1>4 DEF Exits, Killed, ServerCloses
<1>5. CASE FallsSilent \/ AnswersAgain \/ Lost
  BY <1>5 DEF FallsSilent, AnswersAgain, Lost
<1>6. CASE Returned \/ UNCHANGED vars
  BY <1>6 DEF Returned, vars
<1> QED
  BY <1>1, <1>2, <1>3, <1>4, <1>5, <1>6 DEF Next, Caller, Remote, WritesSome

THEOREM TypeCorrect == Spec => []TypeOK
<1>1. TypeOK /\ [Next]_vars => TypeOK'
  <2> SUFFICES ASSUME TypeOK, [Next]_vars PROVE TypeOK'
    OBVIOUS
  <2>1. CallerOK' /\ DataOK' /\ RemoteOK'
    BY CallerType, DataType, RemoteType, TypeParts
  <2> QED
    BY <2>1 DEF TypeOK, CallerOK, DataOK, RemoteOK
<1> QED
  BY InitType, <1>1, PTL DEF Spec

(***************************************************************************)
(* OnlyLateOutputLost is not inductive: it speaks of the end.  LookInv     *)
(* says what a round that has read nothing so far knows of the streams it  *)
(* has passed: what they hold arrived after they were found empty.         *)
(***************************************************************************)
Late(s) == buffered[s] <= fresh[s]

LookInv ==
  /\ pc \in {"stderr", "test"} /\ ~hasRead => Late("stdout")
  /\ pc = "test" /\ ~hasRead => Late("stderr")
  /\ OnlyLateOutputLost

LEMMA LookStep == TypeOK /\ LookInv /\ [Next]_vars => LookInv'
<1> SUFFICES ASSUME TypeOK, LookInv, [Next]_vars PROVE LookInv'
  OBVIOUS
<1>t. DataOK
  BY TypeParts
<1> USE DEF LookInv, Late, OnlyLateOutputLost, Streams, Goto
<1>1. CASE OpenChannel \/ OpenFails \/ ExecCommand \/ ExecFails \/ WriteInput \/ WriteFails
  BY <1>1 DEF OpenChannel, OpenFails, ExecCommand, ExecFails, WriteInput, WriteFails
<1>2. ASSUME NEW s \in Streams, Read(s) PROVE LookInv'
  BY <1>2 DEF Read
<1>3. ASSUME NEW s \in Streams, Drained(s) PROVE LookInv'
  <2>1. Late(s)' /\ \A r \in Streams \ {s} : Late(r) => Late(r)'
    BY <1>3, <1>t, BoundAssumption DEF Drained, LeaveLoop, DataOK
  <2> QED
    BY <2>1, <1>3 DEF Drained, LeaveLoop
<1>4. CASE Break
  BY <1>4 DEF Break, Finished, dataVars
<1>5. CASE TimesOut \/ NextRound \/ Expire
  BY <1>5 DEF TimesOut, NextRound, Expire, dataVars, Reading
<1>6. ASSUME NEW s \in Streams, Writes(s) PROVE LookInv'
  \* A packet that arrives late is late, unless the buffer's bound stops the
  \* history from counting it; then all of the buffer is.
  <2>1. \A r \in Streams : Late(r) => Late(r)'
    BY <1>6, <1>t, BoundAssumption DEF Writes, DataOK
  <2>2. UNCHANGED <<pc, hasRead>>
    BY <1>6 DEF Writes, callVars
  <2> QED
    BY <2>1, <2>2
<1>7. CASE Exits \/ Killed \/ ServerCloses \/ FallsSilent \/ AnswersAgain \/ Lost
  BY <1>7 DEF Exits, Killed, ServerCloses, FallsSilent, AnswersAgain, Lost, callVars, dataVars
<1>8. CASE Returned \/ UNCHANGED vars
  BY <1>8 DEF Returned, vars, callVars, dataVars
<1> QED
  BY <1>1, <1>2, <1>3, <1>4, <1>5, <1>6, <1>7, <1>8 DEF Next, Caller, Remote, WritesSome

THEOREM OnlyLateCorrect == Spec => []OnlyLateOutputLost
<1>1. Init => LookInv
  BY DEF Init, LookInv, OnlyLateOutputLost
<1>2. LookInv => OnlyLateOutputLost
  BY DEF LookInv
<1> QED
  BY <1>1, <1>2, LookStep, TypeCorrect, PTL DEF Spec

(***************************************************************************)
(* A call that has ended left no channel open.                             *)
(***************************************************************************)
ChannelInv ==
  /\ pc = "open" => chan = "none"
  /\ NoOpenChannel

THEOREM NoOpenChannelCorrect == Spec => []NoOpenChannel
<1> USE DEF ChannelInv, NoOpenChannel, Ended, Goto
<1>1. Init => ChannelInv
  BY DEF Init
<1>2. ChannelInv /\ [Next]_vars => ChannelInv'
  <2> SUFFICES ASSUME ChannelInv, [Next]_vars PROVE ChannelInv'
    OBVIOUS
  <2>1. CASE OpenChannel \/ OpenFails \/ ExecCommand \/ ExecFails \/ WriteInput \/ WriteFails
    BY <2>1 DEF OpenChannel, OpenFails, ExecCommand, ExecFails, WriteInput, WriteFails
  <2>2. ASSUME NEW s \in Streams, Read(s) \/ Drained(s) \/ Writes(s) PROVE ChannelInv'
    BY <2>2 DEF Read, Drained, LeaveLoop, Writes, callVars, Streams
  <2>3. CASE Break \/ TimesOut \/ NextRound \/ Expire
    BY <2>3 DEF Break, TimesOut, NextRound, Expire, Reading
  <2>4. CASE Exits \/ Killed \/ ServerCloses \/ FallsSilent \/ AnswersAgain \/ Lost
    BY <2>4 DEF Exits, Killed, ServerCloses, FallsSilent, AnswersAgain, Lost, callVars, Delivers
  <2>5. CASE Returned \/ UNCHANGED vars
    BY <2>5 DEF Returned, vars, callVars
  <2> QED
    BY <2>1, <2>2, <2>3, <2>4, <2>5 DEF Next, Caller, Remote, WritesSome
<1>3. ChannelInv => NoOpenChannel
  OBVIOUS
<1> QED
  BY <1>1, <1>2, <1>3, PTL DEF Spec
=============================================================================
