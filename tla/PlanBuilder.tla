---------------------------- MODULE PlanBuilder ----------------------------
(***************************************************************************)
(* build_plan: how the seconds of a test are divided over its stages       *)
(* (_allocate_durations and its two loops) and how the stages' tasks are   *)
(* built (build_task).  A task holds no arguments of its own but a         *)
(* reference to a dictionary of the module, one per subsystem and load     *)
(* pattern, whose timeout_sec or runtime_sec build_task overwrites.        *)
(***************************************************************************)
EXTENDS Integers, Sequences, FiniteSets, Functions

CONSTANTS
  Requested,     \* the sets of subsystems a request may name
  Kinds,         \* the test kinds a request may name
  MaxDuration,   \* BOUND: seconds a request may ask for
  GuardLimit,    \* _ALLOC_GUARD_LIMIT
  OldDurations   \* durations an earlier plan of the process left in the tables

Subsystems == {"IPC", "file", "memory", "network", "syscalls", "system"}
AllKinds   == {"load", "stress", "stability", "scalability", "volume", "spike", "isolated",
               "diagnostic"}
Patterns   == {"soft", "balanced", "intense", "extreme", "spike"}

\* PlanRequest.pattern is None.
NoPattern == "auto"

ASSUME RequestAssumption  == Requested \subseteq SUBSET Subsystems /\ Kinds \subseteq AllKinds
ASSUME DurationAssumption == MaxDuration \in Nat /\ OldDurations \subseteq Nat

\* The guard of _distribute_negative_diff never cuts a loop that could still
\* succeed: every round over at most six stages takes a second off one.
ASSUME GuardAssumption == GuardLimit \in Nat /\ GuardLimit >= 36

Requests == [kind : Kinds, pattern : Patterns \cup {NoPattern}, subs : Requested,
             total : 0 .. MaxDuration]

\* sorted(subsystems, key=value); capitals come first.
Order == [IPC |-> 1, file |-> 2, memory |-> 3, network |-> 4, syscalls |-> 5, system |-> 6]
Sorted(subs) ==
  [k \in 1 .. Cardinality(subs) |->
     CHOOSE s \in subs : Cardinality({t \in subs : Order[t] < Order[s]}) = k - 1]

\* StageTemplate; the weights are the source's, in hundredths.
Template(pattern, weight) == [pattern |-> pattern, weight |-> weight]

ProfileLayout(kind) ==
  CASE kind = "load" ->
         <<Template("soft", 20), Template("balanced", 60), Template("soft", 20)>>
    [] kind = "stress" ->
         <<Template("balanced", 15), Template("extreme", 70), Template("intense", 15)>>
    [] kind = "stability" -> <<Template("balanced", 100)>>
    [] kind = "scalability" ->
         <<Template("soft", 25), Template("balanced", 25), Template("intense", 25),
           Template("extreme", 25)>>
    [] kind = "volume" -> <<Template("balanced", 25), Template("intense", 75)>>
    [] kind = "spike" ->
         <<Template("soft", 45), Template("spike", 10), Template("soft", 45)>>
    [] OTHER -> <<Template("soft", 100)>>

VARIABLES
  pc,         \* which part of build_plan runs
  request,    \* the PlanRequest
  base,       \* the durations under construction
  remaining,  \* seconds still to give out (or, negative, to take back)
  idx,        \* rounds of the running loop; it equals guard in the negative one
  stages,     \* the stages built so far
  shared      \* timeout_sec / runtime_sec in _STRESS_ARGS and _FIO_ARGS

vars == <<pc, request, base, remaining, idx, stages, shared>>

\* The stages to be built: what build_plan zips the durations with.
Templates ==
  IF request.kind = "isolated"
  THEN LET pattern == IF request.pattern = NoPattern THEN "balanced" ELSE request.pattern
       IN  [i \in DOMAIN Sorted(request.subs) |-> Template(pattern, 1)]
  ELSE IF request.pattern # NoPattern THEN <<Template(request.pattern, 1)>>
  ELSE ProfileLayout(request.kind)

N      == Len(Templates)
Sum(f) == FoldFunction(+, 0, f)
AtLeastOne(n) == IF n >= 1 THEN n ELSE 1

\* raw[i] = total * weight / sum of weights, as its integer part and the
\* numerator of its fraction.
Scaled(i)   == request.total * Templates[i].weight
WeightSum   == Sum([i \in 1 .. N |-> Templates[i].weight])
Whole(i)    == Scaled(i) \div WeightSum
Fraction(i) == Scaled(i) % WeightSum

\* Python's sort is stable, also with reverse=True: ties keep their order.
Nth(k, key) ==
  CHOOSE i \in 1 .. N :
    Cardinality({j \in 1 .. N : key[j] < key[i] \/ (key[j] = key[i] /\ j < i)}) = k % N

LargestFraction(k)  == Nth(k, [i \in 1 .. N |-> -Fraction(i)])
SmallestFraction(k) == Nth(k, [i \in 1 .. N |-> Fraction(i)])

Init ==
  /\ pc = "request"
  /\ request \in Requests
  /\ base = <<>> /\ remaining = 0 /\ idx = 0 /\ stages = <<>>
  /\ \E d \in OldDurations : shared = [slot \in Subsystems \X Patterns |-> d]

Valid == request.total > 0 /\ request.subs # {}

\* ValueError: no time, or no subsystem.
Refuse ==
  /\ pc = "request" /\ ~Valid
  /\ pc' = "refused"
  /\ UNCHANGED <<request, base, remaining, idx, stages, shared>>

\* A pattern was named: one stage takes all the time.
OneStage ==
  /\ pc = "request" /\ Valid
  /\ request.kind # "isolated" /\ request.pattern # NoPattern
  /\ base' = <<request.total>>
  /\ pc' = "stages"
  /\ UNCHANGED <<request, remaining, idx, stages, shared>>

\* base = [max(1, int(seconds)) for seconds in raw]; diff = total_sec - sum(base)
Allocate ==
  /\ pc = "request" /\ Valid
  /\ request.kind = "isolated" \/ request.pattern = NoPattern
  /\ base' = [i \in 1 .. N |-> AtLeastOne(Whole(i))]
  /\ remaining' = request.total - Sum(base')
  /\ pc' = IF remaining' > 0 THEN "give" ELSE IF remaining' < 0 THEN "take" ELSE "fix"
  /\ UNCHANGED <<request, idx, stages, shared>>

\* One round of _distribute_positive_diff.
GiveTo(i) ==
  /\ pc = "give" /\ remaining > 0
  /\ base' = [base EXCEPT ![i] = @ + 1]
  /\ remaining' = remaining - 1 /\ idx' = idx + 1
  /\ UNCHANGED <<pc, request, stages, shared>>

\* MUTANT: every second goes to the first stage in order.
GiveToFirst == GiveTo(LargestFraction(0))

GiveSecond == GiveTo(LargestFraction(idx))

GiveDone ==
  /\ pc = "give" /\ remaining <= 0
  /\ pc' = "fix"
  /\ UNCHANGED <<request, base, remaining, idx, stages, shared>>

\* One round of _distribute_negative_diff: a stage of one second is passed over.
TakeFrom(i, least) ==
  /\ pc = "take" /\ remaining < 0 /\ idx < GuardLimit
  /\ \/ base[i] > least /\ base' = [base EXCEPT ![i] = @ - 1] /\ remaining' = remaining + 1
     \/ base[i] <= least /\ UNCHANGED <<base, remaining>>
  /\ idx' = idx + 1
  /\ UNCHANGED <<pc, request, stages, shared>>

\* MUTANTS: the last second of a stage may be taken; a stage that is passed
\* over is tried again for ever (idx and guard are not advanced).
TakeLastSecond == TakeFrom(SmallestFraction(idx), 0)
TakeStuck ==
  /\ pc = "take" /\ remaining < 0
  /\ LET i == SmallestFraction(idx)
     IN  \/ base[i] > 1 /\ base' = [base EXCEPT ![i] = @ - 1] /\ remaining' = remaining + 1
            /\ idx' = idx + 1
         \/ base[i] <= 1 /\ UNCHANGED <<base, remaining, idx>>
  /\ UNCHANGED <<pc, request, stages, shared>>

TakeSecond == TakeFrom(SmallestFraction(idx), 1)

\* What the guard left over comes off the last stage.
TakeDone ==
  /\ pc = "take" /\ (remaining >= 0 \/ idx >= GuardLimit)
  /\ base' = IF remaining < 0 THEN [base EXCEPT ![N] = AtLeastOne(@ + remaining)] ELSE base
  /\ pc' = "fix"
  /\ UNCHANGED <<request, remaining, idx, stages, shared>>

\* if sum(base) != total_sec: the last stage takes the difference.
FixTo(last) ==
  /\ pc = "fix"
  /\ base' = [base EXCEPT ![N] = last]
  /\ pc' = "stages"
  /\ UNCHANGED <<request, remaining, idx, stages, shared>>

LastFixed == base[N] + request.total - Sum(base)

\* MUTANT: the last stage is not kept above zero.
FixUnclamped == FixTo(LastFixed)

FixLast == FixTo(AtLeastOne(LastFixed))

\* The subsystems that have a task in stage k.
TasksOf(k) == IF request.kind = "isolated" THEN {Sorted(request.subs)[k]} ELSE request.subs

\* A diagnostic stage runs systemd-analyze, whose tasks have no duration.
BuildTasks(k) ==
  LET slots == TasksOf(k) \X {Templates[k].pattern}
  IN  shared' = IF request.kind = "diagnostic" THEN shared
                ELSE [slot \in DOMAIN shared |-> IF slot \in slots THEN base[k] ELSE shared[slot]]

\* One round of the loop that builds the stages.
StageAt(offset) ==
  /\ pc = "stages" /\ Len(stages) < N
  /\ LET k == Len(stages) + 1
     IN  /\ BuildTasks(k)
         /\ stages' = Append(stages, [offset |-> offset, duration |-> base[k]])
  /\ UNCHANGED <<pc, request, base, remaining, idx>>

\* The running sum of the durations.
Offset ==
  LET n == Len(stages) IN IF n = 0 THEN 0 ELSE stages[n].offset + stages[n].duration

\* MUTANT: a stage starts when the one before it starts and lasts one second.
StageTooEarly == StageAt(Len(stages))

AddStage == StageAt(Offset)

Finish ==
  /\ pc = "stages" /\ Len(stages) = N
  /\ pc' = "done"
  /\ UNCHANGED <<request, base, remaining, idx, stages, shared>>

\* build_plan has returned or raised.
Returned == pc \in {"done", "refused"} /\ UNCHANGED vars

Next ==
  \/ Refuse \/ OneStage \/ Allocate
  \/ GiveSecond \/ GiveDone \/ TakeSecond \/ TakeDone \/ FixLast
  \/ AddStage \/ Finish \/ Returned

Spec     == Init /\ [][Next]_vars
FairSpec == Spec /\ WF_vars(Next)

(***************************************************************************)
(* Properties.                                                             *)
(***************************************************************************)
TypeOK ==
  /\ pc \in {"request", "give", "take", "fix", "stages", "done", "refused"}
  /\ request \in Requests
  /\ base \in Seq(Int) /\ Len(base) \in {0, N}
  /\ remaining \in Int /\ idx \in Nat
  /\ stages \in Seq([offset : Nat, duration : Int]) /\ Len(stages) <= N
  /\ shared \in [Subsystems \X Patterns -> Nat]

\* No stage is ever given less than a second, not even on the way, where the
\* loops give seconds out and take them back.
NoEmptyStage == \A i \in DOMAIN base : base[i] >= 1

\* The docstring of _allocate_durations (plan_builder.py:175-177) says that the
\* sum of what it returns equals total_sec.  It does not when there are fewer
\* seconds than stages: the code then keeps a second for each (FillsTheTime).
SumIsTotal == pc = "done" => Sum(base) = request.total

\* A plan with a second for every stage fills exactly the requested time, its
\* stages following one another without gap or overlap; a shorter request gets
\* one second per stage, more than the docstring of _allocate_durations allows
\* (SumIsTotal); and no stage is ever left empty.
FillsTheTime ==
  /\ NoEmptyStage
  /\ pc = "done" =>
       /\ \A k \in 1 .. N :
            stages[k].offset = Sum([i \in 1 .. k - 1 |-> stages[i].duration])
       /\ Sum(base) = IF request.total >= N THEN request.total ELSE N

\* When the weights give every stage at least a second, no stage differs by a
\* second or more from its exact share (the largest remainder method); and
\* although stages of one pattern share their tasks' arguments, no task of a
\* finished plan runs for longer or shorter than its stage by more than a second.
NearItsShare ==
  /\ pc \in {"stages", "done"} /\ (\A i \in 1 .. N : Whole(i) >= 1) =>
       \A i \in 1 .. N : /\ base[i] * WeightSum < Scaled(i) + WeightSum
                         /\ base[i] * WeightSum > Scaled(i) - WeightSum
  /\ pc = "done" /\ request.kind # "diagnostic" =>
       \A k \in 1 .. N : \A s \in TasksOf(k) :
         shared[<<s, Templates[k].pattern>>] - stages[k].duration \in -1 .. 1

\* The loops end: every request is answered.
Answers == <>(pc \in {"done", "refused"})

\* The docstring of build_task: stage_duration_sec is "the duration of the task".
TaskLastsItsStage ==
  pc = "done" /\ request.kind # "diagnostic" =>
    \A k \in 1 .. N : \A s \in TasksOf(k) :
      shared[<<s, Templates[k].pattern>>] = stages[k].duration
=============================================================================
