----------------------------- MODULE SuiteConfig -----------------------------
(***************************************************************************)
(* TestsRunnerConfig and the part of run_tests and _run_single that turns  *)
(* a configuration into the tests to run.  The suites are singletons of    *)
(* the worker process: what one task writes into them the next one finds.  *)
(***************************************************************************)
EXTENDS Naturals, FiniteSets, Sequences, SequencesExt

CONSTANTS
  Catalog,        \* ALL_SUITES: the tests of each suite
  AllSubsystems,  \* the tests of ALL_SUBSYSTEMS_SUITE
  ManyTimes,      \* the tests that run a number of times, not for a time
  DefaultTotal    \* total_duration of every suite at import

ASSUME CatalogAssumption ==
  /\ \A s \in DOMAIN Catalog : IsFiniteSet(Catalog[s]) /\ Catalog[s] # {}
  /\ IsFiniteSet(AllSubsystems) /\ DefaultTotal \in Nat

SystemTests == 2

TimeLimited(tests) == Cardinality(tests \ ManyTimes)

\* The total_duration setter: it refuses less than a second for a test.
Fits(tests, value) == TimeLimited(tests) <= value
Timed(tests, value) ==
  [tests |-> tests, total |-> IF TimeLimited(tests) = 0 THEN 0 ELSE value]

AtImport == [s \in DOMAIN Catalog |-> Timed(Catalog[s], DefaultTotal)]

(* A configuration: suites is a list of names, durations and selected are *)
(* dictionaries by name.                                                  *)
DefaultConfig(suites) == [suites |-> suites, durations |-> <<>>, selected |-> <<>>]

\* The selected tests of a suite that it has: all it has when none matches.
Selected(config, name, tests) ==
  LET kept == IF name \in DOMAIN config.selected THEN tests \cap config.selected[name] ELSE {}
  IN  IF kept = {} THEN tests ELSE kept

\* MUTANT of Configure: the duration is set past the setter that checks it.
ConfigureUnchecked(acc, name, config) ==
  IF ~ acc.ok \/ name \notin DOMAIN Catalog THEN acc
  ELSE LET old   == acc.suites[name]
           value == IF name \in DOMAIN config.durations THEN config.durations[name] ELSE old.total
       IN  [acc EXCEPT !.suites[name] = Timed(Selected(config, name, old.tests), value),
                       !.run = Append(@, name)]

\* One round of the loop over config["suites"]: the duration is overridden before
\* the tests are filtered, and an override that is refused ends the task.
Configure(acc, name, config) ==
  LET old      == acc.suites[name]
      override == name \in DOMAIN config.durations /\ config.durations[name] # old.total
      value    == IF override THEN config.durations[name] ELSE old.total
      kept     == Selected(config, name, old.tests)
  IN  IF ~ acc.ok \/ name \notin DOMAIN Catalog THEN acc
      ELSE IF override /\ ~ Fits(old.tests, value) THEN [acc EXCEPT !.ok = FALSE]
      ELSE [acc EXCEPT !.suites[name] = Timed(kept, Timed(old.tests, value).total),
                       !.run = Append(@, name)]

Configured(suites, config) ==
  FoldLeft(LAMBDA acc, name : Configure(acc, name, config),
           [ok |-> TRUE, suites |-> suites, run |-> <<>>], config.suites)

\* MUTANT of TestsToRun: the suites run as they were imported.
TestsOfCatalog(configured) ==
  IF configured.run = <<>> THEN <<AllSubsystems>>
  ELSE [i \in DOMAIN configured.run |-> Catalog[configured.run[i]]]

\* The tests of each suite that runs, in order; ALL_SUBSYSTEMS_SUITE when none is left.
TestsToRun(configured) ==
  IF configured.run = <<>> THEN <<AllSubsystems>>
  ELSE [i \in DOMAIN configured.run |-> configured.suites[configured.run[i]].tests]

\* __calc_total_tests_amount_default; it raises KeyError for a name it does not know.
Countable(config) ==
  \A i \in DOMAIN config.suites :
     config.suites[i] \in DOMAIN config.selected \cup DOMAIN Catalog
CountOf(suites, config, name) ==
  SystemTests + (IF name \in DOMAIN config.selected THEN Cardinality(config.selected[name])
                 ELSE Cardinality(suites[name].tests))
Announced(suites, config) ==
  IF config.suites = <<>> THEN Cardinality(AllSubsystems) + SystemTests
  ELSE SumFunction([i \in DOMAIN config.suites |-> CountOf(suites, config, config.suites[i])])

NumberOf(tests) == SumFunction([i \in DOMAIN tests |-> Cardinality(tests[i]) + SystemTests])
=============================================================================
