-------------------------- MODULE DistroComparison --------------------------
(***************************************************************************)
(* The comparison of two distributions: experiments and rows of the        *)
(* database are exported to a workbook, on a sheet for the rows of each    *)
(* test and set of columns; its experiments are paired, one of Poky with   *)
(* one of SUSE; the numbers of the rows are collected for each pair, sheet *)
(* name and metric; and each metric of a pair becomes a PASS or a FAIL,    *)
(* and so does its test.                                                   *)
(***************************************************************************)
EXTENDS Integers, FiniteSets, SequencesExt

CONSTANTS
  Ids,        \* ids of experiments, numbers
  NotAnId,    \* what is given for an id and is none
  Requests,   \* what is exported and compared:
              \*   experiments  [os, key, started] by id
              \*   records      rows: [experiment, test, samples], samples being [metric, value]
              \*   configured   distributions and the configuration ids given for them
              \*   asked        the ids of the experiments to compare
  Columns,    \* metrics: what their names and their tests' names say
  Titles,     \* what the sheets of a test are called:
              \*   name    its name as a sheet is given it, maybe too long for one
              \*   base    what is left of it in the title of a sheet
              \*   length  the characters of that
              \*   number  how many of them are an underscore and digits at its end
  Epsilon     \* percents a metric may be worse by

\* What the test of a column may be; what iperf3, fio and perf call their metrics; and what the
\* words of the column, of its sheet and of its test may mean.
Tools == {"iperf3", "fio", "perf", "stress_ng", "systemd", "plain"}
Names == {"quality", "cpu_host", "volume", "latency", ""}
Words == {"loss", "throughput", "time", "resource", "percent"}

\* Excel's longest title of a sheet.
MaxTitle == 31

Poky == "poky"
Suse == "suse"

ASSUME ComparisonAssumption ==
  /\ Ids \subseteq Nat /\ NotAnId \notin Ids /\ Epsilon \in Nat /\ IsFiniteSet(DOMAIN Columns)
  /\ \A m \in DOMAIN Columns :
       /\ Columns[m].tool \in Tools /\ Columns[m].name \in Names
       /\ Columns[m].words \subseteq Words /\ Columns[m].garbage \in BOOLEAN
       /\ Columns[m].test \in DOMAIN Titles
  /\ \A t \in DOMAIN Titles :
       /\ Titles[t].length \in 1 .. MaxTitle /\ Titles[t].number \in 0 .. Titles[t].length
       /\ \A u \in DOMAIN Titles : Titles[t].base = Titles[u].base =>
            Titles[t].length = Titles[u].length /\ Titles[t].number = Titles[u].number

\* Only the two distributions can be configured; what is asked for is a list of ids; and a row
\* has metrics of its own test.
RecordType == [experiment : Ids, test : DOMAIN Titles,
           samples : Seq([metric : DOMAIN Columns, value : Int])]
ASSUME RequestAssumption ==
  \A r \in Requests :
    /\ DOMAIN r.experiments \subseteq Ids /\ IsFiniteSet(DOMAIN r.experiments)
    /\ \A e \in DOMAIN r.experiments :
         r.experiments[e].key \in Int /\ r.experiments[e].started \in Int
    /\ r.records \in Seq(RecordType)
    /\ \A i \in DOMAIN r.records : \A j \in DOMAIN r.records[i].samples :
         Columns[r.records[i].samples[j].metric].test = r.records[i].test
    /\ r.configured \in Seq({Poky, Suse} \X Ids)
    /\ r.asked \subseteq Ids \cup {NotAnId} /\ IsFiniteSet(r.asked)

VARIABLES
  pc,
  request,
  experiments,  \* experiment_info: [distro, key, started] by id
  sheet,        \* rows still to be read: [experiment, source, cells], cells by column
  groups,       \* pairs of ids, in order
  values,       \* sum and number of what is collected, by pair, distribution, source, metric
  rows          \* statuses of the metrics

vars == <<pc, request, experiments, sheet, groups, values, rows>>

Distros == {Poky, Suse}
Sentinel == -1
Nothing == [sum |-> 0, n |-> 0]

Init ==
  /\ pc = "database" /\ request \in Requests
  /\ experiments = << >> /\ sheet = << >> /\ groups = << >> /\ values = << >> /\ rows = {}

(***************************************************************************)
(* The workbook                                                            *)
(***************************************************************************)
\* build_distribution_records: a dictionary in the order its distributions were first given.
\* Of two ids for one distribution the last counts, and of two distributions with one id the
\* last of the sheet is what the id stands for.
Given(distro) == {i \in DOMAIN request.configured : request.configured[i][1] = distro}
Distributions == {request.configured[i][1] : i \in DOMAIN request.configured}
IdOf(distro)  == request.configured[Max(Given(distro))][2]
DistroOf(id)  ==
  CHOOSE d \in {d \in Distributions : IdOf(d) = id} :
    \A c \in Distributions : IdOf(c) = id => Min(Given(c)) <= Min(Given(d))

\* An experiment on another system has no configuration, and is not compared.
Exported ==
  [e \in {e \in DOMAIN request.experiments : request.experiments[e].os \in Distributions} |->
     [distro |-> DistroOf(IdOf(request.experiments[e].os)),
      key |-> request.experiments[e].key, started |-> request.experiments[e].started]]

With(row, cell, value) == [c \in DOMAIN row \cup {cell} |-> IF c = cell THEN value ELSE row[c]]

\* add_flat_cell: a metric recorded again takes the next number, unless it has the value of
\* the first.
NextKey(row, metric) == <<metric, CHOOSE k \in 2 .. Cardinality(DOMAIN row) + 2 :
                            /\ <<metric, k>> \notin DOMAIN row
                            /\ \A j \in 2 .. k - 1 : <<metric, j>> \in DOMAIN row>>
\* MUTANT of FlatCell: a value recorded before, under any number, is left out.
FlatIfNew(row, sample) ==
  IF \E c \in DOMAIN row : c[1] = sample.metric /\ row[c] = sample.value THEN row
  ELSE With(row, IF <<sample.metric, 1>> \in DOMAIN row THEN NextKey(row, sample.metric)
                 ELSE <<sample.metric, 1>>, sample.value)
FlatCell(row, sample) ==
  LET key == <<sample.metric, 1>>
  IN  IF key \notin DOMAIN row THEN With(row, key, sample.value)
      ELSE IF row[key] = sample.value THEN row
      ELSE With(row, NextKey(row, sample.metric), sample.value)

Flattened(record) == FoldLeft(FlatCell, << >>, record.samples)

\* flatten_util_run_results: a sheet has the rows of one name with the same headers in the same
\* order.  The headers in order are given by the sets of the first of them.
Headers(record) ==
  {DOMAIN FoldLeft(FlatCell, << >>, SubSeq(record.samples, 1, n)) : n \in 0 .. Len(record.samples)}
Title(r)   == Titles[request.records[r].test]
SheetOf(r) == <<Title(r).name, Headers(request.records[r])>>

\* unique_sheet_names: of the sheets with one base the first is called by it, and the others get
\* the numbers from 1, for which the base is cut if it has to be.
\* Assumed: titles of different bases differ, cut and numbered too; a million rows are not too
\* many for a sheet.
FirstRow(r) == Min({q \in 1 .. r : SheetOf(q) = SheetOf(r)})
Suffix(r)   == Cardinality({SheetOf(q) : q \in {q \in 1 .. FirstRow(r) - 1 : Title(q).base = Title(r).base}})

\* BOUND: fewer than a thousand sheets have one base.
Digits(n) == IF n < 10 THEN 1 ELSE IF n < 100 THEN 2 ELSE 3

\* strip_excel_suffix: without the number at its end a title is what was left of the base,
\* or, if none was added, the base without a number of its own.
Stripped(title, n) ==
  IF n = 0 THEN title.length - title.number
  ELSE IF title.length < MaxTitle - 1 - Digits(n) THEN title.length ELSE MaxTitle - 1 - Digits(n)

\* The source of a row: the name of its sheet, as so many characters of the base.
SourceOf(r) == <<Title(r).base, Stripped(Title(r), Suffix(r))>>
Sources == {SourceOf(r) : r \in DOMAIN request.records}

\* The rows stay in the order of the table here: that of the sheets makes no difference to sums.
Export ==
  /\ pc = "database" /\ pc' = "workbook"
  /\ experiments' = Exported
  /\ sheet' = [i \in DOMAIN request.records |->
                 [experiment |-> request.records[i].experiment, source |-> SourceOf(i),
                  cells |-> Flattened(request.records[i])]]
  /\ UNCHANGED <<request, groups, values, rows>>

(***************************************************************************)
(* Pairs                                                                   *)
(***************************************************************************)
SelectedIds == request.asked \ {NotAnId}
InDistro(ids, d) == {e \in ids \cap DOMAIN experiments : experiments[e].distro = d}

\* By the time it started, then by id.
Before(d, e) ==
  LET a == experiments[d].started
      b == experiments[e].started
  IN  a < b \/ (a = b /\ d < e)
\* MUTANT of InOrder: the time is not looked at.
ById(ids) == SetToSortSeq(ids, <)
InOrder(ids) ==
  [i \in 1 .. Cardinality(ids) |-> CHOOSE e \in ids : Cardinality({d \in ids : Before(d, e)}) = i - 1]

\* Exactly two ids: they are the pair, whatever they ran.
ExplicitPair(ids) ==
  IF ids \subseteq DOMAIN experiments /\ \A d \in Distros : InDistro(ids, d) # {}
  THEN << <<CHOOSE e \in InDistro(ids, Poky) : TRUE, CHOOSE e \in InDistro(ids, Suse) : TRUE>> >>
  ELSE << >>

\* The experiments of one key: the first with the first, and those beyond the shorter list
\* are left out.
PairsOf(key, ids) ==
  LET of(d) == InOrder({e \in InDistro(ids, d) : experiments[e].key = key})
      p == of(Poky)
      s == of(Suse)
  IN  [i \in 1 .. (IF Len(p) < Len(s) THEN Len(p) ELSE Len(s)) |-> <<p[i], s[i]>>]

Keys == {experiments[e].key : e \in DOMAIN experiments}
KeysInOrder ==
  [i \in 1 .. Cardinality(Keys) |-> CHOOSE k \in Keys : Cardinality({j \in Keys : j < k}) = i - 1]
ComparisonGroups ==
  LET ids == SelectedIds
  IN  IF ids = {} THEN << >>
      ELSE IF Cardinality(ids) = 2 THEN ExplicitPair(ids)
      ELSE FlattenSeq([i \in 1 .. Cardinality(Keys) |-> PairsOf(KeysInOrder[i], ids)])

\* Without ids the export is refused.
Group ==
  /\ pc = "workbook"
  /\ IF request.asked = {} THEN pc' = "refused" /\ UNCHANGED groups
     ELSE pc' = "grouped" /\ groups' = ComparisonGroups
  /\ UNCHANGED <<request, experiments, sheet, values, rows>>

(***************************************************************************)
(* Metrics: whether higher or lower is better is inferred from the words   *)
(* of the column, of the sheet and of the test.                            *)
(***************************************************************************)
Lower == "lower"
Higher == "higher"
Unknown == "not_comparable"

\* What iperf3, fio and perf call their metrics comes first.
ContextDirection(c) ==
  CASE c.tool = "iperf3" /\ c.name \in {"quality", "cpu_host"} -> Lower
    [] c.tool = "iperf3" /\ c.name = "volume" -> Higher
    [] c.tool = "fio"  /\ c.name = "latency" -> Lower
    [] c.tool = "fio"  /\ c.name = "volume"  -> Higher
    [] c.tool = "perf" /\ c.name = "latency" -> Lower
    [] c.tool = "perf" /\ c.name = "volume"  -> Higher
    [] OTHER -> Unknown

\* Then any word of the three names, in this order of its meanings.
ExplicitDirection(c) ==
  CASE "loss" \in c.words -> Lower
    [] "throughput" \in c.words -> Higher
    [] c.words \cap {"time", "resource"} # {} -> Lower
    [] OTHER -> Unknown

\* Then the kind of the test.
GenericDirection(c) ==
  CASE c.tool \in {"iperf3", "stress_ng"} -> Higher
    [] c.tool = "systemd" -> Lower
    [] OTHER -> Unknown

Direction(c) ==
  IF ContextDirection(c) # Unknown THEN ContextDirection(c)
  ELSE IF ExplicitDirection(c) # Unknown THEN ExplicitDirection(c)
  ELSE GenericDirection(c)

\* A column that was numbered is no target of its own, but another sample of its metric.
IsTarget(c) == c[2] = 1 /\ ~ Columns[c[1]].garbage /\ Direction(Columns[c[1]]) # Unknown
BucketName(c) == IF c[2] > 1 /\ IsTarget(<<c[1], 1>>) THEN <<c[1], 1>> ELSE c
Metrics == {m \in DOMAIN Columns : IsTarget(<<m, 1>>)}

(***************************************************************************)
(* Values: the sheets are read row by row.                                 *)
(***************************************************************************)
GroupOf(e) == {i \in DOMAIN groups : e \in {groups[i][1], groups[i][2]}}

Read ==
  /\ pc = "grouped"
  /\ pc' = IF groups = << >> THEN "written" ELSE "rows"
  /\ values' = [k \in (DOMAIN groups) \X Distros \X Sources \X Metrics |-> Nothing]
  /\ UNCHANGED <<request, experiments, sheet, groups, rows>>

Place(i, e) == IF groups[i][1] = e THEN Poky ELSE Suse

\* The numbers of a row that are samples of metric m, the sentinel left out.
Samples(row, m) ==
  {c \in DOMAIN row.cells : BucketName(c) = <<m, 1>> /\ row.cells[c] # Sentinel}
AddSamples(v, row, m) ==
  [sum |-> v.sum + SumFunctionOnSet(row.cells, Samples(row, m)),
   n |-> v.n + Cardinality(Samples(row, m))]

\* The next row; one of an experiment that is in no pair is left out.  Samples of one metric
\* meet only if the sheets they are on have the same source.
CollectRow ==
  /\ pc = "rows" /\ sheet # << >> /\ sheet' = Tail(sheet)
  /\ LET row == Head(sheet)
     IN  values' = [k \in DOMAIN values |->
                      IF /\ k[1] \in GroupOf(row.experiment) /\ k[2] = Place(k[1], row.experiment)
                         /\ k[3] = row.source
                      THEN AddSamples(values[k], row, k[4]) ELSE values[k]]
  /\ UNCHANGED <<pc, request, experiments, groups, rows>>

(***************************************************************************)
(* Statuses.  A difference in percent is a fraction <<numerator,           *)
(* denominator>>, and None where the baseline is zero and the value is not.*)
(***************************************************************************)
None == << >>
Abs(n) == IF n < 0 THEN -n ELSE n
\* MUTANT of PercentDelta: the sign of the baseline is kept.
SignedDelta(v, b) ==
  IF b.sum = 0 THEN IF v.sum = 0 THEN <<0, 1>> ELSE None
  ELSE <<(IF b.sum < 0 THEN -100 ELSE 100) * (v.sum * b.n - b.sum * v.n), Abs(b.sum) * v.n>>
PercentDelta(v, b) ==
  IF b.sum = 0 THEN IF v.sum = 0 THEN <<0, 1>> ELSE None
  ELSE <<100 * (v.sum * b.n - b.sum * v.n), Abs(b.sum) * v.n>>

DirectionalDelta(delta, better) ==
  IF delta # None /\ better = Lower THEN <<-delta[1], delta[2]>> ELSE delta

Small(delta) == Abs(delta[1]) <= Epsilon * delta[2]

\* performance_change_for_values
Change(b, v, better) ==
  LET delta == DirectionalDelta(PercentDelta(v, b), better)
  IN  IF delta = None THEN IF (better = Lower) = (v.sum > 0) THEN "degraded" ELSE "improved"
      ELSE IF Small(delta) THEN "unchanged"
      ELSE IF delta[1] > 0 THEN "improved" ELSE "degraded"

\* raw_value_change_for
RawChange(b, v) ==
  LET delta == PercentDelta(v, b)
  IN  IF delta = None THEN IF v.sum > 0 THEN "increased" ELSE "decreased"
      ELSE IF Small(delta) THEN "unchanged"
      ELSE IF delta[1] > 0 THEN "increased" ELSE "decreased"

StatusFor(change) == IF change = "degraded" THEN "FAIL" ELSE "PASS"

\* A metric of a source that has values of both of a pair: SUSE is the baseline.
MetricRow(i, s, m) ==
  LET b == values[<<i, Suse, s, m>>]
      v == values[<<i, Poky, s, m>>]
      better == Direction(Columns[m])
  IN  [group |-> i, source |-> s, metric |-> m, better |-> better, baseline |-> b, compared |-> v,
       change |-> Change(b, v, better), raw |-> RawChange(b, v),
       status |-> StatusFor(Change(b, v, better))]
HasBoth(i, s, m) == values[<<i, Suse, s, m>>].n > 0 /\ values[<<i, Poky, s, m>>].n > 0
Compared == {k \in (DOMAIN groups) \X Sources \X Metrics : HasBoth(k[1], k[2], k[3])}

WriteStatuses ==
  /\ pc = "rows" /\ sheet = << >> /\ pc' = "written"
  /\ rows' = {MetricRow(k[1], k[2], k[3]) : k \in Compared}
  /\ UNCHANGED <<request, experiments, sheet, groups, values>>

\* build_test_status_rows
TestOf(r) == <<r.group, r.source, Columns[r.metric].test>>
TestRow(t) ==
  LET of == {r \in rows : TestOf(r) = t}
      failed == {r \in of : r.status = "FAIL"}
  IN  [status |-> IF failed # {} THEN "FAIL" ELSE "PASS", total |-> Cardinality(of),
       passed |-> Cardinality({r \in of : r.status = "PASS"}), failed |-> Cardinality(failed)]

Written == pc \in {"refused", "written"} /\ UNCHANGED vars

Next == Export \/ Group \/ Read \/ CollectRow \/ WriteStatuses \/ Written

Spec == Init /\ [][Next]_vars

(***************************************************************************)
(* Properties                                                              *)
(***************************************************************************)
\* The pairs are those a reader would make.  No experiment is in two.  Each has one that ran on
\* Poky on its first side and one that ran on SUSE on its second, whatever configuration ids
\* were given, both asked for and, unless exactly two were asked for, of one key.  Of each key
\* as many pairs are made as there can be, and they are made in order: what is left out
\* started last, and no pair crosses another.
PairedFairly ==
  pc = "grouped" =>
    LET used(i) == {groups[i][1], groups[i][2]}
        explicit == Cardinality(SelectedIds) = 2
        all(d, k) == {e \in InDistro(SelectedIds, d) : experiments[e].key = k}
        made(k) == {i \in DOMAIN groups : experiments[groups[i][1]].key = k}
        taken(side, k) == {groups[i][side] : i \in made(k)}
    IN  /\ \A i, j \in DOMAIN groups : i # j => used(i) \cap used(j) = {}
        /\ \A i \in DOMAIN groups :
             /\ used(i) \subseteq SelectedIds
             /\ request.experiments[groups[i][1]].os = Poky
             /\ request.experiments[groups[i][2]].os = Suse
             /\ explicit \/ experiments[groups[i][1]].key = experiments[groups[i][2]].key
        /\ ~ explicit =>
             \A k \in Keys :
               /\ taken(1, k) = all(Poky, k) \/ taken(2, k) = all(Suse, k)
               /\ \A e \in taken(1, k), d \in all(Poky, k) \ taken(1, k) : Before(e, d)
               /\ \A e \in taken(2, k), d \in all(Suse, k) \ taken(2, k) : Before(e, d)
               /\ \A i, j \in made(k) :
                    Before(groups[i][1], groups[j][1]) = Before(groups[i][2], groups[j][2])

\* Between the database and the means only repetitions are lost.  What is collected for a pair,
\* a source and a metric are all samples that the rows of that source hold of it, but those
\* that equal the first of their row, and the sentinels.  And the rows of a test have one
\* source, so that its metrics are compared whole, unless the title of its sheets is so long
\* that a number cuts it, or ends in a number.
Kept(record, m) ==
  LET value(i) == record.samples[i].value
      of == {i \in DOMAIN record.samples : record.samples[i].metric = m}
  IN  {i \in of : (i = Min(of) \/ value(i) # value(Min(of))) /\ value(i) # Sentinel}
OnlyRepeatsLost ==
  pc = "written" =>
    /\ \A i \in DOMAIN groups, d \in Distros, s \in Sources, m \in Metrics :
         LET e == groups[i][IF d = Poky THEN 1 ELSE 2]
             of == {r \in DOMAIN request.records : request.records[r].experiment = e /\ SourceOf(r) = s}
         IN  values[<<i, d, s, m>>].n =
               SumFunctionOnSet([r \in of |-> Cardinality(Kept(request.records[r], m))], of)
    /\ \A q, r \in DOMAIN request.records :
         /\ request.records[q].test = request.records[r].test
         /\ Title(r).number = 0 /\ Title(r).length <= MaxTitle - 4
         => SourceOf(q) = SourceOf(r)

\* The statuses agree with each other.  The passed and the failed metrics of a test are all of
\* its metrics, and it fails exactly when one of them does; a change for the better is the raw
\* change in the direction that is better; and of two pairs with the same baseline, the
\* one whose mean is no worse does not fail where the other passes.
NoWorse(r, s) ==
  LET d == r.compared.sum * s.compared.n - s.compared.sum * r.compared.n
  IN  IF r.better = Lower THEN d <= 0 ELSE d >= 0
SameBaseline(r, s) == r.baseline.sum * s.baseline.n = s.baseline.sum * r.baseline.n

StatusesAgree ==
  /\ \A t \in {TestOf(r) : r \in rows} :
       LET test == TestRow(t)
       IN  /\ test.total = test.passed + test.failed
           /\ (test.status = "FAIL") = (\E r \in rows : TestOf(r) = t /\ r.status = "FAIL")
  /\ \A r \in rows :
       /\ (r.change = "unchanged") = (r.raw = "unchanged")
       /\ (r.change = "improved") = (r.raw = IF r.better = Lower THEN "decreased" ELSE "increased")
  /\ \A r, s \in rows :
       r.metric = s.metric /\ SameBaseline(r, s) /\ NoWorse(r, s) /\ s.status = "PASS"
         => r.status = "PASS"
=============================================================================
