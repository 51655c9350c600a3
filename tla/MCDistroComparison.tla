------------------------- MODULE MCDistroComparison -------------------------
\* Databases without rows, for the pairs: four experiments of one test run, the fourth maybe of
\* another or on another system, or missing, and any ids asked for; few of them with ids of
\* configurations that are missing or the same.  And rows of two pairs, for the statuses: two
\* metrics of one test, one of them recorded up to three times, and an identifier.  And rows of
\* two stages, whose names differ in what does not fit into the title of a sheet, and of a test
\* with a number at the end of its name.
EXTENDS DistroComparison

MCIds == 1 .. 4
Request(xs, records, configured, asked) ==
  [experiments |-> xs, records |-> records, configured |-> configured, asked |-> asked]
Experiment(oses, keys) == [os : oses, key : keys, started : 1 .. 2]
FourthMissing == [1 .. 3 -> Experiment(Distros, {1})]
Recorded ==
  FourthMissing \cup
  {[e \in MCIds |-> IF e = 4 THEN fourth ELSE three[e]] :
     three \in FourthMissing, fourth \in Experiment(Distros \cup {"other"}, {1, 2})}
BothGiven == <<<<Poky, 1>>, <<Suse, 2>>>>

MCTitles ==
  [t1 |-> [name |-> "short", base |-> "short", length |-> 5, number |-> 0],
   memory |-> [name |-> "isolated_memory", base |-> "isolated_", length |-> 31, number |-> 0],
   network |-> [name |-> "isolated_network", base |-> "isolated_", length |-> 31, number |-> 0],
   case_2 |-> [name |-> "case_2", base |-> "case_2", length |-> 6, number |-> 2]]

ColumnOf(test, tool, name, words, garbage) ==
  [tool |-> tool, name |-> name, words |-> words, garbage |-> garbage, test |-> test]
Column(tool, name, words, garbage) == ColumnOf("t1", tool, name, words, garbage)
MCColumns ==
  [bps  |-> Column("iperf3", "volume", {"throughput", "time"}, FALSE),
   lost |-> Column("stress_ng", "", {"loss", "throughput"}, FALSE),
   id   |-> Column("stress_ng", "", {"time"}, TRUE),
   count |-> Column("plain", "", {"percent"}, FALSE),
   read  |-> ColumnOf("memory", "fio", "volume", {}, FALSE),
   wait  |-> ColumnOf("memory", "fio", "latency", {}, FALSE),
   sent  |-> ColumnOf("network", "iperf3", "volume", {}, FALSE),
   ops   |-> ColumnOf("case_2", "stress_ng", "", {}, FALSE)]
Numbers == {-100, 0, 100, 101}
Samples1(m, seq) == [i \in DOMAIN seq |-> [metric |-> m, value |-> seq[i]]]
Samples2(test, m, es) ==
  [i \in DOMAIN es |-> [experiment |-> es[i], test |-> test, samples |-> Samples1(m, [j \in 1 .. es[i] |-> j])]]
Row(e, bps, lost) ==
  [experiment |-> e, test |-> "t1", samples |-> Samples1("bps", bps) \o Samples1("lost", lost)
                                 \o <<[metric |-> "id", value |-> e], [metric |-> "count", value |-> e],
                                      [metric |-> "count", value |-> 7]>>]
\* Rows of a stage: what is recorded may have one column or two, in any order.
RowOf(e, test, samples) == [experiment |-> e, test |-> test, samples |-> samples]
Stage(e, ms) == RowOf(e, "memory", [i \in DOMAIN ms |-> [metric |-> ms[i], value |-> 10 * e + i]])
Kinds == {<<"read">>, <<"read", "wait">>, <<"wait", "read">>, <<"read", "read">>}
Staged(ks, sent, ops) ==
  [e \in MCIds |-> Stage(e, ks[e])] \o Samples2("network", "sent", sent) \o Samples2("case_2", "ops", ops)
TwoPairs ==
  [e \in MCIds |-> [os |-> IF e % 2 = 1 THEN Poky ELSE Suse, key |-> 1, started |-> e]]

MCRequests ==
  {Request(x, << >>, BothGiven, a) : x \in Recorded, a \in SUBSET Ids \cup {{NotAnId}, {NotAnId, 1, 2}, Ids \cup {NotAnId}}} \cup
  {Request(TwoPairs, << >>, c, MCIds) :
     c \in UNION {[1 .. n -> Distros \X (1 .. 2)] : n \in 1 .. 3}} \cup
  {Request(TwoPairs,
           <<Row(1, <<b[1]>> \o again, <<l[1]>>), Row(2, <<b[2]>>, <<l[2]>>), Row(3, <<b[3]>>, << >>),
             Row(4, <<b[4]>>, << >>)>>, BothGiven, MCIds) :
     b \in {<<p, q, v, w>> : p, q \in Numbers \cup {Sentinel}, v, w \in {-100, 0, 100}},
     again \in {<< >>, <<-1>>, <<0, 100>>, <<102, 102>>}, l \in [1 .. 2 -> {-100, 100}]} \cup
  {Request(TwoPairs, Staged(ks, sent, ops), BothGiven, MCIds) :
     ks \in [MCIds -> Kinds], sent \in {<< >>, <<1, 2>>}, ops \in {<<1, 2>>, <<2, 2, 1>>}}
=============================================================================
