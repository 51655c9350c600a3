------------------------- MODULE PlanBuilderProofs -------------------------
(***************************************************************************)
(* Proofs about PlanBuilder: however long the test, whatever its kind and  *)
(* subsystems, the durations of the stages add up, none is empty, and none *)
(* is more than a second away from its share.                              *)
(***************************************************************************)
EXTENDS PlanBuilder, SumLemmas

(***************************************************************************)
(* The subsystems in order.                                                *)
(***************************************************************************)
InOrder == {r \in Subsystems \X Subsystems : Order[r[1]] < Order[r[2]]}

LEMMA SortedOK ==
  ASSUME NEW subs \in SUBSET Subsystems
  PROVE  /\ Cardinality(subs) \in 0 .. 6 /\ (subs # {} => Cardinality(subs) >= 1)
         /\ Sorted(subs) \in [1 .. Cardinality(subs) -> subs]
         /\ \A k, m \in 1 .. Cardinality(subs) : Sorted(subs)[k] = Sorted(subs)[m] => k = m
<1> DEFINE n == Cardinality(subs)
           at(k, x) == Cardinality({y \in subs : Order[y] < Order[x]}) = k - 1
<1>1. IsFiniteSet(Subsystems) /\ Cardinality(Subsystems) = 6
  <2>1. IsFiniteSet({"IPC"}) /\ Cardinality({"IPC"}) = 1
    BY FS_Singleton
  <2>2. IsFiniteSet({"IPC", "file"}) /\ Cardinality({"IPC", "file"}) = 2
    <3>1. {"IPC", "file"} = {"IPC"} \cup {"file"} /\ "file" \notin {"IPC"}
      OBVIOUS
    <3> QED
      BY <2>1, <3>1, FS_AddElement
  <2>3. IsFiniteSet({"IPC", "file", "memory"}) /\ Cardinality({"IPC", "file", "memory"}) = 3
    <3>1. {"IPC", "file", "memory"} = {"IPC", "file"} \cup {"memory"} /\ "memory" \notin {"IPC", "file"}
      OBVIOUS
    <3> QED
      BY <2>2, <3>1, FS_AddElement
  <2>4. /\ IsFiniteSet({"IPC", "file", "memory", "network"})
        /\ Cardinality({"IPC", "file", "memory", "network"}) = 4
    <3>1. /\ {"IPC", "file", "memory", "network"} = {"IPC", "file", "memory"} \cup {"network"}
          /\ "network" \notin {"IPC", "file", "memory"}
      OBVIOUS
    <3> QED
      BY <2>3, <3>1, FS_AddElement
  <2>5. /\ IsFiniteSet({"IPC", "file", "memory", "network", "syscalls"})
        /\ Cardinality({"IPC", "file", "memory", "network", "syscalls"}) = 5
    <3>1. /\ {"IPC", "file", "memory", "network", "syscalls"}
              = {"IPC", "file", "memory", "network"} \cup {"syscalls"}
          /\ "syscalls" \notin {"IPC", "file", "memory", "network"}
      OBVIOUS
    <3> QED
      BY <2>4, <3>1, FS_AddElement
  <2>6. /\ Subsystems = {"IPC", "file", "memory", "network", "syscalls"} \cup {"system"}
        /\ "system" \notin {"IPC", "file", "memory", "network", "syscalls"}
    BY DEF Subsystems
  <2> QED
    BY <2>5, <2>6, FS_AddElement
<1>2. IsFiniteSet(subs) /\ n \in 0 .. 6 /\ (subs # {} => n >= 1)
  <2>1. IsFiniteSet(subs) /\ n <= 6
    BY <1>1, FS_Subset
  <2> QED
    BY <2>1, FS_CardinalityType, FS_EmptySet
<1>3. Orders(InOrder, subs)
  BY DEF Orders, InOrder, Order, Subsystems
<1>4. \A x \in subs : Rank(subs, InOrder, x) = Cardinality({y \in subs : Order[y] < Order[x]})
  <2>1. ASSUME NEW x \in subs PROVE Below(subs, InOrder, x) = {y \in subs : Order[y] < Order[x]}
    BY DEF Below, InOrder
  <2> QED
    BY <2>1 DEF Rank
<1>5. \A k \in 1 .. n : \E x \in subs : at(k, x)
  <2> SUFFICES ASSUME NEW k \in 1 .. n PROVE \E x \in subs : at(k, x)
    OBVIOUS
  <2>1. k - 1 \in 0 .. (n - 1)
    BY <1>2
  <2>2. PICK x \in subs : Rank(subs, InOrder, x) = k - 1
    BY <1>2, <1>3, <2>1, EveryRank
  <2> QED
    BY <1>4, <2>2
<1>6. Sorted(subs) = [k \in 1 .. n |-> CHOOSE x \in subs : at(k, x)]
  BY DEF Sorted
<1> HIDE DEF at
<1>7. \A k \in 1 .. n : Sorted(subs)[k] \in subs /\ at(k, Sorted(subs)[k])
  BY <1>5, <1>6
<1>8. ASSUME NEW k \in 1 .. n, NEW m \in 1 .. n, Sorted(subs)[k] = Sorted(subs)[m] PROVE k = m
  <2>1. at(k, Sorted(subs)[k]) /\ at(m, Sorted(subs)[k])
    BY <1>7, <1>8
  <2> QED
    BY <1>2, <2>1 DEF at
<1>9. Sorted(subs) \in [1 .. n -> subs]
  BY <1>6, <1>7
<1> QED
  BY <1>2, <1>8, <1>9

(***************************************************************************)
(* The stages of a request that is not refused: one to six, with a weight  *)
(* above zero, the same weight for all stages of a pattern, and in an      *)
(* isolated test one subsystem each.                                       *)
(***************************************************************************)
LayoutOK(layout) ==
  /\ Len(layout) \in 1 .. 6 /\ DOMAIN layout = 1 .. Len(layout)
  /\ \A i \in 1 .. Len(layout) : layout[i].weight \in Nat \ {0} /\ layout[i].pattern \in Patterns
  /\ \A i, k \in 1 .. Len(layout) :
       layout[i].pattern = layout[k].pattern => layout[i].weight = layout[k].weight

LEMMA ProfilesOK == \A kind \in AllKinds : LayoutOK(ProfileLayout(kind))
<1> SUFFICES ASSUME NEW kind \in AllKinds PROVE LayoutOK(ProfileLayout(kind))
  OBVIOUS
<1> USE DEF LayoutOK, ProfileLayout, Template, Patterns
<1>1. CASE kind = "load"
  BY <1>1
<1>2. CASE kind = "stress"
  BY <1>2
<1>3. CASE kind = "stability"
  BY <1>3
<1>4. CASE kind = "scalability"
  BY <1>4
<1>5. CASE kind = "volume"
  BY <1>5
<1>6. CASE kind = "spike"
  BY <1>6
<1>7. CASE kind = "isolated"
  BY <1>7
<1>8. CASE kind = "diagnostic"
  BY <1>8
<1> QED
  BY <1>1, <1>2, <1>3, <1>4, <1>5, <1>6, <1>7, <1>8 DEF AllKinds

LEMMA TemplatesOK ==
  ASSUME request \in Requests, Valid
  PROVE  /\ LayoutOK(Templates)
         /\ request.kind = "isolated" =>
              /\ N = Cardinality(request.subs)
              /\ \A i, k \in 1 .. N : Templates[i].pattern = Templates[k].pattern
<1>1. /\ request.kind \in AllKinds /\ request.pattern \in Patterns \cup {NoPattern}
      /\ request.subs \in SUBSET Subsystems /\ request.subs # {}
  <2>1. /\ request.kind \in Kinds /\ request.pattern \in Patterns \cup {NoPattern}
        /\ request.subs \in Requested
    BY DEF Requests
  <2>2. request.subs # {}
    BY DEF Valid
  <2> QED
    BY <2>1, <2>2, RequestAssumption
<1>2. CASE request.kind = "isolated"
  <2> DEFINE pattern == IF request.pattern = NoPattern THEN "balanced" ELSE request.pattern
             n == Cardinality(request.subs)
  <2>1. n \in 1 .. 6 /\ DOMAIN Sorted(request.subs) = 1 .. n
    BY <1>1, SortedOK
  <2>2. Templates = [i \in 1 .. n |-> Template(pattern, 1)]
    BY <1>2, <2>1 DEF Templates
  <2>3. pattern \in Patterns
    BY <1>1 DEF Patterns
  <2> HIDE DEF pattern, n
  <2>4. Len(Templates) = n
    BY <2>1, <2>2
  <2>5. \A i \in 1 .. n : Templates[i].weight = 1 /\ Templates[i].pattern = pattern
    BY <2>2 DEF Template
  <2> QED
    BY <2>1, <2>2, <2>3, <2>4, <2>5 DEF LayoutOK, N, n
<1>3. CASE request.kind # "isolated" /\ request.pattern # NoPattern
  <2>1. Templates = <<Template(request.pattern, 1)>> /\ request.pattern \in Patterns
    BY <1>1, <1>3 DEF Templates
  <2> QED
    BY <1>3, <2>1 DEF LayoutOK, Template
<1>4. CASE request.kind # "isolated" /\ request.pattern = NoPattern
  <2>1. Templates = ProfileLayout(request.kind)
    BY <1>4 DEF Templates
  <2> QED
    BY <1>1, <1>4, <2>1, ProfilesOK
<1> QED
  BY <1>2, <1>3, <1>4

Ready == request \in Requests /\ Valid

LEMMA ReadyOK ==
  ASSUME Ready
  PROVE  /\ N \in 1 .. 6 /\ DOMAIN Templates = 1 .. N /\ request.total \in Nat \ {0}
         /\ \A i \in 1 .. N : Templates[i].weight \in Nat \ {0} /\ Templates[i].pattern \in Patterns
<1>1. request.total \in 0 .. MaxDuration
  BY DEF Ready, Requests
<1>2. request.total \in Nat \ {0}
  BY <1>1, DurationAssumption DEF Ready, Valid
<1> QED
  BY <1>2, TemplatesOK DEF Ready, LayoutOK, N

(***************************************************************************)
(* The exact shares: together they are the whole time.                     *)
(***************************************************************************)
Wholes    == [i \in 1 .. N |-> Whole(i)]
Fractions == [i \in 1 .. N |-> Fraction(i)]

LEMMA SumIsSum == ASSUME NEW f PROVE Sum(f) = SumFunctionOnSet(f, DOMAIN f)
BY DEF Sum, SumFunctionOnSet, FoldFunction

LEMMA StagesFinite == ASSUME Ready PROVE IsFiniteSet(1 .. N) /\ Cardinality(1 .. N) = N /\ N \in 1 .. 6
<1>1. N \in 1 .. 6
  BY ReadyOK
<1>2. N \in Int /\ 1 \in Int /\ N >= 1
  BY <1>1
<1>3. IsFiniteSet(1 .. N) /\ Cardinality(1 .. N) = IF 1 > N THEN 0 ELSE N - 1 + 1
  BY <1>2, FS_Interval, Zenon
<1> QED
  BY <1>1, <1>2, <1>3

Even(c) == [i \in 1 .. N |-> c]

LEMMA SumOfEven == ASSUME Ready, NEW c \in Int PROVE SumFunctionOnSet(Even(c), 1 .. N) = c * N
<1>1. IsFiniteSet(1 .. N) /\ Cardinality(1 .. N) = N
  BY StagesFinite
<1>2. \A i \in 1 .. N : Even(c)[i] = c
  BY DEF Even
<1>3. SumFunctionOnSet(Even(c), 1 .. N) = c * Cardinality(1 .. N)
  BY <1>1, <1>2, SumOfConstant, Zenon
<1> QED
  BY <1>1, <1>3

LEMMA WeightsOK == ASSUME Ready PROVE WeightSum \in Nat \ {0}
<1> DEFINE weights == [i \in 1 .. N |-> Templates[i].weight]
           ones    == Even(1)
<1>1. IsFiniteSet(1 .. N) /\ Cardinality(1 .. N) = N /\ N \in 1 .. 6
  BY StagesFinite
<1>2. \A i \in 1 .. N : weights[i] \in Int /\ ones[i] \in Int /\ ones[i] <= weights[i]
  BY ReadyOK DEF Even
<1>3. WeightSum = SumFunctionOnSet(weights, 1 .. N)
  BY SumIsSum DEF WeightSum
<1> HIDE DEF weights, ones
<1>4. SumFunctionOnSet(ones, 1 .. N) <= SumFunctionOnSet(weights, 1 .. N)
  BY <1>1, <1>2, SumAtMost
<1>5. SumFunctionOnSet(ones, 1 .. N) = 1 * N
  BY SumOfEven DEF ones
<1>6. SumFunctionOnSet(weights, 1 .. N) \in Int
  BY <1>1, <1>2, SumType
<1> QED
  BY <1>1, <1>3, <1>4, <1>5, <1>6

LEMMA Division ==
  ASSUME NEW a \in Nat, NEW n \in Nat \ {0}
  PROVE  LET q == a \div n
             r == a % n
         IN  q \in Nat /\ r \in 0 .. (n - 1) /\ a = n * q + r
OBVIOUS

LEMMA ShareOK ==
  ASSUME Ready, NEW i \in 1 .. N
  PROVE  /\ Scaled(i) \in Nat /\ Whole(i) \in Nat /\ Fraction(i) \in 0 .. (WeightSum - 1)
         /\ Scaled(i) = WeightSum * Whole(i) + Fraction(i)
<1>1. Scaled(i) \in Nat
  BY ReadyOK DEF Scaled
<1>2. WeightSum \in Nat \ {0}
  BY WeightsOK
<1> QED
  BY <1>1, <1>2, Division DEF Whole, Fraction

LEMMA SharesAddUp ==
  ASSUME Ready
  PROVE  /\ SumFunctionOnSet(Wholes, 1 .. N) \in Nat /\ SumFunctionOnSet(Fractions, 1 .. N) \in Nat
         /\ WeightSum * request.total
              = WeightSum * SumFunctionOnSet(Wholes, 1 .. N) + SumFunctionOnSet(Fractions, 1 .. N)
         /\ SumFunctionOnSet(Wholes, 1 .. N) <= request.total
<1> DEFINE scaled  == [i \in 1 .. N |-> Scaled(i)]
           weights == [i \in 1 .. N |-> Templates[i].weight]
           zeros   == Even(0)
           sum(f)  == SumFunctionOnSet(f, 1 .. N)
<1>1. IsFiniteSet(1 .. N) /\ Cardinality(1 .. N) = N /\ N \in 1 .. 6
  BY StagesFinite
<1>2. /\ request.total \in Nat \ {0} /\ WeightSum \in Nat \ {0} /\ WeightSum = sum(weights)
  BY ReadyOK, WeightsOK, SumIsSum DEF WeightSum
<1>3. \A i \in 1 .. N : /\ weights[i] \in Int /\ zeros[i] \in Int /\ scaled[i] \in Int /\ zeros[i] = 0
                        /\ scaled[i] = request.total * weights[i] + zeros[i]
  BY ReadyOK DEF Scaled, Even
<1>4. \A i \in 1 .. N : /\ Wholes[i] \in Int /\ Fractions[i] \in Int /\ scaled[i] \in Int
                        /\ 0 <= Wholes[i] /\ 0 <= Fractions[i]
                        /\ scaled[i] = WeightSum * Wholes[i] + Fractions[i]
  <2> SUFFICES ASSUME NEW i \in 1 .. N
               PROVE  /\ Wholes[i] \in Int /\ Fractions[i] \in Int /\ scaled[i] \in Int
                      /\ 0 <= Wholes[i] /\ 0 <= Fractions[i]
                      /\ scaled[i] = WeightSum * Wholes[i] + Fractions[i]
    OBVIOUS
  <2> QED
    BY <1>2, ShareOK DEF Wholes, Fractions
<1> HIDE DEF scaled, weights, zeros
<1>5. sum(zeros) = 0 /\ sum(zeros) <= sum(Wholes) /\ sum(zeros) <= sum(Fractions)
  <2>1. sum(zeros) = 0 * N
    BY SumOfEven DEF zeros
  <2>2. sum(zeros) <= sum(Wholes)
    BY <1>1, <1>3, <1>4, SumAtMost
  <2>3. sum(zeros) <= sum(Fractions)
    BY <1>1, <1>3, <1>4, SumAtMost
  <2> QED
    BY <1>1, <2>1, <2>2, <2>3
<1>6. sum(Wholes) \in Int /\ sum(Fractions) \in Int
  BY <1>1, <1>4, SumType
<1>7. sum(scaled) = request.total * sum(weights) + sum(zeros)
  BY <1>1, <1>2, <1>3, SumOfSums
<1>8. sum(scaled) = WeightSum * sum(Wholes) + sum(Fractions)
  BY <1>1, <1>2, <1>4, SumOfSums
<1> HIDE DEF sum
<1>9. WeightSum * sum(Wholes) <= WeightSum * request.total
  BY <1>2, <1>5, <1>6, <1>7, <1>8
<1>10. sum(Wholes) <= request.total
  <2>1. \A w \in Nat \ {0}, a, b \in Nat : w * a <= w * b => a <= b
    OBVIOUS
  <2> QED
    BY <1>2, <1>5, <1>6, <1>9, <2>1
<1> QED
  BY <1>2, <1>5, <1>6, <1>7, <1>8, <1>10 DEF sum

(***************************************************************************)
(* The order of the loops: the k-th of them takes the stage whose rank is  *)
(* k modulo the number of stages, ties in the order of the stages.         *)
(***************************************************************************)
KeyOrder(key) ==
  {r \in (1 .. N) \X (1 .. N) : key[r[1]] < key[r[2]] \/ (key[r[1]] = key[r[2]] /\ r[1] < r[2])}
RankOf(key, i) == Rank(1 .. N, KeyOrder(key), i)

LEMMA RankOfOK ==
  ASSUME Ready, NEW key \in [1 .. N -> Int], NEW i \in 1 .. N, NEW j \in 1 .. N
  PROVE  /\ RankOf(key, i) \in 0 .. (N - 1)
         /\ RankOf(key, i) < RankOf(key, j) <=> key[i] < key[j] \/ (key[i] = key[j] /\ i < j)
         /\ RankOf(key, i) = RankOf(key, j) => i = j
<1>1. IsFiniteSet(1 .. N) /\ Cardinality(1 .. N) = N
  BY StagesFinite
<1>2. Orders(KeyOrder(key), 1 .. N)
  BY ReadyOK DEF Orders, KeyOrder
<1>3. <<i, j>> \in KeyOrder(key) <=> key[i] < key[j] \/ (key[i] = key[j] /\ i < j)
  BY DEF KeyOrder
<1> QED
  BY <1>1, <1>2, <1>3, RankGrows DEF RankOf

LEMMA NthOK ==
  ASSUME Ready, NEW key \in [1 .. N -> Int], NEW k \in Nat
  PROVE  Nth(k, key) \in 1 .. N /\ RankOf(key, Nth(k, key)) = k % N
<1> DEFINE at(i) == Cardinality({j \in 1 .. N : key[j] < key[i] \/ (key[j] = key[i] /\ j < i)}) = k % N
<1>1. IsFiniteSet(1 .. N) /\ Cardinality(1 .. N) = N /\ N \in 1 .. 6
  BY StagesFinite
<1>2. Orders(KeyOrder(key), 1 .. N)
  BY ReadyOK DEF Orders, KeyOrder
<1>3. k % N \in 0 .. (N - 1)
  BY <1>1
<1>4. PICK i \in 1 .. N : RankOf(key, i) = k % N
  BY <1>1, <1>2, <1>3, EveryRank DEF RankOf
<1>5. \A j \in 1 .. N : at(j) <=> RankOf(key, j) = k % N
  <2>1. ASSUME NEW m \in 1 .. N
        PROVE  Below(1 .. N, KeyOrder(key), m) = {j \in 1 .. N : key[j] < key[m] \/ (key[j] = key[m] /\ j < m)}
    BY DEF Below, KeyOrder
  <2> QED
    BY <2>1 DEF RankOf, Rank
<1>6. Nth(k, key) = CHOOSE j \in 1 .. N : at(j)
  BY DEF Nth
<1> HIDE DEF at
<1> QED
  BY <1>4, <1>5, <1>6

(***************************************************************************)
(* The durations under construction.                                       *)
(***************************************************************************)
Filled(b) == b \in [1 .. N -> Nat \ {0}]
Goal      == IF request.total >= N THEN request.total ELSE N

LEMMA FilledSum ==
  ASSUME Ready, NEW b, Filled(b)
  PROVE  /\ Sum(b) = SumFunctionOnSet(b, 1 .. N) /\ Sum(b) \in Nat /\ Sum(b) >= N
         /\ Sum(b) > N => \E i \in 1 .. N : b[i] > 1
         /\ Sum(b) = N => \A i \in 1 .. N : b[i] = 1
<1> DEFINE sum(f) == SumFunctionOnSet(f, 1 .. N)
<1>1. IsFiniteSet(1 .. N) /\ N \in 1 .. 6
  BY StagesFinite
<1>2. Sum(b) = sum(b) /\ sum(b) \in Int
  <2>1. \A i \in 1 .. N : b[i] \in Int
    BY DEF Filled
  <2>2. DOMAIN b = 1 .. N
    BY DEF Filled
  <2> QED
    BY <1>1, <2>1, <2>2, SumIsSum, SumType
<1>3. sum(Even(1)) = N
  BY <1>1, SumOfEven
<1>4. \A i \in 1 .. N : b[i] \in Int /\ Even(1)[i] \in Int /\ Even(1)[i] = 1 /\ b[i] >= 1
  BY DEF Filled, Even
<1>5. sum(b) >= N
  <2>1. \A i \in 1 .. N : Even(1)[i] \in Int /\ b[i] \in Int /\ Even(1)[i] <= b[i]
    BY <1>4
  <2>2. sum(Even(1)) <= sum(b)
    BY <1>1, <2>1, SumAtMost
  <2> QED
    BY <1>1, <1>2, <1>3, <2>2
<1>6. ASSUME sum(b) > N PROVE \E i \in 1 .. N : b[i] > 1
  <2> SUFFICES ASSUME \A i \in 1 .. N : ~(b[i] > 1) PROVE FALSE
    OBVIOUS
  <2>1. \A i \in 1 .. N : b[i] \in Int /\ Even(1)[i] \in Int /\ b[i] <= Even(1)[i]
    BY <1>4
  <2>2. sum(b) <= sum(Even(1))
    BY <1>1, <2>1, SumAtMost
  <2> QED
    BY <1>1, <1>2, <1>3, <1>6, <2>2
<1>7. ASSUME sum(b) = N, NEW i \in 1 .. N PROVE b[i] = 1
  <2> DEFINE c == [b EXCEPT ![i] = 1]
  <2>1. b[i] \in Int /\ c[i] \in Int /\ c[i] = 1
    BY <1>4 DEF Filled
  <2>2. \A j \in (1 .. N) \ {i} : b[j] \in Int /\ c[j] = b[j]
    BY <1>4 DEF Filled
  <2>3. \A j \in 1 .. N : Even(1)[j] \in Int /\ c[j] \in Int /\ Even(1)[j] <= c[j]
    BY <1>4, <2>1, <2>2
  <2> HIDE DEF c
  <2>4. sum(c) = sum(b) + c[i] - b[i]
    BY <1>1, <2>1, <2>2, SumChange
  <2>5. sum(Even(1)) <= sum(c)
    BY <1>1, <2>3, SumAtMost
  <2> QED
    BY <1>1, <1>2, <1>3, <1>4, <1>7, <2>1, <2>4, <2>5
<1> QED
  BY <1>1, <1>2, <1>5, <1>6, <1>7

\* One stage gets a second more or less.
LEMMA FilledChange ==
  ASSUME Ready, NEW b, Filled(b), NEW i \in 1 .. N, NEW d \in Nat \ {0}
  PROVE  Filled([b EXCEPT ![i] = d]) /\ Sum([b EXCEPT ![i] = d]) = Sum(b) + d - b[i]
<1> DEFINE c == [b EXCEPT ![i] = d]
<1>1. Filled(c)
  BY DEF Filled
<1>2. IsFiniteSet(1 .. N)
  BY StagesFinite
<1>3. /\ b[i] \in Int /\ c[i] \in Int /\ c[i] = d
      /\ \A j \in (1 .. N) \ {i} : b[j] \in Int /\ c[j] = b[j]
  BY DEF Filled
<1> HIDE DEF c
<1>4. SumFunctionOnSet(c, 1 .. N) = SumFunctionOnSet(b, 1 .. N) + c[i] - b[i]
  BY <1>2, <1>3, SumChange
<1> QED
  BY <1>1, <1>3, <1>4, FilledSum DEF c

LEMMA FirstBase ==
  ASSUME Ready
  PROVE  LET b == [i \in 1 .. N |-> AtLeastOne(Whole(i))]
         IN  Filled(b) /\ Sum(b) <= request.total + N
<1> DEFINE b == [i \in 1 .. N |-> AtLeastOne(Whole(i))]
           sum(f) == SumFunctionOnSet(f, 1 .. N)
<1>1. IsFiniteSet(1 .. N) /\ N \in 1 .. 6
  BY StagesFinite
<1>2. \A i \in 1 .. N : Whole(i) \in Nat /\ Wholes[i] = Whole(i) /\ Even(1)[i] = 1
  BY ShareOK DEF Wholes, Even
<1>3. Filled(b) /\ \A i \in 1 .. N : b[i] <= Whole(i) + 1
  BY <1>2 DEF Filled, AtLeastOne
<1> DEFINE c == [i \in 1 .. N |-> 1 * Wholes[i] + Even(1)[i]]
<1>4. \A i \in 1 .. N : /\ Wholes[i] \in Int /\ Even(1)[i] \in Int /\ c[i] = 1 * Wholes[i] + Even(1)[i]
                        /\ b[i] \in Int /\ c[i] \in Int /\ b[i] <= c[i]
  BY <1>2, <1>3 DEF Filled
<1> HIDE DEF b, c
<1>5. sum(c) = 1 * sum(Wholes) + sum(Even(1))
  BY <1>1, <1>4, SumOfSums
<1>6. sum(b) <= sum(c)
  BY <1>1, <1>4, SumAtMost
<1>7. sum(Even(1)) = N /\ Sum(b) = sum(b) /\ sum(b) \in Nat
  BY <1>1, <1>3, SumOfEven, FilledSum
<1>8. sum(Wholes) \in Nat /\ sum(Wholes) <= request.total /\ request.total \in Nat
  BY SharesAddUp, ReadyOK
<1>9. Sum(b) <= request.total + N
  <2> HIDE DEF sum
  <2> QED
    BY <1>1, <1>5, <1>6, <1>7, <1>8
<1> QED
  BY <1>3, <1>9 DEF b

(***************************************************************************)
(* The inductive invariant.  Round r of _distribute_negative_diff finds    *)
(* what is over to be at most N - r seconds: at the start it is at most    *)
(* one per stage, and as long as anything is over some stage has more than *)
(* a second, so that every round takes at least one.  Within a round,      *)
(* Owes says where the stage is that will give the second.                 *)
(***************************************************************************)
RankUp(i) == RankOf(Fractions, i)
Over      == Sum(base) - Goal
Owes      == \E i \in 1 .. N : base[i] > 1 /\ RankUp(i) >= idx % N

TakeInv ==
  /\ Over >= 0
  /\ Over > 0 => /\ Over <= N - (idx \div N)
                 /\ Over = N - (idx \div N) => Owes

BaseInv ==
  /\ Ready /\ Filled(base) /\ remaining \in Int /\ idx \in Nat
  /\ pc \in {"give", "take"} => Sum(base) + remaining = request.total
  /\ pc = "give" => remaining >= 0
  /\ pc = "take" => TakeInv
  /\ pc \in {"fix", "stages", "done"} => Sum(base) = Goal

StagesInv ==
  /\ stages \in Seq([offset : Int, duration : Int]) /\ Len(stages) <= N
  /\ pc \in {"give", "take", "fix"} => stages = <<>>
  /\ \A k \in 1 .. Len(stages) :
       /\ stages[k].duration = base[k]
       /\ stages[k].offset = SumFunctionOnSet(base, 1 .. k - 1)
  /\ pc = "done" => Len(stages) = N

PlanInv ==
  /\ pc \in {"request", "give", "take", "fix", "stages", "done", "refused"}
  /\ request \in Requests
  /\ pc \in {"request", "refused"} =>
       base = <<>> /\ stages = <<>> /\ idx = 0 /\ remaining = 0
  /\ pc \notin {"request", "refused"} => BaseInv /\ StagesInv

LEMMA RoundStep ==
  ASSUME NEW n \in 1 .. 6, NEW k \in Nat
  PROVE  LET p == k % n
             r == k \div n
         IN  /\ p \in 0 .. (n - 1) /\ r \in Nat
             /\ p + 1 < n => (k + 1) % n = p + 1 /\ (k + 1) \div n = r
             /\ p + 1 = n => (k + 1) % n = 0 /\ (k + 1) \div n = r + 1
             /\ k >= 36 => r >= n
<1>1. CASE n = 1 BY <1>1
<1>2. CASE n = 2 BY <1>2
<1>3. CASE n = 3 BY <1>3
<1>4. CASE n = 4 BY <1>4
<1>5. CASE n = 5 BY <1>5
<1>6. CASE n = 6 BY <1>6
<1> QED
  BY <1>1, <1>2, <1>3, <1>4, <1>5, <1>6

LEMMA SameRequest ==
  ASSUME request' = request
  PROVE  /\ Templates' = Templates /\ N' = N /\ Ready' = Ready /\ Goal' = Goal
         /\ Fractions' = Fractions /\ WeightSum' = WeightSum
         /\ \A i : RankUp(i)' = RankUp(i)
<1>1. Templates' = Templates
  BY DEF Templates
<1>2. N' = N /\ Ready' = Ready
  BY <1>1 DEF N, Ready, Valid
<1>3. WeightSum' = WeightSum
  BY <1>1, <1>2 DEF WeightSum
<1>4. \A i : Fraction(i)' = Fraction(i)
  BY <1>1, <1>3 DEF Fraction, Scaled
<1>5. Fractions' = Fractions
  BY <1>2, <1>4 DEF Fractions
<1>6. \A i : RankUp(i)' = RankUp(i)
  BY <1>2, <1>5 DEF RankUp, RankOf, Rank, Below, KeyOrder
<1>7. Goal' = Goal
  BY <1>2 DEF Goal
<1> QED
  BY <1>1, <1>2, <1>3, <1>5, <1>6, <1>7

LEMMA Renamed ==
  ASSUME request' = request
  PROVE  (Filled(base)' <=> Filled(base')) /\ Sum(base)' = Sum(base')
<1>1. N' = N
  BY SameRequest
<1>2. Filled(base)' <=> Filled(base')
  BY <1>1 DEF Filled
<1>3. Sum(base)' = Sum(base')
  OBVIOUS
<1> QED
  BY <1>2, <1>3

LEMMA InitOK == Init => PlanInv
BY DEF Init, PlanInv

LEMMA RefuseOK == PlanInv /\ Refuse => PlanInv'
<1> SUFFICES ASSUME PlanInv, Refuse PROVE PlanInv'
  OBVIOUS
<1>1. pc' = "refused" /\ pc = "request" /\ UNCHANGED <<request, base, remaining, idx, stages, shared>>
  BY DEF Refuse
<1> QED
  BY <1>1 DEF PlanInv

\* A request that is accepted: its durations and no stages yet.
LEMMA AcceptOK ==
  ASSUME PlanInv, pc = "request", Valid, request' = request, stages' = stages,
         pc' \in {"give", "take", "fix", "stages"}, BaseInv'
  PROVE  PlanInv'
<1>1. stages' = <<>> /\ request' \in Requests
  BY DEF PlanInv
<1>2. N' \in 1 .. 6
  <2>1. Ready
    BY DEF PlanInv, Ready
  <2> QED
    BY <2>1, ReadyOK, SameRequest
<1>3. StagesInv'
  BY <1>1, <1>2 DEF StagesInv
<1> QED
  BY <1>1, <1>3 DEF PlanInv

LEMMA OneStageOK == PlanInv /\ OneStage => PlanInv'
<1> SUFFICES ASSUME PlanInv, OneStage PROVE PlanInv'
  OBVIOUS
<1>1. /\ pc = "request" /\ Valid /\ request.kind # "isolated" /\ request.pattern # NoPattern
      /\ base' = <<request.total>> /\ pc' = "stages"
      /\ request' = request /\ remaining' = remaining /\ idx' = idx /\ stages' = stages
  BY DEF OneStage
<1>2. Ready /\ remaining = 0 /\ idx = 0
  BY <1>1 DEF PlanInv, Ready
<1>3. N = 1 /\ request.total \in Nat \ {0}
  BY <1>1, <1>2, ReadyOK DEF N, Templates
<1>4. Filled(base')
  <2>1. base' = [i \in 1 .. 1 |-> request.total]
    BY <1>1
  <2> QED
    BY <1>3, <2>1 DEF Filled
<1>5. Sum(base') = Goal
  <2>1. /\ Sum(base') \in Nat /\ Sum(base') = SumFunctionOnSet(base', 1 .. N)
    BY <1>2, <1>4, FilledSum
  <2>2. SumFunctionOnSet(Even(request.total), 1 .. N) = request.total * N
    BY <1>2, <1>3, SumOfEven
  <2>3. base' = Even(request.total)
    BY <1>1, <1>3 DEF Even
  <2> QED
    BY <1>3, <2>1, <2>2, <2>3 DEF Goal
<1>6. BaseInv'
  <2>1. N' = N /\ Ready' = Ready /\ Goal' = Goal
    BY <1>1, SameRequest
  <2>2. Filled(base)' /\ Sum(base)' = Goal'
    BY <1>1, <1>4, <1>5, <2>1, Renamed
  <2> QED
    BY <1>1, <1>2, <2>1, <2>2 DEF BaseInv
<1> QED
  BY <1>1, <1>6, AcceptOK

LEMMA AllocateOK == PlanInv /\ Allocate => PlanInv'
<1> SUFFICES ASSUME PlanInv, Allocate PROVE PlanInv'
  OBVIOUS
<1>1. /\ pc = "request" /\ Valid
      /\ base' = [i \in 1 .. N |-> AtLeastOne(Whole(i))]
      /\ remaining' = request.total - Sum(base')
      /\ pc' = IF remaining' > 0 THEN "give" ELSE IF remaining' < 0 THEN "take" ELSE "fix"
      /\ request' = request /\ idx' = idx /\ stages' = stages
  BY DEF Allocate
<1>2. Ready /\ idx = 0
  BY <1>1 DEF PlanInv, Ready
<1>3. Filled(base') /\ Sum(base') <= request.total + N
  BY <1>1, <1>2, FirstBase
<1>4. /\ Sum(base') \in Nat /\ Sum(base') >= N
      /\ Sum(base') > N => \E i \in 1 .. N : base'[i] > 1
  BY <1>2, <1>3, FilledSum
<1>5. N \in 1 .. 6 /\ request.total \in Nat \ {0}
  BY <1>2, ReadyOK
<1>6. /\ N' = N /\ Ready' = Ready /\ Goal' = Goal /\ (Filled(base)' <=> Filled(base')) /\ Sum(base)' = Sum(base')
      /\ \A i : RankUp(i)' = RankUp(i)
  BY <1>1, SameRequest, Renamed
<1>7. ASSUME pc' = "take" PROVE TakeInv'
  <2>1. remaining' < 0 /\ Sum(base') > request.total
    BY <1>1, <1>4, <1>5, <1>7
  <2> DEFINE over == Sum(base') - Goal
  <2>2. over >= 0 /\ over <= N /\ (over > 0 => Sum(base') > N)
    BY <1>3, <1>4, <1>5, <2>1 DEF Goal
  <2>3. idx' % N = 0 /\ idx' \div N = 0
    BY <1>1, <1>2, <1>5
  <2>4. over > 0 => \E i \in 1 .. N : base'[i] > 1 /\ RankUp(i) >= 0
    <3>1. ASSUME NEW i \in 1 .. N PROVE RankUp(i) \in 0 .. (N - 1)
      <4>1. Fractions \in [1 .. N -> Int]
        BY <1>2, ShareOK, WeightsOK DEF Fractions
      <4> QED
        BY <1>2, <4>1, RankOfOK DEF RankUp
    <3> QED
      BY <1>4, <1>5, <2>2, <3>1
  <2>5. Over' = over
    BY <1>6 DEF Over
  <2>6. Owes' <=> \E i \in 1 .. N : base'[i] > 1 /\ RankUp(i) >= 0
    BY <1>6, <2>3 DEF Owes
  <2> HIDE DEF over
  <2> QED
    BY <1>5, <1>6, <2>2, <2>3, <2>4, <2>5, <2>6 DEF TakeInv
<1>8. ASSUME pc' = "fix" PROVE Sum(base') = Goal
  BY <1>1, <1>4, <1>5, <1>8 DEF Goal
<1>9. BaseInv'
  BY <1>1, <1>2, <1>3, <1>4, <1>5, <1>6, <1>7, <1>8 DEF BaseInv
<1>10. pc' \in {"give", "take", "fix", "stages"}
  BY <1>1
<1> QED
  BY <1>1, <1>9, <1>10, AcceptOK

\* Steps of the loops: no stage yet.
LEMMA LoopOK ==
  ASSUME PlanInv, pc \in {"give", "take", "fix"}, request' = request, stages' = stages,
         pc' \in {"give", "take", "fix", "stages"}, BaseInv'
  PROVE  PlanInv'
<1>1. stages' = <<>> /\ request' \in Requests
  BY DEF PlanInv, StagesInv
<1>2. N' \in 1 .. 6
  <2>1. Ready
    BY DEF PlanInv, BaseInv
  <2> QED
    BY <2>1, ReadyOK, SameRequest
<1>3. StagesInv'
  BY <1>1, <1>2 DEF StagesInv
<1> QED
  BY <1>1, <1>3 DEF PlanInv

LEMMA LoopFacts ==
  ASSUME PlanInv, pc \notin {"request", "refused"}, request' = request
  PROVE  /\ Ready /\ Filled(base) /\ remaining \in Int /\ idx \in Nat
         /\ N \in 1 .. 6 /\ request.total \in Nat \ {0}
         /\ Sum(base) \in Nat /\ Sum(base) >= N
         /\ Fractions \in [1 .. N -> Int]
         /\ N' = N /\ Ready' /\ Goal' = Goal
         /\ (Filled(base)' <=> Filled(base')) /\ Sum(base)' = Sum(base')
         /\ \A i : RankUp(i)' = RankUp(i)
<1>1. Ready /\ Filled(base) /\ remaining \in Int /\ idx \in Nat
  BY DEF PlanInv, BaseInv
<1>2. N \in 1 .. 6 /\ request.total \in Nat \ {0} /\ Sum(base) \in Nat /\ Sum(base) >= N
  BY <1>1, ReadyOK, FilledSum
<1>3. Fractions \in [1 .. N -> Int]
  BY <1>1, ShareOK, WeightsOK DEF Fractions
<1>4. /\ N' = N /\ Ready' = Ready /\ Goal' = Goal /\ \A i : RankUp(i)' = RankUp(i)
  BY SameRequest
<1>5. (Filled(base)' <=> Filled(base')) /\ Sum(base)' = Sum(base')
  BY SameRequest, Renamed
<1> QED
  BY <1>1, <1>2, <1>3, <1>4, <1>5

LEMMA GiveOK == PlanInv /\ GiveSecond => PlanInv'
<1> SUFFICES ASSUME PlanInv, GiveSecond PROVE PlanInv'
  OBVIOUS
<1> DEFINE i == LargestFraction(idx)
<1>1. /\ pc = "give" /\ remaining > 0 /\ pc' = "give" /\ request' = request /\ stages' = stages
      /\ base' = [base EXCEPT ![i] = @ + 1] /\ remaining' = remaining - 1 /\ idx' = idx + 1
  BY DEF GiveSecond, GiveTo
<1>2. /\ Ready /\ Filled(base) /\ remaining \in Int /\ idx \in Nat /\ Sum(base) \in Nat /\ Fractions \in [1 .. N -> Int]
      /\ Ready' /\ (Filled(base)' <=> Filled(base')) /\ Sum(base)' = Sum(base')
  BY <1>1, LoopFacts
<1>3. i \in 1 .. N
  <2>1. [j \in 1 .. N |-> -Fraction(j)] \in [1 .. N -> Int]
    BY <1>2 DEF Fractions
  <2> QED
    BY <1>2, <2>1, NthOK DEF LargestFraction
<1> HIDE DEF i
<1>4. base[i] \in Nat \ {0} /\ base' = [base EXCEPT ![i] = base[i] + 1] /\ base[i] + 1 \in Nat \ {0}
  BY <1>1, <1>2, <1>3 DEF Filled
<1>5. Filled(base') /\ Sum(base') = Sum(base) + (base[i] + 1) - base[i]
  BY <1>2, <1>3, <1>4, FilledChange
<1>6. Sum(base) + remaining = request.total
  BY <1>1 DEF PlanInv, BaseInv
<1>7. BaseInv'
  BY <1>1, <1>2, <1>4, <1>5, <1>6 DEF BaseInv
<1> QED
  BY <1>1, <1>7, LoopOK

LEMMA GiveDoneOK == PlanInv /\ GiveDone => PlanInv'
<1> SUFFICES ASSUME PlanInv, GiveDone PROVE PlanInv'
  OBVIOUS
<1>1. /\ pc = "give" /\ remaining <= 0 /\ pc' = "fix" /\ request' = request /\ stages' = stages
      /\ base' = base /\ remaining' = remaining /\ idx' = idx
  BY DEF GiveDone
<1>2. /\ Ready' /\ Goal' = Goal /\ (Filled(base)' <=> Filled(base')) /\ Sum(base)' = Sum(base')
      /\ Filled(base) /\ remaining \in Int /\ idx \in Nat /\ Sum(base) \in Nat /\ Sum(base) >= N
      /\ request.total \in Nat /\ N \in 1 .. 6
  BY <1>1, LoopFacts
<1>3. Sum(base) + remaining = request.total /\ remaining >= 0
  BY <1>1 DEF PlanInv, BaseInv
<1>4. Sum(base) = Goal
  BY <1>1, <1>2, <1>3 DEF Goal
<1>5. BaseInv'
  BY <1>1, <1>2, <1>4 DEF BaseInv
<1> QED
  BY <1>1, <1>5, LoopOK

LEMMA TakeOK == PlanInv /\ TakeSecond => PlanInv'
<1> SUFFICES ASSUME PlanInv, TakeSecond PROVE PlanInv'
  OBVIOUS
<1> DEFINE i == SmallestFraction(idx)
<1>1. /\ pc = "take" /\ remaining < 0 /\ pc' = "take" /\ request' = request /\ stages' = stages
      /\ idx' = idx + 1
      /\ \/ base[i] > 1 /\ base' = [base EXCEPT ![i] = @ - 1] /\ remaining' = remaining + 1
         \/ base[i] <= 1 /\ base' = base /\ remaining' = remaining
  BY DEF TakeSecond, TakeFrom
<1>2. /\ Ready /\ Filled(base) /\ remaining \in Int /\ idx \in Nat /\ Fractions \in [1 .. N -> Int]
      /\ Sum(base) \in Nat /\ Sum(base) >= N /\ N \in 1 .. 6 /\ request.total \in Nat \ {0}
      /\ N' = N /\ Ready' /\ Goal' = Goal
      /\ (Filled(base)' <=> Filled(base')) /\ Sum(base)' = Sum(base')
      /\ \A j : RankUp(j)' = RankUp(j)
  BY <1>1, LoopFacts
<1>3. i \in 1 .. N /\ RankUp(i) = idx % N
  BY <1>2, NthOK DEF SmallestFraction, RankUp, Fractions
<1> HIDE DEF i
<1>4. /\ base[i] \in Nat \ {0}
      /\ Sum(base) + remaining = request.total /\ TakeInv
  BY <1>1, <1>2, <1>3 DEF PlanInv, BaseInv, Filled
<1> DEFINE over == Sum(base') - Goal
           owes == \E j \in 1 .. N : base'[j] > 1 /\ RankUp(j) >= (idx + 1) % N
           p == idx % N
           r == idx \div N
<1>5. /\ Goal \in Nat /\ Goal >= N /\ Goal >= request.total
      /\ Over' = over /\ (Owes' <=> owes)
  BY <1>1, <1>2 DEF Goal, Over, Owes
<1>6. /\ p \in 0 .. (N - 1) /\ r \in Nat
      /\ p + 1 < N => (idx + 1) % N = p + 1 /\ (idx + 1) \div N = r
      /\ p + 1 = N => (idx + 1) % N = 0 /\ (idx + 1) \div N = r + 1
  BY <1>2, RoundStep
<1>7. \A j \in 1 .. N : RankUp(j) \in 0 .. (N - 1) /\ (RankUp(j) = RankUp(i) => j = i)
  BY <1>2, <1>3, RankOfOK DEF RankUp
<1> HIDE DEF over, owes, p, r
<1>8. /\ Filled(base') /\ remaining' \in Int /\ Sum(base') \in Nat /\ Sum(base') + remaining' = request.total
      /\ over >= 0 /\ (over > 0 => over <= N - ((idx + 1) \div N) /\ (over = N - ((idx + 1) \div N) => owes))
  <2>1. CASE base[i] > 1
    <3>1. /\ base' = [base EXCEPT ![i] = base[i] - 1] /\ base[i] - 1 \in Nat \ {0}
          /\ remaining' = remaining + 1
      BY <1>1, <1>2, <1>3, <1>4, <2>1 DEF Filled
    <3>2. Filled(base') /\ Sum(base') = Sum(base) + (base[i] - 1) - base[i]
      BY <1>2, <1>3, <3>1, FilledChange
    <3>3. Sum(base) > N /\ Over > 0
      <4>1. Sum(base) # N
        BY <1>2, <1>3, <2>1, FilledSum
      <4> QED
        BY <1>1, <1>2, <1>4, <4>1 DEF Over, Goal
    <3>4. over = Over - 1 /\ Over <= N - r
      BY <1>2, <1>4, <1>5, <3>2, <3>3 DEF TakeInv, over, Over, r
    <3>5. over > 0 => \E j \in 1 .. N : base'[j] > 1
      <4>1. Sum(base') > N => \E j \in 1 .. N : base'[j] > 1
        BY <1>2, <3>2, FilledSum
      <4> QED
        BY <1>2, <1>4, <1>5, <3>2, <4>1 DEF over
    <3>6. Over \in Int /\ over >= 0
      BY <1>2, <1>5, <3>3, <3>4 DEF Over
    <3>a. Filled(base') /\ remaining' \in Int /\ Sum(base') \in Nat /\ Sum(base') + remaining' = request.total
      <4>1. Sum(base') \in Nat
        BY <1>2, <3>2, FilledSum
      <4>2. /\ remaining \in Int /\ request.total \in Int /\ Sum(base) \in Int /\ base[i] \in Int
            /\ Sum(base) + remaining = request.total /\ remaining' = remaining + 1
            /\ Sum(base') = Sum(base) + (base[i] - 1) - base[i]
        BY <1>2, <1>4, <3>1, <3>2
      <4>3. remaining' \in Int /\ Sum(base') + remaining' = request.total
        BY <4>2
      <4> QED
        BY <3>2, <4>1, <4>3
    <3>b. over \in Int /\ over = Over - 1 /\ over <= (N - r) - 1 /\ N - r \in Int
      BY <1>2, <1>6, <3>4, <3>6
    <3>7. CASE p + 1 < N
      <4>1. (idx + 1) \div N = r
        BY <1>6, <3>7
      <4> QED
        BY <3>6, <3>a, <3>b, <4>1
    <3>8. CASE p + 1 = N
      <4>1. over > 0 => owes
        BY <1>6, <1>7, <3>5, <3>8 DEF owes
      <4> QED
        BY <1>2, <1>6, <3>6, <3>8, <3>a, <3>b, <4>1
    <3> QED
      BY <1>2, <1>6, <3>7, <3>8
  <2>2. CASE base[i] <= 1
    <3>1. base' = base /\ remaining' = remaining /\ over = Over /\ Over \in Int
      BY <1>1, <1>2, <1>4, <1>5, <2>2 DEF over, Over
    <3>2. /\ Over >= 0
          /\ Over > 0 => Over <= N - r /\ (Over = N - r => \E j \in 1 .. N : base[j] > 1 /\ RankUp(j) >= p)
      BY <1>4 DEF TakeInv, Owes, p, r
    <3>3. Over > 0 => \E j \in 1 .. N : base[j] > 1
      <4>1. Sum(base) > N => \E j \in 1 .. N : base[j] > 1
        BY <1>2, FilledSum
      <4> QED
        BY <1>2, <1>5, <4>1 DEF Over
    <3>4. \A j \in 1 .. N : base[j] > 1 => RankUp(j) \in 0 .. (N - 1) /\ RankUp(j) # p
      BY <1>3, <1>4, <1>7, <2>2 DEF p
    <3>5. CASE p + 1 < N
      <4>1. Over > 0 /\ Over = N - r => owes
        BY <1>6, <3>1, <3>2, <3>4, <3>5 DEF owes
      <4> QED
        BY <1>2, <1>4, <1>6, <3>1, <3>2, <3>5, <4>1
    <3>6. CASE p + 1 = N
      <4>1. Over > 0 => owes
        BY <1>6, <1>7, <3>1, <3>3, <3>6 DEF owes
      <4>2. Over > 0 => Over # N - r
        BY <1>2, <1>6, <3>2, <3>4, <3>6
      <4> QED
        BY <1>2, <1>4, <1>6, <3>1, <3>2, <3>6, <4>1, <4>2
    <3> QED
      BY <1>2, <1>6, <3>5, <3>6
  <2> QED
    BY <1>4, <2>1, <2>2
<1>9. TakeInv'
  BY <1>1, <1>2, <1>5, <1>8 DEF TakeInv
<1>10. BaseInv'
  BY <1>1, <1>2, <1>8, <1>9 DEF BaseInv
<1> QED
  BY <1>1, <1>10, LoopOK

\* Nothing is over when the guard ends the loop, so that what follows the
\* loops changes nothing.
LEMMA TakeDoneOK == PlanInv /\ TakeDone => PlanInv' /\ base' = base
<1> SUFFICES ASSUME PlanInv, TakeDone PROVE PlanInv' /\ base' = base
  OBVIOUS
<1>1. /\ pc = "take" /\ (remaining >= 0 \/ idx >= GuardLimit)
      /\ base' = IF remaining < 0 THEN [base EXCEPT ![N] = AtLeastOne(@ + remaining)] ELSE base
      /\ pc' = "fix" /\ request' = request /\ remaining' = remaining /\ idx' = idx /\ stages' = stages
  BY DEF TakeDone
<1>2. /\ Ready /\ Filled(base) /\ remaining \in Int /\ idx \in Nat
      /\ Sum(base) \in Nat /\ Sum(base) >= N /\ N \in 1 .. 6 /\ request.total \in Nat \ {0}
      /\ Ready' /\ Goal' = Goal
      /\ (Filled(base)' <=> Filled(base')) /\ Sum(base)' = Sum(base')
  BY <1>1, LoopFacts
<1>3. Sum(base) + remaining = request.total /\ TakeInv
  BY <1>1 DEF PlanInv, BaseInv
<1>4. Over = 0
  <2>1. CASE remaining >= 0
    BY <1>2, <1>3, <2>1 DEF TakeInv, Over, Goal
  <2>2. CASE idx >= GuardLimit
    <3>1. idx >= 36 /\ idx \div N \in Nat /\ idx \div N >= N
      <4>1. idx >= 36
        BY <1>2, <2>2, GuardAssumption
      <4> QED
        BY <1>2, <4>1, RoundStep
    <3>2. Over \in Int
      BY <1>2 DEF Over, Goal
    <3> QED
      BY <1>2, <1>3, <3>1, <3>2 DEF TakeInv
  <2> QED
    BY <1>1, <2>1, <2>2
<1>5. Sum(base) = Goal
  BY <1>2, <1>4 DEF Over, Goal
<1>6. base' = base
  <2>1. CASE remaining < 0
    <3>1. Sum(base) = N
      BY <1>2, <1>3, <1>5, <2>1 DEF Goal
    <3>2. \A j \in 1 .. N : base[j] = 1
      BY <1>2, <3>1, FilledSum
    <3>3. base[N] = 1 /\ DOMAIN base = 1 .. N
      BY <1>2, <3>2 DEF Filled
    <3>4. AtLeastOne(base[N] + remaining) = 1
      BY <1>2, <2>1, <3>3 DEF AtLeastOne
    <3>5. base' = [base EXCEPT ![N] = AtLeastOne(base[N] + remaining)]
      BY <1>1, <2>1
    <3>6. base = [j \in 1 .. N |-> base[j]]
      BY <1>2 DEF Filled
    <3> QED
      BY <3>3, <3>4, <3>5, <3>6
  <2>2. CASE ~(remaining < 0)
    BY <1>1, <2>2
  <2> QED
    BY <2>1, <2>2
<1>7. BaseInv'
  BY <1>1, <1>2, <1>5, <1>6 DEF BaseInv
<1> QED
  BY <1>1, <1>6, <1>7, LoopOK

LEMMA FixOK == PlanInv /\ FixLast => PlanInv' /\ base' = base
<1> SUFFICES ASSUME PlanInv, FixLast PROVE PlanInv' /\ base' = base
  OBVIOUS
<1>1. /\ pc = "fix" /\ base' = [base EXCEPT ![N] = AtLeastOne(LastFixed)]
      /\ pc' = "stages" /\ request' = request /\ remaining' = remaining /\ idx' = idx /\ stages' = stages
  BY DEF FixLast, FixTo
<1>2. /\ Ready /\ Filled(base) /\ remaining \in Int /\ idx \in Nat
      /\ Sum(base) \in Nat /\ Sum(base) >= N /\ N \in 1 .. 6 /\ request.total \in Nat \ {0}
      /\ Ready' /\ Goal' = Goal
      /\ (Filled(base)' <=> Filled(base')) /\ Sum(base)' = Sum(base')
  BY <1>1, LoopFacts
<1>3. Sum(base) = Goal
  BY <1>1 DEF PlanInv, BaseInv
<1>4. AtLeastOne(LastFixed) = base[N]
  <2>1. base[N] \in Nat \ {0}
    BY <1>2 DEF Filled
  <2>2. CASE request.total >= N
    BY <1>2, <1>3, <2>1, <2>2 DEF Goal, AtLeastOne, LastFixed
  <2>3. CASE request.total < N
    <3>1. Sum(base) = N
      BY <1>2, <1>3, <2>3 DEF Goal
    <3>2. base[N] = 1
      BY <1>2, <3>1, FilledSum
    <3> QED
      BY <1>2, <2>3, <3>1, <3>2 DEF AtLeastOne, LastFixed
  <2> QED
    BY <1>2, <2>2, <2>3
<1>5. base' = base
  <2>1. base = [j \in 1 .. N |-> base[j]]
    BY <1>2 DEF Filled
  <2> QED
    BY <1>1, <1>4, <2>1
<1>6. BaseInv'
  BY <1>1, <1>2, <1>3, <1>5 DEF BaseInv
<1> QED
  BY <1>1, <1>5, <1>6, LoopOK

\* The durations of the first k stages.
Prefix(b, k) == SumFunctionOnSet(b, 1 .. k)

LEMMA PrefixOK ==
  ASSUME Ready, NEW b, Filled(b), NEW k \in 0 .. N
  PROVE  Prefix(b, k) \in Int /\ Prefix(b, 0) = 0 /\ (k > 0 => Prefix(b, k) = Prefix(b, k - 1) + b[k])
<1>1. N \in 1 .. 6 /\ \A i \in 1 .. N : b[i] \in Int
  BY ReadyOK DEF Filled
<1>2. k \in Int /\ 1 \in Int /\ k - 1 \in Int /\ k \in Nat
  BY <1>1
<1>3. IsFiniteSet(1 .. k) /\ IsFiniteSet(1 .. k - 1)
  BY <1>2, FS_Interval
<1>4. \A i \in 1 .. k : b[i] \in Int
  BY <1>1, <1>2
<1>5. Prefix(b, k) \in Int
  BY <1>3, <1>4, SumType DEF Prefix
<1>6. Prefix(b, 0) = 0
  BY SumOfNone, 1 .. 0 = {} DEF Prefix
<1>7. ASSUME k > 0 PROVE Prefix(b, k) = Prefix(b, k - 1) + b[k]
  <2>1. k \notin 1 .. k - 1 /\ (1 .. k - 1) \cup {k} = 1 .. k
    BY <1>2, <1>7
  <2>2. \A i \in (1 .. k - 1) \cup {k} : b[i] \in Int
    BY <1>4, <2>1
  <2>3. /\ SumFunctionOnSet(b, 1 .. k - 1) \in Int
        /\ SumFunctionOnSet(b, (1 .. k - 1) \cup {k}) = b[k] + SumFunctionOnSet(b, 1 .. k - 1)
    BY <1>3, <2>1, <2>2, SumOfMore
  <2>4. b[k] \in Int
    BY <1>4, <1>7, <1>2
  <2> QED
    <3>1. SumFunctionOnSet(b, 1 .. k) = b[k] + SumFunctionOnSet(b, 1 .. k - 1)
      BY <2>1, <2>3, Zenon
    <3> QED
      BY <2>3, <2>4, <3>1 DEF Prefix
<1> QED
  BY <1>5, <1>6, <1>7

LEMMA StageOK == PlanInv /\ AddStage => PlanInv'
<1> SUFFICES ASSUME PlanInv, AddStage PROVE PlanInv'
  OBVIOUS
<1> DEFINE n == Len(stages)
           stage == [offset |-> Offset, duration |-> base[n + 1]]
<1>1. /\ pc = "stages" /\ n < N /\ pc' = "stages" /\ request' = request /\ base' = base
      /\ remaining' = remaining /\ idx' = idx
      /\ stages' = Append(stages, stage)
  BY DEF AddStage, StageAt
<1>2. /\ Ready /\ Filled(base) /\ remaining \in Int /\ idx \in Nat /\ N \in 1 .. 6
      /\ N' = N /\ Ready' /\ Goal' = Goal
      /\ (Filled(base)' <=> Filled(base')) /\ Sum(base)' = Sum(base')
  BY <1>1, LoopFacts
<1>3. /\ stages \in Seq([offset : Int, duration : Int]) /\ n \in Nat
      /\ \A k \in 1 .. n : stages[k].duration = base[k] /\ stages[k].offset = Prefix(base, k - 1)
  BY <1>1 DEF PlanInv, StagesInv, Prefix
<1>4. Offset = Prefix(base, n) /\ Prefix(base, n) \in Int /\ base[n + 1] \in Int
  <2>1. n \in 0 .. N /\ n + 1 \in 1 .. N
    BY <1>1, <1>2, <1>3
  <2>2. Prefix(base, n) \in Int /\ Prefix(base, 0) = 0 /\ (n > 0 => Prefix(base, n) = Prefix(base, n - 1) + base[n])
    BY <1>2, <2>1, PrefixOK
  <2>3. Offset = IF n = 0 THEN 0 ELSE stages[n].offset + stages[n].duration
    BY DEF Offset
  <2>6. base[n + 1] \in Int
    BY <1>2, <2>1 DEF Filled
  <2>4. CASE n = 0
    BY <2>2, <2>3, <2>4, <2>6
  <2>5. CASE n > 0
    BY <1>3, <2>2, <2>3, <2>5, <2>6
  <2> QED
    BY <1>3, <2>2, <2>4, <2>5, <2>6
<1>5. stage \in [offset : Int, duration : Int]
  BY <1>4
<1> HIDE DEF stage
<1>6. /\ stages' \in Seq([offset : Int, duration : Int]) /\ Len(stages') = n + 1
      /\ \A k \in 1 .. n : stages'[k] = stages[k]
      /\ stages'[n + 1] = stage
  BY <1>1, <1>3, <1>5
<1>7. stage.offset = Prefix(base, n) /\ stage.duration = base[n + 1]
  BY <1>4 DEF stage
<1>8. \A k \in 1 .. Len(stages') :
        stages'[k].duration = base[k] /\ stages'[k].offset = Prefix(base, k - 1)
  <2> SUFFICES ASSUME NEW k \in 1 .. Len(stages')
               PROVE  stages'[k].duration = base[k] /\ stages'[k].offset = Prefix(base, k - 1)
    OBVIOUS
  <2>1. CASE k = n + 1
    BY <1>3, <1>6, <1>7, <2>1
  <2>2. CASE k \in 1 .. n
    BY <1>3, <1>6, <2>2
  <2> QED
    BY <1>3, <1>6, <2>1, <2>2
<1>9. StagesInv'
  BY <1>1, <1>2, <1>3, <1>6, <1>8 DEF StagesInv, Prefix
<1>10. BaseInv'
  BY <1>1, <1>2 DEF PlanInv, BaseInv
<1> QED
  BY <1>1, <1>9, <1>10 DEF PlanInv

LEMMA FinishOK == PlanInv /\ Finish => PlanInv'
<1> SUFFICES ASSUME PlanInv, Finish PROVE PlanInv'
  OBVIOUS
<1>1. /\ pc = "stages" /\ Len(stages) = N /\ pc' = "done" /\ request' = request /\ base' = base
      /\ remaining' = remaining /\ idx' = idx /\ stages' = stages
  BY DEF Finish
<1>2. /\ Ready /\ Filled(base) /\ remaining \in Int /\ idx \in Nat
      /\ N' = N /\ Ready' /\ Goal' = Goal
      /\ (Filled(base)' <=> Filled(base')) /\ Sum(base)' = Sum(base')
  BY <1>1, LoopFacts
<1>3. StagesInv'
  BY <1>1, <1>2 DEF PlanInv, StagesInv
<1>4. BaseInv'
  BY <1>1, <1>2 DEF PlanInv, BaseInv
<1> QED
  BY <1>1, <1>3, <1>4 DEF PlanInv

LEMMA StutterOK == PlanInv /\ UNCHANGED vars => PlanInv'
<1> SUFFICES ASSUME PlanInv, UNCHANGED vars PROVE PlanInv'
  OBVIOUS
<1>1. /\ pc' = pc /\ request' = request /\ base' = base
      /\ remaining' = remaining /\ idx' = idx /\ stages' = stages
  BY DEF vars
<1>2. CASE pc \in {"request", "refused"}
  BY <1>1, <1>2 DEF PlanInv
<1>3. CASE pc \notin {"request", "refused"}
  <2>1. /\ N' = N /\ Ready' /\ Goal' = Goal /\ (Filled(base)' <=> Filled(base')) /\ Sum(base)' = Sum(base')
        /\ \A i : RankUp(i)' = RankUp(i)
    BY <1>1, <1>3, LoopFacts
  <2>2. StagesInv'
    BY <1>1, <1>3, <2>1 DEF PlanInv, StagesInv
  <2>3. TakeInv' <=> TakeInv
    BY <1>1, <2>1 DEF TakeInv, Over, Owes
  <2>4. BaseInv'
    BY <1>1, <1>3, <2>1, <2>3 DEF PlanInv, BaseInv
  <2> QED
    BY <1>1, <2>2, <2>4 DEF PlanInv
<1> QED
  BY <1>2, <1>3

THEOREM PlanInvHolds == Spec => []PlanInv
<1>1. PlanInv /\ [Next]_vars => PlanInv'
  BY RefuseOK, OneStageOK, AllocateOK, GiveOK, GiveDoneOK, TakeOK, TakeDoneOK, FixOK, StageOK,
     FinishOK, StutterOK DEF Next, Returned
<1> QED
  BY InitOK, <1>1, PTL DEF Spec

\* However long the test and whatever its kind: no stage is ever empty, the
\* stages of a finished plan follow one another without gap or overlap, and
\* together they last what was requested, or a second each when that is more.
THEOREM FillsTheTimeCorrect == Spec => []FillsTheTime
<1>1. PlanInv => FillsTheTime
  <2> SUFFICES ASSUME PlanInv PROVE FillsTheTime
    OBVIOUS
  <2>1. NoEmptyStage
    <3>1. CASE base = <<>>
      BY <3>1 DEF NoEmptyStage
    <3>2. CASE Filled(base)
      BY <3>2 DEF NoEmptyStage, Filled
    <3> QED
      BY <3>1, <3>2 DEF PlanInv, BaseInv
  <2>2. ASSUME pc = "done", NEW k \in 1 .. N
        PROVE  stages[k].offset = Sum([i \in 1 .. k - 1 |-> stages[i].duration])
    <3> DEFINE durations == [i \in 1 .. k - 1 |-> stages[i].duration]
    <3>1. /\ Filled(base) /\ Len(stages) = N /\ N \in 1 .. 6
          /\ \A i \in 1 .. N : stages[i].duration = base[i]
          /\ stages[k].offset = SumFunctionOnSet(base, 1 .. k - 1)
      BY <2>2, ReadyOK DEF PlanInv, BaseInv, StagesInv
    <3>2. k - 1 \in Int /\ \A i \in 1 .. k - 1 : i \in 1 .. N
      BY <3>1
    <3>3. IsFiniteSet(1 .. k - 1)
      BY <3>2, FS_Interval
    <3>4. \A i \in 1 .. k - 1 : base[i] \in Int /\ base[i] = durations[i]
      BY <3>1, <3>2 DEF Filled
    <3>5. DOMAIN durations = 1 .. k - 1
      OBVIOUS
    <3> HIDE DEF durations
    <3>6. SumFunctionOnSet(base, 1 .. k - 1) = SumFunctionOnSet(durations, 1 .. k - 1)
      BY <3>3, <3>4, SumSame
    <3>7. Sum(durations) = SumFunctionOnSet(durations, 1 .. k - 1)
      BY <3>5, SumIsSum
    <3> QED
      BY <3>1, <3>6, <3>7 DEF durations
  <2>3. pc = "done" => Sum(base) = Goal
    BY DEF PlanInv, BaseInv
  <2> QED
    BY <2>1, <2>2, <2>3 DEF FillsTheTime, Goal
<1> QED
  BY <1>1, PlanInvHolds, PTL

(***************************************************************************)
(* How near the durations are to the shares.                               *)
(***************************************************************************)
First       == [i \in 1 .. N |-> AtLeastOne(Whole(i))]
Down        == [i \in 1 .. N |-> -Fraction(i)]
RankDown(i) == RankOf(Down, i)
Left        == request.total - Sum(First)
Ample       == \A i \in 1 .. N : Whole(i) >= 1

Same(i, k)  == Templates[i].pattern = Templates[k].pattern
Given(m)    == [i \in 1 .. N |-> IF RankDown(i) < m THEN First[i] + 1 ELSE First[i]]

\* Stages of one pattern are at most a second apart; and with a second for
\* every stage none is a second or more from its share.
Alike(b)      == \A i, k \in 1 .. N : Same(i, k) => b[i] - b[k] \in -1 .. 1
NearShares(b) ==
  Ample => \A i \in 1 .. N : /\ b[i] * WeightSum < Scaled(i) + WeightSum
                             /\ b[i] * WeightSum > Scaled(i) - WeightSum

LEMMA TimesOK ==
  ASSUME NEW w \in Nat \ {0}, NEW a \in Int, NEW b \in Int
  PROVE  /\ w * a < w * b => a < b
         /\ a < b => w * a < w * b
         /\ w * (a + 1) = w * a + w /\ a * w = w * a /\ (a + 1) * w = w * a + w
<1>1. w * (a + 1) = w * a + w /\ a * w = w * a /\ (a + 1) * w = w * a + w
  OBVIOUS
<1>2. w * a < w * b => a < b
  OBVIOUS
<1>3. a < b => w * a < w * b
  OBVIOUS
<1> QED
  BY <1>1, <1>2, <1>3

LEMMA DownOK ==
  ASSUME Ready
  PROVE  /\ Down \in [1 .. N -> Int] /\ Fractions \in [1 .. N -> Int]
         /\ Filled(First) /\ First = [i \in 1 .. N |-> AtLeastOne(Whole(i))]
         /\ \A i \in 1 .. N : RankDown(i) \in 0 .. (N - 1) /\ RankUp(i) \in 0 .. (N - 1)
<1>1. \A i \in 1 .. N : Fraction(i) \in Int
  BY ShareOK, WeightsOK
<1>2. Down \in [1 .. N -> Int] /\ Fractions \in [1 .. N -> Int]
  BY <1>1 DEF Down, Fractions
<1> QED
  BY <1>2, RankOfOK, FirstBase DEF RankDown, RankUp, First

\* What is left once every stage has its whole seconds is less than a second
\* per stage.
LEMMA LeftOK ==
  ASSUME Ready
  PROVE  /\ Left \in Int /\ Left < N
         /\ Ample => Left \in Nat /\ WeightSum * Left = SumFunctionOnSet(Fractions, 1 .. N)
<1> DEFINE sum(f) == SumFunctionOnSet(f, 1 .. N)
           rest == request.total - sum(Wholes)
<1>1. /\ IsFiniteSet(1 .. N) /\ N \in 1 .. 6 /\ WeightSum \in Nat \ {0} /\ request.total \in Nat
      /\ Sum(First) = sum(First) /\ sum(First) \in Nat
  BY StagesFinite, WeightsOK, ReadyOK, DownOK, FilledSum
<1>2. /\ sum(Wholes) \in Nat /\ sum(Fractions) \in Nat /\ sum(Wholes) <= request.total
      /\ WeightSum * request.total = WeightSum * sum(Wholes) + sum(Fractions)
  BY SharesAddUp
<1>3. \A i \in 1 .. N : /\ Wholes[i] = Whole(i) /\ Whole(i) \in Nat /\ First[i] = AtLeastOne(Whole(i))
                        /\ Fractions[i] \in 0 .. (WeightSum - 1)
  BY ShareOK DEF Wholes, First, Fractions
<1>4. sum(Wholes) <= sum(First)
  <2>1. \A i \in 1 .. N : Wholes[i] \in Int /\ First[i] \in Int /\ Wholes[i] <= First[i]
    BY <1>3 DEF AtLeastOne
  <2> QED
    BY <1>1, <2>1, SumAtMost
<1>5. sum(Fractions) <= (WeightSum - 1) * N
  <2>1. WeightSum - 1 \in Int
    BY <1>1
  <2>2. \A i \in 1 .. N : /\ Fractions[i] \in Int /\ Even(WeightSum - 1)[i] \in Int
                          /\ Fractions[i] <= Even(WeightSum - 1)[i]
    BY <1>1, <1>3 DEF Even
  <2>3. sum(Fractions) <= sum(Even(WeightSum - 1))
    BY <1>1, <2>2, SumAtMost
  <2>4. sum(Even(WeightSum - 1)) = (WeightSum - 1) * N
    BY <2>1, SumOfEven
  <2> QED
    BY <2>3, <2>4
<1>6. Ample => sum(Wholes) = sum(First)
  <2> SUFFICES ASSUME Ample PROVE sum(Wholes) = sum(First)
    OBVIOUS
  <2>1. \A i \in 1 .. N : Wholes[i] \in Int /\ Wholes[i] = First[i]
    BY <1>3 DEF Ample, AtLeastOne
  <2> QED
    BY <1>1, <2>1, SumSame
<1>7. Left = request.total - sum(First)
  BY <1>1 DEF Left
<1> HIDE DEF sum
<1>8. rest \in Nat /\ WeightSum * rest = sum(Fractions)
  <2>1. WeightSum * rest = WeightSum * request.total - WeightSum * sum(Wholes)
    BY <1>1, <1>2
  <2> QED
    BY <1>1, <1>2, <2>1
<1>9. rest < N
  <2>1. (WeightSum - 1) * N < WeightSum * N
    BY <1>1
  <2>2. WeightSum * rest < WeightSum * N
    BY <1>1, <1>2, <1>5, <1>8, <2>1
  <2> QED
    BY <1>1, <1>8, <2>2, TimesOK
<1>10. Left \in Int /\ Left < N
  <2>1. sum(First) \in Int /\ sum(Wholes) \in Int /\ request.total \in Int /\ N \in Int
    BY <1>1, <1>2
  <2>2. Left \in Int /\ Left <= rest
    BY <1>4, <1>7, <2>1
  <2> QED
    BY <1>8, <1>9, <2>1, <2>2
<1>11. Ample => Left = rest
  BY <1>6, <1>7
<1> QED
  BY <1>8, <1>10, <1>11 DEF sum

\* A stage that gets one of the seconds left has a fraction.
LEMMA GivenHasFraction ==
  ASSUME Ready, Ample, NEW i \in 1 .. N, RankDown(i) < Left
  PROVE  Fraction(i) > 0
<1> SUFFICES ASSUME Fraction(i) = 0 PROVE FALSE
  BY ShareOK, WeightsOK
<1> DEFINE A == Below(1 .. N, KeyOrder(Down), i)
           m == RankDown(i)
           W == WeightSum
           f == [j \in 1 .. N |-> IF j \in A THEN W ELSE 0]
<1>1. /\ IsFiniteSet(1 .. N) /\ N \in 1 .. 6 /\ W \in Nat \ {0} /\ m \in Nat /\ Left \in Nat
      /\ W * Left = SumFunctionOnSet(Fractions, 1 .. N)
  BY StagesFinite, WeightsOK, DownOK, LeftOK
<1>2. \A j \in 1 .. N : Fraction(j) \in 0 .. (W - 1) /\ (j \notin A => Fraction(j) = 0)
  <2>1. \A j \in 1 .. N : Fraction(j) \in 0 .. (W - 1) /\ Down[j] = -Fraction(j)
    BY ShareOK DEF Down
  <2>2. ASSUME NEW j \in 1 .. N, j \notin A PROVE ~(Down[j] < Down[i])
    BY <2>2 DEF Below, KeyOrder
  <2> QED
    BY <1>1, <2>1, <2>2
<1>3. (1 .. N) \cap A = A /\ Cardinality(A) = m
  BY DEF Below, RankDown, RankOf, Rank
<1> HIDE DEF A, m, W
<1>4. \A j \in 1 .. N : f[j] = IF j \in A THEN W ELSE 0
  OBVIOUS
<1>5. \A j \in 1 .. N : Fractions[j] \in Int /\ f[j] \in Int /\ Fractions[j] <= f[j]
  BY <1>1, <1>2, <1>4 DEF Fractions
<1> HIDE DEF f
<1>6. SumFunctionOnSet(f, 1 .. N) = W * Cardinality((1 .. N) \cap A)
  <2>1. W \in Int
    BY <1>1
  <2> QED
    BY <1>1, <1>4, <2>1, SumOnPart
<1>7. SumFunctionOnSet(Fractions, 1 .. N) <= SumFunctionOnSet(f, 1 .. N)
  BY <1>1, <1>5, SumAtMost
<1>8. W * Left <= W * m
  BY <1>1, <1>3, <1>6, <1>7
<1>9. m < Left
  BY DEF m
<1>10. W * m < W * Left
  BY <1>1, <1>9, TimesOK
<1> QED
  BY <1>1, <1>8, <1>10

\* Stages of one pattern have the same share.
LEMMA SameShare ==
  ASSUME Ready, NEW i \in 1 .. N, NEW k \in 1 .. N, Same(i, k)
  PROVE  Whole(i) = Whole(k) /\ Fraction(i) = Fraction(k) /\ First[i] = First[k]
<1>1. Templates[i].weight = Templates[k].weight
  BY TemplatesOK DEF Ready, LayoutOK, N, Same
<1> QED
  BY <1>1 DEF Whole, Fraction, Scaled, First

LEMMA GivenAlike ==
  ASSUME Ready, NEW m \in Int
  PROVE  Alike(Given(m))
<1> SUFFICES ASSUME NEW i \in 1 .. N, NEW k \in 1 .. N, Same(i, k)
             PROVE  Given(m)[i] - Given(m)[k] \in -1 .. 1
  BY DEF Alike
<1>1. First[i] = First[k] /\ First[i] \in Int
  BY SameShare, DownOK DEF Filled
<1> QED
  BY <1>1 DEF Given

LEMMA GivenNear ==
  ASSUME Ready
  PROVE  NearShares(Given(Left))
<1> SUFFICES ASSUME Ample, NEW i \in 1 .. N
             PROVE  /\ Given(Left)[i] * WeightSum < Scaled(i) + WeightSum
                    /\ Given(Left)[i] * WeightSum > Scaled(i) - WeightSum
  BY DEF NearShares
<1>1. /\ Whole(i) \in Nat /\ Whole(i) >= 1 /\ WeightSum \in Nat \ {0}
      /\ Fraction(i) \in 0 .. (WeightSum - 1) /\ Scaled(i) = WeightSum * Whole(i) + Fraction(i)
      /\ RankDown(i) \in Nat /\ Left \in Int
  BY ShareOK, WeightsOK, DownOK, LeftOK DEF Ample
<1>2. First[i] = Whole(i)
  BY <1>1 DEF First, AtLeastOne
<1>3. /\ Whole(i) * WeightSum = WeightSum * Whole(i)
      /\ (Whole(i) + 1) * WeightSum = WeightSum * Whole(i) + WeightSum
      /\ WeightSum * Whole(i) \in Int
  BY <1>1, TimesOK
<1>4. CASE RankDown(i) < Left
  <2>1. Given(Left)[i] = Whole(i) + 1
    BY <1>2, <1>4 DEF Given
  <2>2. Fraction(i) > 0
    BY <1>4, GivenHasFraction
  <2> QED
    BY <1>1, <1>3, <2>1, <2>2
<1>5. CASE ~(RankDown(i) < Left)
  <2>1. Given(Left)[i] = Whole(i)
    BY <1>2, <1>5 DEF Given
  <2> QED
    BY <1>1, <1>3, <2>1
<1> QED
  BY <1>4, <1>5

\* A request that names a pattern has one stage, and that is its share.
LEMMA AloneOK ==
  ASSUME Ready, N = 1, request.kind # "isolated", request.pattern # NoPattern
  PROVE  Alike(<<request.total>>) /\ NearShares(<<request.total>>)
<1>1. request.total \in Nat \ {0} /\ Templates = <<Template(request.pattern, 1)>>
  BY ReadyOK DEF Templates
<1>2. WeightSum = 1
  <2>1. [i \in 1 .. N |-> Templates[i].weight] = Even(1)
    BY <1>1 DEF Even, Template
  <2>2. DOMAIN Even(1) = 1 .. N
    BY DEF Even
  <2>3. SumFunctionOnSet(Even(1), 1 .. N) = 1 * N
    BY SumOfEven
  <2> QED
    BY <2>1, <2>2, <2>3, SumIsSum DEF WeightSum
<1>3. Scaled(1) = request.total
  BY <1>1 DEF Scaled, Template
<1> QED
  BY <1>1, <1>2, <1>3 DEF Alike, NearShares

\* Two stages of a pattern while seconds are taken back: the later one is
\* reached later in a round, until then it may be a second ahead.
TakeAlike ==
  \A i, k \in 1 .. N : Same(i, k) /\ i < k =>
    base[i] = IF RankUp(i) < idx % N /\ idx % N <= RankUp(k) THEN AtLeastOne(base[k] - 1) ELSE base[k]

\* What build_task left in the tables comes from a stage of the same pattern.
SharedOK ==
  \A k \in 1 .. Len(stages) : \A s \in TasksOf(k) : \E j \in 1 .. Len(stages) :
    Same(j, k) /\ shared[<<s, Templates[k].pattern>>] = base[j]

NearInv ==
  /\ DOMAIN shared = Subsystems \X Patterns
  /\ pc = "give" => idx + remaining = Left /\ base = Given(idx)
  /\ pc = "take" => TakeAlike /\ ~Ample
  /\ pc \in {"fix", "stages", "done"} => Alike(base) /\ NearShares(base)
  /\ pc \in {"stages", "done"} /\ request.kind # "diagnostic" => SharedOK

LEMMA SameShares ==
  ASSUME request' = request
  PROVE  /\ N' = N /\ Left' = Left /\ (Ample' <=> Ample) /\ Ready' = Ready
         /\ \A m : Given(m)' = Given(m)
         /\ \A i, k : Same(i, k)' <=> Same(i, k)
         /\ \A i : RankUp(i)' = RankUp(i) /\ TasksOf(i)' = TasksOf(i) /\ Templates[i]' = Templates[i]
         /\ \A b : (Alike(b)' <=> Alike(b)) /\ (NearShares(b)' <=> NearShares(b))
<1>1. /\ Templates' = Templates /\ N' = N /\ Ready' = Ready /\ WeightSum' = WeightSum
      /\ \A i : RankUp(i)' = RankUp(i)
  BY SameRequest
<1>2. \A i : Scaled(i)' = Scaled(i) /\ Whole(i)' = Whole(i) /\ Fraction(i)' = Fraction(i)
  BY <1>1 DEF Scaled, Whole, Fraction
<1>3. First' = First /\ Down' = Down /\ (Ample' <=> Ample)
  <2>1. First' = First
    BY <1>1, <1>2 DEF First, AtLeastOne
  <2>2. Down' = Down
    BY <1>1, <1>2 DEF Down
  <2>3. Ample' <=> Ample
    BY <1>1, <1>2 DEF Ample
  <2> QED
    BY <2>1, <2>2, <2>3
<1>4. \A i : RankDown(i)' = RankDown(i)
  BY <1>1, <1>3 DEF RankDown, RankOf, Rank, Below, KeyOrder
<1>5. Left' = Left
  <2>1. Sum(First)' = Sum(First')
    OBVIOUS
  <2> QED
    BY <1>3, <2>1 DEF Left
<1>6. \A m : Given(m)' = Given(m)
  BY <1>1, <1>3, <1>4 DEF Given
<1>7. \A i, k : Same(i, k)' <=> Same(i, k)
  BY <1>1 DEF Same
<1>8. \A b : Alike(b)' <=> Alike(b)
  BY <1>1, <1>7 DEF Alike
<1>9. \A b : NearShares(b)' <=> NearShares(b)
  BY <1>1, <1>2, <1>3 DEF NearShares
<1>10. \A i : TasksOf(i)' = TasksOf(i) /\ Templates[i]' = Templates[i]
  BY <1>1 DEF TasksOf
<1> QED
  BY <1>1, <1>3, <1>5, <1>6, <1>7, <1>8, <1>9, <1>10

\* A step of the loops, with the durations it leaves.
LEMMA NearStep ==
  ASSUME NearInv, request' = request, shared' = shared,
         pc' \notin {"stages", "done"} \/ request.kind = "diagnostic" \/ stages' = <<>>,
         pc' = "give" => idx' + remaining' = Left /\ base' = Given(idx'),
         pc' = "take" => TakeAlike' /\ ~Ample,
         pc' \in {"fix", "stages", "done"} => Alike(base') /\ NearShares(base')
  PROVE  NearInv'
<1>1. /\ Left' = Left /\ (Ample' <=> Ample)
      /\ \A m : Given(m)' = Given(m)
      /\ \A b : (Alike(b)' <=> Alike(b)) /\ (NearShares(b)' <=> NearShares(b))
  BY SameShares
<1>2. stages' = <<>> => SharedOK'
  BY DEF SharedOK
<1>3. Given(idx)' = Given(idx')
  BY <1>1 DEF Given
<1>4. (Alike(base)' <=> Alike(base')) /\ (NearShares(base)' <=> NearShares(base'))
  BY <1>1 DEF Alike, NearShares
<1>5. DOMAIN shared' = Subsystems \X Patterns
  BY DEF NearInv
<1> QED
  BY <1>1, <1>2, <1>3, <1>4, <1>5 DEF NearInv

LEMMA NearOneStage == PlanInv /\ NearInv /\ OneStage => NearInv'
<1> SUFFICES ASSUME PlanInv, NearInv, OneStage PROVE NearInv'
  OBVIOUS
<1>1. /\ pc = "request" /\ Valid /\ request.kind # "isolated" /\ request.pattern # NoPattern
      /\ base' = <<request.total>> /\ pc' = "stages" /\ request' = request /\ stages' = stages /\ shared' = shared
  BY DEF OneStage
<1>2. Ready /\ stages' = <<>>
  BY <1>1 DEF PlanInv, Ready
<1>3. N = 1
  BY <1>1 DEF N, Templates
<1>4. Alike(base') /\ NearShares(base')
  BY <1>1, <1>2, <1>3, AloneOK
<1> QED
  BY <1>1, <1>2, <1>4, NearStep

LEMMA NearAllocate == PlanInv /\ NearInv /\ Allocate => NearInv'
<1> SUFFICES ASSUME PlanInv, NearInv, Allocate PROVE NearInv'
  OBVIOUS
<1>1. /\ pc = "request" /\ Valid
      /\ base' = [i \in 1 .. N |-> AtLeastOne(Whole(i))]
      /\ remaining' = request.total - Sum(base')
      /\ pc' = IF remaining' > 0 THEN "give" ELSE IF remaining' < 0 THEN "take" ELSE "fix"
      /\ request' = request /\ idx' = idx /\ stages' = stages /\ shared' = shared
  BY DEF Allocate
<1>2. Ready /\ stages' = <<>> /\ idx' = 0
  BY <1>1 DEF PlanInv, Ready
<1>3. base' = First /\ remaining' = Left
  BY <1>1 DEF First, Left
<1>4. /\ N \in 1 .. 6 /\ Left \in Int /\ Left < N /\ (Ample => Left \in Nat)
      /\ Filled(First) /\ \A i \in 1 .. N : RankDown(i) \in 0 .. (N - 1) /\ RankUp(i) \in 0 .. (N - 1)
  BY <1>2, LeftOK, ReadyOK, DownOK
<1>5. Given(0) = First
  <2>1. First = [i \in 1 .. N |-> First[i]]
    BY <1>4 DEF Filled
  <2> QED
    BY <1>4, <2>1 DEF Given
<1>6. pc' = "give" => idx' + remaining' = Left /\ base' = Given(idx')
  BY <1>2, <1>3, <1>4, <1>5
<1>7. pc' = "take" => TakeAlike' /\ ~Ample
  <2> SUFFICES ASSUME pc' = "take" PROVE TakeAlike' /\ ~Ample
    OBVIOUS
  <2>1. ~Ample
    BY <1>1, <1>3, <1>4
  <2>2. \A i, k \in 1 .. N : Same(i, k) => base'[i] = base'[k]
    BY <1>2, <1>3, SameShare
  <2>3. idx' % N = 0
    BY <1>2, <1>4
  <2>4. \A i \in 1 .. N : ~(RankUp(i) < 0)
    BY <1>4
  <2>5. N' = N /\ \A i, k : (RankUp(i)' = RankUp(i)) /\ (Same(i, k)' <=> Same(i, k))
    BY <1>1, SameShares
  <2>6. TakeAlike'
    BY <2>2, <2>3, <2>4, <2>5 DEF TakeAlike
  <2> QED
    BY <2>1, <2>6
<1>8. pc' = "fix" => Alike(base') /\ NearShares(base')
  <2> SUFFICES ASSUME pc' = "fix" PROVE Alike(base') /\ NearShares(base')
    OBVIOUS
  <2>1. Left = 0
    BY <1>1, <1>3, <1>4
  <2> QED
    BY <1>2, <1>3, <1>5, <2>1, GivenAlike, GivenNear
<1>9. pc' \in {"give", "take", "fix"}
  BY <1>1
<1> QED
  BY <1>1, <1>2, <1>6, <1>7, <1>8, <1>9, NearStep

LEMMA NearGive == PlanInv /\ NearInv /\ GiveSecond => NearInv'
<1> SUFFICES ASSUME PlanInv, NearInv, GiveSecond PROVE NearInv'
  OBVIOUS
<1> DEFINE i == LargestFraction(idx)
<1>1. /\ pc = "give" /\ remaining > 0 /\ pc' = "give" /\ request' = request /\ stages' = stages
      /\ base' = [base EXCEPT ![i] = @ + 1] /\ remaining' = remaining - 1 /\ idx' = idx + 1
      /\ shared' = shared
  BY DEF GiveSecond, GiveTo
<1>2. Ready /\ Filled(base) /\ remaining \in Int /\ idx \in Nat /\ N \in 1 .. 6
  BY <1>1, LoopFacts
<1>3. /\ idx + remaining = Left /\ base = Given(idx) /\ Left \in Int /\ Left < N
      /\ Down \in [1 .. N -> Int] /\ Filled(First)
  BY <1>1, <1>2, LeftOK, DownOK DEF NearInv
<1>4. i \in 1 .. N /\ RankDown(i) = idx
  <2>1. i \in 1 .. N /\ RankDown(i) = idx % N
    BY <1>2, <1>3, NthOK DEF LargestFraction, RankDown, Down
  <2>2. idx < N
    BY <1>1, <1>2, <1>3
  <2>3. idx % N = idx
    BY <1>2, <2>2
  <2> QED
    BY <2>1, <2>3
<1>5. \A j \in 1 .. N : RankDown(j) \in Nat /\ (RankDown(j) = RankDown(i) => j = i) /\ First[j] \in Int
  <2>1. \A j \in 1 .. N : First[j] \in Int
    BY <1>3 DEF Filled
  <2>2. ASSUME NEW j \in 1 .. N
        PROVE  RankDown(j) \in 0 .. (N - 1) /\ (RankDown(j) = RankDown(i) => j = i)
    BY <1>2, <1>3, <1>4, RankOfOK DEF RankDown
  <2> QED
    BY <1>2, <2>1, <2>2
<1> HIDE DEF i
<1>6. base' = Given(idx + 1)
  <2>1. ASSUME NEW j \in 1 .. N PROVE base'[j] = Given(idx + 1)[j]
    <3>1. CASE j = i
      BY <1>1, <1>2, <1>3, <1>4, <1>5, <3>1 DEF Given
    <3>2. CASE j # i
      <4>1. RankDown(j) < idx + 1 <=> RankDown(j) < idx
        BY <1>2, <1>4, <1>5, <3>2
      <4>2. base'[j] = base[j]
        BY <1>1, <1>2, <3>2 DEF Filled
      <4> QED
        BY <1>3, <4>1, <4>2 DEF Given
    <3> QED
      BY <3>1, <3>2
  <2>2. base' = [j \in 1 .. N |-> base'[j]]
    BY <1>1, <1>2 DEF Filled
  <2>3. Given(idx + 1) = [j \in 1 .. N |-> Given(idx + 1)[j]]
    BY DEF Given
  <2> QED
    BY <2>1, <2>2, <2>3
<1>7. idx' + remaining' = Left
  BY <1>1, <1>2, <1>3
<1> QED
  BY <1>1, <1>6, <1>7, NearStep

LEMMA NearGiveDone == PlanInv /\ NearInv /\ GiveDone => NearInv'
<1> SUFFICES ASSUME PlanInv, NearInv, GiveDone PROVE NearInv'
  OBVIOUS
<1>1. /\ pc = "give" /\ remaining <= 0 /\ pc' = "fix" /\ request' = request /\ stages' = stages
      /\ base' = base /\ shared' = shared
  BY DEF GiveDone
<1>2. Ready /\ remaining \in Int /\ idx \in Nat /\ remaining >= 0
  BY <1>1, LoopFacts DEF PlanInv, BaseInv
<1>3. idx + remaining = Left /\ base = Given(idx)
  BY <1>1 DEF NearInv
<1>4. idx = Left
  BY <1>1, <1>2, <1>3
<1>5. Alike(base') /\ NearShares(base')
  BY <1>1, <1>2, <1>3, <1>4, GivenAlike, GivenNear
<1> QED
  BY <1>1, <1>5, NearStep

\* From place p of a round to the next, only what is at p changes sides.
LEMMA NextBetween ==
  ASSUME NEW n \in Nat, NEW u \in Nat, NEW v \in Nat, NEW p \in Nat, NEW q \in Nat,
         u < v, v < n, u # p, v # p, p < n, p + 1 < n => q = p + 1, p + 1 = n => q = 0
  PROVE  u < q /\ q <= v <=> u < p /\ p <= v
OBVIOUS

LEMMA NearTake == PlanInv /\ NearInv /\ TakeSecond => NearInv'
<1> SUFFICES ASSUME PlanInv, NearInv, TakeSecond PROVE NearInv'
  OBVIOUS
<1> DEFINE m == SmallestFraction(idx)
           p == idx % N
           q == (idx + 1) % N
<1>1. /\ pc = "take" /\ remaining < 0 /\ pc' = "take" /\ request' = request /\ stages' = stages
      /\ idx' = idx + 1 /\ shared' = shared
      /\ \/ base[m] > 1 /\ base' = [base EXCEPT ![m] = @ - 1]
         \/ base[m] <= 1 /\ base' = base
  BY DEF TakeSecond, TakeFrom
<1>2. /\ Ready /\ Filled(base) /\ idx \in Nat /\ N \in 1 .. 6 /\ Fractions \in [1 .. N -> Int]
      /\ TakeAlike /\ ~Ample
  BY <1>1, LoopFacts DEF NearInv
<1>3. m \in 1 .. N /\ RankUp(m) = p
  BY <1>2, NthOK DEF SmallestFraction, RankUp, Fractions
<1>4. /\ p \in 0 .. (N - 1)
      /\ p + 1 < N => q = p + 1
      /\ p + 1 = N => q = 0
  BY <1>2, RoundStep
<1> HIDE DEF m, p, q
<1>5. /\ base'[m] = AtLeastOne(base[m] - 1) /\ \A j \in 1 .. N : j # m => base'[j] = base[j]
      /\ \A j \in 1 .. N : base[j] \in Nat \ {0}
  <2>1. \A j \in 1 .. N : base[j] \in Nat \ {0} /\ j \in DOMAIN base
    BY <1>2 DEF Filled
  <2>2. CASE base[m] > 1
    <3>1. base' = [base EXCEPT ![m] = base[m] - 1]
      BY <1>1, <2>2, <1>3, <2>1
    <3> QED
      BY <1>3, <2>1, <2>2, <3>1 DEF AtLeastOne
  <2>3. CASE base[m] <= 1
    <3>1. base' = base /\ base[m] = 1
      BY <1>1, <1>3, <2>1, <2>3
    <3> QED
      BY <1>3, <2>1, <3>1 DEF AtLeastOne
  <2> QED
    BY <1>3, <2>1, <2>2, <2>3
<1>6. ASSUME NEW i \in 1 .. N, NEW k \in 1 .. N, Same(i, k), i < k
      PROVE  base'[i] = IF RankUp(i) < q /\ q <= RankUp(k) THEN AtLeastOne(base'[k] - 1) ELSE base'[k]
  <2>1. base[i] = IF RankUp(i) < p /\ p <= RankUp(k) THEN AtLeastOne(base[k] - 1) ELSE base[k]
    BY <1>2, <1>6 DEF TakeAlike, p
  <2>2. RankUp(i) < RankUp(k) /\ RankUp(i) \in 0 .. (N - 1) /\ RankUp(k) \in 0 .. (N - 1)
    <3>1. Fractions[i] = Fractions[k]
      BY <1>2, <1>6, SameShare DEF Fractions
    <3> QED
      BY <1>2, <1>6, <3>1, RankOfOK DEF RankUp
  <2>3. CASE m = i
    <3>1. q = p + 1 /\ base[i] = base[k] /\ RankUp(i) = p
      BY <1>2, <1>3, <1>4, <2>1, <2>2, <2>3
    <3>2. base'[i] = AtLeastOne(base[i] - 1) /\ base'[k] = base[k]
      BY <1>2, <1>5, <1>6, <2>3
    <3> QED
      BY <1>2, <1>4, <2>2, <3>1, <3>2
  <2>4. CASE m = k
    <3>1. base[i] = AtLeastOne(base[k] - 1) /\ RankUp(k) = p
      BY <1>2, <1>3, <1>4, <2>1, <2>2, <2>4
    <3>2. base'[k] = AtLeastOne(base[k] - 1) /\ base'[i] = base[i]
      BY <1>2, <1>5, <1>6, <2>4
    <3>3. ~(RankUp(i) < q /\ q <= RankUp(k))
      BY <1>2, <1>4, <2>2, <3>1
    <3> QED
      BY <3>1, <3>2, <3>3
  <2>5. CASE m # i /\ m # k
    <3>1. base'[i] = base[i] /\ base'[k] = base[k]
      BY <1>5, <1>6, <2>5
    <3>2. RankUp(i) # p /\ RankUp(k) # p
      BY <1>2, <1>3, <1>6, <2>5, RankOfOK DEF RankUp
    <3>3. RankUp(i) < q /\ q <= RankUp(k) <=> RankUp(i) < p /\ p <= RankUp(k)
      <4>1. RankUp(i) \in Nat /\ RankUp(k) \in Nat /\ RankUp(k) < N /\ N \in Nat /\ p \in Nat /\ q \in Nat
        BY <1>2, <1>4, <2>2
      <4> QED
        BY <1>4, <2>2, <3>2, <4>1, NextBetween
    <3> QED
      BY <2>1, <3>1, <3>3
  <2> QED
    BY <2>3, <2>4, <2>5
<1>7. TakeAlike'
  <2>1. N' = N /\ idx' % N = q /\ \A i, k : (RankUp(i)' = RankUp(i)) /\ (Same(i, k)' <=> Same(i, k))
    BY <1>1, SameShares DEF q
  <2> QED
    BY <1>6, <2>1 DEF TakeAlike
<1> QED
  BY <1>1, <1>2, <1>7, NearStep

LEMMA NearTakeDone == PlanInv /\ NearInv /\ TakeDone => NearInv'
<1> SUFFICES ASSUME PlanInv, NearInv, TakeDone PROVE NearInv'
  OBVIOUS
<1>1. /\ pc = "take" /\ pc' = "fix" /\ request' = request /\ stages' = stages /\ shared' = shared
  BY DEF TakeDone
<1>2. base' = base
  BY TakeDoneOK
<1>3. Filled(base) /\ N \in 1 .. 6 /\ TakeAlike /\ ~Ample
  BY <1>1, LoopFacts DEF NearInv
<1>4. Alike(base)
  <2>1. ASSUME NEW i \in 1 .. N, NEW k \in 1 .. N, Same(i, k), i < k
        PROVE  base[i] - base[k] \in {-1, 0} /\ base[k] - base[i] \in {0, 1}
    <3>1. base[i] = base[k] \/ base[i] = AtLeastOne(base[k] - 1)
      BY <1>3, <2>1 DEF TakeAlike
    <3>2. base[i] \in Nat \ {0} /\ base[k] \in Nat \ {0}
      BY <1>3 DEF Filled
    <3> QED
      BY <3>1, <3>2 DEF AtLeastOne
  <2>2. SUFFICES ASSUME NEW i \in 1 .. N, NEW k \in 1 .. N, Same(i, k)
                 PROVE  base[i] - base[k] \in -1 .. 1
    BY DEF Alike
  <2>3. Same(k, i) /\ base[i] \in Nat \ {0}
    BY <1>3, <2>2 DEF Same, Filled
  <2>4. CASE i < k
    BY <2>1, <2>2, <2>4
  <2>5. CASE k < i
    BY <2>1, <2>3, <2>5
  <2>6. CASE i = k
    BY <2>3, <2>6
  <2> QED
    BY <1>3, <2>4, <2>5, <2>6
<1>5. NearShares(base)
  BY <1>3 DEF NearShares
<1> QED
  BY <1>1, <1>2, <1>4, <1>5, NearStep

LEMMA NearFix == PlanInv /\ NearInv /\ FixLast => NearInv'
<1> SUFFICES ASSUME PlanInv, NearInv, FixLast PROVE NearInv'
  OBVIOUS
<1>1. /\ pc = "fix" /\ pc' = "stages" /\ request' = request /\ stages' = stages /\ shared' = shared
  BY DEF FixLast, FixTo
<1>2. base' = base /\ stages' = <<>>
  BY <1>1, FixOK DEF PlanInv, StagesInv
<1> QED
  BY <1>1, <1>2, NearStep DEF NearInv

LEMMA NearStage == PlanInv /\ NearInv /\ AddStage => NearInv'
<1> SUFFICES ASSUME PlanInv, NearInv, AddStage PROVE NearInv'
  OBVIOUS
<1> DEFINE n == Len(stages)
           slots == TasksOf(n + 1) \X {Templates[n + 1].pattern}
<1>1. /\ pc = "stages" /\ n < N /\ pc' = "stages" /\ request' = request /\ base' = base
      /\ Len(stages') = n + 1 /\ n \in Nat
  <2>1. /\ pc = "stages" /\ n < N /\ pc' = "stages" /\ request' = request /\ base' = base
        /\ stages' = Append(stages, [offset |-> Offset, duration |-> base[n + 1]])
    BY DEF AddStage, StageAt
  <2>2. stages \in Seq([offset : Int, duration : Int])
    BY <2>1 DEF PlanInv, StagesInv
  <2> QED
    BY <2>1, <2>2
<1>2. shared' = IF request.kind = "diagnostic" THEN shared
                ELSE [slot \in DOMAIN shared |-> IF slot \in slots THEN base[n + 1] ELSE shared[slot]]
  BY DEF AddStage, StageAt, BuildTasks
<1>3. DOMAIN shared = Subsystems \X Patterns /\ Alike(base) /\ NearShares(base)
  BY <1>1 DEF NearInv
<1>4. DOMAIN shared' = Subsystems \X Patterns
  BY <1>2, <1>3
<1>5. Ready /\ N \in 1 .. 6
  BY <1>1, LoopFacts
<1>6. \A k \in 1 .. N : TasksOf(k) \subseteq Subsystems /\ Templates[k].pattern \in Patterns
  <2> SUFFICES ASSUME NEW k \in 1 .. N
               PROVE  TasksOf(k) \subseteq Subsystems /\ Templates[k].pattern \in Patterns
    OBVIOUS
  <2>1. request.subs \in SUBSET Subsystems
    BY <1>5, RequestAssumption DEF Ready, Requests
  <2>2. request.kind = "isolated" => Sorted(request.subs)[k] \in request.subs
    <3> SUFFICES ASSUME request.kind = "isolated" PROVE Sorted(request.subs)[k] \in request.subs
      OBVIOUS
    <3>1. N = Cardinality(request.subs)
      BY <1>5, TemplatesOK DEF Ready
    <3> QED
      BY <2>1, <3>1, SortedOK
  <2> QED
    BY <1>5, <2>1, <2>2, ReadyOK DEF TasksOf
<1>7. ASSUME request.kind # "diagnostic" PROVE SharedOK'
  <2>1. SharedOK
    BY <1>1, <1>7 DEF NearInv
  <2>2. \A slot \in Subsystems \X Patterns :
          shared'[slot] = IF slot \in slots THEN base[n + 1] ELSE shared[slot]
    BY <1>2, <1>3, <1>7
  <2>3. ASSUME NEW k \in 1 .. n + 1, NEW s \in TasksOf(k)
        PROVE  \E j \in 1 .. n + 1 : Same(j, k) /\ shared'[<<s, Templates[k].pattern>>] = base[j]
    <3>1. k \in 1 .. N /\ n + 1 \in 1 .. n + 1
      BY <1>1, <1>5
    <3>2. <<s, Templates[k].pattern>> \in Subsystems \X Patterns
      BY <1>6, <3>1
    <3>3. CASE <<s, Templates[k].pattern>> \in slots
      <4>1. Same(n + 1, k)
        BY <3>3 DEF Same
      <4> QED
        BY <2>2, <3>1, <3>2, <3>3, <4>1
    <3>4. CASE <<s, Templates[k].pattern>> \notin slots
      <4>1. k # n + 1
        BY <3>4
      <4>2. k \in 1 .. n
        BY <1>1, <4>1
      <4>3. PICK j \in 1 .. n : Same(j, k) /\ shared[<<s, Templates[k].pattern>>] = base[j]
        BY <2>1, <4>2 DEF SharedOK
      <4>4. j \in 1 .. n + 1
        BY <1>1
      <4> QED
        BY <2>2, <3>2, <3>4, <4>3, <4>4
    <3> QED
      BY <3>3, <3>4
  <2>4. \A i, k : /\ Same(i, k)' <=> Same(i, k)
                  /\ TasksOf(i)' = TasksOf(i) /\ Templates[i]' = Templates[i]
    BY <1>1, SameShares
  <2> HIDE DEF n, slots
  <2>5. Templates' = Templates
    BY <1>1, SameRequest
  <2> QED
    BY <1>1, <2>3, <2>4, <2>5 DEF SharedOK
<1>8. Alike(base)' /\ NearShares(base)'
  <2>1. /\ \A b : (Alike(b)' <=> Alike(b)) /\ (NearShares(b)' <=> NearShares(b))
    BY <1>1, SameShares
  <2>2. (Alike(base)' <=> Alike(base')) /\ (NearShares(base)' <=> NearShares(base'))
    BY <2>1 DEF Alike, NearShares
  <2> QED
    BY <1>1, <1>3, <2>2
<1> QED
  BY <1>1, <1>4, <1>7, <1>8 DEF NearInv

\* Steps that leave the durations and the tables as they are.
LEMMA NearKept ==
  ASSUME PlanInv, NearInv, request' = request, base' = base, shared' = shared, stages' = stages,
         \/ pc' = "refused"
         \/ pc' = pc /\ idx' = idx /\ remaining' = remaining
         \/ pc = "stages" /\ pc' = "done"
  PROVE  NearInv'
<1>1. /\ N' = N /\ Left' = Left /\ (Ample' <=> Ample)
      /\ \A m : Given(m)' = Given(m)
      /\ \A i, k : Same(i, k)' <=> Same(i, k)
      /\ \A i : RankUp(i)' = RankUp(i) /\ TasksOf(i)' = TasksOf(i)
      /\ \A b : (Alike(b)' <=> Alike(b)) /\ (NearShares(b)' <=> NearShares(b))
  BY SameShares
<1>2. Templates' = Templates
  BY SameRequest
<1>3. (Alike(base)' <=> Alike(base)) /\ (NearShares(base)' <=> NearShares(base))
  BY <1>1 DEF Alike, NearShares
<1>4. SharedOK' <=> SharedOK
  BY <1>1, <1>2 DEF SharedOK
<1>5. CASE pc' = "refused"
  BY <1>5 DEF NearInv
<1>6. CASE pc' = pc /\ idx' = idx /\ remaining' = remaining
  <2>1. TakeAlike' <=> TakeAlike
    BY <1>1, <1>6 DEF TakeAlike
  <2>2. Given(idx)' = Given(idx)
    BY <1>1, <1>6 DEF Given
  <2> QED
    BY <1>1, <1>3, <1>4, <1>6, <2>1, <2>2 DEF NearInv
<1>7. CASE pc = "stages" /\ pc' = "done"
  BY <1>1, <1>3, <1>4, <1>7 DEF NearInv
<1> QED
  BY <1>5, <1>6, <1>7

LEMMA NearInit == Init => NearInv
<1> SUFFICES ASSUME Init PROVE NearInv
  OBVIOUS
<1>1. pc = "request" /\ \E d \in OldDurations : shared = [slot \in Subsystems \X Patterns |-> d]
  BY DEF Init
<1>2. DOMAIN shared = Subsystems \X Patterns
  BY <1>1
<1> QED
  BY <1>1, <1>2 DEF NearInv

THEOREM NearInvHolds == Spec => []NearInv
<1>1. PlanInv /\ NearInv /\ [Next]_vars => NearInv'
  <2> SUFFICES ASSUME PlanInv, NearInv, [Next]_vars PROVE NearInv'
    OBVIOUS
  <2>1. CASE Refuse
    BY <2>1, NearKept DEF Refuse
  <2>2. CASE Finish
    BY <2>2, NearKept DEF Finish
  <2>3. CASE UNCHANGED vars
    BY <2>3, NearKept DEF vars
  <2> QED
    BY <2>1, <2>2, <2>3, NearOneStage, NearAllocate, NearGive, NearGiveDone, NearTake, NearTakeDone,
       NearFix, NearStage DEF Next, Returned
<1> QED
  BY NearInit, PlanInvHolds, <1>1, PTL DEF Spec

\* When the weights give every stage a second, none is a second or more from
\* its exact share; and although stages of a pattern share their tasks'
\* arguments, a task of a finished plan lasts as long as its stage to within a
\* second.
THEOREM NearItsShareCorrect == Spec => []NearItsShare
<1>1. PlanInv /\ NearInv => NearItsShare
  <2> SUFFICES ASSUME PlanInv, NearInv PROVE NearItsShare
    OBVIOUS
  <2>1. ASSUME pc \in {"stages", "done"}, \A i \in 1 .. N : Whole(i) >= 1
        PROVE  \A i \in 1 .. N : /\ base[i] * WeightSum < Scaled(i) + WeightSum
                                 /\ base[i] * WeightSum > Scaled(i) - WeightSum
    BY <2>1 DEF NearInv, NearShares, Ample
  <2>2. ASSUME pc = "done", request.kind # "diagnostic", NEW k \in 1 .. N, NEW s \in TasksOf(k)
        PROVE  shared[<<s, Templates[k].pattern>>] - stages[k].duration \in -1 .. 1
    <3>1. SharedOK /\ Alike(base)
      BY <2>2 DEF NearInv
    <3>2. Len(stages) = N /\ \A i \in 1 .. N : stages[i].duration = base[i]
      BY <2>2 DEF PlanInv, StagesInv
    <3>3. PICK j \in 1 .. N : Same(j, k) /\ shared[<<s, Templates[k].pattern>>] = base[j]
      BY <2>2, <3>1, <3>2 DEF SharedOK
    <3>4. base[j] - base[k] \in -1 .. 1
      BY <3>1, <3>3 DEF Alike
    <3> QED
      BY <3>2, <3>3, <3>4
  <2> QED
    BY <2>1, <2>2 DEF NearItsShare
<1> QED
  BY <1>1, PlanInvHolds, NearInvHolds, PTL
=============================================================================
