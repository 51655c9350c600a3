----------------------- MODULE DistroComparisonProofs -----------------------
(***************************************************************************)
(* Proofs about DistroComparison: whatever is in the database and whatever *)
(* is asked for, the pairs are fair, only repetitions are lost on the way  *)
(* to the means, and the statuses agree with each other.                   *)
(***************************************************************************)
EXTENDS DistroComparison, SumLemmas, FiniteSetTheorems, TLAPS

(***************************************************************************)
(* The change of a metric.  Percents are fractions, so that each fact here *)
(* is one about products.                                                  *)
(***************************************************************************)
Means == [sum : Int, n : Nat \ {0}]

LEMMA ProductOK ==
  ASSUME NEW x \in Nat, NEW y \in Nat PROVE x * y \in Nat /\ (x > 0 /\ y > 0 => x * y > 0)
OBVIOUS

LEMMA ProductGrows ==
  ASSUME NEW x \in Int, NEW y \in Int, NEW k \in Nat, x <= y PROVE x * k <= y * k
<1>1. PICK d \in Nat : y = x + d
  <2>1. y - x \in Nat /\ y = x + (y - x)
    OBVIOUS
  <2> QED
    BY <2>1
<1>2. y * k = x * k + d * k /\ d * k \in Nat /\ x * k \in Int
  BY <1>1, ProductOK
<1> QED
  BY <1>2

LEMMA ProductCancels ==
  ASSUME NEW x \in Int, NEW y \in Int, NEW k \in Nat \ {0}, x * k <= y * k PROVE x <= y
<1> SUFFICES ASSUME y + 1 <= x PROVE FALSE
  OBVIOUS
<1>1. (y + 1) * k <= x * k
  BY ProductGrows
<1>2. (y + 1) * k = y * k + k /\ y * k \in Int /\ x * k \in Int
  OBVIOUS
<1> QED
  BY <1>1, <1>2

\* The difference of the means, times both numbers, and what it may be.
Difference(b, v) == 100 * (v.sum * b.n - b.sum * v.n)
Slack(b, v) == Epsilon * (Abs(b.sum) * v.n)

LEMMA DeltaOK ==
  ASSUME NEW b \in Means, NEW v \in Means
  PROVE  /\ Difference(b, v) \in Int /\ Slack(b, v) \in Nat
         /\ b.sum # 0 => PercentDelta(v, b) = <<Difference(b, v), Abs(b.sum) * v.n>>
         /\ b.sum = 0 => PercentDelta(v, b) = IF v.sum = 0 THEN <<0, 1>> ELSE None
<1>1. /\ v.sum \in Int /\ b.sum \in Int /\ v.n \in Nat /\ b.n \in Nat
  BY DEF Means
<1>2. Abs(b.sum) \in Nat
  BY <1>1 DEF Abs
<1>3. Abs(b.sum) * v.n \in Nat /\ Epsilon \in Nat
  BY <1>1, <1>2, ProductOK, ComparisonAssumption
<1>4. Slack(b, v) \in Nat
  BY <1>3, ProductOK DEF Slack
<1>5. v.sum * b.n \in Int /\ b.sum * v.n \in Int
  BY <1>1
<1>6. Difference(b, v) \in Int
  BY <1>5 DEF Difference
<1> QED
  BY <1>4, <1>6 DEF PercentDelta, Difference

Degrades(b, v, better) ==
  IF b.sum = 0 THEN IF better = Lower THEN v.sum > 0 ELSE v.sum < 0
  ELSE IF better = Lower THEN Difference(b, v) > Slack(b, v) ELSE Difference(b, v) < -Slack(b, v)
Improves(b, v, better) ==
  IF b.sum = 0 THEN IF better = Lower THEN v.sum < 0 ELSE v.sum > 0
  ELSE IF better = Lower THEN Difference(b, v) < -Slack(b, v) ELSE Difference(b, v) > Slack(b, v)

LEMMA ChangeIs ==
  ASSUME NEW b \in Means, NEW v \in Means, NEW better
  PROVE  /\ Change(b, v, better) = IF Degrades(b, v, better) THEN "degraded"
                                   ELSE IF Improves(b, v, better) THEN "improved" ELSE "unchanged"
         /\ RawChange(b, v) = IF Improves(b, v, Higher) THEN "increased"
                              ELSE IF Degrades(b, v, Higher) THEN "decreased" ELSE "unchanged"
         /\ ~ (Degrades(b, v, better) /\ Improves(b, v, better))
         /\ Improves(b, v, Lower) <=> Degrades(b, v, Higher)
         /\ Degrades(b, v, Lower) <=> Improves(b, v, Higher)
         /\ better # Lower => /\ Degrades(b, v, better) <=> Degrades(b, v, Higher)
                              /\ Improves(b, v, better) <=> Improves(b, v, Higher)
<1>1. /\ Difference(b, v) \in Int /\ Slack(b, v) \in Nat /\ v.sum \in Int /\ b.sum \in Int
      /\ Lower # Higher
  BY DeltaOK DEF Means, Lower, Higher
<1> DEFINE delta == <<Difference(b, v), Abs(b.sum) * v.n>>
           lower == <<-delta[1], delta[2]>>
<1>2. CASE b.sum # 0
  <2>1. PercentDelta(v, b) = delta /\ delta # None
    BY <1>2, DeltaOK DEF None
  <2>2. DirectionalDelta(delta, better) = IF better = Lower THEN lower ELSE delta
    BY <2>1 DEF DirectionalDelta
  <2>3. /\ Small(delta) <=> (-Slack(b, v) <= Difference(b, v) /\ Difference(b, v) <= Slack(b, v))
        /\ Small(lower) <=> (-Slack(b, v) <= Difference(b, v) /\ Difference(b, v) <= Slack(b, v))
    <3>1. delta[1] = Difference(b, v) /\ Epsilon * delta[2] = Slack(b, v) /\ lower[2] = delta[2]
          /\ lower[1] = -Difference(b, v)
      BY DEF Slack
    <3> QED
      BY <1>1, <3>1 DEF Small, Abs
  <2>4. lower # None /\ delta[1] = Difference(b, v) /\ lower[1] = -Difference(b, v)
    BY DEF None
  <2> HIDE DEF delta, lower
  <2>5. /\ Degrades(b, v, better) <=> IF better = Lower THEN Difference(b, v) > Slack(b, v)
                                    ELSE Difference(b, v) < -Slack(b, v)
        /\ Improves(b, v, better) <=> IF better = Lower THEN Difference(b, v) < -Slack(b, v)
                                    ELSE Difference(b, v) > Slack(b, v)
        /\ Degrades(b, v, Lower) <=> (Difference(b, v) > Slack(b, v))
        /\ Degrades(b, v, Higher) <=> (Difference(b, v) < -Slack(b, v))
        /\ Improves(b, v, Lower) <=> (Difference(b, v) < -Slack(b, v))
        /\ Improves(b, v, Higher) <=> (Difference(b, v) > Slack(b, v))
    BY <1>1, <1>2 DEF Degrades, Improves
  <2>6. RawChange(b, v) = IF Small(delta) THEN "unchanged"
                          ELSE IF delta[1] > 0 THEN "increased" ELSE "decreased"
    BY <2>1 DEF RawChange
  <2>7. CASE better = Lower
    <3>1. Change(b, v, better) = IF Small(lower) THEN "unchanged"
                                 ELSE IF lower[1] > 0 THEN "improved" ELSE "degraded"
      BY <2>1, <2>2, <2>4, <2>7 DEF Change
    <3> QED
      BY <1>1, <2>3, <2>4, <2>5, <2>6, <2>7, <3>1
  <2>8. CASE better # Lower
    <3>1. Change(b, v, better) = IF Small(delta) THEN "unchanged"
                                 ELSE IF delta[1] > 0 THEN "improved" ELSE "degraded"
      BY <2>1, <2>2, <2>8 DEF Change
    <3> QED
      BY <1>1, <2>3, <2>4, <2>5, <2>6, <2>8, <3>1
  <2> QED
    BY <2>7, <2>8
<1>3. CASE b.sum = 0 /\ v.sum = 0
  <2>1. PercentDelta(v, b) = <<0, 1>> /\ <<0, 1>> # None
    BY <1>3, DeltaOK DEF None
  <2>2. /\ DirectionalDelta(<<0, 1>>, better) = <<0, 1>> /\ Small(<<0, 1>>)
    BY ComparisonAssumption DEF DirectionalDelta, Small, Abs
  <2> QED
    BY <1>1, <1>3, <2>1, <2>2 DEF Change, RawChange, Degrades, Improves
<1>4. CASE b.sum = 0 /\ v.sum # 0
  <2>1. PercentDelta(v, b) = None /\ DirectionalDelta(None, better) = None
    BY <1>4, DeltaOK DEF DirectionalDelta
  <2> QED
    BY <1>1, <1>4, <2>1 DEF Change, RawChange, Degrades, Improves
<1> QED
  BY <1>2, <1>3, <1>4

\* Of two values of the same baseline one that is no worse than a value that does not degrade
\* does not degrade.
LEMMA SignsAgree ==
  ASSUME NEW x \in Int, NEW y \in Int, NEW k \in Nat \ {0}, NEW n \in Nat \ {0}, x * k = y * n
  PROVE  /\ (x = 0) = (y = 0) /\ Abs(x) * k = Abs(y) * n
         /\ x >= 0 => y >= 0
<1>1. ASSUME NEW a \in Int, NEW c \in Int, NEW p \in Nat \ {0}, NEW q \in Nat \ {0}, a * p = c * q,
             a >= 0
      PROVE  c >= 0 /\ (a = 0 <=> c = 0)
  <2>1. a * p \in Nat /\ (a > 0 => a * p > 0)
    BY <1>1, ProductOK
  <2>2. 0 * q = 0 /\ -1 * q < 0 /\ 0 * p = 0
    OBVIOUS
  <2>3. ASSUME c <= -1 PROVE FALSE
    <3>1. c * q <= -1 * q
      BY <2>3, ProductGrows
    <3> QED
      BY <1>1, <2>1, <2>2, <3>1
  <2>4. c >= 0
    BY <2>3
  <2>5. c > 0 => c * q > 0
    BY <2>4, ProductOK
  <2> QED
    BY <1>1, <2>1, <2>2, <2>4, <2>5
<1>2. x >= 0 => y >= 0 /\ (x = 0 <=> y = 0)
  BY <1>1
<1>3. y >= 0 => x >= 0
  BY <1>1
<1>4. (-x) * k = -(x * k) /\ (-y) * n = -(y * n) /\ x * k \in Int /\ y * n \in Int
  OBVIOUS
<1> QED
  BY <1>2, <1>3, <1>4 DEF Abs

LEMMA StaysAbove ==
  ASSUME NEW e \in Nat, NEW B \in Int, NEW V \in Int, NEW n \in Nat \ {0}, NEW m \in Nat \ {0},
         NEW C \in Int, NEW W \in Int, NEW p \in Nat \ {0}, NEW q \in Nat \ {0},
         NEW F \in Nat, NEW G \in Nat, F * p = G * n,
         B * p = C * n, V * q >= W * m, 100 * (W * p - C * q) >= -(e * (G * q))
  PROVE  100 * (V * n - B * m) >= -(e * (F * m))
<1> DEFINE left == 100 * (W * p - C * q) + e * (G * q)
           right == 100 * (V * n - B * m) + e * (F * m)
           k == q * p
<1>1. left \in Int /\ right \in Int /\ left >= 0
  <2>1. e * (G * q) \in Int /\ e * (F * m) \in Int /\ W * p \in Int /\ C * q \in Int /\ V * n \in Int
        /\ B * m \in Int
    OBVIOUS
  <2> QED
    BY <2>1
<1>2. n * m \in Nat \ {0} /\ k \in Nat \ {0} /\ n * p \in Nat
  BY ProductOK
<1>3. left * (n * m) >= 0
  BY <1>1, <1>2, ProductOK
<1>4. left * (n * m) = 100 * ((W * m) * (n * p)) - 100 * ((C * n) * (q * m)) + e * ((G * n) * (q * m))
  OBVIOUS
<1>5. right * k = 100 * ((V * q) * (n * p)) - 100 * ((B * p) * (q * m)) + e * ((F * p) * (q * m))
  OBVIOUS
<1>6. (W * m) * (n * p) <= (V * q) * (n * p)
  BY <1>2, ProductGrows
<1>7. right * k >= left * (n * m)
  <2> DEFINE x == (W * m) * (n * p)
             y == (V * q) * (n * p)
             z == 100 * ((C * n) * (q * m))
             u == e * ((G * n) * (q * m))
  <2>1. x \in Int /\ y \in Int /\ z \in Int /\ u \in Int /\ x <= y
    BY <1>6
  <2>2. left * (n * m) = 100 * x - z + u /\ right * k = 100 * y - z + u
    BY <1>4, <1>5
  <2> HIDE DEF x, y, z, u, left, right, k
  <2> QED
    BY <2>1, <2>2
<1>8. 0 * k <= right * k
  <2>1. 0 * k = 0 /\ right * k \in Int /\ left * (n * m) \in Int
    BY <1>1, <1>2
  <2> QED
    BY <1>3, <1>7, <2>1
<1>9. 0 <= right
  <2> HIDE DEF right, k
  <2> QED
    BY <1>1, <1>2, <1>8, ProductCancels
<1> DEFINE x == 100 * (V * n - B * m)
           y == e * (F * m)
<1>10. x \in Int /\ y \in Int /\ x + y >= 0
  BY <1>9
<1> HIDE DEF x, y
<1>11. x >= -y
  BY <1>10
<1> QED
  BY <1>11 DEF x, y

LEMMA NoWorseOK ==
  ASSUME NEW b \in Means, NEW v \in Means, NEW c \in Means, NEW w \in Means, NEW better,
         b.sum * c.n = c.sum * b.n,
         IF better = Lower THEN v.sum * w.n <= w.sum * v.n ELSE v.sum * w.n >= w.sum * v.n,
         ~ Degrades(c, w, better)
  PROVE  ~ Degrades(b, v, better)
<1> DEFINE B == b.sum
           C == c.sum
           V == v.sum
           W == w.sum
           n == b.n
           p == c.n
           m == v.n
           q == w.n
<1>1. /\ B \in Int /\ C \in Int /\ V \in Int /\ W \in Int
      /\ n \in Nat \ {0} /\ p \in Nat \ {0} /\ m \in Nat \ {0} /\ q \in Nat \ {0}
  BY DEF Means
<1>2. (B = 0) = (C = 0) /\ Abs(B) * p = Abs(C) * n /\ B * p = C * n
  <2>1. B * p = C * n
    OBVIOUS
  <2> HIDE DEF B, C, n, p
  <2> QED
    BY <1>1, <2>1, SignsAgree
<1>3. /\ Difference(b, v) = 100 * (V * n - B * m) /\ Slack(b, v) = Epsilon * (Abs(B) * m)
      /\ Difference(c, w) = 100 * (W * p - C * q) /\ Slack(c, w) = Epsilon * (Abs(C) * q)
  BY DEF Difference, Slack
<1>4. /\ Difference(b, v) \in Int /\ Slack(b, v) \in Nat /\ Difference(c, w) \in Int /\ Slack(c, w) \in Nat
  BY DeltaOK
<1>5. Abs(B) \in Nat /\ Abs(C) \in Nat /\ Epsilon \in Nat
  BY <1>1, ComparisonAssumption DEF Abs
<1>6. better = Lower => V * q <= W * m
  OBVIOUS
<1>7. better # Lower => V * q >= W * m
  OBVIOUS
<1>8. CASE B = 0
  <2>1. C = 0
    BY <1>2, <1>8
  <2>2. /\ V * q \in Int /\ W * m \in Int
        /\ (W >= 0 => W * m >= 0) /\ (V > 0 => V * q > 0)
        /\ (W <= 0 => W * m <= 0) /\ (V < 0 => V * q < 0)
    <3> HIDE DEF W, V, m, q
    <3>1. /\ \A x \in Nat, y \in Nat : x * y \in Nat /\ (x > 0 /\ y > 0 => x * y > 0)
      BY ProductOK
    <3>2. (-W) * m = -(W * m) /\ (-V) * q = -(V * q) /\ W * m \in Int /\ V * q \in Int
      BY <1>1
    <3>3. (W >= 0 => W * m >= 0) /\ (V > 0 => V * q > 0)
      BY <1>1, <3>1
    <3>4. (-W >= 0 => (-W) * m >= 0) /\ (-V > 0 => (-V) * q > 0)
      <4>1. -W \in Int /\ -V \in Int
        BY <1>1
      <4> QED
        BY <1>1, <3>1, <4>1
    <3> QED
      BY <1>1, <3>2, <3>3, <3>4
  <2>4. CASE better = Lower
    <3>1. W <= 0
      BY <2>1, <2>4, <1>1 DEF Degrades
    <3>2. V <= 0
      BY <3>1, <1>1, <1>6, <2>2, <2>4
    <3> QED
      BY <1>1, <1>8, <2>4, <3>2 DEF Degrades
  <2>5. CASE better # Lower
    <3>1. W >= 0
      BY <2>1, <2>5, <1>1 DEF Degrades
    <3>2. V >= 0
      BY <3>1, <1>1, <1>7, <2>2, <2>5
    <3> QED
      BY <1>1, <1>8, <2>5, <3>2 DEF Degrades
  <2> QED
    BY <2>4, <2>5
<1>9. CASE B # 0
  <2>1. C # 0
    BY <1>2, <1>9
  <2> HIDE DEF B, C, V, W, n, m, p, q
  <2>4. CASE better = Lower
    <3>1. Difference(c, w) <= Slack(c, w)
      BY <1>4, <2>1, <2>4 DEF Degrades, C
    <3>2. /\ (-B) * p = (-C) * n /\ (-V) * q >= (-W) * m
          /\ -V \in Int /\ -W \in Int /\ -B \in Int /\ -C \in Int
      <4>1. (-B) * p = -(B * p) /\ (-C) * n = -(C * n) /\ (-V) * q = -(V * q) /\ (-W) * m = -(W * m)
            /\ V * q \in Int /\ W * m \in Int
        BY <1>1
      <4> QED
        BY <1>1, <1>2, <1>6, <2>4, <4>1
    <3>3. 100 * ((-W) * p - (-C) * q) = -(100 * (W * p - C * q))
      BY <1>1
    <3>4. 100 * ((-V) * n - (-B) * m) = -(100 * (V * n - B * m))
      BY <1>1
    <3>5. 100 * ((-W) * p - (-C) * q) >= -(Epsilon * (Abs(C) * q))
      BY <1>3, <1>4, <3>1, <3>3
    <3>6. 100 * ((-V) * n - (-B) * m) >= -(Epsilon * (Abs(B) * m))
      BY <1>1, <1>2, <1>5, <3>2, <3>5, StaysAbove
    <3>7. Difference(b, v) <= Slack(b, v)
      BY <1>3, <1>4, <3>4, <3>6
    <3> QED
      BY <1>4, <1>9, <2>4, <3>7 DEF Degrades, B
  <2>5. CASE better # Lower
    <3>1. Difference(c, w) >= -Slack(c, w)
      BY <1>4, <2>1, <2>5 DEF Degrades, C
    <3>2. 100 * (W * p - C * q) >= -(Epsilon * (Abs(C) * q))
      BY <1>3, <3>1
    <3>3. 100 * (V * n - B * m) >= -(Epsilon * (Abs(B) * m))
      BY <1>1, <1>2, <1>5, <1>7, <2>5, <3>2, StaysAbove
    <3>4. Difference(b, v) >= -Slack(b, v)
      BY <1>3, <3>3
    <3> QED
      BY <1>4, <1>9, <2>5, <3>4 DEF Degrades, B
  <2> QED
    BY <2>4, <2>5
<1> QED
  BY <1>8, <1>9

(***************************************************************************)
(* A row of a sheet: what add_flat_cell makes of the samples s, one after  *)
(* another.  A loop is the function on the sets of places that FoldLeft    *)
(* chooses.                                                                *)
(***************************************************************************)
Sample == [metric : DOMAIN Columns, value : Int]

CellLoops(g, s, D) ==
  g = [t \in D |-> IF t = {} THEN << >> ELSE FlatCell(g[Others(t)], s[Max(t)])]

LEMMA CellLoopExists ==
  ASSUME NEW s, NEW n \in Nat
  PROVE  \E g : CellLoops(g, s, SUBSET (1 .. n))
<1> DEFINE S == SUBSET (1 .. n)
           D(k) == {t \in S : Cardinality(t) <= k}
           T == {k \in Nat : \E g : CellLoops(g, s, D(k))}
<1>0. \A t \in S : IsFiniteSet(t) /\ Cardinality(t) \in Nat /\ Cardinality(t) <= n
  <2>1. IsFiniteSet(1 .. n) /\ Cardinality(1 .. n) = n
    BY FS_Interval
  <2> QED
    BY <2>1, FS_Subset, FS_CardinalityType
<1>1. 0 \in T
  <2> DEFINE g == [t \in D(0) |-> << >>]
  <2>1. \A t \in D(0) : t = {}
    BY <1>0, FS_EmptySet
  <2>2. CellLoops(g, s, D(0))
    BY <2>1, Zenon DEF CellLoops
  <2> QED
    BY <2>2
<1>2. ASSUME NEW k \in Nat, k \in T PROVE k + 1 \in T
  <2>1. PICK g : CellLoops(g, s, D(k))
    BY <1>2
  <2> DEFINE h == [t \in D(k + 1) |-> IF t = {} THEN << >> ELSE FlatCell(g[Others(t)], s[Max(t)])]
  <2>2. D(k) \subseteq D(k + 1)
    BY <1>0
  <2>3. ASSUME NEW t \in D(k) PROVE h[t] = g[t]
    BY <2>1, <2>2, Zenon DEF CellLoops
  <2>4. ASSUME NEW t \in D(k + 1), t # {} PROVE Others(t) \in D(k)
    BY <1>0, <2>4, OthersOK
  <2>5. CellLoops(h, s, D(k + 1))
    <3>1. \A t \in D(k + 1) : t # {} => h[Others(t)] = g[Others(t)]
      BY <2>3, <2>4
    <3> HIDE DEF D
    <3> QED
      BY <3>1, Zenon DEF CellLoops
  <2>6. \E f : CellLoops(f, s, D(k + 1))
    BY <2>5
  <2> HIDE DEF D
  <2> QED
    BY <2>6
<1>3. n \in T
  <2> HIDE DEF T
  <2> QED
    BY <1>1, <1>2, AllNats
<1>4. D(n) = S
  BY <1>0
<1> QED
  BY <1>3, <1>4

\* Nothing, and after each sample the cell for it.
Filled(g, s, n) ==
  /\ g[1 .. 0] = << >>
  /\ \A k \in 1 .. n : g[1 .. k] = FlatCell(g[1 .. k - 1], s[k])

LEMMA FlattenedIsLoop ==
  ASSUME NEW record, record.samples \in Seq(Sample)
  PROVE  LET n == Len(record.samples)
         IN  \E g : Filled(g, record.samples, n) /\ Flattened(record) = g[1 .. n]
<1> DEFINE s == record.samples
           D == DOMAIN s
           n == Len(s)
<1>1. D = 1 .. n /\ n \in Nat
  OBVIOUS
<1> DEFINE G == CHOOSE g : CellLoops(g, s, SUBSET D)
<1>2. Flattened(record) = G[D]
  BY DEF Flattened, FoldLeft, MapThenFoldSet, CellLoops, Others
<1>3. CellLoops(G, s, SUBSET D)
  BY <1>1, CellLoopExists
<1> HIDE DEF G
<1>4. G[1 .. 0] = << >>
  <2>1. 1 .. 0 = {}
    OBVIOUS
  <2> QED
    BY <1>3, <2>1 DEF CellLoops
<1>5. ASSUME NEW k \in 1 .. n PROVE G[1 .. k] = FlatCell(G[1 .. k - 1], s[k])
  <2>1. 1 .. k \in SUBSET (1 .. n) /\ 1 .. k # {} /\ k \in 1 .. k
    <3> HIDE DEF n, s, D
    <3>1. n \in Nat /\ k \in Nat /\ 1 <= k /\ k <= n
      BY <1>1
    <3>2. k \in 1 .. k
      BY <3>1
    <3>3. \A i \in 1 .. k : i \in 1 .. n
      BY <3>1
    <3> QED
      BY <3>2, <3>3
  <2>2. Max(1 .. k) \in 1 .. k /\ k <= Max(1 .. k)
    BY <1>1, <2>1, MaxOK
  <2>3. Max(1 .. k) = k
    BY <2>2
  <2>4. Others(1 .. k) = 1 .. k - 1
    BY <2>3 DEF Others
  <2>5. G[1 .. k] = FlatCell(G[Others(1 .. k)], s[Max(1 .. k)])
    BY <1>1, <1>3, <2>1, Zenon DEF CellLoops
  <2> QED
    BY <2>3, <2>4, <2>5
<1>6. Filled(G, s, n)
  BY <1>4, <1>5 DEF Filled
<1> HIDE DEF n, s
<1>7. Flattened(record) = G[1 .. n]
  BY <1>1, <1>2
<1> QED
  BY <1>6, <1>7 DEF n, s

\* The least of some numbers.
LEMMA MinOK ==
  ASSUME NEW S, S \subseteq Nat, S # {} PROVE Min(S) \in S /\ \A y \in S : Min(S) <= y
BY LeastNat DEF Min

\* Of as many numbers as there are cells and one more, one is free, and so is a least one.
LEMMA NextKeyOK ==
  ASSUME NEW row, IsFiniteSet(DOMAIN row), NEW m
  PROVE  \E k \in Nat : k >= 2 /\ NextKey(row, m) = <<m, k>> /\ <<m, k>> \notin DOMAIN row
<1> DEFINE C == Cardinality(DOMAIN row)
           F == {k \in Nat : k >= 2 /\ <<m, k>> \notin DOMAIN row}
<1>1. C \in Nat
  BY FS_CardinalityType
<1>2. \E k \in 2 .. C + 2 : <<m, k>> \notin DOMAIN row
  <2> SUFFICES ASSUME \A k \in 2 .. C + 2 : <<m, k>> \in DOMAIN row PROVE FALSE
    OBVIOUS
  <2> DEFINE f == [k \in 2 .. C + 2 |-> <<m, k>>]
  <2>1. f \in Injection(2 .. C + 2, DOMAIN row)
    BY DEF Injection, IsInjective
  <2>2. IsFiniteSet(2 .. C + 2) /\ Cardinality(2 .. C + 2) = C + 1
    BY <1>1, FS_Interval
  <2> HIDE DEF f
  <2>3. Cardinality(2 .. C + 2) <= C
    BY <2>1, FS_Injection
  <2> QED
    BY <1>1, <2>2, <2>3
<1>3. PICK k \in F : \A j \in F : k <= j
  <2>0. PICK k \in 2 .. C + 2 : <<m, k>> \notin DOMAIN row
    BY <1>2
  <2>1. F \subseteq Nat /\ k \in F
    BY <2>0
  <2> HIDE DEF F
  <2> QED
    BY <2>1, LeastNat
<1>4. k \in 2 .. C + 2 /\ <<m, k>> \notin DOMAIN row /\ \A j \in 2 .. k - 1 : <<m, j>> \in DOMAIN row
  <2>1. PICK i \in 2 .. C + 2 : <<m, i>> \notin DOMAIN row
    BY <1>2
  <2>2. i \in F
    BY <2>1
  <2>3. k \in 2 .. C + 2 /\ <<m, k>> \notin DOMAIN row
    BY <1>1, <1>3, <2>2
  <2>4. \A j \in 2 .. k - 1 : j \notin F
    <3> SUFFICES ASSUME NEW j \in 2 .. k - 1, j \in F PROVE FALSE
      OBVIOUS
    <3>1. k <= j
      BY <1>3
    <3> QED
      BY <2>3, <3>1
  <2>5. \A j \in 2 .. k - 1 : j \in Nat /\ j >= 2
    BY <2>3
  <2> QED
    BY <2>3, <2>4, <2>5
<1> DEFINE free(j) == <<m, j>> \notin DOMAIN row /\ \A i \in 2 .. j - 1 : <<m, i>> \in DOMAIN row
           K == CHOOSE j \in 2 .. C + 2 : free(j)
<1>5. K \in 2 .. C + 2 /\ free(K)
  <2>1. \E j \in 2 .. C + 2 : free(j)
    BY <1>4
  <2> HIDE DEF free
  <2> QED
    BY <2>1
<1>6. NextKey(row, m) = <<m, K>>
  BY DEF NextKey
<1> HIDE DEF K
<1> QED
  BY <1>1, <1>5, <1>6

\* Of the first k samples: those of metric m, and those that are kept.
Of(s, m, k) == {i \in 1 .. k : s[i].metric = m}
KeptTo(s, m, k) ==
  LET of == Of(s, m, k)
  IN  {i \in of : (i = Min(of) \/ s[i].value # s[Min(of)].value) /\ s[i].value # Sentinel}

\* The cells a row has of metric m, and those that count.
CellsOf(row, m) == {c \in DOMAIN row : c[1] = m}
Counted(row, m) == {c \in CellsOf(row, m) : row[c] # Sentinel}

CellOK(row, c) ==
  /\ row[c] \in Int /\ c = <<c[1], c[2]>> /\ c[1] \in DOMAIN Columns
  /\ c[2] \in Nat /\ c[2] >= 1
RowOf(row, s, m, k) ==
  /\ Of(s, m, k) = {} => CellsOf(row, m) = {}
  /\ Of(s, m, k) # {} => <<m, 1>> \in DOMAIN row /\ row[<<m, 1>>] = s[Min(Of(s, m, k))].value
  /\ Cardinality(Counted(row, m)) = Cardinality(KeptTo(s, m, k))
RowTyped(row) == IsFiniteSet(DOMAIN row) /\ \A c \in DOMAIN row : CellOK(row, c)
RowOK(row, s, k) == RowTyped(row) /\ \A m \in DOMAIN Columns : RowOf(row, s, m, k)

OfSteps(s, m, k) ==
  /\ Of(s, m, k) \subseteq Nat /\ k + 1 \notin Of(s, m, k)
  /\ Of(s, m, k + 1) = IF s[k + 1].metric = m THEN Of(s, m, k) \cup {k + 1} ELSE Of(s, m, k)
  /\ Of(s, m, k) # {} => /\ Min(Of(s, m, k)) \in Of(s, m, k)
                         /\ Min(Of(s, m, k + 1)) = Min(Of(s, m, k))
  /\ Of(s, m, k) = {} /\ s[k + 1].metric = m => Min(Of(s, m, k + 1)) = k + 1

LEMMA OfOK ==
  ASSUME NEW s, NEW m, NEW k \in Nat
  PROVE  IsFiniteSet(Of(s, m, k)) /\ IsFiniteSet(KeptTo(s, m, k)) /\ OfSteps(s, m, k)
<1>1. IsFiniteSet(1 .. k)
  BY FS_Interval
<1>2. IsFiniteSet(Of(s, m, k)) /\ Of(s, m, k) \subseteq Nat /\ k + 1 \notin Of(s, m, k)
  BY <1>1, FS_Subset DEF Of
<1>3. IsFiniteSet(KeptTo(s, m, k))
  BY <1>2, FS_Subset DEF KeptTo
<1>4. Of(s, m, k + 1) = IF s[k + 1].metric = m THEN Of(s, m, k) \cup {k + 1} ELSE Of(s, m, k)
  BY DEF Of
<1>5. ASSUME Of(s, m, k) # {}
      PROVE  Min(Of(s, m, k)) \in Of(s, m, k) /\ Min(Of(s, m, k + 1)) = Min(Of(s, m, k))
  <2>1. Min(Of(s, m, k)) \in Of(s, m, k) /\ \A y \in Of(s, m, k) : Min(Of(s, m, k)) <= y
    BY <1>2, <1>5, MinOK
  <2>2. Of(s, m, k + 1) \subseteq Nat /\ Of(s, m, k + 1) # {}
    BY <1>2, <1>4, <1>5
  <2>3. Min(Of(s, m, k + 1)) \in Of(s, m, k + 1) /\ \A y \in Of(s, m, k + 1) : Min(Of(s, m, k + 1)) <= y
    BY <2>2, MinOK
  <2>4. \A y \in Of(s, m, k) : y \in Nat /\ y <= k /\ y \in Of(s, m, k + 1)
    BY <1>4 DEF Of
  <2>5. Min(Of(s, m, k + 1)) <= Min(Of(s, m, k)) /\ Min(Of(s, m, k)) <= k /\ Min(Of(s, m, k)) \in Nat
    BY <2>1, <2>3, <2>4
  <2>6. Min(Of(s, m, k + 1)) \in Of(s, m, k) /\ Min(Of(s, m, k + 1)) \in Nat
    BY <1>4, <2>2, <2>3, <2>5
  <2>7. Min(Of(s, m, k)) <= Min(Of(s, m, k + 1))
    BY <2>1, <2>6
  <2> QED
    BY <2>1, <2>5, <2>6, <2>7
<1>6. ASSUME Of(s, m, k) = {}, s[k + 1].metric = m PROVE Min(Of(s, m, k + 1)) = k + 1
  <2>1. Of(s, m, k + 1) = {k + 1}
    BY <1>4, <1>6
  <2>2. Min(Of(s, m, k + 1)) \in Of(s, m, k + 1)
    BY <2>1, MinOK
  <2> QED
    BY <2>1, <2>2
<1> QED
  BY <1>2, <1>3, <1>4, <1>5, <1>6 DEF OfSteps

\* Of a set of samples, with the first one given.
KeptOf(s, of, first) == {i \in of : (i = first \/ s[i].value # s[first].value) /\ s[i].value # Sentinel}

LEMMA OneMoreKept ==
  ASSUME NEW s, NEW of, NEW x, NEW first, first # x
  PROVE  KeptOf(s, of \cup {x}, first) =
           IF s[x].value # Sentinel /\ s[x].value # s[first].value
           THEN KeptOf(s, of, first) \cup {x} ELSE KeptOf(s, of, first)
BY DEF KeptOf

\* What is kept of one sample more.
LEMMA KeptOfMore ==
  ASSUME NEW s, NEW m, NEW k \in Nat
  PROVE  KeptTo(s, m, k + 1) =
           IF /\ s[k + 1].metric = m /\ s[k + 1].value # Sentinel
              /\ Of(s, m, k) = {} \/ s[k + 1].value # s[Min(Of(s, m, k))].value
           THEN KeptTo(s, m, k) \cup {k + 1} ELSE KeptTo(s, m, k)
<1> DEFINE O == Of(s, m, k)
           P == Of(s, m, k + 1)
<1>0. /\ O \subseteq Nat /\ k + 1 \notin O
      /\ P = IF s[k + 1].metric = m THEN O \cup {k + 1} ELSE O
      /\ O # {} => Min(O) \in O /\ Min(P) = Min(O)
      /\ O = {} /\ s[k + 1].metric = m => Min(P) = k + 1
  <2>1. OfSteps(s, m, k)
    BY OfOK
  <2> QED
    BY <2>1 DEF OfSteps
<1>1. /\ KeptTo(s, m, k) = {i \in O : (i = Min(O) \/ s[i].value # s[Min(O)].value) /\ s[i].value # Sentinel}
      /\ KeptTo(s, m, k + 1) = {i \in P : (i = Min(P) \/ s[i].value # s[Min(P)].value) /\ s[i].value # Sentinel}
  BY DEF KeptTo
<1> HIDE DEF O, P
<1>2. CASE s[k + 1].metric # m
  <2>1. P = O
    BY <1>0, <1>2
  <2> QED
    BY <1>1, <1>2, <2>1
<1>3. CASE s[k + 1].metric = m /\ O = {}
  <2>1. P = {k + 1} /\ Min(P) = k + 1
    BY <1>0, <1>3
  <2> QED
    BY <1>1, <1>3, <2>1 DEF O
<1>4. CASE s[k + 1].metric = m /\ O # {}
  <2> DEFINE x == k + 1
  <2>1. P = O \cup {x} /\ Min(P) = Min(O) /\ Min(O) # x
    BY <1>0, <1>4
  <2>2. KeptTo(s, m, k) = KeptOf(s, O, Min(O)) /\ KeptTo(s, m, x) = KeptOf(s, O \cup {x}, Min(O))
    BY <1>1, <2>1 DEF KeptOf
  <2> HIDE DEF x
  <2>3. KeptTo(s, m, x) = IF s[x].value # Sentinel /\ s[x].value # s[Min(O)].value
                          THEN KeptTo(s, m, k) \cup {x} ELSE KeptTo(s, m, k)
    <3>1. KeptOf(s, O \cup {x}, Min(O)) = IF s[x].value # Sentinel /\ s[x].value # s[Min(O)].value
                                         THEN KeptOf(s, O, Min(O)) \cup {x} ELSE KeptOf(s, O, Min(O))
      BY <2>1, OneMoreKept, Zenon
    <3> QED
      BY <2>2, <3>1, Zenon
  <2> QED
    BY <1>4, <2>3 DEF x, O
<1> QED
  BY <1>2, <1>3, <1>4

\* A cell more.
Grows(row, more, m, t, v) ==
  /\ RowTyped(more) /\ more[<<m, t>>] = v
  /\ \A c \in DOMAIN row : more[c] = row[c]
  /\ DOMAIN more = DOMAIN row \cup {<<m, t>>}
  /\ \A q \in DOMAIN Columns :
       Counted(more, q) = IF q = m /\ v # Sentinel THEN Counted(row, q) \cup {<<m, t>>}
                          ELSE Counted(row, q)

LEMMA CellMore ==
  ASSUME NEW row, RowTyped(row), NEW m \in DOMAIN Columns, NEW t \in Nat, t >= 1, NEW v \in Int,
         <<m, t>> \notin DOMAIN row
  PROVE  Grows(row, With(row, <<m, t>>, v), m, t, v)
<1> DEFINE more == With(row, <<m, t>>, v)
<1>1. /\ DOMAIN more = DOMAIN row \cup {<<m, t>>} /\ more[<<m, t>>] = v
      /\ \A c \in DOMAIN row : more[c] = row[c]
  BY DEF With
<1> HIDE DEF more
<1>2. IsFiniteSet(DOMAIN more)
  BY <1>1, FS_AddElement DEF RowTyped
<1>3. \A c \in DOMAIN more : CellOK(more, c)
  <2>1. CellOK(more, <<m, t>>)
    BY <1>1 DEF CellOK
  <2>2. \A c \in DOMAIN row : CellOK(more, c)
    BY <1>1 DEF RowTyped, CellOK
  <2> QED
    BY <1>1, <2>1, <2>2
<1>4. ASSUME NEW q \in DOMAIN Columns
      PROVE Counted(more, q) = IF q = m /\ v # Sentinel THEN Counted(row, q) \cup {<<m, t>>}
                               ELSE Counted(row, q)
  <2>1. <<m, t>>[1] = m
    OBVIOUS
  <2> QED
    BY <1>1, <2>1 DEF Counted, CellsOf
<1> QED
  BY <1>1, <1>2, <1>3, <1>4 DEF more, RowTyped, Grows

LEMMA FlatCellOK ==
  ASSUME NEW row, NEW s, NEW k \in Nat, RowOK(row, s, k), s[k + 1] \in Sample
  PROVE  RowOK(FlatCell(row, s[k + 1]), s, k + 1)
<1> DEFINE sample == s[k + 1]
           m == sample.metric
           v == sample.value
           next == FlatCell(row, sample)
           first == s[Min(Of(s, m, k))].value
<1>1. m \in DOMAIN Columns /\ v \in Int /\ RowTyped(row)
  BY DEF Sample, RowOK
<1>2. ASSUME NEW q \in DOMAIN Columns
      PROVE  /\ RowOf(row, s, q, k) /\ OfSteps(s, q, k)
             /\ IsFiniteSet(KeptTo(s, q, k)) /\ Cardinality(KeptTo(s, q, k)) \in Nat
             /\ k + 1 \notin KeptTo(s, q, k)
             /\ IsFiniteSet(Counted(row, q)) /\ Cardinality(Counted(row, q)) \in Nat
  <2>1. OfSteps(s, q, k) /\ IsFiniteSet(KeptTo(s, q, k))
    BY OfOK
  <2>2. k + 1 \notin KeptTo(s, q, k)
    BY <2>1 DEF OfSteps, KeptTo
  <2>3. IsFiniteSet(Counted(row, q))
    BY <1>1, FS_Subset DEF RowTyped, Counted, CellsOf
  <2> QED
    BY <2>1, <2>2, <2>3, FS_CardinalityType DEF RowOK
<1>3. ASSUME NEW q \in DOMAIN Columns
      PROVE  KeptTo(s, q, k + 1) = IF q = m /\ v # Sentinel /\ (Of(s, q, k) = {} \/ v # first)
                                   THEN KeptTo(s, q, k) \cup {k + 1} ELSE KeptTo(s, q, k)
  BY KeptOfMore
<1>4. /\ <<m, 1>> \in DOMAIN row <=> Of(s, m, k) # {}
      /\ Of(s, m, k) # {} => row[<<m, 1>>] = first
  <2>1. <<m, 1>>[1] = m
    OBVIOUS
  <2>2. RowOf(row, s, m, k)
    BY <1>1, <1>2
  <2> QED
    BY <2>1, <2>2 DEF RowOf, CellsOf
<1>5. /\ Of(s, m, k + 1) = Of(s, m, k) \cup {k + 1}
      /\ \A q \in DOMAIN Columns : q # m => Of(s, q, k + 1) = Of(s, q, k)
  BY <1>1, <1>2 DEF OfSteps
<1>6. CASE <<m, 1>> \in DOMAIN row /\ row[<<m, 1>>] = v
  <2>1. next = row
    BY <1>6 DEF FlatCell
  <2>2. ASSUME NEW q \in DOMAIN Columns PROVE RowOf(row, s, q, k + 1)
    <3>1. KeptTo(s, q, k + 1) = KeptTo(s, q, k)
      BY <1>3, <1>4, <1>6
    <3>2. RowOf(row, s, q, k) /\ OfSteps(s, q, k)
      BY <1>2
    <3>3. CASE q = m
      <4>1. Of(s, q, k) # {} /\ Of(s, q, k + 1) # {} /\ Min(Of(s, q, k + 1)) = Min(Of(s, q, k))
        BY <1>4, <1>5, <1>6, <3>2, <3>3 DEF OfSteps
      <4> QED
        BY <3>1, <3>2, <4>1 DEF RowOf
    <3>4. CASE q # m
      <4>1. Of(s, q, k + 1) = Of(s, q, k)
        BY <1>5, <3>4
      <4> QED
        BY <3>1, <3>2, <4>1 DEF RowOf
    <3> QED
      BY <3>3, <3>4
  <2> QED
    BY <1>1, <2>1, <2>2 DEF RowOK
<1>7. CASE ~ (<<m, 1>> \in DOMAIN row /\ row[<<m, 1>>] = v)
  <2>1. PICK t \in Nat : /\ t >= 1 /\ <<m, t>> \notin DOMAIN row
                         /\ next = With(row, <<m, t>>, v)
                         /\ <<m, 1>> \notin DOMAIN row => t = 1
    <3>1. CASE <<m, 1>> \notin DOMAIN row
      BY <3>1 DEF FlatCell
    <3>2. CASE <<m, 1>> \in DOMAIN row
      <4>1. PICK t \in Nat : t >= 2 /\ NextKey(row, m) = <<m, t>> /\ <<m, t>> \notin DOMAIN row
        BY <1>1, NextKeyOK DEF RowTyped
      <4>2. next = With(row, <<m, t>>, v)
        BY <1>7, <3>2, <4>1 DEF FlatCell
      <4> QED
        BY <3>2, <4>1, <4>2
    <3> QED
      BY <3>1, <3>2
  <2>1a. m = sample.metric /\ v = sample.value /\ m = s[k + 1].metric
    OBVIOUS
  <2> HIDE DEF next, m, v, sample, first
  <2>2. /\ RowTyped(next) /\ next[<<m, t>>] = v
        /\ \A c \in DOMAIN row : next[c] = row[c]
        /\ DOMAIN next = DOMAIN row \cup {<<m, t>>}
        /\ \A q \in DOMAIN Columns :
             Counted(next, q) = IF q = m /\ v # Sentinel THEN Counted(row, q) \cup {<<m, t>>}
                                ELSE Counted(row, q)
    <3>1. Grows(row, With(row, <<m, t>>, v), m, t, v)
      BY <1>1, <2>1, CellMore
    <3>2. Grows(row, next, m, t, v)
      BY <2>1, <3>1
    <3> QED
      BY <3>2 DEF Grows
  <2>3. ASSUME NEW q \in DOMAIN Columns PROVE RowOf(next, s, q, k + 1)
    <3>1. RowOf(row, s, q, k) /\ OfSteps(s, q, k)
      BY <1>2
    <3>2. KeptTo(s, q, k + 1) = IF q = m /\ v # Sentinel THEN KeptTo(s, q, k) \cup {k + 1}
                                ELSE KeptTo(s, q, k)
      BY <1>3, <1>4, <1>7
    <3>3. Cardinality(Counted(next, q)) = Cardinality(KeptTo(s, q, k + 1))
      <4>1. <<m, t>> \notin Counted(row, q)
        BY <2>1 DEF Counted, CellsOf
      <4>2. /\ Cardinality(Counted(row, q) \cup {<<m, t>>}) = Cardinality(Counted(row, q)) + 1
            /\ Cardinality(KeptTo(s, q, k) \cup {k + 1}) = Cardinality(KeptTo(s, q, k)) + 1
        BY <1>2, <4>1, FS_AddElement
      <4>3. Cardinality(Counted(row, q)) = Cardinality(KeptTo(s, q, k))
        BY <3>1 DEF RowOf
      <4>4. Counted(next, q) = IF q = m /\ v # Sentinel THEN Counted(row, q) \cup {<<m, t>>}
                                ELSE Counted(row, q)
        BY <2>2
      <4> QED
        BY <3>2, <4>2, <4>3, <4>4
    <3>4. CASE q = m
      <4>1. <<m, 1>> \in DOMAIN next
        BY <2>1, <2>2
      <4>2. Of(s, q, k + 1) # {}
        BY <1>5, <3>4
      <4>3. next[<<m, 1>>] = s[Min(Of(s, q, k + 1))].value
        <5>1. CASE Of(s, q, k) = {}
          <6>1. t = 1 /\ Min(Of(s, q, k + 1)) = k + 1
            BY <1>4, <2>1, <2>1a, <3>1, <3>4, <5>1 DEF OfSteps
          <6> QED
            BY <2>2, <6>1 DEF v, sample
        <5>2. CASE Of(s, q, k) # {}
          <6>1. /\ Min(Of(s, q, k + 1)) = Min(Of(s, q, k)) /\ <<m, 1>> \in DOMAIN row
                /\ row[<<m, 1>>] = first
            BY <1>4, <3>1, <3>4, <5>2 DEF OfSteps
          <6> QED
            BY <2>2, <3>4, <6>1 DEF first
        <5> QED
          BY <5>1, <5>2
      <4> QED
        BY <3>3, <3>4, <4>1, <4>2, <4>3 DEF RowOf
    <3>5. CASE q # m
      <4>1. Of(s, q, k + 1) = Of(s, q, k)
        BY <1>5, <3>5
      <4>2. CellsOf(next, q) = CellsOf(row, q)
        <5>1. <<m, t>>[1] # q
          BY <3>5
        <5> QED
          BY <2>2, <5>1 DEF CellsOf
      <4>3. <<q, 1>> \in DOMAIN row => <<q, 1>> \in DOMAIN next /\ next[<<q, 1>>] = row[<<q, 1>>]
        BY <2>2
      <4> QED
        BY <3>1, <3>3, <4>1, <4>2, <4>3 DEF RowOf
    <3> QED
      BY <3>4, <3>5
  <2>4. RowOK(next, s, k + 1)
    BY <2>2, <2>3 DEF RowOK
  <2> QED
    BY <2>4 DEF next, sample
<1> QED
  BY <1>6, <1>7

LEMMA FlattenedOK ==
  ASSUME NEW record, record.samples \in Seq(Sample)
  PROVE  RowOK(Flattened(record), record.samples, Len(record.samples))
<1> DEFINE s == record.samples
           n == Len(s)
<1>0. n \in Nat /\ \A k \in 1 .. n : s[k] \in Sample
  OBVIOUS
<1>1. PICK g : Filled(g, s, n) /\ Flattened(record) = g[1 .. n]
  BY FlattenedIsLoop
<1> HIDE DEF n, s
<1> DEFINE T == {k \in Nat : k <= n => RowOK(g[1 .. k], s, k)}
<1>2. 0 \in T
  <2>1. g[1 .. 0] = << >> /\ DOMAIN << >> = {}
    BY <1>1 DEF Filled
  <2>2. RowTyped(g[1 .. 0])
    BY <2>1, FS_EmptySet DEF RowTyped
  <2>3. ASSUME NEW m \in DOMAIN Columns PROVE RowOf(g[1 .. 0], s, m, 0)
    <3>1. Of(s, m, 0) = {} /\ CellsOf(g[1 .. 0], m) = {}
      BY <2>1 DEF Of, CellsOf
    <3>2. KeptTo(s, m, 0) = {} /\ Counted(g[1 .. 0], m) = {}
      BY <3>1 DEF KeptTo, Counted
    <3> QED
      BY <3>1, <3>2 DEF RowOf
  <2> QED
    BY <2>2, <2>3 DEF RowOK
<1>3. ASSUME NEW k \in Nat, k \in T PROVE k + 1 \in T
  <2> SUFFICES ASSUME k + 1 <= n PROVE RowOK(g[1 .. k + 1], s, k + 1)
    OBVIOUS
  <2>1. RowOK(g[1 .. k], s, k) /\ k + 1 \in 1 .. n /\ (k + 1) - 1 = k
    BY <1>0, <1>3
  <2>2. g[1 .. k + 1] = FlatCell(g[1 .. k], s[k + 1])
    BY <1>1, <2>1 DEF Filled
  <2>3. s[k + 1] \in Sample
    BY <1>0, <2>1
  <2> QED
    BY <2>1, <2>2, <2>3, FlatCellOK
<1>4. n \in T
  <2> HIDE DEF T
  <2> QED
    BY <1>0, <1>2, <1>3, AllNats
<1>5. RowOK(Flattened(record), s, n)
  BY <1>0, <1>1, <1>4
<1> QED
  BY <1>5 DEF n, s

\* What is collected of a row is what is kept of its record.
LEMMA SamplesOK ==
  ASSUME NEW record, record.samples \in Seq(Sample), NEW row, row.cells = Flattened(record),
         NEW m \in Metrics
  PROVE  /\ IsFiniteSet(Samples(row, m)) /\ \A c \in Samples(row, m) : row.cells[c] \in Int
         /\ Cardinality(Samples(row, m)) = Cardinality(Kept(record, m))
<1> DEFINE s == record.samples
<1>1. m \in DOMAIN Columns /\ IsTarget(<<m, 1>>)
  BY DEF Metrics
<1>2. RowOK(row.cells, s, Len(s))
  BY FlattenedOK
<1>3. Samples(row, m) = Counted(row.cells, m)
  <2>1. ASSUME NEW c \in DOMAIN row.cells PROVE BucketName(c) = <<m, 1>> <=> c[1] = m
    <3>1. c = <<c[1], c[2]>> /\ c[2] \in Nat /\ c[2] >= 1
      BY <1>2 DEF RowOK, RowTyped, CellOK
    <3>2. CASE c[2] > 1
      <4>1. BucketName(c) = IF IsTarget(<<c[1], 1>>) THEN <<c[1], 1>> ELSE c
        BY <3>2 DEF BucketName
      <4>2. c # <<m, 1>>
        BY <3>1, <3>2
      <4>3. <<c[1], 1>> = <<m, 1>> <=> c[1] = m
        OBVIOUS
      <4> QED
        BY <1>1, <4>1, <4>2, <4>3
    <3>3. CASE c[2] = 1
      <4>1. BucketName(c) = c
        BY <3>3 DEF BucketName
      <4>2. c = <<c[1], 1>>
        BY <3>1, <3>3
      <4> QED
        BY <4>1, <4>2
    <3> QED
      BY <3>1, <3>2, <3>3
  <2> QED
    BY <2>1 DEF Samples, Counted, CellsOf
<1>4. KeptTo(s, m, Len(s)) = Kept(record, m)
  <2>1. Of(s, m, Len(s)) = {i \in DOMAIN s : s[i].metric = m}
    <3>1. DOMAIN s = 1 .. Len(s)
      OBVIOUS
    <3> QED
      BY <3>1 DEF Of
  <2> QED
    BY <2>1 DEF KeptTo, Kept
<1>5. IsFiniteSet(Counted(row.cells, m)) /\ \A c \in Counted(row.cells, m) : row.cells[c] \in Int
  <2>1. RowTyped(row.cells)
    BY <1>2 DEF RowOK
  <2>2. \A c \in Counted(row.cells, m) : row.cells[c] \in Int
    BY <2>1 DEF RowTyped, CellOK, Counted, CellsOf
  <2>3. IsFiniteSet(Counted(row.cells, m))
    BY <2>1, FS_Subset DEF RowTyped, Counted, CellsOf
  <2> QED
    BY <2>2, <2>3
<1>6. RowOf(row.cells, s, m, Len(s))
  BY <1>1, <1>2 DEF RowOK
<1> QED
  BY <1>3, <1>4, <1>5, <1>6 DEF RowOf

(***************************************************************************)
(* One sequence of all elements of n sequences, which are all different.   *)
(***************************************************************************)
Flattening(g, ss, n) == g = [i \in 1 .. n |-> IF i = 1 THEN ss[i] ELSE g[i - 1] \o ss[i]]

Different(ss, n) ==
  \A i \in 1 .. n : \A j \in 1 .. n : \A y \in 1 .. Len(ss[i]) : \A z \in 1 .. Len(ss[j]) :
    ss[i][y] = ss[j][z] => i = j /\ y = z

AllOf(f, ss, n) ==
  /\ \A x \in 1 .. Len(f) : \E i \in 1 .. n : \E y \in 1 .. Len(ss[i]) : f[x] = ss[i][y]
  /\ \A i \in 1 .. n : \A y \in 1 .. Len(ss[i]) : \E x \in 1 .. Len(f) : f[x] = ss[i][y]
  /\ \A x \in 1 .. Len(f) : \A y \in 1 .. Len(f) : f[x] = f[y] => x = y

LEMMA FlatteningExists ==
  ASSUME NEW ss, NEW n \in Nat PROVE \E g : Flattening(g, ss, n)
<1> DEFINE T == {k \in Nat : \E g : Flattening(g, ss, k)}
<1>1. 0 \in T
  <2>1. Flattening([i \in 1 .. 0 |-> ss], ss, 0)
    BY DEF Flattening
  <2> QED
    BY <2>1
<1>2. ASSUME NEW k \in Nat, k \in T PROVE k + 1 \in T
  <2>1. PICK g : Flattening(g, ss, k)
    BY <1>2
  <2> DEFINE h == [i \in 1 .. k + 1 |-> IF i = 1 THEN ss[i] ELSE g[i - 1] \o ss[i]]
  <2>2. ASSUME NEW i \in 1 .. k PROVE h[i] = g[i]
    <3>1. g[i] = IF i = 1 THEN ss[i] ELSE g[i - 1] \o ss[i]
      BY <2>1, Zenon DEF Flattening
    <3>2. i \in 1 .. k + 1
      OBVIOUS
    <3> QED
      BY <3>1, <3>2
  <2>3. ASSUME NEW i \in 1 .. k + 1, i # 1 PROVE h[i - 1] = g[i - 1]
    <3>1. i - 1 \in 1 .. k
      BY <2>3
    <3> QED
      BY <2>2, <3>1
  <2>4. h = [i \in 1 .. k + 1 |-> IF i = 1 THEN ss[i] ELSE h[i - 1] \o ss[i]]
    <3>1. ASSUME NEW i \in 1 .. k + 1
          PROVE  (IF i = 1 THEN ss[i] ELSE g[i - 1] \o ss[i])
                 = IF i = 1 THEN ss[i] ELSE h[i - 1] \o ss[i]
      <4> HIDE DEF h
      <4> QED
        BY <2>3
    <3> DEFINE H == [i \in 1 .. k + 1 |-> IF i = 1 THEN ss[i] ELSE h[i - 1] \o ss[i]]
    <3>2. [i \in 1 .. k + 1 |-> IF i = 1 THEN ss[i] ELSE g[i - 1] \o ss[i]] = H
      <4> HIDE DEF h
      <4> QED
        BY <3>1, Zenon
    <3> QED
      BY <3>2, Zenon
  <2>5. Flattening(h, ss, k + 1)
    <3> HIDE DEF h
    <3> QED
      BY <2>4, Zenon DEF Flattening
  <2>6. \E f : Flattening(f, ss, k + 1)
    BY <2>5, Zenon
  <2> QED
    BY <2>6
<1>3. n \in T
  <2> HIDE DEF T
  <2> QED
    BY <1>1, <1>2, AllNats
<1> QED
  BY <1>3

LEMMA AllOfMore ==
  ASSUME NEW X, NEW ss, NEW n \in Nat, \A i \in 1 .. n + 1 : ss[i] \in Seq(X), Different(ss, n + 1),
         NEW f \in Seq(X), AllOf(f, ss, n)
  PROVE  AllOf(f \o ss[n + 1], ss, n + 1)
<1> DEFINE s == ss[n + 1]
           h == f \o s
           l == Len(f)
           k == Len(s)
<1>0. n + 1 \in 1 .. n + 1 /\ \A i \in 1 .. n : i \in 1 .. n + 1
  OBVIOUS
<1>1. s \in Seq(X) /\ l \in Nat /\ k \in Nat
  BY <1>0
<1>2. Len(h) = l + k /\ (\A x \in 1 .. l : h[x] = f[x]) /\ (\A y \in 1 .. k : h[l + y] = s[y])
  <2>1. h \in Seq(X)
    BY <1>1
  <2> QED
    BY <1>1
<1>3. \A x \in 1 .. l + k : x \in 1 .. l \/ (x - l \in 1 .. k /\ x = l + (x - l))
  BY <1>1
<1>3a. (\A x \in 1 .. l : x \in 1 .. l + k) /\ (\A y \in 1 .. k : l + y \in 1 .. l + k)
  BY <1>1
<1> HIDE DEF h, l, k
<1>4. \A x \in 1 .. l + k : (x \in 1 .. l /\ h[x] = f[x]) \/ (\E y \in 1 .. k : x = l + y /\ h[x] = s[y])
  <2> TAKE x \in 1 .. l + k
  <2>1. CASE x \in 1 .. l
    BY <1>2, <2>1
  <2>2. CASE x - l \in 1 .. k /\ x = l + (x - l)
    <3>1. h[l + (x - l)] = s[x - l]
      BY <1>2, <2>2
    <3> QED
      BY <2>2, <3>1
  <2> QED
    BY <1>3, <2>1, <2>2
<1>5. ASSUME NEW x \in 1 .. l, NEW y \in 1 .. k PROVE f[x] # s[y]
  <2>1. PICK i \in 1 .. n : \E z \in 1 .. Len(ss[i]) : f[x] = ss[i][z]
    BY DEF AllOf, l
  <2>2. PICK z \in 1 .. Len(ss[i]) : f[x] = ss[i][z]
    BY <2>1
  <2>3. i # n + 1 /\ i \in 1 .. n + 1
    OBVIOUS
  <2>4. y \in 1 .. Len(ss[n + 1])
    BY DEF k
  <2> QED
    BY <1>0, <2>2, <2>3, <2>4 DEF Different
<1>6. ASSUME NEW x \in 1 .. l + k
      PROVE \E i \in 1 .. n + 1 : \E y \in 1 .. Len(ss[i]) : h[x] = ss[i][y]
  <2>1. CASE x \in 1 .. l /\ h[x] = f[x]
    <3>1. \E i \in 1 .. n : \E y \in 1 .. Len(ss[i]) : f[x] = ss[i][y]
      BY <2>1 DEF AllOf, l
    <3> QED
      BY <1>0, <2>1, <3>1
  <2>2. CASE \E y \in 1 .. k : x = l + y /\ h[x] = s[y]
    BY <1>0, <2>2 DEF k
  <2> QED
    BY <1>4, <2>1, <2>2
<1>7. ASSUME NEW i \in 1 .. n + 1, NEW y \in 1 .. Len(ss[i]) PROVE \E x \in 1 .. l + k : h[x] = ss[i][y]
  <2>1. CASE i \in 1 .. n
    <3>1. PICK x \in 1 .. l : f[x] = ss[i][y]
      BY <2>1 DEF AllOf, l
    <3> QED
      BY <1>2, <1>3a, <3>1
  <2>2. CASE i = n + 1
    <3>1. y \in 1 .. k
      BY <2>2 DEF k
    <3> QED
      BY <1>2, <1>3a, <2>2, <3>1
  <2> QED
    BY <2>1, <2>2
<1>8. ASSUME NEW x \in 1 .. l + k, NEW y \in 1 .. l + k, h[x] = h[y] PROVE x = y
  <2>1. CASE x \in 1 .. l /\ h[x] = f[x] /\ y \in 1 .. l /\ h[y] = f[y]
    BY <1>8, <2>1 DEF AllOf, l
  <2>2. CASE (\E a \in 1 .. k : x = l + a /\ h[x] = s[a]) /\ (\E b \in 1 .. k : y = l + b /\ h[y] = s[b])
    <3>1. PICK a \in 1 .. k : x = l + a /\ h[x] = s[a]
      BY <2>2
    <3>2. PICK b \in 1 .. k : y = l + b /\ h[y] = s[b]
      BY <2>2
    <3>3. a = b
      BY <1>0, <1>8, <3>1, <3>2 DEF Different, k
    <3> QED
      BY <3>1, <3>2, <3>3
  <2>3. CASE (x \in 1 .. l /\ h[x] = f[x]) /\ (\E b \in 1 .. k : y = l + b /\ h[y] = s[b])
    BY <1>5, <1>8, <2>3
  <2>4. CASE (\E a \in 1 .. k : x = l + a /\ h[x] = s[a]) /\ (y \in 1 .. l /\ h[y] = f[y])
    BY <1>5, <1>8, <2>4
  <2> QED
    BY <1>4, <2>1, <2>2, <2>3, <2>4
<1> QED
  BY <1>2, <1>6, <1>7, <1>8 DEF AllOf, h

LEMMA FlattenOK ==
  ASSUME NEW X, NEW n \in Nat, NEW ss, ss \in Seq(Seq(X)), Len(ss) = n, Different(ss, n)
  PROVE  FlattenSeq(ss) \in Seq(X) /\ AllOf(FlattenSeq(ss), ss, n)
<1>1. \A i \in 1 .. n : ss[i] \in Seq(X)
  OBVIOUS
<1>2. CASE n = 0
  <2>1. FlattenSeq(ss) = << >> /\ ss = << >>
    BY <1>2 DEF FlattenSeq
  <2>2. Len(<< >>) = 0
    OBVIOUS
  <2> QED
    BY <1>2, <2>1, <2>2 DEF AllOf
<1>3. CASE n # 0
  <2> DEFINE G == CHOOSE g : Flattening(g, ss, Len(ss))
  <2>1. FlattenSeq(ss) = G[Len(ss)]
    BY <1>3 DEF FlattenSeq, Flattening
  <2>2. Flattening(G, ss, n)
    BY FlatteningExists
  <2> HIDE DEF G
  <2> DEFINE T == {k \in Nat : k + 1 <= n => G[k + 1] \in Seq(X) /\ AllOf(G[k + 1], ss, k + 1)}
  <2>3. ASSUME NEW k \in 1 .. n PROVE Different(ss, k)
    BY DEF Different
  <2>4. 0 \in T
    <3>1. 1 \in 1 .. n /\ G[1] = ss[1]
      <4>1. 1 \in 1 .. n
        BY <1>3
      <4> QED
        BY <2>2, <4>1, Zenon DEF Flattening
    <3>2. AllOf(ss[1], ss, 1)
      <4>1. Different(ss, 1)
        BY <2>3, <3>1
      <4>2. 1 \in 1 .. 1 /\ \A i \in 1 .. 1 : i = 1
        OBVIOUS
      <4> QED
        BY <4>1, <4>2 DEF AllOf, Different
    <3> QED
      BY <1>1, <3>1, <3>2
  <2>5. ASSUME NEW k \in Nat, k \in T PROVE k + 1 \in T
    <3> SUFFICES ASSUME k + 2 <= n PROVE G[k + 2] \in Seq(X) /\ AllOf(G[k + 2], ss, k + 2)
      <4>1. (k + 1) + 1 = k + 2
        OBVIOUS
      <4> QED
        BY <4>1
    <3>1. G[k + 1] \in Seq(X) /\ AllOf(G[k + 1], ss, k + 1)
      BY <2>5
    <3>2. k + 2 \in 1 .. n /\ k + 2 # 1 /\ (k + 2) - 1 = k + 1 /\ (k + 1) + 1 = k + 2
      OBVIOUS
    <3>3. G[k + 2] = IF k + 2 = 1 THEN ss[k + 2] ELSE G[(k + 2) - 1] \o ss[k + 2]
      BY <2>2, <3>2, Zenon DEF Flattening
    <3>4. G[k + 2] = G[k + 1] \o ss[k + 2]
      BY <3>2, <3>3
    <3>5. \A i \in 1 .. k + 2 : ss[i] \in Seq(X)
      BY <1>1, <3>2
    <3>6. AllOf(G[k + 1] \o ss[k + 2], ss, k + 2)
      <4>1. Different(ss, k + 2)
        BY <2>3, <3>2
      <4>2. PICK m \in Nat : m = k + 1
        OBVIOUS
      <4>3. m + 1 = k + 2
        BY <4>2
      <4>4. AllOf(G[m] \o ss[m + 1], ss, m + 1)
        BY <3>1, <3>5, <4>1, <4>2, <4>3, AllOfMore
      <4> QED
        BY <4>2, <4>3, <4>4
    <3> QED
      BY <3>1, <3>2, <3>4, <3>5, <3>6
  <2>6. n - 1 \in T
    <3>1. n - 1 \in Nat
      BY <1>3
    <3> HIDE DEF T
    <3> QED
      BY <2>4, <2>5, <3>1, AllNats
  <2>7. G[n] \in Seq(X) /\ AllOf(G[n], ss, n)
    <3>1. (n - 1) + 1 = n /\ n <= n
      BY <1>3
    <3> QED
      BY <2>6, <3>1
  <2> QED
    BY <2>1, <2>7
<1> QED
  BY <1>2, <1>3

(***************************************************************************)
(* The experiments of the workbook, and lists in order.                    *)
(***************************************************************************)
Listing(L, S, R) ==
  /\ L \in [1 .. Cardinality(S) -> S]
  /\ \A e \in S : \E i \in 1 .. Cardinality(S) : L[i] = e
  /\ \A i, j \in 1 .. Cardinality(S) : i < j <=> <<L[i], L[j]>> \in R

LEMMA ListingOK ==
  ASSUME NEW S, IsFiniteSet(S), NEW R, Orders(R, S), NEW L,
         L = [i \in 1 .. Cardinality(S) |-> L[i]],
         \A i \in 1 .. Cardinality(S) : L[i] \in S /\ Rank(S, R, L[i]) = i - 1
  PROVE  Listing(L, S, R)
<1> DEFINE C == Cardinality(S)
<1>0. C \in Nat
  BY FS_CardinalityType
<1>1. \A i \in 1 .. C : L[i] \in S /\ Rank(S, R, L[i]) = i - 1
  OBVIOUS
<1>2. L \in [1 .. C -> S]
  BY <1>1
<1>3. ASSUME NEW e \in S PROVE \E i \in 1 .. C : L[i] = e
  <2>1. Rank(S, R, e) \in 0 .. (C - 1)
    BY RankGrows
  <2>2. PICK i \in 1 .. C : Rank(S, R, e) = i - 1
    <3>1. Rank(S, R, e) + 1 \in 1 .. C /\ (Rank(S, R, e) + 1) - 1 = Rank(S, R, e)
      BY <1>0, <2>1
    <3> QED
      BY <3>1
  <2>3. L[i] \in S /\ Rank(S, R, L[i]) = Rank(S, R, e)
    BY <1>1, <2>2
  <2>4. L[i] = e
    BY <2>3, RankGrows
  <2> QED
    BY <2>4
<1>4. ASSUME NEW i \in 1 .. C, NEW j \in 1 .. C PROVE i < j <=> <<L[i], L[j]>> \in R
  <2>1. L[i] \in S /\ L[j] \in S /\ Rank(S, R, L[i]) = i - 1 /\ Rank(S, R, L[j]) = j - 1
    BY <1>1
  <2>2. <<L[i], L[j]>> \in R <=> Rank(S, R, L[i]) < Rank(S, R, L[j])
    BY <2>1, RankGrows
  <2> QED
    BY <1>0, <2>1, <2>2
<1> QED
  BY <1>2, <1>3, <1>4 DEF Listing

\* Places of a list are those of its elements.
LEMMA ListingDiffers ==
  ASSUME NEW S, IsFiniteSet(S), NEW R, Orders(R, S), NEW L, Listing(L, S, R),
         NEW i \in 1 .. Cardinality(S), NEW j \in 1 .. Cardinality(S), L[i] = L[j]
  PROVE  i = j
<1>1. Cardinality(S) \in Nat /\ L[i] \in S /\ <<L[i], L[i]>> \notin R
  BY FS_CardinalityType DEF Listing, Orders
<1> QED
  BY <1>1 DEF Listing

ExperimentsTyped ==
  /\ IsFiniteSet(DOMAIN experiments) /\ DOMAIN experiments \subseteq Nat
  /\ \A e \in DOMAIN experiments :
       /\ experiments[e].distro \in Distros
       /\ experiments[e].key \in Int /\ experiments[e].started \in Int

Earlier(ids) == {r \in ids \X ids : Before(r[1], r[2])}
Smaller(ks) == {r \in ks \X ks : r[1] < r[2]}

LEMMA EarlierOK ==
  ASSUME ExperimentsTyped, NEW ids, ids \subseteq DOMAIN experiments
  PROVE  /\ IsFiniteSet(ids) /\ Orders(Earlier(ids), ids) /\ Listing(InOrder(ids), ids, Earlier(ids))
<1>1. IsFiniteSet(ids)
  BY FS_Subset DEF ExperimentsTyped
<1>2. \A d \in ids : d \in Nat /\ experiments[d].started \in Int
  BY DEF ExperimentsTyped
<1>3. /\ \A d \in ids : ~ Before(d, d)
      /\ \A d, e \in ids : d = e \/ Before(d, e) \/ Before(e, d)
      /\ \A d, e, f \in ids : Before(d, e) /\ Before(e, f) => Before(d, f)
  BY <1>2 DEF Before
<1>4. \A d, e \in ids : <<d, e>> \in Earlier(ids) <=> Before(d, e)
  BY DEF Earlier
<1>5. Orders(Earlier(ids), ids)
  BY <1>3, <1>4, Zenon DEF Orders
<1>6. \A e \in ids : {d \in ids : Before(d, e)} = Below(ids, Earlier(ids), e)
  BY <1>4 DEF Below
<1>7. ASSUME NEW i \in 1 .. Cardinality(ids) PROVE InOrder(ids)[i] \in ids /\ Rank(ids, Earlier(ids), InOrder(ids)[i]) = i - 1
  <2>1. i - 1 \in 0 .. (Cardinality(ids) - 1)
    BY <1>1, FS_CardinalityType
  <2>2. PICK x \in ids : Rank(ids, Earlier(ids), x) = i - 1
    BY <1>1, <1>5, <2>1, EveryRank
  <2>3. \A e \in ids : Cardinality({d \in ids : Before(d, e)}) = Rank(ids, Earlier(ids), e)
    BY <1>6 DEF Rank
  <2> DEFINE c == CHOOSE e \in ids : Cardinality({d \in ids : Before(d, e)}) = i - 1
  <2>4. c \in ids /\ Cardinality({d \in ids : Before(d, c)}) = i - 1
    BY <2>2, <2>3
  <2>5. InOrder(ids)[i] = c
    BY DEF InOrder
  <2> QED
    BY <2>3, <2>4, <2>5
<1>8. InOrder(ids) = [i \in 1 .. Cardinality(ids) |-> InOrder(ids)[i]]
  <2> DEFINE at(i) == CHOOSE e \in ids : Cardinality({d \in ids : Before(d, e)}) = i - 1
  <2>1. InOrder(ids) = [i \in 1 .. Cardinality(ids) |-> at(i)]
    BY Zenon DEF InOrder
  <2> HIDE DEF at
  <2> QED
    BY <2>1
<1> QED
  BY <1>1, <1>5, <1>7, <1>8, ListingOK

LEMMA KeysOK ==
  ASSUME ExperimentsTyped
  PROVE  /\ IsFiniteSet(Keys) /\ Cardinality(Keys) \in Nat
         /\ Listing(KeysInOrder, Keys, Smaller(Keys)) /\ Orders(Smaller(Keys), Keys)
<1>1. IsFiniteSet(Keys)
  <2> DEFINE f == [e \in DOMAIN experiments |-> experiments[e].key]
  <2>1. f \in Surjection(DOMAIN experiments, Keys)
    BY DEF Keys, Surjection
  <2> HIDE DEF f
  <2> QED
    BY <2>1, FS_Surjection DEF ExperimentsTyped
<1>2. \A k \in Keys : k \in Int
  BY DEF Keys, ExperimentsTyped
<1>3. \A k, j \in Keys : <<k, j>> \in Smaller(Keys) <=> k < j
  BY DEF Smaller
<1>4. Orders(Smaller(Keys), Keys)
  <2>1. /\ \A k \in Keys : ~ (k < k)
        /\ \A k, j \in Keys : k = j \/ k < j \/ j < k
        /\ \A k, j, l \in Keys : k < j /\ j < l => k < l
    BY <1>2
  <2> QED
    BY <1>3, <2>1, Zenon DEF Orders
<1>5. \A k \in Keys : {j \in Keys : j < k} = Below(Keys, Smaller(Keys), k)
  BY <1>3 DEF Below
<1>6. ASSUME NEW i \in 1 .. Cardinality(Keys) PROVE KeysInOrder[i] \in Keys /\ Rank(Keys, Smaller(Keys), KeysInOrder[i]) = i - 1
  <2>1. i - 1 \in 0 .. (Cardinality(Keys) - 1)
    BY <1>1, FS_CardinalityType
  <2>2. PICK x \in Keys : Rank(Keys, Smaller(Keys), x) = i - 1
    BY <1>1, <1>4, <2>1, EveryRank
  <2>3. \A e \in Keys : Cardinality({j \in Keys : j < e}) = Rank(Keys, Smaller(Keys), e)
    BY <1>5 DEF Rank
  <2> DEFINE c == CHOOSE e \in Keys : Cardinality({j \in Keys : j < e}) = i - 1
  <2>4. c \in Keys /\ Cardinality({j \in Keys : j < c}) = i - 1
    BY <2>2, <2>3
  <2>5. KeysInOrder[i] = c
    BY DEF KeysInOrder
  <2> QED
    BY <2>3, <2>4, <2>5
<1>7. KeysInOrder = [i \in 1 .. Cardinality(Keys) |-> KeysInOrder[i]]
  BY DEF KeysInOrder
<1> QED
  BY <1>1, <1>4, <1>6, <1>7, ListingOK, FS_CardinalityType

(***************************************************************************)
(* Pairs of one key.                                                       *)
(***************************************************************************)
Taken(ps, side) == {ps[i][side] : i \in 1 .. Len(ps)}
FirstOnes(ps, side, S) == \A e \in Taken(ps, side) : \A d \in S \ Taken(ps, side) : Before(e, d)
FairPairs(ps, P, S) ==
  /\ ps \in Seq(P \X S)
  /\ \A i, j \in 1 .. Len(ps) : ps[i][1] = ps[j][1] \/ ps[i][2] = ps[j][2] => i = j
  /\ \A i, j \in 1 .. Len(ps) : Before(ps[i][1], ps[j][1]) <=> Before(ps[i][2], ps[j][2])
  /\ Taken(ps, 1) = P \/ Taken(ps, 2) = S
  /\ FirstOnes(ps, 1, P) /\ FirstOnes(ps, 2, S)

\* The first n of a list are before the others.
LEMMA FirstOnesOK ==
  ASSUME ExperimentsTyped, NEW ids, ids \subseteq DOMAIN experiments,
         NEW n \in Nat, n <= Cardinality(ids), NEW ps, Len(ps) = n, NEW side,
         \A i \in 1 .. n : ps[i][side] = InOrder(ids)[i]
  PROVE  FirstOnes(ps, side, ids) /\ (n = Cardinality(ids) => Taken(ps, side) = ids)
<1> DEFINE L == InOrder(ids)
           C == Cardinality(ids)
<1>1. C \in Nat /\ Listing(L, ids, Earlier(ids))
  BY EarlierOK, FS_CardinalityType
<1> HIDE DEF L, C
<1>2. \A e \in Taken(ps, side) : \E i \in 1 .. n : e = L[i]
  BY DEF Taken, L
<1>3. \A i \in 1 .. n : L[i] \in Taken(ps, side) /\ i \in 1 .. C
  BY <1>1 DEF Taken, L, C
<1>4. ASSUME NEW e \in Taken(ps, side), NEW d \in ids \ Taken(ps, side) PROVE Before(e, d)
  <2>1. PICK i \in 1 .. n : e = L[i]
    BY <1>2
  <2>2. PICK j \in 1 .. C : L[j] = d
    BY <1>1 DEF Listing, C
  <2>3. j \notin 1 .. n
    BY <1>3, <2>2
  <2>4. i < j /\ i \in 1 .. C
    BY <1>1, <1>3, <2>3
  <2>5. <<e, d>> \in Earlier(ids)
    BY <1>1, <2>1, <2>2, <2>4 DEF Listing, C
  <2> QED
    BY <2>5 DEF Earlier
<1>5. ASSUME n = C PROVE Taken(ps, side) = ids
  <2>1. \A e \in ids : \E i \in 1 .. C : L[i] = e
    BY <1>1 DEF Listing, C
  <2>2. \A i \in 1 .. C : L[i] \in ids
    BY <1>1 DEF Listing, C
  <2>3. \A e \in Taken(ps, side) : e \in ids
    BY <1>2, <1>3, <2>2
  <2>4. \A e \in ids : e \in Taken(ps, side)
    BY <1>3, <1>5, <2>1
  <2> QED
    BY <2>3, <2>4
<1> QED
  BY <1>4, <1>5 DEF FirstOnes, C

Of1(ids, d, k) == {e \in InDistro(ids, d) : experiments[e].key = k}

LEMMA PairsOfOK ==
  ASSUME ExperimentsTyped, NEW key, NEW ids
  PROVE  FairPairs(PairsOf(key, ids), Of1(ids, Poky, key), Of1(ids, Suse, key))
<1> DEFINE P == Of1(ids, Poky, key)
           S == Of1(ids, Suse, key)
           p == InOrder(P)
           s == InOrder(S)
           c == Cardinality(P)
           d == Cardinality(S)
           n == IF c < d THEN c ELSE d
           ps == PairsOf(key, ids)
<1>1. P \subseteq DOMAIN experiments /\ S \subseteq DOMAIN experiments
  BY DEF Of1, InDistro
<1>2. /\ IsFiniteSet(P) /\ Orders(Earlier(P), P) /\ Listing(p, P, Earlier(P))
      /\ IsFiniteSet(S) /\ Orders(Earlier(S), S) /\ Listing(s, S, Earlier(S))
  BY <1>1, EarlierOK
<1>3. c \in Nat /\ d \in Nat
  BY <1>2, FS_CardinalityType
<1>4. p \in [1 .. c -> P] /\ s \in [1 .. d -> S]
  BY <1>2 DEF Listing
<1> HIDE DEF P, S, p, s, c, d
<1>5. p \in Seq(P) /\ s \in Seq(S) /\ Len(p) = c /\ Len(s) = d
  BY <1>3, <1>4
<1>6. ps = [i \in 1 .. n |-> <<p[i], s[i]>>]
  <2>1. ps = [i \in 1 .. (IF Len(p) < Len(s) THEN Len(p) ELSE Len(s)) |-> <<p[i], s[i]>>]
    BY Zenon DEF PairsOf, Of1, p, s, P, S
  <2> QED
    BY <1>5, <2>1
<1> HIDE DEF ps
<1>7. n \in Nat /\ n <= c /\ n <= d /\ (n = c \/ n = d)
  BY <1>3
<1> HIDE DEF n
<1>8. \A i \in 1 .. n : i \in 1 .. c /\ i \in 1 .. d /\ p[i] \in P /\ s[i] \in S
  BY <1>3, <1>4, <1>7
<1>9. ps \in Seq(P \X S) /\ Len(ps) = n /\ \A i \in 1 .. n : ps[i] = <<p[i], s[i]>>
  BY <1>6, <1>7, <1>8
<1>10. \A i \in 1 .. n : ps[i][1] = p[i] /\ ps[i][2] = s[i]
  BY <1>9
<1>11. ASSUME NEW i \in 1 .. n, NEW j \in 1 .. n
       PROVE  /\ (ps[i][1] = ps[j][1] \/ ps[i][2] = ps[j][2] => i = j)
              /\ Before(ps[i][1], ps[j][1]) <=> Before(ps[i][2], ps[j][2])
  <2>1. p[i] = p[j] => i = j
    BY <1>2, <1>8, ListingDiffers DEF c
  <2>2. s[i] = s[j] => i = j
    BY <1>2, <1>8, ListingDiffers DEF d
  <2>3. i < j <=> <<p[i], p[j]>> \in Earlier(P)
    BY <1>2, <1>8 DEF Listing, c
  <2>4. i < j <=> <<s[i], s[j]>> \in Earlier(S)
    BY <1>2, <1>8 DEF Listing, d
  <2>5. <<p[i], p[j]>> \in Earlier(P) <=> Before(p[i], p[j])
    BY <1>8 DEF Earlier
  <2>6. <<s[i], s[j]>> \in Earlier(S) <=> Before(s[i], s[j])
    BY <1>8 DEF Earlier
  <2> QED
    BY <1>10, <2>1, <2>2, <2>3, <2>4, <2>5, <2>6
<1>12. FirstOnes(ps, 1, P) /\ (n = c => Taken(ps, 1) = P)
  BY <1>1, <1>7, <1>9, <1>10, FirstOnesOK DEF p, c
<1>13. FirstOnes(ps, 2, S) /\ (n = d => Taken(ps, 2) = S)
  BY <1>1, <1>7, <1>9, <1>10, FirstOnesOK DEF s, d
<1>14. FairPairs(ps, P, S)
  BY <1>7, <1>9, <1>11, <1>12, <1>13 DEF FairPairs
<1> QED
  BY <1>14 DEF ps, P, S

(***************************************************************************)
(* The pairs that are compared.                                            *)
(***************************************************************************)
\* Where both distributions are found, they are what the experiments ran on.
OsKept ==
  \A p, s \in DOMAIN experiments :
    experiments[p].distro = Poky /\ experiments[s].distro = Suse
      => request.experiments[p].os = Poky /\ request.experiments[s].os = Suse

\* Each place holds one of Poky and one of SUSE, all of them asked for and different.
PairAt(f, x) ==
  /\ f[x] = <<f[x][1], f[x][2]>>
  /\ f[x][1] \in InDistro(SelectedIds, Poky) /\ f[x][2] \in InDistro(SelectedIds, Suse)
Apart(f) ==
  \A x, y \in DOMAIN f : f[x][1] = f[y][1] \/ f[x][2] = f[y][2] => x = y
Pairs(f) == DOMAIN f = 1 .. Len(f) /\ Len(f) \in Nat /\ (\A x \in DOMAIN f : PairAt(f, x)) /\ Apart(f)

ByKey(f) ==
  /\ \A x \in DOMAIN f : experiments[f[x][1]].key = experiments[f[x][2]].key
  /\ \A k \in Keys :
       LET P == Of1(SelectedIds, Poky, k)
           S == Of1(SelectedIds, Suse, k)
           made == {x \in DOMAIN f : experiments[f[x][1]].key = k}
           taken(side) == {f[x][side] : x \in made}
       IN  /\ taken(1) = P \/ taken(2) = S
           /\ \A e \in taken(1) : \A d \in P \ taken(1) : Before(e, d)
           /\ \A e \in taken(2) : \A d \in S \ taken(2) : Before(e, d)
           /\ \A x, y \in made : Before(f[x][1], f[y][1]) <=> Before(f[x][2], f[y][2])

LEMMA KeyedPairs ==
  ASSUME ExperimentsTyped
  PROVE  LET f == FlattenSeq([i \in 1 .. Cardinality(Keys) |-> PairsOf(KeysInOrder[i], SelectedIds)])
         IN  Pairs(f) /\ ByKey(f)
<1> DEFINE ids == SelectedIds
           K == KeysInOrder
           n == Cardinality(Keys)
           ss == [i \in 1 .. n |-> PairsOf(K[i], ids)]
           f == FlattenSeq(ss)
           X == (DOMAIN experiments) \X (DOMAIN experiments)
           P(k) == Of1(ids, Poky, k)
           S(k) == Of1(ids, Suse, k)
<1>1. /\ IsFiniteSet(Keys) /\ n \in Nat /\ Listing(K, Keys, Smaller(Keys)) /\ Orders(Smaller(Keys), Keys)
  BY KeysOK
<1>2. ASSUME NEW k
      PROVE  /\ P(k) \subseteq DOMAIN experiments /\ S(k) \subseteq DOMAIN experiments
             /\ \A e \in P(k) : e \in InDistro(ids, Poky) /\ experiments[e].key = k
             /\ \A e \in S(k) : e \in InDistro(ids, Suse) /\ experiments[e].key = k
  BY DEF Of1, InDistro
<1>3. ASSUME NEW i \in 1 .. n PROVE ss[i] = PairsOf(K[i], ids) /\ FairPairs(ss[i], P(K[i]), S(K[i]))
  BY PairsOfOK
<1> HIDE DEF P, S
<1>4. ASSUME NEW i \in 1 .. n, NEW y \in 1 .. Len(ss[i])
      PROVE  /\ ss[i] \in Seq(X)
             /\ ss[i][y] = <<ss[i][y][1], ss[i][y][2]>>
             /\ ss[i][y][1] \in P(K[i]) /\ ss[i][y][2] \in S(K[i])
  <2> HIDE DEF ss
  <2>1. ss[i] \in Seq(P(K[i]) \X S(K[i]))
    BY <1>3 DEF FairPairs
  <2>2. ss[i][y] \in P(K[i]) \X S(K[i])
    BY <2>1
  <2>3. ss[i] \in Seq(X)
    <3>1. P(K[i]) \X S(K[i]) \subseteq X
      BY <1>2
    <3>2. Len(ss[i]) \in Nat /\ ss[i] \in [1 .. Len(ss[i]) -> P(K[i]) \X S(K[i])]
      BY <2>1
    <3>3. ss[i] \in [1 .. Len(ss[i]) -> X]
      BY <3>1, <3>2
    <3> QED
      BY <3>2, <3>3
  <2> QED
    BY <2>2, <2>3
<1>5. ss \in Seq(Seq(X)) /\ Len(ss) = n
  <2>1. ASSUME NEW i \in 1 .. n PROVE ss[i] \in Seq(X)
    <3> HIDE DEF ss
    <3>1. ss[i] \in Seq(P(K[i]) \X S(K[i]))
      BY <1>3 DEF FairPairs
    <3>2. P(K[i]) \X S(K[i]) \subseteq X
      BY <1>2
    <3>3. Len(ss[i]) \in Nat /\ ss[i] \in [1 .. Len(ss[i]) -> P(K[i]) \X S(K[i])]
      BY <3>1
    <3>4. ss[i] \in [1 .. Len(ss[i]) -> X]
      BY <3>2, <3>3
    <3> QED
      BY <3>3, <3>4
  <2>2. ss = [i \in 1 .. n |-> ss[i]]
    OBVIOUS
  <2> HIDE DEF ss
  <2>3. ss \in [1 .. n -> Seq(X)]
    BY <2>1, <2>2
  <2> QED
    BY <1>1, <2>3
<1> HIDE DEF ss
<1>6. ASSUME NEW i \in 1 .. n, NEW j \in 1 .. n, K[i] = K[j] PROVE i = j
  BY <1>1, <1>6, ListingDiffers
<1>7. ASSUME NEW i \in 1 .. n, NEW j \in 1 .. n, NEW y \in 1 .. Len(ss[i]), NEW z \in 1 .. Len(ss[j]),
             ss[i][y][1] = ss[j][z][1] \/ ss[i][y][2] = ss[j][z][2]
      PROVE  i = j /\ y = z
  <2>1. /\ experiments[ss[i][y][1]].key = K[i] /\ experiments[ss[i][y][2]].key = K[i]
        /\ experiments[ss[j][z][1]].key = K[j] /\ experiments[ss[j][z][2]].key = K[j]
    BY <1>2, <1>4
  <2>2. i = j
    BY <1>6, <1>7, <2>1
  <2>3. y = z
    <3>1. FairPairs(ss[i], P(K[i]), S(K[i]))
      BY <1>3
    <3>2. z \in 1 .. Len(ss[i]) /\ (ss[i][y][1] = ss[i][z][1] \/ ss[i][y][2] = ss[i][z][2])
      BY <1>7, <2>2
    <3>3. \A a, b \in 1 .. Len(ss[i]) : ss[i][a][1] = ss[i][b][1] \/ ss[i][a][2] = ss[i][b][2] => a = b
      BY <3>1 DEF FairPairs
    <3> QED
      BY <3>2, <3>3
  <2> QED
    BY <2>2, <2>3
<1>8. Different(ss, n)
  BY <1>7 DEF Different
<1>9. f \in Seq(X) /\ AllOf(f, ss, n)
  BY <1>1, <1>5, <1>8, FlattenOK
<1> HIDE DEF f
<1>10. DOMAIN f = 1 .. Len(f) /\ Len(f) \in Nat
  BY <1>9
<1>11. ASSUME NEW x \in DOMAIN f
       PROVE  \E i \in 1 .. n : \E y \in 1 .. Len(ss[i]) :
                f[x] = ss[i][y] /\ experiments[f[x][1]].key = K[i] /\ experiments[f[x][2]].key = K[i]
  <2>1. PICK i \in 1 .. n : \E y \in 1 .. Len(ss[i]) : f[x] = ss[i][y]
    BY <1>9, <1>10 DEF AllOf
  <2>2. PICK y \in 1 .. Len(ss[i]) : f[x] = ss[i][y]
    BY <2>1
  <2>3. experiments[f[x][1]].key = K[i] /\ experiments[f[x][2]].key = K[i]
    BY <1>2, <1>4, <2>2
  <2> QED
    BY <2>2, <2>3
<1>12. \A x \in DOMAIN f : PairAt(f, x)
  <2> TAKE x \in DOMAIN f
  <2>1. PICK i \in 1 .. n : \E y \in 1 .. Len(ss[i]) : f[x] = ss[i][y]
    BY <1>11
  <2>2. PICK y \in 1 .. Len(ss[i]) : f[x] = ss[i][y]
    BY <2>1
  <2> QED
    BY <1>2, <1>4, <2>2 DEF PairAt
<1>13. Apart(f)
  <2> SUFFICES ASSUME NEW x \in DOMAIN f, NEW y \in DOMAIN f, f[x][1] = f[y][1] \/ f[x][2] = f[y][2]
               PROVE x = y
    BY DEF Apart
  <2>1. PICK i \in 1 .. n : \E a \in 1 .. Len(ss[i]) : f[x] = ss[i][a]
    BY <1>11
  <2>2. PICK a \in 1 .. Len(ss[i]) : f[x] = ss[i][a]
    BY <2>1
  <2>3. PICK j \in 1 .. n : \E b \in 1 .. Len(ss[j]) : f[y] = ss[j][b]
    BY <1>11
  <2>4. PICK b \in 1 .. Len(ss[j]) : f[y] = ss[j][b]
    BY <2>3
  <2>5. i = j /\ a = b
    <3>1. ss[i][a][1] = ss[j][b][1] \/ ss[i][a][2] = ss[j][b][2]
      BY <2>2, <2>4
    <3> QED
      BY <1>7, <3>1, SMTT(30)
  <2>6. f[x] = f[y]
    BY <2>2, <2>4, <2>5
  <2> QED
    BY <1>9, <1>10, <2>6 DEF AllOf
<1>14. ByKey(f)
  <2>1. \A x \in DOMAIN f : experiments[f[x][1]].key = experiments[f[x][2]].key
    BY <1>11
  <2>2. ASSUME NEW k \in Keys
        PROVE LET made == {x \in DOMAIN f : experiments[f[x][1]].key = k}
                  taken(side) == {f[x][side] : x \in made}
              IN  /\ taken(1) = P(k) \/ taken(2) = S(k)
                  /\ \A e \in taken(1) : \A d \in P(k) \ taken(1) : Before(e, d)
                  /\ \A e \in taken(2) : \A d \in S(k) \ taken(2) : Before(e, d)
                  /\ \A x, y \in made : Before(f[x][1], f[y][1]) <=> Before(f[x][2], f[y][2])
    <3> DEFINE made == {x \in DOMAIN f : experiments[f[x][1]].key = k}
               taken(side) == {f[x][side] : x \in made}
    <3>1. PICK i \in 1 .. n : K[i] = k
      BY <1>1 DEF Listing
    <3>2. FairPairs(ss[i], P(k), S(k))
      BY <1>3, <3>1
    <3>3. \A x \in made : \E y \in 1 .. Len(ss[i]) : f[x] = ss[i][y]
      <4> TAKE x \in made
      <4>1. PICK j \in 1 .. n : /\ \E y \in 1 .. Len(ss[j]) : f[x] = ss[j][y]
                                /\ experiments[f[x][1]].key = K[j]
        BY <1>11
      <4>2. j = i
        BY <1>6, <3>1, <4>1
      <4> QED
        BY <4>1, <4>2
    <3>4. \A y \in 1 .. Len(ss[i]) : \E x \in made : f[x] = ss[i][y]
      <4> TAKE y \in 1 .. Len(ss[i])
      <4>1. PICK x \in DOMAIN f : f[x] = ss[i][y]
        BY <1>9, <1>10 DEF AllOf
      <4>2. experiments[f[x][1]].key = k
        BY <1>2, <1>4, <3>1, <4>1
      <4> QED
        BY <4>1, <4>2
    <3> HIDE DEF made
    <3>5. taken(1) = Taken(ss[i], 1) /\ taken(2) = Taken(ss[i], 2)
      <4>1. ASSUME NEW side, NEW e \in taken(side) PROVE e \in Taken(ss[i], side)
        BY <3>3, <4>1 DEF Taken
      <4>2. ASSUME NEW side, NEW e \in Taken(ss[i], side) PROVE e \in taken(side)
        BY <3>4, <4>2 DEF Taken
      <4>3. /\ \A e : e \in taken(1) <=> e \in Taken(ss[i], 1)
            /\ \A e : e \in taken(2) <=> e \in Taken(ss[i], 2)
        BY <4>1, <4>2, Zenon
      <4> QED
        BY <4>3, SetExtensionality, Zenon
    <3>6. \A x, y \in made : Before(f[x][1], f[y][1]) <=> Before(f[x][2], f[y][2])
      <4>1. ASSUME NEW x \in made, NEW y \in made
            PROVE  Before(f[x][1], f[y][1]) <=> Before(f[x][2], f[y][2])
        <5>1. PICK a \in 1 .. Len(ss[i]) : f[x] = ss[i][a]
          BY <3>3
        <5>2. PICK b \in 1 .. Len(ss[i]) : f[y] = ss[i][b]
          BY <3>3
        <5>3. Before(ss[i][a][1], ss[i][b][1]) <=> Before(ss[i][a][2], ss[i][b][2])
          BY <3>2 DEF FairPairs
        <5> QED
          BY <5>1, <5>2, <5>3
      <4> QED
        BY <4>1
    <3> HIDE DEF taken
    <3>7. /\ taken(1) = P(k) \/ taken(2) = S(k)
          /\ \A e \in taken(1) : \A d \in P(k) \ taken(1) : Before(e, d)
          /\ \A e \in taken(2) : \A d \in S(k) \ taken(2) : Before(e, d)
      BY <3>2, <3>5 DEF FairPairs, FirstOnes
    <3> QED
      BY <3>6, <3>7, Zenon DEF made, taken
  <2> QED
    BY <2>1, <2>2, Zenon DEF ByKey, P, S
<1> QED
  BY <1>10, <1>12, <1>13, <1>14 DEF Pairs, f, ss

LEMMA GroupsOK ==
  ASSUME ExperimentsTyped
  PROVE  /\ Pairs(ComparisonGroups)
         /\ Cardinality(SelectedIds) # 2 => ByKey(ComparisonGroups)
<1> DEFINE f == ComparisonGroups
<1>0. Poky # Suse /\ Poky \in Distros /\ Suse \in Distros
  BY DEF Poky, Suse, Distros
<1>e. Pairs(<< >>)
  BY DEF Pairs, Apart
<1>1. CASE SelectedIds = {}
  <2>1. f = << >> /\ DOMAIN f = {}
    BY <1>1 DEF ComparisonGroups
  <2>2. \A d, k : Of1(SelectedIds, d, k) = {}
    BY <1>1 DEF Of1, InDistro
  <2> HIDE DEF f
  <2>3. ByKey(f)
    <3>1. \A k : {x \in DOMAIN f : experiments[f[x][1]].key = k} = {}
      BY <2>1
    <3> QED
      BY <2>1, <2>2, <3>1 DEF ByKey
  <2>4. Pairs(f)
    BY <1>e, <2>1
  <2> QED
    BY <2>3, <2>4 DEF f
<1>2. CASE SelectedIds # {} /\ Cardinality(SelectedIds) = 2
  <2>1. f = ExplicitPair(SelectedIds)
    BY <1>2 DEF ComparisonGroups
  <2> DEFINE p == CHOOSE e \in InDistro(SelectedIds, Poky) : TRUE
             s == CHOOSE e \in InDistro(SelectedIds, Suse) : TRUE
             both == SelectedIds \subseteq DOMAIN experiments /\ \A d \in Distros : InDistro(SelectedIds, d) # {}
  <2>2. f = IF both THEN << <<p, s>> >> ELSE << >>
    BY <2>1 DEF ExplicitPair
  <2>3. both => p \in InDistro(SelectedIds, Poky) /\ s \in InDistro(SelectedIds, Suse)
    BY <1>0
  <2> HIDE DEF p, s, both, f
  <2>4. CASE ~ both
    BY <1>e, <1>2, <2>2, <2>4 DEF f
  <2>5. CASE both
    <3>1. f = << <<p, s>> >> /\ DOMAIN f = 1 .. Len(f) /\ Len(f) = 1 /\ f[1] = <<p, s>>
      BY <2>2, <2>5
    <3>2. \A x \in DOMAIN f : x = 1
      BY <3>1
    <3>3. PairAt(f, 1)
      BY <2>3, <2>5, <3>1 DEF PairAt
    <3>4. Pairs(f)
      BY <3>1, <3>2, <3>3 DEF Pairs, Apart
    <3> QED
      BY <1>2, <3>4 DEF f
  <2> QED
    BY <2>4, <2>5
<1>3. CASE SelectedIds # {} /\ Cardinality(SelectedIds) # 2
  <2>1. f = FlattenSeq([i \in 1 .. Cardinality(Keys) |-> PairsOf(KeysInOrder[i], SelectedIds)])
    BY <1>3 DEF ComparisonGroups
  <2> HIDE DEF f
  <2>2. Pairs(f) /\ ByKey(f)
    BY <2>1, KeyedPairs
  <2> QED
    BY <2>2 DEF f
<1> QED
  BY <1>1, <1>2, <1>3

LEMMA FairGroups ==
  ASSUME ExperimentsTyped, OsKept, groups = ComparisonGroups PROVE PairedFairly
<1>1. Pairs(groups) /\ (Cardinality(SelectedIds) # 2 => ByKey(groups))
  BY GroupsOK
<1>2. ASSUME NEW i \in DOMAIN groups
      PROVE  /\ groups[i][1] \in SelectedIds /\ groups[i][2] \in SelectedIds
             /\ groups[i][1] \in DOMAIN experiments /\ groups[i][2] \in DOMAIN experiments
             /\ experiments[groups[i][1]].distro = Poky /\ experiments[groups[i][2]].distro = Suse
  BY <1>1 DEF Pairs, PairAt, InDistro
<1>3. Poky # Suse
  BY DEF Poky, Suse
<1>4. ASSUME NEW i \in DOMAIN groups, NEW j \in DOMAIN groups, i # j
      PROVE {groups[i][1], groups[i][2]} \cap {groups[j][1], groups[j][2]} = {}
  <2>1. groups[i][1] # groups[j][1] /\ groups[i][2] # groups[j][2]
    BY <1>1, <1>4 DEF Pairs, Apart
  <2> QED
    BY <1>2, <1>3, <2>1
<1>5. ASSUME NEW i \in DOMAIN groups
      PROVE  /\ {groups[i][1], groups[i][2]} \subseteq SelectedIds
             /\ request.experiments[groups[i][1]].os = Poky
             /\ request.experiments[groups[i][2]].os = Suse
             /\ \/ Cardinality(SelectedIds) = 2
                \/ experiments[groups[i][1]].key = experiments[groups[i][2]].key
  BY <1>1, <1>2 DEF OsKept, ByKey
<1>6. ASSUME Cardinality(SelectedIds) # 2, NEW k \in Keys
      PROVE  LET made == {i \in DOMAIN groups : experiments[groups[i][1]].key = k}
                 taken(side) == {groups[i][side] : i \in made}
                 all(d) == {e \in InDistro(SelectedIds, d) : experiments[e].key = k}
             IN  /\ taken(1) = all(Poky) \/ taken(2) = all(Suse)
                 /\ \A e \in taken(1), d \in all(Poky) \ taken(1) : Before(e, d)
                 /\ \A e \in taken(2), d \in all(Suse) \ taken(2) : Before(e, d)
                 /\ \A i, j \in made :
                      Before(groups[i][1], groups[j][1]) = Before(groups[i][2], groups[j][2])
  <2> DEFINE made == {i \in DOMAIN groups : experiments[groups[i][1]].key = k}
             taken(side) == {groups[i][side] : i \in made}
             P == {e \in InDistro(SelectedIds, Poky) : experiments[e].key = k}
             S == {e \in InDistro(SelectedIds, Suse) : experiments[e].key = k}
  <2>1. /\ taken(1) = P \/ taken(2) = S
        /\ \A e \in taken(1) : \A d \in P \ taken(1) : Before(e, d)
        /\ \A e \in taken(2) : \A d \in S \ taken(2) : Before(e, d)
        /\ \A i, j \in made : Before(groups[i][1], groups[j][1]) <=> Before(groups[i][2], groups[j][2])
    BY <1>1, <1>6, Zenon DEF ByKey, Of1
  <2>2. \A d, e : Before(d, e) \in BOOLEAN
    BY DEF Before
  <2> HIDE DEF made, taken, P, S
  <2>3. ASSUME NEW i \in made, NEW j \in made
        PROVE  Before(groups[i][1], groups[j][1]) = Before(groups[i][2], groups[j][2])
    <3>1. Before(groups[i][1], groups[j][1]) <=> Before(groups[i][2], groups[j][2])
      BY <2>1
    <3> QED
      BY <3>1 DEF Before
  <2>4. /\ \A e \in taken(1), d \in P \ taken(1) : Before(e, d)
        /\ \A e \in taken(2), d \in S \ taken(2) : Before(e, d)
    BY <2>1, Zenon
  <2> QED
    BY <2>1, <2>3, <2>4, Zenon DEF made, taken, P, S
<1> QED
  BY <1>4, <1>5, <1>6, Zenon DEF PairedFairly

(***************************************************************************)
(* The workbook: what its experiments are said to have run on.             *)
(***************************************************************************)
TypedAs(x) ==
  /\ IsFiniteSet(DOMAIN x) /\ DOMAIN x \subseteq Nat
  /\ \A e \in DOMAIN x : x[e].distro \in Distros /\ x[e].key \in Int /\ x[e].started \in Int
KeepsOs(x) ==
  \A p, s \in DOMAIN x :
    x[p].distro = Poky /\ x[s].distro = Suse
      => request.experiments[p].os = Poky /\ request.experiments[s].os = Suse

\* What an id stands for has this id, and is the same for all with this id.
LEMMA DistroOfOK ==
  ASSUME request \in Requests, NEW o \in Distributions
  PROVE  o \in Distros /\ DistroOf(IdOf(o)) \in Distributions /\ IdOf(DistroOf(IdOf(o))) = IdOf(o)
<1> DEFINE same == {d \in Distributions : IdOf(d) = IdOf(o)}
           m(d) == Min(Given(d))
<1>1. request.configured \in Seq({Poky, Suse} \X Ids)
  BY RequestAssumption
<1>2. Distributions \subseteq Distros
  <2>1. \A i \in DOMAIN request.configured : request.configured[i][1] \in {Poky, Suse}
    BY <1>1
  <2> QED
    BY <2>1 DEF Distributions, Distros
<1>3. ASSUME NEW d \in Distributions PROVE m(d) \in Nat
  <2>1. Given(d) # {} /\ Given(d) \subseteq Nat
    BY <1>1 DEF Given, Distributions
  <2> QED
    BY <2>1, MinOK
<1>4. o \in same /\ same \subseteq {Poky, Suse} /\ \A d \in same : m(d) \in Nat
  BY <1>2, <1>3 DEF Distros
<1> HIDE DEF m
<1>5. \E d \in same : \A c \in same : m(c) <= m(d)
  <2> HIDE DEF same
  <2>1. CASE Poky \in same /\ Suse \in same /\ m(Suse) <= m(Poky)
    BY <1>4, <2>1
  <2>2. CASE Poky \in same /\ Suse \in same /\ m(Poky) <= m(Suse)
    BY <1>4, <2>2
  <2>3. CASE \A d \in same : d = o
    BY <1>4, <2>3
  <2> QED
    BY <1>4, <2>1, <2>2, <2>3
<1>6. \E d \in same : \A c \in Distributions : IdOf(c) = IdOf(o) => Min(Given(c)) <= Min(Given(d))
  BY <1>5 DEF m
<1>7. DistroOf(IdOf(o)) \in same
  <2> DEFINE best(d) == \A c \in Distributions : IdOf(c) = IdOf(o) => Min(Given(c)) <= Min(Given(d))
  <2>1. DistroOf(IdOf(o)) = CHOOSE d \in same : best(d)
    BY Zenon DEF DistroOf
  <2>2. \E d \in same : best(d)
    BY <1>6
  <2> HIDE DEF same, best
  <2> QED
    BY <2>1, <2>2
<1> QED
  BY <1>2, <1>7

LEMMA ExportedOK ==
  ASSUME request \in Requests PROVE TypedAs(Exported) /\ KeepsOs(Exported)
<1> DEFINE x == Exported
           os(e) == request.experiments[e].os
<1>1. /\ DOMAIN x = {e \in DOMAIN request.experiments : os(e) \in Distributions}
      /\ \A e \in DOMAIN x : /\ x[e].distro = DistroOf(IdOf(os(e)))
                             /\ x[e].key = request.experiments[e].key
                             /\ x[e].started = request.experiments[e].started
  BY DEF Exported
<1> HIDE DEF x
<1>2. /\ DOMAIN request.experiments \subseteq Ids /\ IsFiniteSet(DOMAIN request.experiments)
      /\ \A e \in DOMAIN request.experiments :
           request.experiments[e].key \in Int /\ request.experiments[e].started \in Int
  BY RequestAssumption
<1>3. IsFiniteSet(DOMAIN x) /\ DOMAIN x \subseteq Nat
  BY <1>1, <1>2, FS_Subset, ComparisonAssumption
<1>4. ASSUME NEW e \in DOMAIN x
      PROVE  /\ os(e) \in Distros /\ x[e].distro \in Distros
             /\ IdOf(x[e].distro) = IdOf(os(e))
  <2>1. os(e) \in Distributions
    BY <1>1
  <2>2. DistroOf(IdOf(os(e))) \in Distributions
    BY <2>1, DistroOfOK
  <2> QED
    BY <1>1, <2>1, <2>2, DistroOfOK
<1>5. TypedAs(x)
  BY <1>1, <1>2, <1>3, <1>4 DEF TypedAs
<1>6. KeepsOs(x)
  <2> SUFFICES ASSUME NEW p \in DOMAIN x, NEW s \in DOMAIN x, x[p].distro = Poky, x[s].distro = Suse
               PROVE os(p) = Poky /\ os(s) = Suse
    BY DEF KeepsOs
  <2>1. IdOf(os(p)) # IdOf(os(s))
    BY <1>1 DEF Poky, Suse
  <2>2. os(p) \in {Poky, Suse} /\ os(s) \in {Poky, Suse}
    BY <1>4 DEF Distros
  <2>3. IdOf(Poky) = IdOf(os(p)) /\ IdOf(Suse) = IdOf(os(s))
    BY <1>4
  <2> QED
    BY <2>1, <2>2, <2>3
<1> QED
  BY <1>5, <1>6 DEF x

(***************************************************************************)
(* Sums and numbers: what was collected of the rows read so far.           *)
(***************************************************************************)
Records == request.records
Side(i, d) == groups[i][IF d = Poky THEN 1 ELSE 2]
RowsOf(e, s, k) == {r \in 1 .. k : Records[r].experiment = e /\ SourceOf(r) = s}
KeptIn(e, s, k, m) ==
  SumFunctionOnSet([r \in RowsOf(e, s, k) |-> Cardinality(Kept(Records[r], m))], RowsOf(e, s, k))
ReadRows == Len(Records) - Len(sheet)

RowFor(r) == [experiment |-> Records[r].experiment, source |-> SourceOf(r), cells |-> Flattened(Records[r])]
SheetOK ==
  /\ sheet \in Seq({RowFor(r) : r \in DOMAIN Records})
  /\ Len(sheet) <= Len(Records)
  /\ \A j \in 1 .. Len(sheet) : sheet[j] = RowFor(ReadRows + j)

Value(v) == v = [sum |-> v.sum, n |-> v.n] /\ v.sum \in Int /\ v.n \in Nat
ValueOK(i, d, s, m) ==
  /\ Value(values[<<i, d, s, m>>])
  /\ values[<<i, d, s, m>>].n = KeptIn(Side(i, d), s, ReadRows, m)
ValuesOK ==
  /\ DOMAIN values = (DOMAIN groups) \X Distros \X Sources \X Metrics
  /\ \A i \in DOMAIN groups : \A d \in Distros : \A s \in Sources : \A m \in Metrics :
       ValueOK(i, d, s, m)

LEMMA RecordOK ==
  ASSUME request \in Requests, NEW r \in DOMAIN Records
  PROVE  Records[r].samples \in Seq(Sample)
<1>1. Records \in Seq(RecordType)
  BY RequestAssumption DEF Records
<1>2. Records[r] \in RecordType
  BY <1>1
<1> QED
  BY <1>2 DEF Sample, RecordType

LEMMA KeptType ==
  ASSUME NEW record, record.samples \in Seq(Sample), NEW m
  PROVE  Cardinality(Kept(record, m)) \in Nat
<1>1. IsFiniteSet(DOMAIN record.samples)
  <2> DEFINE n == Len(record.samples)
  <2>1. DOMAIN record.samples = 1 .. n /\ n \in Int
    OBVIOUS
  <2> HIDE DEF n
  <2>2. IsFiniteSet(1 .. n)
    BY <2>1, FS_Interval
  <2> QED
    BY <2>1, <2>2
<1>2. Kept(record, m) \subseteq DOMAIN record.samples
  BY DEF Kept
<1> QED
  BY <1>1, <1>2, FS_Subset, FS_CardinalityType

LEMMA KeptInNone == ASSUME NEW e, NEW s, NEW m PROVE KeptIn(e, s, 0, m) = 0
<1>1. RowsOf(e, s, 0) = {}
  BY DEF RowsOf
<1> QED
  BY <1>1, SumOfNone DEF KeptIn

LEMMA KeptInMore ==
  ASSUME request \in Requests, NEW e, NEW s, NEW m, NEW k \in Nat, k < Len(Records)
  PROVE  /\ KeptIn(e, s, k, m) \in Int
         /\ KeptIn(e, s, k + 1, m) =
              IF Records[k + 1].experiment = e /\ SourceOf(k + 1) = s
              THEN KeptIn(e, s, k, m) + Cardinality(Kept(Records[k + 1], m)) ELSE KeptIn(e, s, k, m)
<1> DEFINE Mine == Records[k + 1].experiment = e /\ SourceOf(k + 1) = s
           number(r) == Cardinality(Kept(Records[r], m))
           A == RowsOf(e, s, k)
           B == RowsOf(e, s, k + 1)
           f == [r \in A |-> number(r)]
           g == [r \in B |-> number(r)]
<1>1. Records \in Seq(RecordType)
  BY RequestAssumption DEF Records
<1>2. DOMAIN Records = 1 .. Len(Records) /\ Len(Records) \in Nat
  BY <1>1
<1>3. \A r \in 1 .. k + 1 : number(r) \in Nat
  <2> TAKE r \in 1 .. k + 1
  <2>1. r \in DOMAIN Records
    BY <1>2
  <2> QED
    BY <2>1, RecordOK, KeptType
<1>4. IsFiniteSet(A) /\ k + 1 \notin A /\ A \subseteq 1 .. k
      /\ B = IF Mine THEN A \cup {k + 1} ELSE A
  <2>1. IsFiniteSet(1 .. k)
    BY FS_Interval
  <2>2. A \subseteq 1 .. k /\ k + 1 \notin A
    BY DEF RowsOf
  <2>3. B = IF Mine THEN A \cup {k + 1} ELSE A
    BY DEF RowsOf
  <2> QED
    BY <2>1, <2>2, <2>3, FS_Subset
<1>6. KeptIn(e, s, k, m) = SumFunctionOnSet(f, A) /\ KeptIn(e, s, k + 1, m) = SumFunctionOnSet(g, B)
  BY DEF KeptIn
<1> HIDE DEF A, B
<1>7. \A r \in A : f[r] \in Int /\ f[r] = number(r)
  BY <1>3, <1>4
<1>8. \A r \in B : g[r] \in Int /\ g[r] = number(r)
  BY <1>3, <1>4
<1> HIDE DEF f, g, number
<1>9. SumFunctionOnSet(f, A) \in Int
  BY <1>4, <1>7, SumType
<1>10. CASE Mine
  <2>1. B = A \cup {k + 1}
    BY <1>4, <1>10
  <2>2. SumFunctionOnSet(g, A \cup {k + 1}) = g[k + 1] + SumFunctionOnSet(g, A)
    BY <1>4, <1>8, <2>1, SumOfMore
  <2>3. SumFunctionOnSet(f, A) = SumFunctionOnSet(g, A)
    <3>1. \A r \in A : f[r] \in Int /\ f[r] = g[r]
      BY <1>7, <1>8, <2>1
    <3> QED
      BY <1>4, <3>1, SumSame
  <2>4. g[k + 1] = number(k + 1) /\ number(k + 1) \in Int
    BY <1>8, <2>1
  <2>5. SumFunctionOnSet(g, B) = SumFunctionOnSet(f, A) + number(k + 1)
    BY <1>9, <2>1, <2>2, <2>3, <2>4
  <2> QED
    BY <1>6, <1>9, <1>10, <2>5 DEF number
<1>11. CASE ~ Mine
  <2>1. B = A
    BY <1>4, <1>11
  <2>2. SumFunctionOnSet(f, A) = SumFunctionOnSet(g, A)
    <3>1. \A r \in A : f[r] \in Int /\ f[r] = g[r]
      BY <1>7, <1>8, <2>1
    <3> QED
      BY <1>4, <3>1, SumSame
  <2> QED
    BY <1>6, <1>9, <1>11, <2>1, <2>2
<1> QED
  BY <1>10, <1>11

(***************************************************************************)
(* The invariant: what each step of the export has made.                   *)
(***************************************************************************)
Inv ==
  /\ request \in Requests
  /\ pc \in {"database", "workbook", "refused", "grouped", "rows", "written"}
  /\ pc # "database" => TypedAs(experiments) /\ KeepsOs(experiments)
  /\ pc \in {"workbook", "grouped", "rows"} => SheetOK
  /\ pc \in {"workbook", "grouped"} => ReadRows = 0
  /\ pc \in {"grouped", "rows", "written"} => groups = ComparisonGroups
  /\ pc = "rows" => groups # << >>
  /\ pc \in {"rows", "written"} /\ groups # << >> => ValuesOK
  /\ pc = "written" /\ groups # << >> => sheet = << >>
  /\ pc = "written" => DOMAIN values = (DOMAIN groups) \X Distros \X Sources \X Metrics
  /\ pc # "written" => rows = {}
  /\ rows = {MetricRow(k[1], k[2], k[3]) : k \in Compared}
     \/ rows = {}

\* The source of a row depends on the request only.
LEMMA SameSources ==
  ASSUME request' = request
  PROVE  /\ Records' = Records /\ Sources' = Sources
         /\ \A r : SourceOf(r)' = SourceOf(r) /\ RowFor(r)' = RowFor(r)
<1>1. \A r : Title(r)' = Title(r) /\ SheetOf(r)' = SheetOf(r)
  BY DEF Title, SheetOf
<1>2. \A r : FirstRow(r)' = FirstRow(r)
  BY <1>1 DEF FirstRow
<1>3. \A r : Suffix(r)' = Suffix(r)
  BY <1>1, <1>2 DEF Suffix
<1>4. \A r : SourceOf(r)' = SourceOf(r)
  BY <1>1, <1>3 DEF SourceOf
<1> QED
  BY <1>4 DEF Sources, RowFor, Records

LEMMA ExportInv == Inv /\ Export => Inv'
<1> SUFFICES ASSUME Inv, Export PROVE Inv'
  OBVIOUS
<1>1. /\ pc = "database" /\ pc' = "workbook" /\ request \in Requests /\ request' = request
      /\ experiments' = Exported /\ rows = {} /\ rows' = {}
  BY DEF Inv, Export
<1>2. TypedAs(experiments') /\ KeepsOs(experiments')
  BY <1>1, ExportedOK
<1>3. KeepsOs(experiments)'
  BY <1>1, <1>2 DEF KeepsOs
<1> DEFINE N == Len(Records)
<1>4. N \in Nat /\ DOMAIN Records = 1 .. N
  <2>1. Records \in Seq(RecordType)
    BY <1>1, RequestAssumption DEF Records
  <2> QED
    BY <2>1
<1>5. sheet' = [i \in 1 .. N |-> RowFor(i)] /\ Records' = Records /\ \A i : RowFor(i)' = RowFor(i)
  <2>1. sheet' = [i \in 1 .. N |-> RowFor(i)]
    BY <1>4, Zenon DEF Export, Records, RowFor
  <2> QED
    BY <1>1, <2>1, SameSources
<1> HIDE DEF N
<1>6. /\ sheet' \in Seq({RowFor(r) : r \in 1 .. N}) /\ Len(sheet') = N
      /\ \A j \in 1 .. N : sheet'[j] = RowFor(j)
  <2>1. sheet' \in [1 .. N -> {RowFor(r) : r \in 1 .. N}]
    BY <1>5
  <2> QED
    BY <1>4, <1>5, <2>1
<1>7. ReadRows' = 0
  BY <1>4, <1>5, <1>6 DEF ReadRows, N
<1>8. SheetOK'
  <2>1. Records' = Records /\ Len(sheet') <= Len(Records) /\ sheet' \in Seq({RowFor(r) : r \in DOMAIN Records})
    BY <1>4, <1>5, <1>6 DEF N
  <2>2. \A j \in 1 .. Len(sheet') : sheet'[j] = RowFor(0 + j)
    BY <1>4, <1>6
  <2>3. {RowFor(r) : r \in DOMAIN Records}' = {RowFor(r) : r \in DOMAIN Records}
    BY <1>5
  <2> QED
    BY <1>5, <1>7, <2>1, <2>2, <2>3, Zenon DEF SheetOK
<1> QED
  BY <1>1, <1>2, <1>3, <1>7, <1>8 DEF Inv, TypedAs

\* The pairs depend on the request and the experiments only.
LEMMA SamePairs ==
  ASSUME UNCHANGED <<request, experiments>> PROVE ComparisonGroups' = ComparisonGroups
BY DEF ComparisonGroups, SelectedIds, ExplicitPair, InDistro, PairsOf, InOrder, Before, Keys, KeysInOrder

LEMMA GroupInv == Inv /\ Group => Inv'
<1> SUFFICES ASSUME Inv, Group PROVE Inv'
  OBVIOUS
<1>1. /\ pc = "workbook" /\ pc' \in {"refused", "grouped"}
      /\ pc' = "grouped" => groups' = ComparisonGroups
      /\ request' = request /\ experiments' = experiments /\ sheet' = sheet /\ values' = values
      /\ rows' = rows /\ rows = {}
  BY DEF Inv, Group
<1>2. TypedAs(experiments)' /\ KeepsOs(experiments)' /\ SheetOK' /\ ReadRows' = 0
  BY <1>1, SameSources DEF Inv, TypedAs, KeepsOs, SheetOK, ReadRows
<1>3. ComparisonGroups' = ComparisonGroups
  BY <1>1, SamePairs
<1> QED
  BY <1>1, <1>2, <1>3 DEF Inv

\* Everything that the pairs and the rows of the sheet depend on stays.
LEMMA StaysTheSame ==
  ASSUME UNCHANGED <<request, experiments, groups>>
  PROVE  /\ TypedAs(experiments)' = TypedAs(experiments) /\ KeepsOs(experiments)' = KeepsOs(experiments)
         /\ ComparisonGroups' = ComparisonGroups /\ Records' = Records
         /\ Sources' = Sources /\ \A r : RowFor(r)' = RowFor(r)
         /\ \A i, d : Side(i, d)' = Side(i, d)
         /\ \A e, s, k, m : KeptIn(e, s, k, m)' = KeptIn(e, s, k, m)
<1>1. ComparisonGroups' = ComparisonGroups
  BY SamePairs
<1>2. Records' = Records /\ Sources' = Sources /\ \A r : SourceOf(r)' = SourceOf(r) /\ RowFor(r)' = RowFor(r)
  BY SameSources
<1>3. \A e, s, k : RowsOf(e, s, k)' = RowsOf(e, s, k)
  BY <1>2 DEF RowsOf
<1> QED
  BY <1>1, <1>2, <1>3 DEF TypedAs, KeepsOs, Side, KeptIn

LEMMA ReadInv == Inv /\ Read => Inv'
<1> SUFFICES ASSUME Inv, Read PROVE Inv'
  OBVIOUS
<1> DEFINE D == (DOMAIN groups) \X Distros \X Sources \X Metrics
<1>1. /\ pc = "grouped" /\ pc' = (IF groups = << >> THEN "written" ELSE "rows")
      /\ values' = [k \in D |-> Nothing]
      /\ request' = request /\ experiments' = experiments /\ sheet' = sheet /\ groups' = groups
      /\ rows' = rows /\ rows = {}
  BY DEF Inv, Read
<1>2. /\ TypedAs(experiments)' /\ KeepsOs(experiments)' /\ ComparisonGroups' = ComparisonGroups
      /\ Records' = Records /\ Sources' = Sources /\ \A r : RowFor(r)' = RowFor(r)
      /\ \A i, d : Side(i, d)' = Side(i, d)
      /\ \A e, s, k, m : KeptIn(e, s, k, m)' = KeptIn(e, s, k, m)
  BY <1>1, StaysTheSame DEF Inv
<1>3. SheetOK' /\ ReadRows' = 0
  BY <1>1, <1>2 DEF Inv, SheetOK, ReadRows
<1>4. DOMAIN values' = D
  BY <1>1
<1>5. ASSUME NEW i \in DOMAIN groups, NEW d \in Distros, NEW s \in Sources, NEW m \in Metrics
      PROVE  ValueOK(i, d, s, m)'
  <2>1. values'[<<i, d, s, m>>] = Nothing
    BY <1>1
  <2>2. KeptIn(Side(i, d), s, ReadRows, m)' = 0
    BY <1>3, KeptInNone DEF KeptIn, RowsOf
  <2> QED
    BY <2>1, <2>2 DEF ValueOK, Value, Nothing
<1>6. ValuesOK'
  <2>1. DOMAIN groups' = DOMAIN groups /\ Metrics' = Metrics
    BY <1>1 DEF Metrics
  <2> QED
    BY <1>2, <1>4, <1>5, <2>1 DEF ValuesOK
<1> HIDE DEF D
<1>7. pc' = "written" => groups' = << >>
  BY <1>1
<1> QED
  BY <1>1, <1>2, <1>3, <1>4, <1>6, <1>7 DEF Inv, D

\* A row is collected for the side of the pair its experiment is on, and for no other.
LEMMA PlaceOK ==
  ASSUME Pairs(groups), NEW i \in DOMAIN groups, NEW d \in Distros, NEW e
  PROVE  i \in GroupOf(e) /\ d = Place(i, e) <=> Side(i, d) = e
<1>1. groups[i][1] # groups[i][2] /\ Poky # Suse
  BY DEF Pairs, PairAt, InDistro, Poky, Suse
<1> QED
  BY <1>1 DEF GroupOf, Place, Side, Distros

LEMMA CollectRowInv == Inv /\ CollectRow => Inv'
<1> SUFFICES ASSUME Inv, CollectRow PROVE Inv'
  OBVIOUS
<1> DEFINE row == Head(sheet)
           k == ReadRows
           e == row.experiment
<1>1. /\ pc = "rows" /\ pc' = pc /\ sheet # << >> /\ sheet' = Tail(sheet)
      /\ request' = request /\ experiments' = experiments /\ groups' = groups
      /\ rows' = rows /\ rows = {} /\ request \in Requests
  BY DEF Inv, CollectRow
<1>2. /\ TypedAs(experiments)' /\ KeepsOs(experiments)' /\ ComparisonGroups' = ComparisonGroups
      /\ Records' = Records /\ groups = ComparisonGroups
      /\ Sources' = Sources /\ \A r : RowFor(r)' = RowFor(r)
      /\ \A i, d : Side(i, d)' = Side(i, d)
      /\ \A x, s, n, m : KeptIn(x, s, n, m)' = KeptIn(x, s, n, m)
  BY <1>1, StaysTheSame DEF Inv
<1>3. SheetOK
  BY <1>1 DEF Inv
<1>4. Len(Records) \in Nat /\ DOMAIN Records = 1 .. Len(Records)
  <2>1. Records \in Seq(RecordType)
    BY <1>1, RequestAssumption DEF Records
  <2> QED
    BY <2>1
<1> DEFINE cells == {RowFor(r) : r \in DOMAIN Records}
           n == Len(sheet)
<1>5. sheet \in Seq(cells) /\ n <= Len(Records) /\ n \in Nat \ {0}
  <2>1. sheet \in Seq(cells) /\ n <= Len(Records)
    BY <1>3 DEF SheetOK
  <2> HIDE DEF cells
  <2> QED
    BY <1>1, <2>1
<1>6. /\ row = sheet[1] /\ sheet' \in Seq(cells) /\ Len(sheet') = n - 1
      /\ \A j \in 1 .. n - 1 : sheet'[j] = sheet[j + 1]
  <2> HIDE DEF cells
  <2> QED
    BY <1>1, <1>5
<1> HIDE DEF cells, row, n
<1>7. k = Len(Records) - n /\ ReadRows' = k + 1 /\ k \in Nat /\ k < Len(Records)
  BY <1>2, <1>4, <1>5, <1>6 DEF ReadRows, n
<1> HIDE DEF k
<1>8. \A j \in 1 .. n : sheet[j] = RowFor(k + j)
  BY <1>3 DEF SheetOK, n, k
<1>9. row = RowFor(k + 1)
  <2>1. 1 \in 1 .. n
    BY <1>5
  <2> QED
    BY <1>6, <1>8, <2>1
<1>10. SheetOK'
  <2>1. ASSUME NEW j \in 1 .. n - 1
        PROVE  sheet'[j] = RowFor((k + 1) + j)
    <3>1. j + 1 \in 1 .. n /\ k + (j + 1) = (k + 1) + j
      BY <1>5, <1>7
    <3>2. sheet'[j] = sheet[j + 1]
      BY <1>6
    <3> QED
      BY <1>8, <3>1, <3>2
  <2>2. Len(sheet') <= Len(Records)
    BY <1>4, <1>5, <1>6
  <2> QED
    BY <1>2, <1>6, <1>7, <2>1, <2>2, Zenon DEF SheetOK, cells
<1>11. ASSUME groups # << >> PROVE ValuesOK'
  <2>1. ValuesOK
    BY <1>1, <1>11 DEF Inv
  <2>2. Pairs(groups)
    <3>1. ExperimentsTyped
      BY <1>1 DEF Inv, TypedAs, ExperimentsTyped
    <3> QED
      BY <1>2, <3>1, GroupsOK
  <2>3. values' = [v \in DOMAIN values |->
                     IF v[1] \in GroupOf(e) /\ v[2] = Place(v[1], e) /\ v[3] = row.source
                     THEN AddSamples(values[v], row, v[4]) ELSE values[v]]
    BY DEF CollectRow, row
  <2> HIDE DEF e
  <2>4. ASSUME NEW i \in DOMAIN groups, NEW d \in Distros, NEW s \in Sources, NEW m \in Metrics
        PROVE  ValueOK(i, d, s, m)'
    <3> DEFINE key == <<i, d, s, m>>
               v == values[key]
               w == values'[key]
               x == Side(i, d)
               mine == x = e /\ s = row.source
    <3>1. ValueOK(i, d, s, m) /\ key \in DOMAIN values
      BY <2>1 DEF ValuesOK
    <3>2. Value(v) /\ v.n = KeptIn(x, s, k, m)
      BY <3>1 DEF ValueOK, k
    <3>3. w = IF mine THEN AddSamples(v, row, m) ELSE v
      <4>1. key[1] = i /\ key[2] = d /\ key[3] = s /\ key[4] = m
        OBVIOUS
      <4>2. w = IF i \in GroupOf(e) /\ d = Place(i, e) /\ s = row.source THEN AddSamples(v, row, m) ELSE v
        BY <2>3, <3>1, <4>1
      <4> QED
        BY <2>2, <4>2, PlaceOK
    <3>4. KeptIn(x, s, k + 1, m) =
            IF mine THEN KeptIn(x, s, k, m) + Cardinality(Kept(Records[k + 1], m)) ELSE KeptIn(x, s, k, m)
      <4>1. Records[k + 1].experiment = e /\ SourceOf(k + 1) = row.source
        BY <1>9 DEF e, RowFor
      <4> QED
        BY <1>1, <1>7, <4>1, KeptInMore
    <3> HIDE DEF w, v, x, mine
    <3>5. CASE ~ mine
      <4>1. Value(w) /\ w.n = KeptIn(x, s, k + 1, m)
        BY <3>2, <3>3, <3>4, <3>5
      <4> QED
        BY <1>2, <1>7, <4>1 DEF ValueOK, Value, w, x
    <3>6. CASE mine
      <4>1. Records[k + 1].samples \in Seq(Sample)
        BY <1>1, <1>4, <1>7, RecordOK
      <4>2. row.cells = Flattened(Records[k + 1])
        BY <1>9 DEF RowFor
      <4>3. /\ IsFiniteSet(Samples(row, m)) /\ \A c \in Samples(row, m) : row.cells[c] \in Int
            /\ Cardinality(Samples(row, m)) = Cardinality(Kept(Records[k + 1], m))
        BY <4>1, <4>2, SamplesOK
      <4>4. /\ SumFunctionOnSet(row.cells, Samples(row, m)) \in Int
            /\ Cardinality(Samples(row, m)) \in Nat
        BY <4>3, SumType, FS_CardinalityType
      <4>5. w = [sum |-> v.sum + SumFunctionOnSet(row.cells, Samples(row, m)),
                 n |-> v.n + Cardinality(Samples(row, m))]
        BY <3>3, <3>6 DEF AddSamples
      <4>6. Value(w) /\ w.n = KeptIn(x, s, k + 1, m)
        BY <3>2, <3>4, <3>6, <4>3, <4>4, <4>5 DEF Value
      <4> QED
        BY <1>2, <1>7, <4>6 DEF ValueOK, Value, w, x
    <3> QED
      BY <3>5, <3>6
  <2>5. DOMAIN values' = DOMAIN values /\ Metrics' = Metrics /\ DOMAIN groups' = DOMAIN groups
    BY <1>1, <2>3 DEF Metrics
  <2> QED
    BY <1>2, <2>1, <2>4, <2>5 DEF ValuesOK
<1> QED
  BY <1>1, <1>2, <1>10, <1>11 DEF Inv

LEMMA WriteStatusesInv == Inv /\ WriteStatuses => Inv'
<1> SUFFICES ASSUME Inv, WriteStatuses PROVE Inv'
  OBVIOUS
<1>1. /\ pc = "rows" /\ pc' = "written" /\ sheet = << >> /\ sheet' = sheet
      /\ request' = request /\ experiments' = experiments /\ groups' = groups /\ values' = values
      /\ rows' = {MetricRow(k[1], k[2], k[3]) : k \in Compared}
  BY DEF Inv, WriteStatuses
<1>2. /\ TypedAs(experiments)' /\ KeepsOs(experiments)' /\ ComparisonGroups' = ComparisonGroups
      /\ Records' = Records /\ groups = ComparisonGroups
      /\ Sources' = Sources /\ \A r : RowFor(r)' = RowFor(r)
      /\ \A i, d : Side(i, d)' = Side(i, d)
      /\ \A x, s, n, m : KeptIn(x, s, n, m)' = KeptIn(x, s, n, m)
  BY <1>1, StaysTheSame DEF Inv
<1>3. groups # << >> => ValuesOK'
  BY <1>1, <1>2 DEF Inv, ValuesOK, ValueOK, ReadRows
<1>4. DOMAIN values' = (DOMAIN groups') \X Distros \X Sources' \X Metrics
  BY <1>1, <1>2 DEF Inv, ValuesOK
<1>5. (rows = {MetricRow(k[1], k[2], k[3]) : k \in Compared})'
  BY <1>1, <1>2 DEF MetricRow, HasBoth, Compared
<1> QED
  BY <1>1, <1>2, <1>3, <1>4, <1>5 DEF Inv

LEMMA InitInv == Init => Inv
BY DEF Init, Inv

LEMMA NextInv == Inv /\ [Next]_vars => Inv'
<1> SUFFICES ASSUME Inv, [Next]_vars PROVE Inv'
  OBVIOUS
<1>1. CASE UNCHANGED vars
  <2>1. /\ pc' = pc /\ request' = request /\ experiments' = experiments /\ sheet' = sheet
        /\ groups' = groups /\ values' = values /\ rows' = rows
    BY <1>1 DEF vars
  <2>2. /\ TypedAs(experiments)' = TypedAs(experiments) /\ KeepsOs(experiments)' = KeepsOs(experiments)
        /\ ComparisonGroups' = ComparisonGroups
        /\ SheetOK' = SheetOK /\ ReadRows' = ReadRows /\ Records' = Records /\ Sources' = Sources
        /\ \A i, d : Side(i, d)' = Side(i, d)
        /\ \A e, s, k, m : KeptIn(e, s, k, m)' = KeptIn(e, s, k, m)
    BY <2>1, StaysTheSame DEF SheetOK, ReadRows
  <2>3. ValuesOK' = ValuesOK
    BY <2>1, <2>2 DEF ValuesOK, ValueOK
  <2>4. /\ \A i, s, m : MetricRow(i, s, m)' = MetricRow(i, s, m) /\ HasBoth(i, s, m)' = HasBoth(i, s, m)
        /\ Compared' = Compared
    BY <2>1, <2>2 DEF MetricRow, HasBoth, Compared
  <2> QED
    BY <2>1, <2>2, <2>3, <2>4 DEF Inv
<1> QED
  BY <1>1, ExportInv, GroupInv, ReadInv, CollectRowInv, WriteStatusesInv DEF Next, Written

LEMMA InvCorrect == Spec => []Inv
BY InitInv, NextInv, PTL DEF Spec

\* The pairs that are compared are those a reader would make.
THEOREM PairedFairlyCorrect == Spec => []PairedFairly
<1>1. Inv => PairedFairly
  <2> SUFFICES ASSUME Inv, pc = "grouped" PROVE PairedFairly
    BY DEF PairedFairly
  <2>1. ExperimentsTyped /\ OsKept /\ groups = ComparisonGroups
    BY DEF Inv, TypedAs, KeepsOs, ExperimentsTyped, OsKept
  <2> QED
    BY <2>1, FairGroups
<1> QED
  BY <1>1, InvCorrect, PTL

\* Between the database and the means only repetitions are lost, and the metrics of a test whose
\* title is short are compared whole.
THEOREM OnlyRepeatsLostCorrect == Spec => []OnlyRepeatsLost
<1>1. ASSUME Inv, pc = "written",
             NEW i \in DOMAIN groups, NEW d \in Distros, NEW s \in Sources, NEW m \in Metrics
      PROVE  LET e == groups[i][IF d = Poky THEN 1 ELSE 2]
                 of == {r \in DOMAIN request.records : request.records[r].experiment = e /\ SourceOf(r) = s}
             IN  values[<<i, d, s, m>>].n =
                   SumFunctionOnSet([r \in of |-> Cardinality(Kept(request.records[r], m))], of)
  <2>1. groups # << >> /\ sheet = << >> /\ ValuesOK /\ request \in Requests
    BY <1>1 DEF Inv
  <2>2. values[<<i, d, s, m>>].n = KeptIn(Side(i, d), s, ReadRows, m)
    BY <2>1 DEF ValuesOK, ValueOK
  <2>3. ReadRows = Len(Records) /\ DOMAIN Records = 1 .. Len(Records)
    <3>1. Records \in Seq(RecordType)
      BY <2>1, RequestAssumption DEF Records
    <3>2. Len(Records) \in Nat /\ DOMAIN Records = 1 .. Len(Records) /\ Len(sheet) = 0
      BY <2>1, <3>1
    <3> QED
      BY <3>2 DEF ReadRows
  <2>4. RowsOf(Side(i, d), s, ReadRows) =
          {r \in DOMAIN request.records : request.records[r].experiment = Side(i, d) /\ SourceOf(r) = s}
    BY <2>3 DEF RowsOf, Records
  <2> QED
    BY <2>2, <2>4, Zenon DEF KeptIn, Side, Records
<1>2. ASSUME Inv, NEW q \in DOMAIN Records, NEW r \in DOMAIN Records, Records[q].test = Records[r].test,
             Title(r).number = 0, Title(r).length <= MaxTitle - 4
      PROVE  SourceOf(q) = SourceOf(r)
  <2>1. Title(q) = Title(r)
    BY <1>2 DEF Title, Records
  <2>2. Title(r).length \in 1 .. MaxTitle
    <3>1. Records \in Seq(RecordType)
      BY <1>2, RequestAssumption DEF Inv, Records
    <3>2. Records[r] \in RecordType
      BY <3>1
    <3>3. Records[r].test \in DOMAIN Titles
      BY <3>2 DEF RecordType
    <3> QED
      BY <3>3, ComparisonAssumption DEF Title, Records
  <2>3. ASSUME NEW n PROVE Stripped(Title(r), n) = Title(r).length
    BY <1>2, <2>2 DEF Stripped, Digits, MaxTitle
  <2> QED
    BY <2>1, <2>3 DEF SourceOf
<1>3. Inv => OnlyRepeatsLost
  BY <1>1, <1>2, Zenon DEF OnlyRepeatsLost, Records
<1> QED
  BY <1>3, InvCorrect, PTL

(***************************************************************************)
(* The statuses.                                                           *)
(***************************************************************************)
LEMMA MetricRowOK ==
  ASSUME ValuesOK, NEW i \in DOMAIN groups, NEW s \in Sources, NEW m \in Metrics, HasBoth(i, s, m)
  PROVE  /\ values[<<i, Suse, s, m>>] \in Means /\ values[<<i, Poky, s, m>>] \in Means
<1>1. ValueOK(i, Suse, s, m) /\ ValueOK(i, Poky, s, m)
  BY DEF ValuesOK, Distros
<1> QED
  BY <1>1 DEF ValueOK, Value, Means, HasBoth

IsRow(r) ==
  /\ r.metric \in Metrics /\ r.better = Direction(Columns[r.metric])
  /\ r.baseline \in Means /\ r.compared \in Means
  /\ r.change = Change(r.baseline, r.compared, r.better) /\ r.raw = RawChange(r.baseline, r.compared)
  /\ r.status = StatusFor(r.change)

LEMMA StatusesOK ==
  ASSUME IsFiniteSet(rows), \A r \in rows : IsRow(r) PROVE StatusesAgree
<1>1. ASSUME NEW r \in rows
      PROVE  /\ r.change \in {"degraded", "improved", "unchanged"}
             /\ r.status = (IF r.change = "degraded" THEN "FAIL" ELSE "PASS")
             /\ r.change = "degraded" <=> Degrades(r.baseline, r.compared, r.better)
             /\ (r.change = "unchanged") = (r.raw = "unchanged")
             /\ (r.change = "improved") = (r.raw = IF r.better = Lower THEN "decreased" ELSE "increased")
  <2> DEFINE b == r.baseline
             v == r.compared
             better == r.better
  <2>1. b \in Means /\ v \in Means /\ IsRow(r)
    BY DEF IsRow
  <2>2. r.change = Change(b, v, better) /\ r.raw = RawChange(b, v) /\ r.status = StatusFor(r.change)
    BY <2>1 DEF IsRow
  <2> HIDE DEF b, v, better
  <2>3. /\ Change(b, v, better) = (IF Degrades(b, v, better) THEN "degraded"
                                   ELSE IF Improves(b, v, better) THEN "improved" ELSE "unchanged")
        /\ RawChange(b, v) = (IF Improves(b, v, Higher) THEN "increased"
                              ELSE IF Degrades(b, v, Higher) THEN "decreased" ELSE "unchanged")
    BY <2>1, ChangeIs
  <2>4. /\ ~ (Degrades(b, v, better) /\ Improves(b, v, better))
        /\ Improves(b, v, Lower) <=> Degrades(b, v, Higher)
        /\ Degrades(b, v, Lower) <=> Improves(b, v, Higher)
    BY <2>1, ChangeIs
  <2>5. /\ better # Lower => (Degrades(b, v, better) <=> Degrades(b, v, Higher))
        /\ better # Lower => (Improves(b, v, better) <=> Improves(b, v, Higher))
    BY <2>1, ChangeIs
  <2>6. ~ (Degrades(b, v, Higher) /\ Improves(b, v, Higher))
    BY <2>1, ChangeIs
  <2>7. /\ r.change \in {"degraded", "improved", "unchanged"}
        /\ r.change = "degraded" <=> Degrades(b, v, better)
    BY <2>2, <2>3
  <2>8. /\ (r.change = "unchanged") = (r.raw = "unchanged")
        /\ (r.change = "improved") = (r.raw = IF better = Lower THEN "decreased" ELSE "increased")
    <3>1. CASE better = Lower
      BY <2>2, <2>3, <2>4, <2>6, <3>1
    <3>2. CASE better # Lower
      BY <2>2, <2>3, <2>4, <2>5, <2>6, <3>2
    <3> QED
      BY <3>1, <3>2
  <2> QED
    BY <2>2, <2>7, <2>8 DEF StatusFor, b, v, better
<1>2. ASSUME NEW t \in {TestOf(r) : r \in rows}
      PROVE  /\ TestRow(t).total = TestRow(t).passed + TestRow(t).failed
             /\ (TestRow(t).status = "FAIL") = (\E r \in rows : TestOf(r) = t /\ r.status = "FAIL")
  <2> DEFINE of == {r \in rows : TestOf(r) = t}
             failed == {r \in of : r.status = "FAIL"}
             passed == {r \in of : r.status = "PASS"}
  <2>1. /\ TestRow(t).status = (IF failed # {} THEN "FAIL" ELSE "PASS")
        /\ TestRow(t).total = Cardinality(of) /\ TestRow(t).passed = Cardinality(passed)
        /\ TestRow(t).failed = Cardinality(failed)
    BY DEF TestRow
  <2>2. of = passed \cup failed /\ passed \cap failed = {}
    BY <1>1
  <2>3. IsFiniteSet(of) /\ IsFiniteSet(passed) /\ IsFiniteSet(failed)
    <3>1. IsFiniteSet(of)
      BY FS_Subset
    <3> HIDE DEF of
    <3> QED
      BY <3>1, FS_Subset
  <2>4. (failed # {}) <=> \E r \in rows : TestOf(r) = t /\ r.status = "FAIL"
    OBVIOUS
  <2> HIDE DEF of, failed, passed
  <2>5. Cardinality(of) = Cardinality(passed) + Cardinality(failed)
    <3>1. Cardinality(passed \cup failed) = Cardinality(passed) + Cardinality(failed)
      <4>1. Cardinality(passed \cup failed) =
              Cardinality(passed) + Cardinality(failed) - Cardinality(passed \cap failed)
        BY <2>3, FS_Union
      <4>2. Cardinality(passed \cap failed) = 0
        BY <2>2, FS_EmptySet
      <4>3. Cardinality(passed) \in Nat /\ Cardinality(failed) \in Nat
        BY <2>3, FS_CardinalityType
      <4> QED
        BY <4>1, <4>2, <4>3
    <3> QED
      BY <2>2, <3>1
  <2> QED
    BY <2>1, <2>4, <2>5
<1>3. ASSUME NEW r \in rows, NEW s \in rows, r.metric = s.metric, SameBaseline(r, s), NoWorse(r, s),
             s.status = "PASS"
      PROVE r.status = "PASS"
  <2>1. /\ r.baseline \in Means /\ r.compared \in Means /\ s.baseline \in Means /\ s.compared \in Means
        /\ r.better = s.better
    BY <1>3 DEF IsRow
  <2>2. r.baseline.sum * s.baseline.n = s.baseline.sum * r.baseline.n
    BY <1>3 DEF SameBaseline
  <2>3. IF r.better = Lower THEN r.compared.sum * s.compared.n <= s.compared.sum * r.compared.n
        ELSE r.compared.sum * s.compared.n >= s.compared.sum * r.compared.n
    <3>1. r.compared.sum * s.compared.n \in Int /\ s.compared.sum * r.compared.n \in Int
      BY <2>1 DEF Means
    <3> QED
      BY <1>3, <3>1 DEF NoWorse
  <2>4. ~ Degrades(s.baseline, s.compared, s.better)
    BY <1>1, <1>3
  <2>5. ~ Degrades(r.baseline, r.compared, r.better)
    BY <2>1, <2>2, <2>3, <2>4, NoWorseOK
  <2> QED
    BY <1>1, <2>5
<1> QED
  BY <1>1, <1>2, <1>3, Zenon DEF StatusesAgree

\* Triples of finite sets.
LEMMA ThreeFinite ==
  ASSUME NEW S, NEW T, NEW U, IsFiniteSet(S), IsFiniteSet(T), IsFiniteSet(U)
  PROVE  IsFiniteSet(S \X T \X U)
<1> DEFINE A == (S \X T) \X U
           f == [k \in A |-> <<k[1][1], k[1][2], k[2]>>]
<1>1. IsFiniteSet(A)
  BY FS_Product
<1>2. ASSUME NEW x \in S \X T \X U PROVE \E k \in A : f[k] = x
  <2>1. <<<<x[1], x[2]>>, x[3]>> \in A /\ f[<<<<x[1], x[2]>>, x[3]>>] = x
    OBVIOUS
  <2> QED
    BY <2>1
<1>3. f \in [A -> S \X T \X U]
  OBVIOUS
<1>4. f \in Surjection(A, S \X T \X U)
  BY <1>2, <1>3, Zenon DEF Surjection
<1> HIDE DEF f, A
<1> QED
  BY <1>1, <1>4, FS_Surjection

\* The statuses of metrics and tests, the changes and the raw changes agree with each other.
THEOREM StatusesAgreeCorrect == Spec => []StatusesAgree
<1>1. Inv => StatusesAgree
  <2> SUFFICES ASSUME Inv PROVE StatusesAgree
    OBVIOUS
  <2>1. CASE rows = {}
    BY <2>1, FS_EmptySet, StatusesOK
  <2>2. CASE rows # {}
    <3> DEFINE D == (DOMAIN groups) \X Sources \X Metrics
               K == Compared
    <3>1. rows = {MetricRow(k[1], k[2], k[3]) : k \in K} /\ pc = "written"
      BY <2>2, Zenon DEF Inv
    <3>2. groups # << >> /\ groups = ComparisonGroups
      <4>1. PICK k \in K : TRUE
        BY <2>2, <3>1
      <4>2. k[1] \in DOMAIN groups
        BY DEF Compared
      <4>3. groups = ComparisonGroups
        BY <3>1 DEF Inv
      <4> QED
        BY <4>2, <4>3
    <3>3. ValuesOK /\ ExperimentsTyped
      BY <3>1, <3>2 DEF Inv, TypedAs, ExperimentsTyped
    <3>4. IsFiniteSet(D)
      <4>1. IsFiniteSet(DOMAIN groups)
        <5>1. Pairs(groups)
          BY <3>2, <3>3, GroupsOK
        <5> QED
          BY <5>1, FS_Interval DEF Pairs
      <4>2. IsFiniteSet(Metrics)
        BY ComparisonAssumption, FS_Subset DEF Metrics
      <4>3. IsFiniteSet(Sources)
        <5>1. Records \in Seq(RecordType)
          BY RequestAssumption DEF Inv, Records
        <5>2. DOMAIN Records = 1 .. Len(Records) /\ Len(Records) \in Nat
          BY <5>1
        <5>3. IsFiniteSet(DOMAIN Records)
          BY <5>2, FS_Interval
        <5> DEFINE f == [r \in DOMAIN Records |-> SourceOf(r)]
        <5>4. f \in Surjection(DOMAIN Records, Sources)
          BY DEF Surjection, Sources, Records
        <5> HIDE DEF f
        <5> QED
          BY <5>3, <5>4, FS_Surjection
      <4> QED
        BY <4>1, <4>2, <4>3, ThreeFinite
    <3>5. IsFiniteSet(K)
      <4>1. K \subseteq D
        BY DEF Compared
      <4> HIDE DEF D, K
      <4> QED
        BY <3>4, <4>1, FS_Subset
    <3>6. IsFiniteSet(rows)
      <4> DEFINE f == [k \in K |-> MetricRow(k[1], k[2], k[3])]
      <4>1. f \in Surjection(K, rows)
        BY <3>1 DEF Surjection
      <4> HIDE DEF f, K
      <4> QED
        BY <3>5, <4>1, FS_Surjection
    <3>7. ASSUME NEW r \in rows PROVE IsRow(r)
      <4>1. PICK k \in K : r = MetricRow(k[1], k[2], k[3])
        BY <3>1
      <4>2. k[1] \in DOMAIN groups /\ k[2] \in Sources /\ k[3] \in Metrics /\ HasBoth(k[1], k[2], k[3])
        BY DEF Compared
      <4>3. values[<<k[1], Suse, k[2], k[3]>>] \in Means /\ values[<<k[1], Poky, k[2], k[3]>>] \in Means
        BY <3>3, <4>2, MetricRowOK
      <4> QED
        BY <4>1, <4>2, <4>3 DEF IsRow, MetricRow
    <3> QED
      BY <3>6, <3>7, StatusesOK
  <2> QED
    BY <2>1, <2>2
<1> QED
  BY <1>1, InvCorrect, PTL
=============================================================================
