------------------------------ MODULE SumLemmas ------------------------------
(***************************************************************************)
(* Facts about finite sets and folds that more than one proof needs: sums  *)
(* over finite sets, as the module Functions defines them, a fold that     *)
(* takes away one element after another; ranks of the members of an        *)
(* ordered set; and the greatest place, which a fold from the left takes   *)
(* away.  The library's theorems on induction take a predicate as a        *)
(* parameter; what is needed of them here follows from the least number of *)
(* a set of numbers.                                                       *)
(***************************************************************************)
EXTENDS Integers, Functions, FiniteSetsExt, FiniteSetTheorems, WellFoundedInduction, TLAPS

(***************************************************************************)
(* A set of natural numbers that is not empty has a least one: of its      *)
(* initial segments up to a bound one has no other as a proper part.       *)
(***************************************************************************)
THEOREM LeastNat ==
  ASSUME NEW T, T \subseteq Nat, T # {}
  PROVE  \E n \in T : \A m \in T : n <= m
<1> PICK b \in T : TRUE
  OBVIOUS
<1> DEFINE segs == {0 .. n : n \in {m \in T : m <= b}}
<1>1. IsFiniteSet(0 .. b)
  BY FS_Interval
<1>2. segs \subseteq FiniteSubsetsOf(0 .. b) /\ segs # {}
  <2>1. FiniteSubsetsOf(0 .. b) = SUBSET (0 .. b)
    BY <1>1, FS_FiniteSubsetsOfFinite
  <2> QED
    BY <2>1
<1>3. IsWellFoundedOn(StrictSubsetOrdering(0 .. b), FiniteSubsetsOf(0 .. b))
  BY FS_StrictSubsetOrderingWellFounded
<1>4. PICK s \in segs : \A t \in segs : <<t, s>> \notin StrictSubsetOrdering(0 .. b)
  <2> HIDE DEF segs
  <2> QED
    BY <1>2, <1>3, WFMin
<1>5. PICK n \in T : n <= b /\ s = 0 .. n
  OBVIOUS
<1>6. ASSUME NEW m \in T, m < n PROVE FALSE
  <2>1. 0 .. m \in segs /\ 0 .. m \subseteq 0 .. n /\ n \in 0 .. n /\ n \notin 0 .. m
    BY <1>5, <1>6
  <2>2. <<0 .. m, s>> \in StrictSubsetOrdering(0 .. b)
    BY <1>5, <2>1 DEF StrictSubsetOrdering
  <2> QED
    BY <1>4, <2>1, <2>2
<1>7. \A m \in T : m \in Nat
  OBVIOUS
<1> QED
  BY <1>5, <1>6, <1>7

\* Induction over a set of numbers that holds 0 and, with each number, the next.
LEMMA AllNats ==
  ASSUME NEW T, 0 \in T, \A n \in Nat : n \in T => n + 1 \in T
  PROVE  Nat \subseteq T
<1> SUFFICES ASSUME Nat \ T # {} PROVE FALSE
  OBVIOUS
<1>1. PICK n \in Nat \ T : \A m \in Nat \ T : n <= m
  BY LeastNat
<1>2. n # 0 /\ n - 1 \in Nat /\ n - 1 \in T
  BY <1>1
<1> QED
  BY <1>2

\* Induction over the subsets of a finite set, one element after another.
LEMMA AllSubsets ==
  ASSUME NEW S, IsFiniteSet(S), NEW F, {} \in F,
         \A T \in SUBSET S : T \in F => \A x \in S \ T : T \cup {x} \in F
  PROVE  S \in F
<1> DEFINE all(n) == \A s \in SUBSET S : Cardinality(s) <= n => s \in F
           N == {n \in Nat : all(n)}
<1>0. \A s \in SUBSET S : IsFiniteSet(s) /\ Cardinality(s) \in Nat
  BY FS_Subset, FS_CardinalityType
<1>1. 0 \in N
  <2>1. \A s \in SUBSET S : Cardinality(s) <= 0 => s = {}
    BY <1>0, FS_EmptySet
  <2>2. all(0)
    BY <2>1
  <2> QED
    BY <2>2
<1>2. ASSUME NEW n \in Nat, n \in N PROVE n + 1 \in N
  <2>1. ASSUME NEW s \in SUBSET S, Cardinality(s) <= n + 1, s # {} PROVE s \in F
    <3>1. PICK x \in s : TRUE
      BY <2>1
    <3>2. s \ {x} \in SUBSET S /\ Cardinality(s \ {x}) = Cardinality(s) - 1
      BY <1>0, <3>1, FS_RemoveElement
    <3>3. s \ {x} \in F
      BY <1>0, <1>2, <2>1, <3>2
    <3>4. x \in S \ (s \ {x}) /\ (s \ {x}) \cup {x} = s
      BY <3>1
    <3> QED
      BY <3>2, <3>3, <3>4
  <2>2. all(n + 1)
    BY <2>1
  <2> QED
    BY <2>2
<1>3. Cardinality(S) \in N
  <2> HIDE DEF N
  <2> QED
    BY <1>0, <1>1, <1>2, AllNats
<1> QED
  BY <1>0, <1>3

(***************************************************************************)
(* The fold of a sum: the function on the subsets of a set that takes the  *)
(* chosen element away.                                                    *)
(***************************************************************************)
Chosen(s) == CHOOSE x \in s : TRUE
Rest(s) == s \ {Chosen(s)}
FoldsOver(g, f, D) == g = [s \in D |-> IF s = {} THEN 0 ELSE f[Chosen(s)] + g[Rest(s)]]

LEMMA SumIsFold ==
  ASSUME NEW f, NEW S
  PROVE  SumFunctionOnSet(f, S) = (CHOOSE g : FoldsOver(g, f, SUBSET S))[S]
BY DEF SumFunctionOnSet, FoldFunctionOnSet, MapThenFoldSet, FoldsOver, Rest, Chosen

LEMMA RestSmaller ==
  ASSUME NEW s, IsFiniteSet(s), s # {}
  PROVE  /\ Chosen(s) \in s /\ Rest(s) \subseteq s /\ IsFiniteSet(Rest(s))
         /\ Cardinality(s) \in Nat \ {0} /\ Cardinality(Rest(s)) = Cardinality(s) - 1
<1>1. Chosen(s) \in s
  BY DEF Chosen
<1>2. Cardinality(s) \in Nat \ {0}
  BY FS_CardinalityType, FS_EmptySet
<1> QED
  BY <1>1, <1>2, FS_RemoveElement DEF Rest

LEMMA FoldExists ==
  ASSUME NEW f, NEW S, IsFiniteSet(S)
  PROVE  \E g : FoldsOver(g, f, SUBSET S)
<1> DEFINE D(n) == {s \in SUBSET S : Cardinality(s) <= n}
           T == {n \in Nat : \E g : FoldsOver(g, f, D(n))}
<1>0. \A s \in SUBSET S : IsFiniteSet(s) /\ Cardinality(s) \in Nat /\ Cardinality(s) <= Cardinality(S)
  BY FS_Subset, FS_CardinalityType
<1>1. 0 \in T
  <2> DEFINE g == [s \in D(0) |-> 0]
  <2>1. \A s \in D(0) : s = {}
    BY <1>0, FS_EmptySet
  <2>2. FoldsOver(g, f, D(0))
    BY <2>1, Zenon DEF FoldsOver
  <2> QED
    BY <2>2
<1>2. ASSUME NEW n \in Nat, n \in T PROVE n + 1 \in T
  <2>1. PICK g : FoldsOver(g, f, D(n))
    BY <1>2
  <2> DEFINE h == [s \in D(n + 1) |-> IF s = {} THEN 0 ELSE f[Chosen(s)] + g[Rest(s)]]
  <2>2. D(n) \subseteq D(n + 1)
    BY <1>0
  <2>3. ASSUME NEW s \in D(n) PROVE h[s] = g[s]
    BY <2>1, <2>2 DEF FoldsOver
  <2>4. ASSUME NEW s \in D(n + 1), s # {} PROVE Rest(s) \in D(n)
    BY <1>0, <2>4, RestSmaller
  <2>5. FoldsOver(h, f, D(n + 1))
    <3>1. \A s \in D(n + 1) : s # {} => h[Rest(s)] = g[Rest(s)]
      BY <2>3, <2>4
    <3> HIDE DEF D
    <3> QED
      BY <3>1 DEF FoldsOver
  <2> HIDE DEF D, h
  <2>6. \E e : FoldsOver(e, f, D(n + 1))
    BY <2>5
  <2> QED
    BY <2>6
<1>3. Cardinality(S) \in T
  <2> HIDE DEF T
  <2> QED
    BY <1>0, <1>1, <1>2, AllNats
<1>4. D(Cardinality(S)) = SUBSET S
  BY <1>0
<1> QED
  BY <1>3, <1>4

\* Two folds agree on what both are about.
LEMMA FoldUnique ==
  ASSUME NEW f, NEW S, NEW T, NEW g, NEW h,
         FoldsOver(g, f, SUBSET S), FoldsOver(h, f, SUBSET T),
         NEW u, IsFiniteSet(u), u \subseteq S, u \subseteq T
  PROVE  g[u] = h[u]
<1> DEFINE same(n) == \A s \in SUBSET u : Cardinality(s) <= n => g[s] = h[s]
           N == {n \in Nat : same(n)}
<1>0. \A s \in SUBSET u : IsFiniteSet(s) /\ Cardinality(s) \in Nat
  BY FS_Subset, FS_CardinalityType
<1>1. \A s \in SUBSET u :
        s # {} => g[s] = f[Chosen(s)] + g[Rest(s)] /\ h[s] = f[Chosen(s)] + h[Rest(s)]
  BY DEF FoldsOver
<1>2. g[{}] = 0 /\ h[{}] = 0
  BY DEF FoldsOver
<1>3. 0 \in N
  <2>1. \A s \in SUBSET u : Cardinality(s) <= 0 => s = {}
    BY <1>0, FS_EmptySet
  <2>2. same(0)
    BY <1>2, <2>1
  <2> QED
    BY <2>2
<1>4. ASSUME NEW n \in Nat, n \in N PROVE n + 1 \in N
  <2>1. ASSUME NEW s \in SUBSET u, Cardinality(s) <= n + 1 PROVE g[s] = h[s]
    <3>1. CASE s = {}
      BY <1>2, <3>1
    <3>2. CASE s # {}
      <4>1. Rest(s) \in SUBSET u /\ Cardinality(Rest(s)) <= n
        BY <1>0, <2>1, <3>2, RestSmaller
      <4> QED
        BY <1>1, <1>4, <3>2, <4>1
    <3> QED
      BY <3>1, <3>2
  <2> QED
    BY <2>1
<1>5. Cardinality(u) \in N
  <2> HIDE DEF N
  <2> QED
    BY <1>0, <1>3, <1>4, AllNats
<1> QED
  BY <1>0, <1>5

(***************************************************************************)
(* What a sum is: nothing for no elements, and the chosen one's value and  *)
(* the rest's sum for others, whichever set the fold was made for.         *)
(***************************************************************************)
LEMMA SumOfNone == ASSUME NEW f PROVE SumFunctionOnSet(f, {}) = 0
<1>1. \E g : FoldsOver(g, f, SUBSET {})
  BY FoldExists, FS_EmptySet
<1>2. FoldsOver(CHOOSE g : FoldsOver(g, f, SUBSET {}), f, SUBSET {})
  BY <1>1
<1> QED
  BY <1>2, SumIsFold DEF FoldsOver

LEMMA SumOfChosen ==
  ASSUME NEW f, NEW S, IsFiniteSet(S), S # {}
  PROVE  SumFunctionOnSet(f, S) = f[Chosen(S)] + SumFunctionOnSet(f, Rest(S))
<1> DEFINE g == CHOOSE g : FoldsOver(g, f, SUBSET S)
           h == CHOOSE h : FoldsOver(h, f, SUBSET Rest(S))
<1>1. IsFiniteSet(Rest(S)) /\ Rest(S) \subseteq S
  BY RestSmaller
<1>2. FoldsOver(g, f, SUBSET S) /\ FoldsOver(h, f, SUBSET Rest(S))
  BY <1>1, FoldExists
<1>3. SumFunctionOnSet(f, S) = g[S] /\ SumFunctionOnSet(f, Rest(S)) = h[Rest(S)]
  BY SumIsFold
<1> HIDE DEF g, h
<1>4. g[S] = f[Chosen(S)] + g[Rest(S)]
  BY <1>2 DEF FoldsOver
<1>5. g[Rest(S)] = h[Rest(S)]
  BY <1>1, <1>2, FoldUnique
<1> QED
  BY <1>3, <1>4, <1>5

\* An element more, whichever is chosen first.
LEMMA SumOfMore ==
  ASSUME NEW f, NEW S, IsFiniteSet(S), NEW x, x \notin S, \A y \in S \cup {x} : f[y] \in Int
  PROVE  /\ SumFunctionOnSet(f, S) \in Int
         /\ SumFunctionOnSet(f, S \cup {x}) = f[x] + SumFunctionOnSet(f, S)
<1> DEFINE A == S \cup {x}
           sum(s) == SumFunctionOnSet(f, s)
           good(s) == sum(s) \in Int /\ \A y \in s : sum(s) = f[y] + sum(s \ {y})
           all(n) == \A s \in SUBSET A : Cardinality(s) <= n => good(s)
           N == {n \in Nat : all(n)}
<1>0. IsFiniteSet(A) /\ \A s \in SUBSET A : IsFiniteSet(s) /\ Cardinality(s) \in Nat
  BY FS_AddElement, FS_Subset, FS_CardinalityType
<1>1. all(0)
  <2>1. \A s \in SUBSET A : Cardinality(s) <= 0 => s = {}
    BY <1>0, FS_EmptySet
  <2>2. good({})
    BY SumOfNone
  <2> QED
    BY <2>1, <2>2
<1>2. ASSUME NEW n \in Nat, all(n) PROVE all(n + 1)
  <2>1. ASSUME NEW s \in SUBSET A, Cardinality(s) <= n + 1, s # {} PROVE good(s)
    <3> DEFINE c == Chosen(s)
    <3>1. c \in s /\ f[c] \in Int /\ sum(s) = f[c] + sum(s \ {c})
      BY <1>0, <2>1, RestSmaller, SumOfChosen DEF Rest
    <3> HIDE DEF c
    <3>2. \A y \in s : s \ {y} \in SUBSET A /\ Cardinality(s \ {y}) <= n
      BY <1>0, <2>1, FS_RemoveElement
    <3>3. \A y \in s : good(s \ {y})
      BY <1>2, <3>2
    <3>4. ASSUME NEW y \in s, y # c PROVE sum(s) = f[y] + sum(s \ {y})
      <4>1. (s \ {c}) \ {y} = (s \ {y}) \ {c}
        OBVIOUS
      <4>2. sum(s \ {c}) = f[y] + sum((s \ {c}) \ {y}) /\ sum(s \ {y}) = f[c] + sum((s \ {c}) \ {y})
        BY <3>1, <3>3, <3>4, <4>1
      <4>3. sum((s \ {c}) \ {y}) \in Int
        <5>1. (s \ {c}) \ {y} \in SUBSET A /\ Cardinality((s \ {c}) \ {y}) <= n
          <6> DEFINE r == s \ {c}
          <6>1. r \in SUBSET A /\ IsFiniteSet(r) /\ Cardinality(r) \in Nat /\ Cardinality(r) <= n /\ y \in r
            BY <1>0, <3>1, <3>2, <3>4
          <6> HIDE DEF r
          <6>2. Cardinality(r \ {y}) = Cardinality(r) - 1
            BY <6>1, FS_RemoveElement
          <6>3. Cardinality(r \ {y}) <= n
            BY <6>1, <6>2
          <6> QED
            BY <6>1, <6>3 DEF r
        <5> QED
          BY <1>2, <5>1
      <4>4. f[y] \in Int
        OBVIOUS
      <4> HIDE DEF sum
      <4> QED
        BY <3>1, <4>2, <4>3, <4>4
    <3>5. sum(s) \in Int
      <4>1. sum(s \ {c}) \in Int
        BY <3>1, <3>3
      <4> HIDE DEF sum
      <4> QED
        BY <3>1, <4>1
    <3>6. \A y \in s : sum(s) = f[y] + sum(s \ {y})
      <4> HIDE DEF sum
      <4> QED
        BY <3>1, <3>4
    <3> QED
      BY <3>5, <3>6
  <2>2. good({})
    BY SumOfNone
  <2> HIDE DEF good
  <2> QED
    BY <2>1, <2>2
<1>3. N = Nat
  <2> HIDE DEF all
  <2>1. 0 \in N /\ \A n \in Nat : n \in N => n + 1 \in N
    BY <1>1, <1>2
  <2> QED
    BY <2>1, AllNats
<1>4. \A s \in SUBSET A : good(s)
  <2>1. \A n \in Nat : all(n)
    BY <1>3
  <2> HIDE DEF good
  <2> QED
    BY <1>0, <2>1
<1>5. S \in SUBSET A /\ A \in SUBSET A /\ x \in A /\ A \ {x} = S
  OBVIOUS
<1> HIDE DEF sum, A
<1>6. sum(S) \in Int /\ sum(A) = f[x] + sum(S)
  BY <1>4, <1>5
<1> QED
  BY <1>6 DEF sum, A

(***************************************************************************)
(* Sums of integers: their type, and how they compare when their terms do. *)
(***************************************************************************)
LEMMA SumType ==
  ASSUME NEW f, NEW S, IsFiniteSet(S), \A y \in S : f[y] \in Int
  PROVE  SumFunctionOnSet(f, S) \in Int
<1> DEFINE F == {T \in SUBSET S : SumFunctionOnSet(f, T) \in Int}
<1>1. {} \in F
  BY SumOfNone
<1>2. ASSUME NEW T \in SUBSET S, T \in F, NEW x \in S \ T PROVE T \cup {x} \in F
  <2>1. IsFiniteSet(T) /\ f[x] \in Int
    BY FS_Subset
  <2>2. SumFunctionOnSet(f, T \cup {x}) = f[x] + SumFunctionOnSet(f, T)
    BY <2>1, SumOfMore
  <2> QED
    BY <1>2, <2>1, <2>2
<1> HIDE DEF F
<1>3. S \in F
  BY <1>1, <1>2, AllSubsets
<1> QED
  BY <1>3 DEF F

\* The sum of the terms' sums, of a multiple of one and of a part of it.
LEMMA SumOfSums ==
  ASSUME NEW f, NEW g, NEW h, NEW c \in Int, NEW S, IsFiniteSet(S),
         \A y \in S : f[y] \in Int /\ g[y] \in Int /\ h[y] = c * f[y] + g[y]
  PROVE  SumFunctionOnSet(h, S) = c * SumFunctionOnSet(f, S) + SumFunctionOnSet(g, S)
<1> DEFINE sum(k, T) == SumFunctionOnSet(k, T)
           F == {T \in SUBSET S : sum(h, T) = c * sum(f, T) + sum(g, T)}
<1>1. {} \in F
  <2>1. sum(h, {}) = 0 /\ sum(f, {}) = 0 /\ sum(g, {}) = 0
    BY SumOfNone
  <2> HIDE DEF sum
  <2> QED
    BY <2>1
<1>2. ASSUME NEW T \in SUBSET S, T \in F, NEW x \in S \ T PROVE T \cup {x} \in F
  <2>1. IsFiniteSet(T) /\ \A y \in S : h[y] \in Int
    BY FS_Subset
  <2>2. /\ sum(h, T \cup {x}) = h[x] + sum(h, T) /\ sum(f, T \cup {x}) = f[x] + sum(f, T)
        /\ sum(g, T \cup {x}) = g[x] + sum(g, T)
    BY <2>1, SumOfMore
  <2>3. sum(h, T) \in Int /\ sum(f, T) \in Int /\ sum(g, T) \in Int
    BY <2>1, SumType
  <2>4. f[x] \in Int /\ g[x] \in Int /\ h[x] = c * f[x] + g[x]
    OBVIOUS
  <2>5. sum(h, T) = c * sum(f, T) + sum(g, T)
    BY <1>2
  <2> HIDE DEF sum
  <2>6. c * (f[x] + sum(f, T)) = c * f[x] + c * sum(f, T)
    BY <2>3, <2>4
  <2>7. c * f[x] \in Int /\ c * sum(f, T) \in Int
    BY <2>3, <2>4
  <2>8. sum(h, T \cup {x}) = c * sum(f, T \cup {x}) + sum(g, T \cup {x})
    BY <2>2, <2>3, <2>4, <2>5, <2>6, <2>7
  <2> QED
    BY <2>8
<1> HIDE DEF F
<1>3. S \in F
  BY <1>1, <1>2, AllSubsets
<1> QED
  BY <1>3 DEF F

LEMMA SumAtMost ==
  ASSUME NEW f, NEW g, NEW S, IsFiniteSet(S),
         \A y \in S : f[y] \in Int /\ g[y] \in Int /\ f[y] <= g[y]
  PROVE  SumFunctionOnSet(f, S) <= SumFunctionOnSet(g, S)
<1> DEFINE sum(k, T) == SumFunctionOnSet(k, T)
           F == {T \in SUBSET S : sum(f, T) <= sum(g, T)}
<1>1. {} \in F
  BY SumOfNone
<1>2. ASSUME NEW T \in SUBSET S, T \in F, NEW x \in S \ T PROVE T \cup {x} \in F
  <2>1. IsFiniteSet(T)
    BY FS_Subset
  <2>2. /\ sum(f, T \cup {x}) = f[x] + sum(f, T) /\ sum(g, T \cup {x}) = g[x] + sum(g, T)
        /\ sum(f, T) \in Int /\ sum(g, T) \in Int
    BY <2>1, SumOfMore
  <2>3. sum(f, T) <= sum(g, T) /\ f[x] \in Int /\ g[x] \in Int /\ f[x] <= g[x]
    BY <1>2
  <2> HIDE DEF sum
  <2>4. sum(f, T \cup {x}) <= sum(g, T \cup {x})
    BY <2>2, <2>3
  <2> QED
    BY <2>4
<1> HIDE DEF F
<1>3. S \in F
  BY <1>1, <1>2, AllSubsets
<1> QED
  BY <1>3 DEF F

LEMMA SumSame ==
  ASSUME NEW f, NEW g, NEW S, IsFiniteSet(S), \A y \in S : f[y] \in Int /\ f[y] = g[y]
  PROVE  SumFunctionOnSet(f, S) = SumFunctionOnSet(g, S)
<1>1. \A y \in S : g[y] \in Int /\ f[y] <= g[y] /\ g[y] <= f[y]
  OBVIOUS
<1>2. /\ SumFunctionOnSet(f, S) <= SumFunctionOnSet(g, S)
      /\ SumFunctionOnSet(g, S) <= SumFunctionOnSet(f, S)
  BY <1>1, SumAtMost
<1>3. SumFunctionOnSet(f, S) \in Int /\ SumFunctionOnSet(g, S) \in Int
  BY <1>1, SumType
<1> QED
  BY <1>2, <1>3

LEMMA SumOfConstant ==
  ASSUME NEW f, NEW c \in Int, NEW S, IsFiniteSet(S), \A y \in S : f[y] = c
  PROVE  SumFunctionOnSet(f, S) = c * Cardinality(S)
<1> DEFINE F == {T \in SUBSET S : SumFunctionOnSet(f, T) = c * Cardinality(T)}
<1>1. {} \in F
  BY SumOfNone, FS_EmptySet
<1>2. ASSUME NEW T \in SUBSET S, T \in F, NEW x \in S \ T PROVE T \cup {x} \in F
  <2>1. IsFiniteSet(T) /\ Cardinality(T) \in Nat
    BY FS_Subset, FS_CardinalityType
  <2>2. SumFunctionOnSet(f, T \cup {x}) = c + SumFunctionOnSet(f, T)
    BY <2>1, SumOfMore
  <2>3. Cardinality(T \cup {x}) = Cardinality(T) + 1
    BY <2>1, FS_AddElement
  <2>4. c * (Cardinality(T) + 1) = c + c * Cardinality(T)
    BY <2>1
  <2> QED
    BY <1>2, <2>2, <2>3, <2>4
<1> HIDE DEF F
<1>3. S \in F
  BY <1>1, <1>2, AllSubsets
<1> QED
  BY <1>3 DEF F

\* One term that changes.
LEMMA SumChange ==
  ASSUME NEW f, NEW g, NEW S, IsFiniteSet(S), NEW x \in S, f[x] \in Int, g[x] \in Int,
         \A y \in S \ {x} : f[y] \in Int /\ g[y] = f[y]
  PROVE  SumFunctionOnSet(g, S) = SumFunctionOnSet(f, S) + g[x] - f[x]
<1> DEFINE T == S \ {x}
<1>1. IsFiniteSet(T) /\ x \notin T /\ T \cup {x} = S
  BY FS_RemoveElement
<1>2. /\ SumFunctionOnSet(f, S) = f[x] + SumFunctionOnSet(f, T)
      /\ SumFunctionOnSet(g, S) = g[x] + SumFunctionOnSet(g, T)
      /\ SumFunctionOnSet(f, T) \in Int
  BY <1>1, SumOfMore
<1>3. SumFunctionOnSet(f, T) = SumFunctionOnSet(g, T)
  BY <1>1, SumSame
<1> QED
  BY <1>2, <1>3

\* n numbers in a row of which the first m are greater by s.
Stepped(n, m, a, s) == [i \in 1 .. n |-> IF i <= m THEN a + s ELSE a]

LEMMA SumOfSteps ==
  ASSUME NEW n \in Nat, NEW m \in 0 .. n, NEW a \in Int, NEW s \in Int
  PROVE  SumFunctionOnSet(Stepped(n, m, a, s), 1 .. n) = n * a + m * s
<1> DEFINE f == Stepped(n, m, a, s)
<1>0. \A i \in 1 .. n : f[i] = IF i <= m THEN a + s ELSE a
  BY DEF Stepped
<1> HIDE DEF f
<1> DEFINE sum(k) == SumFunctionOnSet(f, 1 .. k)
           upTo(k) == IF k <= m THEN k * (a + s) ELSE k * a + m * s
           T == {k \in Nat : k <= n => sum(k) = upTo(k)}
<1>1. 0 \in T
  <2>1. sum(0) = 0
    BY SumOfNone, 1 .. 0 = {}
  <2> QED
    BY <2>1
<1>2. ASSUME NEW k \in Nat, k \in T PROVE k + 1 \in T
  <2>1. SUFFICES ASSUME k + 1 <= n PROVE sum(k + 1) = upTo(k + 1)
    OBVIOUS
  <2>2. sum(k + 1) = f[k + 1] + sum(k)
    <3>1. IsFiniteSet(1 .. k)
      BY FS_Interval
    <3>3. k + 1 \notin 1 .. k /\ 1 .. (k + 1) = (1 .. k) \cup {k + 1}
      OBVIOUS
    <3>2. \A i \in (1 .. k) \cup {k + 1} : f[i] \in Int
      BY <1>0, <2>1
    <3> QED
      BY <3>1, <3>2, <3>3, SumOfMore
  <2>3. sum(k) = upTo(k) /\ f[k + 1] = IF k + 1 <= m THEN a + s ELSE a
    BY <1>0, <1>2, <2>1
  <2> HIDE DEF sum
  <2>4. /\ (k + 1) * (a + s) = k * (a + s) + (a + s) /\ (k + 1) * a = k * a + a
        /\ k * (a + s) = k * a + k * s
    OBVIOUS
  <2>5. CASE k + 1 <= m
    BY <2>2, <2>3, <2>4, <2>5
  <2>6. CASE k = m
    BY <2>2, <2>3, <2>4, <2>6
  <2>7. CASE k > m
    BY <2>2, <2>3, <2>4, <2>7
  <2> QED
    BY <2>5, <2>6, <2>7
<1> HIDE DEF T
<1>3. n \in T
  BY <1>1, <1>2, AllNats
<1> HIDE DEF sum
<1>4. sum(n) = upTo(n)
  BY <1>3 DEF T
<1>5. n = m => n * (a + s) = n * a + m * s
  OBVIOUS
<1>6. sum(n) = n * a + m * s
  BY <1>4, <1>5
<1> QED
  BY <1>6 DEF sum, f

\* A function that is c on A and zero elsewhere.
LEMMA SumOnPart ==
  ASSUME NEW f, NEW c \in Int, NEW S, IsFiniteSet(S), NEW A,
         \A y \in S : f[y] = IF y \in A THEN c ELSE 0
  PROVE  SumFunctionOnSet(f, S) = c * Cardinality(S \cap A)
<1> DEFINE F == {T \in SUBSET S : SumFunctionOnSet(f, T) = c * Cardinality(T \cap A)}
<1>1. {} \in F
  <2>1. {} \cap A = {}
    OBVIOUS
  <2> QED
    BY <2>1, SumOfNone, FS_EmptySet
<1>2. ASSUME NEW T \in SUBSET S, T \in F, NEW x \in S \ T PROVE T \cup {x} \in F
  <2>1. IsFiniteSet(T) /\ IsFiniteSet(T \cap A) /\ Cardinality(T \cap A) \in Nat
    BY FS_Subset, FS_CardinalityType
  <2>2. /\ SumFunctionOnSet(f, T \cup {x}) = f[x] + SumFunctionOnSet(f, T)
        /\ SumFunctionOnSet(f, T) \in Int
    <3>1. \A y \in T \cup {x} : f[y] \in Int
      OBVIOUS
    <3> QED
      BY <2>1, <3>1, SumOfMore
  <2>3. SumFunctionOnSet(f, T) = c * Cardinality(T \cap A)
    BY <1>2
  <2> HIDE DEF F
  <2>4. CASE x \in A
    <3>1. (T \cup {x}) \cap A = (T \cap A) \cup {x} /\ x \notin T \cap A
      BY <2>4
    <3>2. Cardinality((T \cup {x}) \cap A) = Cardinality(T \cap A) + 1
      BY <2>1, <3>1, FS_AddElement
    <3>3. c * (Cardinality(T \cap A) + 1) = c + c * Cardinality(T \cap A)
      BY <2>1
    <3>4. SumFunctionOnSet(f, T \cup {x}) = c * Cardinality((T \cup {x}) \cap A)
      BY <2>2, <2>3, <2>4, <3>2, <3>3
    <3> QED
      BY <3>4 DEF F
  <2>5. CASE x \notin A
    <3>1. (T \cup {x}) \cap A = T \cap A
      BY <2>5
    <3>2. SumFunctionOnSet(f, T \cup {x}) = c * Cardinality((T \cup {x}) \cap A)
      BY <2>2, <2>3, <2>5, <3>1
    <3> QED
      BY <3>2 DEF F
  <2> QED
    BY <2>4, <2>5
<1> HIDE DEF F
<1>3. S \in F
  BY <1>1, <1>2, AllSubsets DEF F
<1> QED
  BY <1>3 DEF F
(***************************************************************************)
(* Ranks: where an element stands in a finite set that a relation R, a set *)
(* of pairs, puts in an order.  Every rank is some element's.              *)
(***************************************************************************)
Below(S, R, x) == {y \in S : <<y, x>> \in R}
Rank(S, R, x) == Cardinality(Below(S, R, x))
Orders(R, S) ==
  /\ \A x \in S : <<x, x>> \notin R
  /\ \A x, y \in S : x = y \/ <<x, y>> \in R \/ <<y, x>> \in R
  /\ \A x, y, z \in S : <<x, y>> \in R /\ <<y, z>> \in R => <<x, z>> \in R

LEMMA RankGrows ==
  ASSUME NEW S, IsFiniteSet(S), NEW R, Orders(R, S), NEW x \in S, NEW y \in S
  PROVE  /\ Rank(S, R, x) \in 0 .. (Cardinality(S) - 1)
         /\ <<x, y>> \in R <=> Rank(S, R, x) < Rank(S, R, y)
         /\ Rank(S, R, x) = Rank(S, R, y) => x = y
<1>0. ASSUME NEW z \in S
      PROVE  /\ Below(S, R, z) \subseteq S /\ z \notin Below(S, R, z) /\ IsFiniteSet(Below(S, R, z))
             /\ Rank(S, R, z) \in Nat
  <2>1. Below(S, R, z) \in SUBSET S /\ z \notin Below(S, R, z)
    BY DEF Below, Orders
  <2> QED
    BY <2>1, FS_Subset, FS_CardinalityType DEF Rank
<1>1. ASSUME NEW u \in S, NEW v \in S, <<u, v>> \in R PROVE Rank(S, R, u) < Rank(S, R, v)
  <2>1. Below(S, R, u) \in SUBSET Below(S, R, v) /\ u \in Below(S, R, v) /\ u \notin Below(S, R, u)
    BY <1>1 DEF Below, Orders
  <2>2. /\ Rank(S, R, u) <= Rank(S, R, v)
        /\ Rank(S, R, u) = Rank(S, R, v) => Below(S, R, u) = Below(S, R, v)
    BY <1>0, <2>1, FS_Subset DEF Rank
  <2> QED
    BY <1>0, <2>1, <2>2
<1>2. Rank(S, R, x) < Cardinality(S)
  <2>1. /\ Cardinality(Below(S, R, x)) <= Cardinality(S) /\ Cardinality(S) \in Nat
        /\ Cardinality(Below(S, R, x)) = Cardinality(S) => Below(S, R, x) = S
    BY <1>0, FS_Subset, FS_CardinalityType
  <2> QED
    BY <1>0, <2>1 DEF Rank
<1>3. x = y \/ <<x, y>> \in R \/ <<y, x>> \in R
  BY DEF Orders
<1>4. Cardinality(S) \in Nat
  BY FS_CardinalityType
<1> QED
  BY <1>0, <1>1, <1>2, <1>3, <1>4

LEMMA EveryRank ==
  ASSUME NEW S, IsFiniteSet(S), NEW R, Orders(R, S), NEW p \in 0 .. (Cardinality(S) - 1)
  PROVE  \E x \in S : Rank(S, R, x) = p
<1> DEFINE ranks == [x \in S |-> Rank(S, R, x)]
           T == 0 .. (Cardinality(S) - 1)
<1>0. Cardinality(S) \in Nat
  BY FS_CardinalityType
<1>1. IsFiniteSet(T) /\ Cardinality(T) = Cardinality(S)
  <2>1. Cardinality(T) = IF 0 > Cardinality(S) - 1 THEN 0 ELSE (Cardinality(S) - 1) - 0 + 1
    <3>1. Cardinality(S) - 1 \in Int
      BY <1>0
    <3> QED
      BY <3>1, FS_Interval
  <2>2. IsFiniteSet(T)
    BY <1>0, FS_Interval
  <2> QED
    BY <1>0, <2>1, <2>2
<1>2. ranks \in Injection(S, T)
  <2>1. \A x \in S : Rank(S, R, x) \in T
    BY RankGrows
  <2>2. \A x, y \in S : Rank(S, R, x) = Rank(S, R, y) => x = y
    BY RankGrows
  <2> QED
    BY <2>1, <2>2 DEF Injection, IsInjective
<1>3. ranks \in Surjection(S, T)
  <2> HIDE DEF ranks, T
  <2> QED
    BY <1>1, <1>2, FS_Injection
<1>4. \E x \in S : ranks[x] = p
  BY <1>3 DEF Surjection
<1> QED
  BY <1>4

(***************************************************************************)
(* A fold from the left takes away the greatest place of a sequence.       *)
(***************************************************************************)
Others(s) == s \ {Max(s)}

LEMMA MaxOK ==
  ASSUME NEW n \in Nat, NEW s \in SUBSET (1 .. n), s # {}
  PROVE  Max(s) \in s /\ \A y \in s : y <= Max(s)
<1> DEFINE T == {n - y : y \in s}
<1>1. T \subseteq Nat /\ T # {}
  <2>1. \A y \in s : n - y \in Nat
    OBVIOUS
  <2> QED
    BY <2>1
<1>2. PICK m \in T : \A k \in T : m <= k
  <2> HIDE DEF T
  <2> QED
    BY <1>1, LeastNat
<1>3. PICK x \in s : m = n - x
  BY <1>2
<1>4. ASSUME NEW y \in s PROVE y <= x
  <2>1. n - y \in T
    OBVIOUS
  <2>2. m <= n - y
    BY <1>2, <2>1
  <2> QED
    BY <1>3, <2>2
<1>5. x \in s /\ \A y \in s : x >= y
  BY <1>4
<1>6. Max(s) \in s /\ \A y \in s : Max(s) >= y
  BY <1>5 DEF Max
<1> QED
  BY <1>6

LEMMA OthersOK ==
  ASSUME NEW n \in Nat, NEW s \in SUBSET (1 .. n), s # {}
  PROVE  Others(s) \in SUBSET (1 .. n) /\ Cardinality(Others(s)) = Cardinality(s) - 1
<1>0. IsFiniteSet(1 .. n)
  BY FS_Interval
<1>1. IsFiniteSet(s)
  BY <1>0, FS_Subset
<1> QED
  BY <1>1, MaxOK, FS_RemoveElement DEF Others
=============================================================================
