---------------------------- MODULE DispatchProofs ----------------------------
(***************************************************************************)
(* Proofs about Dispatch, for every number of schedulers, workers and      *)
(* messages, every batch size and limit, and every set of faults.          *)
(*                                                                         *)
(* The counters of Dispatch are compared with sums over the pools and the  *)
(* workers, so the module starts with what a finite sum does.  The sum is  *)
(* a fold, a function that is defined by recursion on the subsets of a     *)
(* finite set; facts about it are proved by minimal counterexample.        *)
(***************************************************************************)
EXTENDS Dispatch, FiniteSetTheorems, WellFoundedInduction, TLAPS

-----------------------------------------------------------------------------
(***************************************************************************)
(* Finite sums.                                                            *)
(***************************************************************************)
\* A nonempty set of subsets of a finite set has a minimal element: the form in
\* which induction over finite sets is used below.
LEMMA MinimalSubset ==
  ASSUME NEW S, IsFiniteSet(S), NEW T \in SUBSET SUBSET S, T # {}
  PROVE  \E U \in T : IsFiniteSet(U) /\ \A V \in SUBSET U : V # U => V \notin T
<1>1. IsWellFoundedOn(StrictSubsetOrdering(S), SUBSET S)
  BY FS_StrictSubsetOrderingWellFounded, FS_FiniteSubsetsOfFinite
<1>2. PICK U \in T : \A V \in T : ~ (<<V, U>> \in StrictSubsetOrdering(S))
  BY <1>1, WFMin
<1>3. ASSUME NEW V \in SUBSET U, V # U, V \in T
      PROVE  FALSE
  <2>1. <<V, U>> \in (SUBSET S) \X (SUBSET S)
    BY <1>3
  <2>2. <<V, U>> \in StrictSubsetOrdering(S)
    BY <1>3, <2>1 DEF StrictSubsetOrdering
  <2> QED BY <1>2, <1>3, <2>2
<1>4. IsFiniteSet(U)
  BY FS_Subset
<1> QED BY <1>3, <1>4

First(s) == CHOOSE x \in s : TRUE
Sums(f, S, it) == it = [s \in SUBSET S |-> IF s = {} THEN 0 ELSE f[First(s)] + it[s \ {First(s)}]]
SumOf(f, S) == (CHOOSE it : Sums(f, S, it))[S]

LEMMA TotalIs == \A f : Total(f) = SumOf(f, DOMAIN f)
BY DEF Total, FoldFunction, FoldFunctionOnSet, MapThenFoldSet, SumOf, Sums, First

\* There is at most one such function.
LEMMA SumsUnique ==
  ASSUME NEW f, NEW S, IsFiniteSet(S), NEW g, NEW h, Sums(f, S, g), Sums(f, S, h)
  PROVE  g = h
<1> DEFINE T == {s \in SUBSET S : g[s] # h[s]}
<1>0. g = [s \in SUBSET S |-> g[s]] /\ h = [s \in SUBSET S |-> h[s]]
  BY DEF Sums
<1>1. SUFFICES ASSUME T # {} PROVE FALSE
  BY <1>0
<1>2. PICK U \in T : IsFiniteSet(U) /\ \A V \in SUBSET U : V # U => V \notin T
  <2>1. T \in SUBSET SUBSET S
    OBVIOUS
  <2> HIDE DEF T
  <2> QED BY <1>1, <2>1, MinimalSubset
<1>3. CASE U = {}
  BY <1>2, <1>3 DEF Sums
<1>4. CASE U # {}
  <2> DEFINE V == U \ {First(U)}
  <2>1. First(U) \in U
    BY <1>4 DEF First
  <2>2. V \in SUBSET S /\ V \subseteq U /\ V # U
    BY <2>1
  <2>3. g[V] = h[V]
    BY <1>2, <2>2
  <2>4. g[U] = f[First(U)] + g[V] /\ h[U] = f[First(U)] + h[V]
    BY <1>2, <1>4 DEF Sums
  <2> QED BY <1>2, <2>3, <2>4
<1> QED BY <1>3, <1>4

LEMMA SumsRestrict ==
  ASSUME NEW f, NEW S, NEW g, Sums(f, S, g), NEW W \in SUBSET S
  PROVE  Sums(f, W, [s \in SUBSET W |-> g[s]])
<1> DEFINE r == [s \in SUBSET W |-> g[s]]
<1>1. \A s \in SUBSET W : g[s] = IF s = {} THEN 0 ELSE f[First(s)] + g[s \ {First(s)}]
  BY DEF Sums
<1>2. \A s \in SUBSET W : r[s \ {First(s)}] = g[s \ {First(s)}]
  OBVIOUS
<1>3. \A s \in SUBSET W : r[s] = IF s = {} THEN 0 ELSE f[First(s)] + r[s \ {First(s)}]
  BY <1>1, <1>2
<1>4. r = [s \in SUBSET W |-> r[s]]
  OBVIOUS
<1> HIDE DEF r
<1>5. r = [s \in SUBSET W |-> IF s = {} THEN 0 ELSE f[First(s)] + r[s \ {First(s)}]]
  BY <1>3, <1>4
<1> QED BY <1>5 DEF Sums, r

LEMMA SumsExist ==
  ASSUME NEW f, NEW S, IsFiniteSet(S)
  PROVE  \E g : Sums(f, S, g)
<1> DEFINE T == {W \in SUBSET S : ~ \E g : Sums(f, W, g)}
<1>1. SUFFICES ASSUME T # {} PROVE FALSE
  OBVIOUS
<1>2. PICK U \in T : IsFiniteSet(U) /\ \A V \in SUBSET U : V # U => V \notin T
  <2>1. T \in SUBSET SUBSET S
    OBVIOUS
  <2> HIDE DEF T
  <2> QED BY <1>1, <2>1, MinimalSubset
<1>3. \A V \in SUBSET U : V # U => \E g : Sums(f, V, g)
  BY <1>2
<1> DEFINE H(V) == CHOOSE g : Sums(f, V, g)
           G == [s \in SUBSET U |-> IF s = {} THEN 0
                                   ELSE f[First(s)] + H(s \ {First(s)})[s \ {First(s)}]]
<1>4. ASSUME NEW V \in SUBSET U, V # U
      PROVE  Sums(f, V, H(V))
  BY <1>3, <1>4
<1>5. ASSUME NEW V \in SUBSET U, V # U, NEW W \in SUBSET V
      PROVE  H(V)[W] = H(W)[W]
  <2>1. Sums(f, V, H(V)) /\ Sums(f, W, H(W))
    BY <1>4, <1>5
  <2> HIDE DEF H
  <2>2. Sums(f, W, [s \in SUBSET W |-> H(V)[s]])
    BY <2>1, SumsRestrict
  <2>3. IsFiniteSet(W)
    BY FS_Subset
  <2>4. H(W) = [s \in SUBSET W |-> H(V)[s]]
    BY <2>1, <2>2, <2>3, SumsUnique
  <2>5. W \in SUBSET W
    OBVIOUS
  <2> QED BY <2>4, <2>5
<1>6. ASSUME NEW V \in SUBSET U, V # U
      PROVE  G[V] = H(V)[V]
  <2> DEFINE W == V \ {First(V)}
  <2>1. H(V)[V] = IF V = {} THEN 0 ELSE f[First(V)] + H(V)[W]
    <3>1. Sums(f, V, H(V))
      BY <1>4, <1>6
    <3> HIDE DEF H
    <3> QED BY <3>1 DEF Sums
  <2>2. H(V)[W] = H(W)[W]
    BY <1>5, <1>6
  <2> HIDE DEF H
  <2> QED BY <2>1, <2>2
<1> HIDE DEF H
<1>7. \A s \in SUBSET U : G[s] = IF s = {} THEN 0 ELSE f[First(s)] + G[s \ {First(s)}]
  <2> SUFFICES ASSUME NEW s \in SUBSET U, s # {} PROVE G[s] = f[First(s)] + G[s \ {First(s)}]
    OBVIOUS
  <2>1. First(s) \in s
    BY DEF First
  <2>2. s \ {First(s)} \in SUBSET U /\ s \ {First(s)} # U
    BY <2>1
  <2> QED BY <1>6, <2>2
<1>8. G = [s \in SUBSET U |-> G[s]]
  OBVIOUS
<1> HIDE DEF G
<1>9. Sums(f, U, G)
  BY <1>7, <1>8 DEF Sums
<1> QED BY <1>2, <1>9

\* The sum over S, one element taken out as the fold does.
LEMMA SumStep ==
  ASSUME NEW f, NEW S, IsFiniteSet(S)
  PROVE  /\ SumOf(f, {}) = 0
         /\ S # {} => SumOf(f, S) = f[First(S)] + SumOf(f, S \ {First(S)})
<1>1. ASSUME NEW W, IsFiniteSet(W)
      PROVE  Sums(f, W, CHOOSE it : Sums(f, W, it))
  BY <1>1, SumsExist
<1>2. SumOf(f, {}) = 0
  <2>1. Sums(f, {}, CHOOSE it : Sums(f, {}, it))
    BY <1>1, FS_EmptySet
  <2> DEFINE g == CHOOSE it : Sums(f, {}, it)
  <2> HIDE DEF g
  <2>2. g[{}] = 0
    BY <2>1 DEF Sums, g
  <2> QED BY <2>2 DEF SumOf, g
<1>3. ASSUME S # {}
      PROVE  SumOf(f, S) = f[First(S)] + SumOf(f, S \ {First(S)})
  <2> DEFINE W == S \ {First(S)}
             g == CHOOSE it : Sums(f, S, it)
             h == CHOOSE it : Sums(f, W, it)
  <2>1. W \in SUBSET S /\ IsFiniteSet(W) /\ S \in SUBSET S
    BY FS_Subset
  <2>2. Sums(f, S, g) /\ Sums(f, W, h)
    BY <1>1, <2>1
  <2>3. SumOf(f, S) = g[S] /\ SumOf(f, W) = h[W]
    BY DEF SumOf
  <2> HIDE DEF g, h
  <2>4. g[S] = f[First(S)] + g[W]
    BY <1>3, <2>1, <2>2 DEF Sums
  <2>5. Sums(f, W, [s \in SUBSET W |-> g[s]])
    BY <2>1, <2>2, SumsRestrict
  <2>6. h = [s \in SUBSET W |-> g[s]]
    BY <2>1, <2>2, <2>5, SumsUnique
  <2>7. h[W] = g[W]
    BY <2>6
  <2> QED BY <2>3, <2>4, <2>7
<1> QED BY <1>2, <1>3

\* Any element may be taken out.
LEMMA SumTake ==
  ASSUME NEW S, IsFiniteSet(S), NEW f \in [S -> Nat]
  PROVE  /\ SumOf(f, S) \in Nat
         /\ \A x \in S : SumOf(f, S) = f[x] + SumOf(f, S \ {x})
<1> DEFINE Good(W) == /\ SumOf(f, W) \in Nat
                      /\ \A x \in W : SumOf(f, W) = f[x] + SumOf(f, W \ {x})
           T == {W \in SUBSET S : ~ Good(W)}
<1>1. SUFFICES ASSUME T # {} PROVE FALSE
  OBVIOUS
<1>2. PICK U \in T : IsFiniteSet(U) /\ \A V \in SUBSET U : V # U => V \notin T
  <2>1. T \in SUBSET SUBSET S
    OBVIOUS
  <2> HIDE DEF T
  <2> QED BY <1>1, <2>1, MinimalSubset
<1>3. ASSUME NEW V \in SUBSET U, V # U
      PROVE  Good(V)
  BY <1>2, <1>3
<1>4. IsFiniteSet(U) /\ U \in SUBSET S
  BY <1>2, FS_Subset
<1>5. CASE U = {}
  <2>1. SumOf(f, U) = 0
    BY <1>5, <1>4, SumStep
  <2>2. Good(U)
    BY <1>5, <2>1
  <2> QED BY <1>2, <2>2
<1>6. CASE U # {}
  <2> DEFINE c == First(U)
  <2>1. c \in U /\ SumOf(f, U) = f[c] + SumOf(f, U \ {c})
    BY <1>4, <1>6, SumStep DEF First
  <2> HIDE DEF c
  <2>2. Good(U \ {c}) /\ f[c] \in Nat
    BY <1>3, <1>4, <2>1
  <2>3. ASSUME NEW x \in U
        PROVE  SumOf(f, U) = f[x] + SumOf(f, U \ {x})
    <3>1. CASE x = c
      BY <2>1, <3>1
    <3>2. CASE x # c
      <4> DEFINE W == U \ {c, x}
      <4>1. (U \ {c}) \ {x} = W /\ (U \ {x}) \ {c} = W
        OBVIOUS
      <4>2. SumOf(f, U \ {c}) = f[x] + SumOf(f, (U \ {c}) \ {x})
        BY <2>2, <2>3, <3>2
      <4>3. Good(U \ {x})
        BY <1>3, <2>3
      <4>4. SumOf(f, U \ {x}) = f[c] + SumOf(f, (U \ {x}) \ {c})
        BY <2>1, <3>2, <4>3
      <4>5. Good(W)
        BY <1>3, <2>1
      <4>6. f[x] \in Nat /\ SumOf(f, W) \in Nat
        BY <1>4, <2>3, <4>5
      <4> HIDE DEF W
      <4>7. SumOf(f, U \ {c}) = f[x] + SumOf(f, W) /\ SumOf(f, U \ {x}) = f[c] + SumOf(f, W)
        BY <4>1, <4>2, <4>4
      <4> QED BY <2>1, <2>2, <4>6, <4>7
    <3> QED BY <3>1, <3>2
  <2>4. Good(U)
    BY <2>1, <2>2, <2>3
  <2> QED BY <1>2, <2>4
<1> QED BY <1>5, <1>6

\* Only the values on S matter.
LEMMA SumSame ==
  ASSUME NEW S, IsFiniteSet(S), NEW f, NEW g, \A x \in S : f[x] = g[x]
  PROVE  SumOf(f, S) = SumOf(g, S)
<1> DEFINE T == {W \in SUBSET S : SumOf(f, W) # SumOf(g, W)}
<1>1. SUFFICES ASSUME T # {} PROVE FALSE
  OBVIOUS
<1>2. PICK U \in T : IsFiniteSet(U) /\ \A V \in SUBSET U : V # U => V \notin T
  <2>1. T \in SUBSET SUBSET S
    OBVIOUS
  <2> HIDE DEF T
  <2> QED BY <1>1, <2>1, MinimalSubset
<1>3. IsFiniteSet(U)
  BY <1>2, FS_Subset
<1>4. CASE U = {}
  BY <1>2, <1>3, <1>4, SumStep
<1>5. CASE U # {}
  <2> DEFINE c == First(U)
  <2>1. c \in U /\ SumOf(f, U) = f[c] + SumOf(f, U \ {c}) /\ SumOf(g, U) = g[c] + SumOf(g, U \ {c})
    BY <1>3, <1>5, SumStep DEF First
  <2> HIDE DEF c
  <2>2. SumOf(f, U \ {c}) = SumOf(g, U \ {c})
    BY <1>2, <2>1
  <2> QED BY <1>2, <2>1, <2>2
<1> QED BY <1>4, <1>5

\* The total is a number, and bounds each of the values.
LEMMA TotalNat ==
  ASSUME NEW S, IsFiniteSet(S), NEW f \in [S -> Nat]
  PROVE  /\ Total(f) \in Nat
         /\ \A x \in S : f[x] <= Total(f)
<1>1. Total(f) = SumOf(f, S)
  BY TotalIs
<1>2. SumOf(f, S) \in Nat
  BY SumTake
<1>3. ASSUME NEW x \in S
      PROVE  f[x] <= SumOf(f, S)
  <2>1. SumOf(f, S) = f[x] + SumOf(f, S \ {x})
    BY SumTake, <1>3
  <2>2. SumOf(f, S \ {x}) \in Nat
    <3> DEFINE W == S \ {x}
               g == [y \in W |-> f[y]]
    <3>1. IsFiniteSet(W) /\ g \in [W -> Nat]
      BY FS_Subset
    <3>2. SumOf(g, W) \in Nat
      <4> HIDE DEF g, W
      <4> QED BY <3>1, SumTake
    <3>3. SumOf(g, W) = SumOf(f, W)
      <4>1. \A y \in W : g[y] = f[y]
        OBVIOUS
      <4> HIDE DEF g, W
      <4> QED BY <3>1, <4>1, SumSame
    <3> QED BY <3>2, <3>3
  <2> QED BY <2>1, <2>2
<1> QED BY <1>1, <1>2, <1>3

\* When one value changes, the total changes by as much.
LEMMA TotalAt ==
  ASSUME NEW S, IsFiniteSet(S), NEW f \in [S -> Nat], NEW g \in [S -> Nat],
         NEW x \in S, \A y \in S \ {x} : f[y] = g[y]
  PROVE  Total(g) = Total(f) + g[x] - f[x]
<1>1. Total(f) = SumOf(f, S) /\ Total(g) = SumOf(g, S)
  BY TotalIs
<1>2. SumOf(f, S) = f[x] + SumOf(f, S \ {x}) /\ SumOf(g, S) = g[x] + SumOf(g, S \ {x})
  BY SumTake
<1>3. SumOf(f, S \ {x}) = SumOf(g, S \ {x})
  BY FS_Subset, SumSame
<1>4. Total(f) \in Nat /\ Total(g) \in Nat /\ f[x] \in Nat /\ g[x] \in Nat
  BY TotalNat
<1> DEFINE r == SumOf(g, S \ {x})
<1>5. Total(f) = f[x] + r /\ Total(g) = g[x] + r
  BY <1>1, <1>2, <1>3
<1>6. r \in Nat
  <2> DEFINE W == S \ {x}
             h == [y \in W |-> g[y]]
  <2>1. IsFiniteSet(W) /\ h \in [W -> Nat] /\ \A y \in W : h[y] = g[y]
    BY FS_Subset
  <2> HIDE DEF W, h
  <2>2. SumOf(h, W) \in Nat /\ SumOf(h, W) = SumOf(g, W)
    BY <2>1, SumTake, SumSame
  <2> QED BY <2>2 DEF W
<1> HIDE DEF r
<1> QED BY <1>4, <1>5, <1>6

\* The total of nothing is zero.
LEMMA TotalZero ==
  ASSUME NEW S, IsFiniteSet(S), NEW f, \A x \in S : f[x] = 0, DOMAIN f = S
  PROVE  Total(f) = 0
<1> DEFINE T == {W \in SUBSET S : SumOf(f, W) # 0}
<1>1. SUFFICES ASSUME T # {} PROVE FALSE
  BY TotalIs
<1>2. PICK U \in T : IsFiniteSet(U) /\ \A V \in SUBSET U : V # U => V \notin T
  <2>1. T \in SUBSET SUBSET S
    OBVIOUS
  <2> HIDE DEF T
  <2> QED BY <1>1, <2>1, MinimalSubset
<1>3. IsFiniteSet(U) /\ U # {}
  BY <1>2, SumStep
<1> DEFINE c == First(U)
<1>4. c \in U /\ SumOf(f, U) = f[c] + SumOf(f, U \ {c})
  BY <1>3, SumStep DEF First
<1> HIDE DEF c
<1>5. SumOf(f, U \ {c}) = 0
  BY <1>2, <1>4
<1> QED BY <1>2, <1>4, <1>5

-----------------------------------------------------------------------------
(***************************************************************************)
(* The batches: the oldest entries of a set, in order.                     *)
(***************************************************************************)
\* A finite set of numbers has a largest element.
LEMMA LargestExists ==
  ASSUME NEW S \in SUBSET Int, IsFiniteSet(S), S # {}
  PROVE  \E x \in S : \A y \in S : y <= x
<1> DEFINE T == {W \in SUBSET S : W # {} /\ ~ \E x \in W : \A y \in W : y <= x}
<1>1. SUFFICES ASSUME T # {} PROVE FALSE
  OBVIOUS
<1>2. PICK U \in T : IsFiniteSet(U) /\ \A V \in SUBSET U : V # U => V \notin T
  <2>1. T \in SUBSET SUBSET S
    OBVIOUS
  <2> HIDE DEF T
  <2> QED BY <1>1, <2>1, MinimalSubset
<1>3. PICK c \in U : c \in Int
  BY <1>2
<1> DEFINE V == U \ {c}
<1>4. CASE V = {}
  BY <1>2, <1>3, <1>4
<1>5. CASE V # {}
  <2>1. PICK x \in V : \A y \in V : y <= x
    BY <1>2, <1>3, <1>5
  <2>2. x \in Int /\ c \in Int /\ U \subseteq Int
    BY <1>2, <1>3, <2>1
  <2>3. \A y \in U : y = c \/ y <= x
    BY <2>1
  <2>4. (\A y \in U : y <= x) \/ (\A y \in U : y <= c)
    BY <2>2, <2>3
  <2> QED BY <1>2, <2>1, <2>4
<1> QED BY <1>4, <1>5

\* XPENDING and XREADGROUP return at most as many entries as they were asked for.
LEMMA OldestAtMost ==
  ASSUME NEW S \in SUBSET Int, IsFiniteSet(S), NEW n \in Nat
  PROVE  /\ Oldest(S, n) \subseteq S
         /\ IsFiniteSet(Oldest(S, n))
         /\ Cardinality(Oldest(S, n)) <= n
<1>1. Oldest(S, n) \subseteq S /\ IsFiniteSet(Oldest(S, n))
  BY FS_Subset DEF Oldest
<1>2. CASE Oldest(S, n) = {}
  BY <1>1, <1>2, FS_EmptySet
<1>3. CASE Oldest(S, n) # {}
  <2>1. PICK x \in Oldest(S, n) : \A y \in Oldest(S, n) : y <= x
    BY <1>1, <1>3, LargestExists
  <2> DEFINE W == {k \in S : k < x}
             O == Oldest(S, n)
  <2>2. Cardinality(W) < n
    BY <2>1 DEF Oldest
  <2>3. O \ {x} \subseteq W /\ IsFiniteSet(W)
    <3>1. W \in SUBSET S
      OBVIOUS
    <3>2. \A y \in O : y \in Int /\ x \in Int /\ y <= x
      BY <1>1, <2>1
    <3>3. O \ {x} \subseteq W
      BY <1>1, <3>2
    <3> HIDE DEF W
    <3> QED BY <3>1, <3>3, FS_Subset
  <2>4. Cardinality(O \ {x}) = Cardinality(O) - 1
    BY <1>1, <2>1, FS_RemoveElement
  <2>5. Cardinality(O \ {x}) <= Cardinality(W)
    BY <2>3, FS_Subset
  <2>6. Cardinality(O) \in Nat /\ Cardinality(W) \in Nat
    BY <1>1, <2>3, FS_CardinalityType
  <2> HIDE DEF O, W
  <2>7. Cardinality(O) <= n
    BY <2>2, <2>4, <2>5, <2>6
  <2> QED BY <1>1, <2>7 DEF O
<1> QED BY <1>2, <1>3

\* What XREADGROUP delivers is the next stretch of the stream.
LEMMA NextStretch ==
  ASSUME NEW a \in Nat, NEW b \in Nat, a <= b, NEW n \in Nat
  PROVE  \E c \in a .. b : /\ Oldest((a + 1) .. b, n) = (a + 1) .. c
                           /\ Cardinality(Oldest((a + 1) .. b, n)) = c - a
<1> DEFINE c == IF b <= a + n THEN b ELSE a + n
           S == (a + 1) .. b
<1>1. c \in a .. b
  OBVIOUS
<1>2. ASSUME NEW m \in S
      PROVE  Cardinality({k \in S : k < m}) = m - 1 - a
  <2>1. {k \in S : k < m} = (a + 1) .. (m - 1)
    BY <1>2
  <2>2. Cardinality((a + 1) .. (m - 1)) = m - 1 - a
    BY <1>2, FS_Interval
  <2> QED BY <2>1, <2>2
<1>3. Oldest(S, n) = {m \in S : m - 1 - a < n}
  BY <1>2 DEF Oldest
<1>4. {m \in S : m - 1 - a < n} = (a + 1) .. c
  OBVIOUS
<1>5. Cardinality((a + 1) .. c) = c - a
  <2>1. c \in Int /\ c >= a /\ a + 1 \in Int
    BY <1>1
  <2> HIDE DEF c
  <2>2. Cardinality((a + 1) .. c) = IF a + 1 > c THEN 0 ELSE c - (a + 1) + 1
    BY <2>1, FS_Interval, Zenon
  <2> QED BY <2>1, <2>2
<1> QED BY <1>1, <1>3, <1>4, <1>5

\* The reply lists each of the entries once, in the order of the ids.
LEMMA InOrderIs ==
  ASSUME NEW S \in SUBSET Int, IsFiniteSet(S)
  PROVE  /\ InOrder(S) \in [1 .. Cardinality(S) -> S]
         /\ \A i, j \in DOMAIN InOrder(S) : i < j => InOrder(S)[i] < InOrder(S)[j]
<1> DEFINE Listed(W) == \E q \in [1 .. Cardinality(W) -> W] :
                           \A i, j \in DOMAIN q : i < j => q[i] < q[j]
           T == {W \in SUBSET S : ~ Listed(W)}
<1>1. SUFFICES ASSUME T # {} PROVE FALSE
  <2>1. ASSUME Listed(S)
        PROVE  /\ InOrder(S) \in [1 .. Cardinality(S) -> S]
               /\ \A i, j \in DOMAIN InOrder(S) : i < j => InOrder(S)[i] < InOrder(S)[j]
    BY <2>1 DEF InOrder
  <2> QED BY <2>1
<1>2. PICK U \in T : IsFiniteSet(U) /\ \A V \in SUBSET U : V # U => V \notin T
  <2>1. T \in SUBSET SUBSET S
    OBVIOUS
  <2> HIDE DEF T
  <2> QED BY <1>1, <2>1, MinimalSubset
<1>3. CASE U = {}
  <2>1. 1 .. Cardinality(U) = {}
    BY <1>3, FS_EmptySet
  <2>2. [i \in {} |-> 0] \in [1 .. Cardinality(U) -> U] /\ DOMAIN [i \in {} |-> 0] = {}
    BY <2>1
  <2>3. Listed(U)
    BY <2>2
  <2> QED BY <1>2, <2>3
<1>4. CASE U # {}
  <2>1. U \in SUBSET Int
    BY <1>2
  <2>2. PICK x \in U : \A y \in U : y <= x
    BY <1>2, <1>4, <2>1, LargestExists
  <2> DEFINE V == U \ {x}
             n == Cardinality(V)
  <2>3. /\ IsFiniteSet(V)
        /\ n \in Nat
        /\ Cardinality(U) = n + 1
    <3>1. IsFiniteSet(V) /\ Cardinality(V) = Cardinality(U) - 1
      BY <1>2, <2>2, FS_RemoveElement
    <3> QED BY <1>2, <3>1, FS_CardinalityType
  <2>4. PICK q \in [1 .. n -> V] : \A i, j \in DOMAIN q : i < j => q[i] < q[j]
    BY <1>2, <2>2
  <2> DEFINE r == [i \in 1 .. n + 1 |-> IF i = n + 1 THEN x ELSE q[i]]
  <2>5. \A v \in V : v < x
    BY <2>1, <2>2
  <2> HIDE DEF V, n
  <2>6. r \in [1 .. n + 1 -> U]
    BY <2>2, <2>3 DEF V
  <2>7. \A i, j \in 1 .. n + 1 : i < j => r[i] < r[j]
    <3> SUFFICES ASSUME NEW i \in 1 .. n + 1, NEW j \in 1 .. n + 1, i < j
                 PROVE  r[i] < r[j]
      OBVIOUS
    <3>1. i \in 1 .. n /\ r[i] = q[i] /\ q[i] \in V
      BY <2>3
    <3>2. CASE j = n + 1
      BY <2>5, <3>1, <3>2
    <3>3. CASE j # n + 1
      <4>1. j \in 1 .. n /\ r[j] = q[j]
        BY <2>3, <3>3
      <4> QED BY <2>4, <3>1, <4>1
    <3> QED BY <3>2, <3>3
  <2>8. Listed(U)
    BY <2>3, <2>6, <2>7
  <2> QED BY <1>2, <2>8
<1> QED BY <1>3, <1>4

-----------------------------------------------------------------------------
(***************************************************************************)
(* The inductive invariant.                                                *)
(***************************************************************************)
\* A counter that settles an entry has counted it; nothing is lost from the
\* count but by an exception.
Counted ==
  \A s \in Sched :
    /\ Len(Held(s)) + NumJobs(s) <= inflight[s]
    /\ "throw" \notin Faults => inflight[s] = Len(Held(s)) + NumJobs(s)

\* How far the counter may go, at each place of the loop thread: it is compared
\* with the limit only at "top", and a rescue and a read may come on top of it.
Allowed(s) ==
  MaxInflight + (IF pc[s] = "claim" THEN 0
                 ELSE IF pc[s] \in {"rescue", "workers", "read"} THEN RescueBatch
                 ELSE RescueBatch + BatchSize)

Bounded ==
  \A s \in Sched : /\ inflight[s] <= Allowed(s)
                   /\ pc[s] = "claim" => Len(batch[s]) <= RescueBatch

\* No entry is twice in a batch.
BatchSorted ==
  \A s \in Sched : \A i, j \in DOMAIN batch[s] : i < j => batch[s][i] < batch[s][j]

\* A copy that is idle may be copied once more; what was not delivered has no copy.
CopiesCovered ==
  \A m \in Msg :
    /\ idled[m] < IdleCap => Copies(m) + (IF m \in idle THEN 1 ELSE 0) <= 1 + idled[m]
    /\ m > delivered => Copies(m) = 0

IInv == TypeOK /\ Counted /\ Bounded /\ BatchSorted /\ CopiesCovered

-----------------------------------------------------------------------------
(***************************************************************************)
(* Facts about the state, and about what a step leaves alone.              *)
(***************************************************************************)
LEMMA Constants ==
  /\ BatchSize \in Nat /\ RescueBatch \in Nat /\ MaxInflight \in Nat /\ IdleCap \in Nat
  /\ NMsg \in Nat /\ MaxFaults \in Nat
  /\ IsFiniteSet(Sched) /\ IsFiniteSet(Worker) /\ IsFiniteSet(Msg)
  /\ IsFiniteSet(Msg \X Worker) /\ Msg \subseteq Nat
<1>1. IsFiniteSet(Msg)
  BY DispatchAssumption, FS_Interval DEF Msg
<1> QED BY SMTT(30), <1>1, DispatchAssumption, FS_Product DEF Msg

\* The loop thread's entries and the pool's jobs are sequences and numbers.
LEMMA HeldTypes ==
  ASSUME TypeOK, NEW s \in Sched
  PROVE  /\ Held(s) \in Seq(Msg) /\ Len(Held(s)) \in Nat
         /\ NumJobs(s) \in Nat /\ inflight[s] \in Nat
         /\ \A j \in Msg \X Worker : jobs[s][j] <= NumJobs(s) /\ jobs[s][j] \in Nat
<1>1. Held(s) \in Seq(Msg)
  BY DEF TypeOK, Held
<1>2. jobs[s] \in [Msg \X Worker -> Nat] /\ inflight[s] \in Nat
  BY DEF TypeOK
<1>3. NumJobs(s) \in Nat /\ \A j \in Msg \X Worker : jobs[s][j] <= NumJobs(s)
  BY <1>2, Constants, TotalNat DEF NumJobs
<1> QED BY <1>1, <1>2, <1>3

\* Whoever subtracts one from the counter finds one there.
LEMMA SettleSafe ==
  ASSUME TypeOK, Counted, NEW s \in Sched
  PROVE  /\ Processing(s) => inflight[s] >= 1
         /\ \A m \in Msg, w \in Worker : jobs[s][<<m, w>>] > 0 => inflight[s] >= 1
<1>1. Len(Held(s)) + NumJobs(s) <= inflight[s]
  BY DEF Counted
<1>2. ASSUME Processing(s)
      PROVE  inflight[s] >= 1
  <2>1. Held(s) = batch[s] /\ batch[s] \in Seq(Msg) /\ batch[s] # <<>>
    BY <1>2 DEF Processing, At, Held, TypeOK
  <2>2. Len(Held(s)) >= 1
    BY <2>1
  <2> QED BY <1>1, <2>2, HeldTypes
<1>3. ASSUME NEW m \in Msg, NEW w \in Worker, jobs[s][<<m, w>>] > 0
      PROVE  inflight[s] >= 1
  <2>1. <<m, w>> \in Msg \X Worker
    OBVIOUS
  <2>2. jobs[s][<<m, w>>] <= NumJobs(s) /\ jobs[s][<<m, w>>] \in Nat
    BY <2>1, HeldTypes
  <2> QED BY <1>1, <1>3, <2>2, HeldTypes
<1> QED BY <1>2, <1>3

LEMMA MsgSets ==
  ASSUME NEW S \in SUBSET Msg
  PROVE  IsFiniteSet(S) /\ Cardinality(S) \in Nat /\ S \in SUBSET Int
<1>1. IsFiniteSet(S)
  BY Constants, FS_Subset
<1>2. Cardinality(S) \in Nat
  BY <1>1, FS_CardinalityType
<1>3. Msg \subseteq Int
  BY DEF Msg
<1> QED BY <1>1, <1>2, <1>3

\* A reply, as a batch of messages.
LEMMA BatchOf ==
  ASSUME NEW S \in SUBSET Msg
  PROVE  /\ IsFiniteSet(S) /\ Cardinality(S) \in Nat
         /\ InOrder(S) \in Seq(Msg) /\ InOrder(S) \in Seq(S)
         /\ Len(InOrder(S)) = Cardinality(S)
         /\ \A i, j \in DOMAIN InOrder(S) : i < j => InOrder(S)[i] < InOrder(S)[j]
<1>1. IsFiniteSet(S) /\ Cardinality(S) \in Nat /\ S \in SUBSET Int
  BY MsgSets
<1>2. /\ InOrder(S) \in [1 .. Cardinality(S) -> S]
      /\ \A i, j \in DOMAIN InOrder(S) : i < j => InOrder(S)[i] < InOrder(S)[j]
  BY <1>1, InOrderIs
<1> DEFINE q == InOrder(S)
<1> HIDE DEF q
<1>3. q \in Seq(S) /\ Len(q) = Cardinality(S)
  BY <1>1, <1>2 DEF q
<1>4. q \in Seq(Msg)
  BY <1>3
<1> QED BY <1>1, <1>2, <1>3, <1>4 DEF q

\* XPENDING and XCLAIM of the rescue, and XREADGROUP of the read.
LEMMA Replies ==
  ASSUME TypeOK, NEW s \in Sched
  PROVE  /\ LET ids == StillIdle(Oldest(pel, RescueBatch))
            IN  ids \in SUBSET Msg /\ Cardinality(ids) <= RescueBatch
         /\ LET got == Claimable(s, ToSet(batch[s]))
            IN  /\ got \in SUBSET Msg /\ got \subseteq idle /\ got \subseteq pel
                /\ Cardinality(got) <= Len(batch[s])
         /\ LET new == Oldest((delivered + 1) .. published, BatchSize)
            IN  /\ new \in SUBSET Msg /\ Cardinality(new) <= BatchSize
                /\ delivered + Cardinality(new) <= published
                /\ new = (delivered + 1) .. (delivered + Cardinality(new))
<1>1. /\ pel \in SUBSET Msg /\ idle \subseteq pel
      /\ delivered \in Nat /\ published \in Nat /\ delivered <= published /\ published <= NMsg
      /\ batch[s] \in Seq(Msg)
  BY Constants DEF TypeOK, Msg
<1>2. LET ids == StillIdle(Oldest(pel, RescueBatch))
      IN  ids \in SUBSET Msg /\ Cardinality(ids) <= RescueBatch
  <2> DEFINE O == Oldest(pel, RescueBatch)
  <2>1. pel \in SUBSET Int /\ IsFiniteSet(pel)
    BY <1>1, MsgSets
  <2>2. O \subseteq pel /\ IsFiniteSet(O) /\ Cardinality(O) <= RescueBatch
    BY <2>1, Constants, OldestAtMost
  <2> HIDE DEF O
  <2>3. StillIdle(O) \in SUBSET O
    BY DEF StillIdle
  <2>4. Cardinality(StillIdle(O)) <= Cardinality(O) /\ IsFiniteSet(StillIdle(O))
    BY <2>2, <2>3, FS_Subset
  <2>5. Cardinality(StillIdle(O)) \in Nat /\ Cardinality(O) \in Nat
    BY <2>2, <2>4, FS_CardinalityType
  <2>6. RescueBatch \in Nat
    BY Constants
  <2>7. StillIdle(O) \in SUBSET Msg /\ Cardinality(StillIdle(O)) <= RescueBatch
    BY <1>1, <2>2, <2>3, <2>4, <2>5, <2>6
  <2> QED BY <2>7 DEF O
<1>3. LET got == Claimable(s, ToSet(batch[s]))
      IN  /\ got \in SUBSET Msg /\ got \subseteq idle /\ got \subseteq pel
          /\ Cardinality(got) <= Len(batch[s])
  <2> DEFINE q == batch[s]
             got == Claimable(s, ToSet(q))
             n == Len(q)
             D == 1 .. n
             P == {i \in D : q[i] \in got}
  <2>1. n \in Nat /\ q \in [D -> Msg]
    BY <1>1
  <2>2. IsFiniteSet(D) /\ Cardinality(D) = n
    <3>1. n \in Int /\ 1 \in Int
      BY <2>1
    <3> HIDE DEF n
    <3>2. IsFiniteSet(1 .. n) /\ Cardinality(1 .. n) = IF 1 > n THEN 0 ELSE n - 1 + 1
      BY <3>1, FS_Interval, Zenon
    <3> QED BY <2>1, <3>2
  <2>3. got = {q[i] : i \in P}
    BY <2>1 DEF Claimable, ToSet
  <2>4. got \in SUBSET Msg /\ got \subseteq idle /\ got \subseteq pel
    BY <1>1 DEF Claimable
  <2>5. IsFiniteSet(P) /\ Cardinality(P) <= Cardinality(D)
    <3>1. P \in SUBSET D
      OBVIOUS
    <3> HIDE DEF P, D
    <3> QED BY <2>2, <3>1, FS_Subset
  <2>6. Cardinality(got) <= Cardinality(P) /\ IsFiniteSet(got)
    <3> DEFINE f == [i \in P |-> q[i]]
    <3>1. f \in Surjection(P, got)
      BY <2>3 DEF Surjection
    <3> HIDE DEF f, P, got
    <3> QED BY <2>5, <3>1, FS_Surjection
  <2>7. Cardinality(got) \in Nat /\ Cardinality(P) \in Nat
    BY <2>5, <2>6, FS_CardinalityType
  <2> HIDE DEF P, got, D, n, q
  <2>8. Cardinality(got) <= n
    BY <2>1, <2>2, <2>5, <2>6, <2>7
  <2> QED BY <2>4, <2>8 DEF got, n, q
<1>4. LET new == Oldest((delivered + 1) .. published, BatchSize)
      IN  /\ new \in SUBSET Msg /\ Cardinality(new) <= BatchSize
          /\ delivered + Cardinality(new) <= published
          /\ new = (delivered + 1) .. (delivered + Cardinality(new))
  <2> DEFINE fresh == (delivered + 1) .. published
             new == Oldest(fresh, BatchSize)
  <2>1. PICK c \in delivered .. published :
          new = (delivered + 1) .. c /\ Cardinality(new) = c - delivered
    BY <1>1, Constants, NextStretch
  <2>2. fresh \in SUBSET Int /\ IsFiniteSet(fresh)
    <3>1. delivered + 1 \in Int /\ published \in Int
      BY <1>1
    <3> QED BY <3>1, FS_Interval
  <2>3. Cardinality(new) <= BatchSize
    <3> HIDE DEF fresh
    <3> QED BY <2>2, Constants, OldestAtMost
  <2> HIDE DEF new
  <2>4. /\ new \in SUBSET Msg
        /\ delivered + Cardinality(new) <= published
        /\ new = (delivered + 1) .. (delivered + Cardinality(new))
    BY <1>1, <2>1, Constants DEF Msg
  <2> QED BY <2>3, <2>4 DEF new
<1> QED BY <1>2, <1>3, <1>4

-----------------------------------------------------------------------------
(***************************************************************************)
(* Types.                                                                  *)
(***************************************************************************)
RedisTypes ==
  /\ published \in 0 .. NMsg /\ delivered \in 0 .. published /\ start \in -1 .. delivered
  /\ pel \subseteq 1 .. delivered /\ idle \subseteq pel
  /\ meta \subseteq Msg
LoopTypes ==
  /\ up \in [Sched -> BOOLEAN] /\ due \in [Sched -> BOOLEAN]
  /\ pc \in [Sched -> {"top", "claim", "rescue", "workers", "read", "batch"}]
  /\ batch \in [Sched -> Seq(Msg)] /\ snap \in [Sched -> SUBSET Worker]
PoolTypes ==
  /\ jobs \in [Sched -> [Msg \X Worker -> Nat]]
  /\ inflight \in [Sched -> Nat]
WorkTypes ==
  /\ reg \in [Sched -> SUBSET Worker]
  /\ wup \subseteq Worker /\ running \in [Worker -> [Msg -> Nat]]
HistTypes ==
  /\ accepted \subseteq Msg /\ skipped \subseteq Msg /\ reported \subseteq Msg
  /\ idled \in [Msg -> 0 .. IdleCap]
  /\ faults \in 0 .. MaxFaults

LEMMA TypeParts ==
  /\ TypeOK <=> RedisTypes /\ LoopTypes /\ PoolTypes /\ WorkTypes /\ HistTypes
  /\ TypeOK' <=> RedisTypes' /\ LoopTypes' /\ PoolTypes' /\ WorkTypes' /\ HistTypes'
BY DEF TypeOK, RedisTypes, LoopTypes, PoolTypes, WorkTypes, HistTypes

\* A part that a step leaves alone keeps its types.
LEMMA TypeFrames ==
  /\ RedisTypes /\ UNCHANGED redis => RedisTypes'
  /\ LoopTypes /\ UNCHANGED <<up, loop>> => LoopTypes'
  /\ PoolTypes /\ UNCHANGED <<jobs, inflight>> => PoolTypes'
  /\ WorkTypes /\ UNCHANGED <<reg, work>> => WorkTypes'
BY DEF RedisTypes, LoopTypes, PoolTypes, WorkTypes, redis, loop, work

\* So does the history that only counts the fault.
LEMMA FaultTypes ==
  ASSUME HistTypes, NEW k, Fine \/ Fault(k)
  PROVE  faults' \in 0 .. MaxFaults
BY Constants DEF HistTypes, Fine, Fault

LEMMA TypeInit ==
  ASSUME Init
  PROVE  TypeOK
<1>1. PoolTypes
  BY DEF PoolTypes, Init, NoJobs
<1>2. WorkTypes
  BY DEF WorkTypes, Init, Idle
<1>3. LoopTypes
  <2>1. <<>> \in Seq(Msg)
    OBVIOUS
  <2> QED BY <2>1 DEF Init, LoopTypes
<1>4. RedisTypes
  BY Constants DEF Init, RedisTypes
<1>5. HistTypes
  BY Constants DEF Init, HistTypes
<1> QED BY <1>1, <1>2, <1>3, <1>4, <1>5, TypeParts

\* Redis, the clock, and the processes that come and go.
LEMMA TypeOutside ==
  ASSUME TypeOK,
         \/ Publish
         \/ \E m \in Msg : IdleTick(m) \/ MetaExpires(m)
         \/ \E s \in Sched : SchedStart(s) \/ SchedDies(s) \/ RescueTimer(s)
         \/ \E s \in Sched, w \in Worker : Register(s, w) \/ HeartbeatTimeout(s, w)
         \/ \E w \in Worker : WorkerStart(w) \/ WorkerDies(w)
         \/ \E w \in Worker, m \in Msg : Finish(w, m)
  PROVE  TypeOK'
<1> RedisTypes /\ LoopTypes /\ PoolTypes /\ WorkTypes /\ HistTypes
  BY TypeParts
<1>1. CASE Publish
  <2>1. RedisTypes'
    BY <1>1, Constants DEF RedisTypes, Publish
  <2>2. LoopTypes' /\ PoolTypes' /\ WorkTypes'
    BY <1>1, TypeFrames DEF Publish
  <2>3. HistTypes'
    BY <1>1, FaultTypes DEF HistTypes, Publish, hist
  <2> QED BY <2>1, <2>2, <2>3, TypeParts
<1>2. ASSUME NEW m \in Msg, IdleTick(m)
      PROVE  TypeOK'
  <2>1. RedisTypes'
    BY <1>2 DEF RedisTypes, IdleTick
  <2>2. LoopTypes' /\ PoolTypes' /\ WorkTypes'
    BY <1>2, TypeFrames DEF IdleTick
  <2>3. HistTypes'
    BY <1>2, FaultTypes, Constants DEF HistTypes, IdleTick
  <2> QED BY <2>1, <2>2, <2>3, TypeParts
<1>3. ASSUME NEW m \in Msg, MetaExpires(m)
      PROVE  TypeOK'
  <2>1. RedisTypes'
    BY <1>3 DEF RedisTypes, MetaExpires
  <2>2. LoopTypes' /\ PoolTypes' /\ WorkTypes'
    BY <1>3, TypeFrames DEF MetaExpires
  <2>3. HistTypes'
    BY <1>3, FaultTypes DEF HistTypes, MetaExpires, hist
  <2> QED BY <2>1, <2>2, <2>3, TypeParts
<1>4. ASSUME NEW s \in Sched, SchedStart(s)
      PROVE  TypeOK'
  <2>1. RedisTypes'
    BY <1>4 DEF RedisTypes, SchedStart
  <2>2. LoopTypes'
    BY <1>4 DEF LoopTypes, SchedStart, loop
  <2>3. PoolTypes' /\ WorkTypes'
    BY <1>4, TypeFrames DEF SchedStart
  <2>4. HistTypes'
    BY <1>4, FaultTypes DEF HistTypes, SchedStart, hist
  <2> QED BY <2>1, <2>2, <2>3, <2>4, TypeParts
<1>5. ASSUME NEW s \in Sched, SchedDies(s)
      PROVE  TypeOK'
  <2>1. RedisTypes'
    BY <1>5, TypeFrames DEF SchedDies
  <2>2. LoopTypes'
    <3>1. <<>> \in Seq(Msg)
      OBVIOUS
    <3> QED BY <1>5, <3>1 DEF LoopTypes, SchedDies
  <2>3. PoolTypes'
    BY <1>5 DEF PoolTypes, SchedDies, NoJobs
  <2>4. WorkTypes'
    BY <1>5 DEF WorkTypes, SchedDies, work
  <2>5. HistTypes'
    BY <1>5, FaultTypes DEF HistTypes, SchedDies, hist
  <2> QED BY <2>1, <2>2, <2>3, <2>4, <2>5, TypeParts
<1>6. ASSUME NEW s \in Sched, RescueTimer(s)
      PROVE  TypeOK'
  <2>1. RedisTypes' /\ PoolTypes' /\ WorkTypes'
    BY <1>6, TypeFrames DEF RescueTimer
  <2>2. LoopTypes'
    BY <1>6 DEF LoopTypes, RescueTimer
  <2>3. HistTypes'
    BY <1>6, FaultTypes DEF HistTypes, RescueTimer, hist
  <2> QED BY <2>1, <2>2, <2>3, TypeParts
<1>7. ASSUME NEW s \in Sched, NEW w \in Worker, Register(s, w) \/ HeartbeatTimeout(s, w)
      PROVE  TypeOK'
  <2>1. RedisTypes' /\ LoopTypes' /\ PoolTypes'
    BY <1>7, TypeFrames DEF Register, HeartbeatTimeout
  <2>2. WorkTypes'
    BY <1>7 DEF WorkTypes, Register, HeartbeatTimeout, work
  <2>3. HistTypes'
    BY <1>7, FaultTypes DEF HistTypes, Register, HeartbeatTimeout, hist
  <2> QED BY <2>1, <2>2, <2>3, TypeParts
<1>8. ASSUME NEW w \in Worker, WorkerStart(w) \/ WorkerDies(w)
      PROVE  TypeOK'
  <2>1. RedisTypes' /\ LoopTypes' /\ PoolTypes'
    BY <1>8, TypeFrames DEF WorkerStart, WorkerDies
  <2>2. WorkTypes'
    BY <1>8 DEF WorkTypes, WorkerStart, WorkerDies, Idle
  <2>3. HistTypes'
    BY <1>8, FaultTypes DEF HistTypes, WorkerStart, WorkerDies, hist
  <2> QED BY <2>1, <2>2, <2>3, TypeParts
<1>9. ASSUME NEW w \in Worker, NEW m \in Msg, Finish(w, m)
      PROVE  TypeOK'
  <2>1. RedisTypes' /\ LoopTypes' /\ PoolTypes'
    BY <1>9, TypeFrames DEF Finish
  <2>2. WorkTypes'
    BY <1>9 DEF WorkTypes, Finish
  <2>3. HistTypes'
    BY <1>9, FaultTypes DEF HistTypes, Finish
  <2> QED BY <2>1, <2>2, <2>3, TypeParts
<1> QED BY <1>1, <1>2, <1>3, <1>4, <1>5, <1>6, <1>7, <1>8, <1>9

\* The loop thread.
LEMMA TypeLoop ==
  ASSUME TypeOK, Counted, NEW s \in Sched, RunLoop(s) \/ BatchThrows(s)
  PROVE  TypeOK'
<1> RedisTypes /\ LoopTypes /\ PoolTypes /\ WorkTypes /\ HistTypes
  BY TypeParts
<1>1. CASE RescueScan(s)
  <2>1. RedisTypes' /\ PoolTypes' /\ WorkTypes'
    BY <1>1, TypeFrames DEF RescueScan
  <2>2. LoopTypes'
    <3>1. InOrder(StillIdle(Oldest(pel, RescueBatch))) \in Seq(Msg)
      BY Replies, BatchOf
    <3> QED BY <1>1, <3>1 DEF LoopTypes, RescueScan, Goto
  <2>3. HistTypes'
    BY <1>1, FaultTypes DEF HistTypes, RescueScan, hist
  <2> QED BY <2>1, <2>2, <2>3, TypeParts
<1>2. CASE RescueClaim(s)
  <2> DEFINE got == Claimable(s, ToSet(batch[s]))
  <2>1. got \in SUBSET Msg /\ InOrder(got) \in Seq(Msg) /\ Cardinality(got) \in Nat
    BY Replies, BatchOf
  <2>2. RedisTypes'
    BY <1>2 DEF RedisTypes, RescueClaim
  <2>3. LoopTypes'
    <3>1. <<>> \in Seq(Msg)
      OBVIOUS
    <3> QED BY ZenonT(60), <1>2, <2>1, <3>1 DEF LoopTypes, RescueClaim, Goto
  <2>4. PoolTypes'
    <3>1. /\ UNCHANGED jobs
          /\ \/ UNCHANGED inflight
             \/ inflight' = [inflight EXCEPT ![s] = @ + Cardinality(got)]
      BY <1>2 DEF RescueClaim
    <3> DEFINE n == Cardinality(got)
    <3>2. n \in Nat
      BY <2>1
    <3> HIDE DEF n
    <3>3. [inflight EXCEPT ![s] = @ + n] \in [Sched -> Nat]
      BY <3>2 DEF PoolTypes
    <3> QED BY <3>1, <3>3 DEF PoolTypes, n
  <2>5. WorkTypes'
    BY <1>2, TypeFrames DEF RescueClaim
  <2>6. HistTypes'
    BY <1>2, FaultTypes DEF HistTypes, RescueClaim, hist
  <2> QED BY <2>2, <2>3, <2>4, <2>5, <2>6, TypeParts
<1>3. CASE TakeSnapshot(s) \/ NoWorkers(s) \/ ReadTimeout(s) \/ BatchEnds(s)
  <2>1. RedisTypes' /\ PoolTypes' /\ WorkTypes'
    BY <1>3, TypeFrames DEF TakeSnapshot, NoWorkers, ReadTimeout, BatchEnds
  <2>2. LoopTypes'
    BY <1>3 DEF LoopTypes, WorkTypes, TakeSnapshot, NoWorkers, ReadTimeout, BatchEnds, Goto, Forget
  <2>3. HistTypes'
    BY <1>3, FaultTypes DEF HistTypes, TakeSnapshot, NoWorkers, ReadTimeout, BatchEnds, hist
  <2> QED BY <2>1, <2>2, <2>3, TypeParts
<1>4. CASE ReadGroup(s)
  <2> DEFINE new == Oldest((delivered + 1) .. published, BatchSize)
  <2>1. /\ InOrder(new) \in Seq(Msg) /\ Cardinality(new) \in Nat
        /\ delivered + Cardinality(new) <= published
        /\ new = (delivered + 1) .. (delivered + Cardinality(new))
    BY Replies, BatchOf
  <2>2. /\ delivered' = delivered + Cardinality(new) /\ pel' = pel \cup new
        /\ UNCHANGED <<published, start, idle, meta>>
    BY <1>4 DEF ReadGroup
  <2>3. RedisTypes'
    <3> DEFINE c == delivered + Cardinality(new)
    <3>1. c \in delivered .. published /\ new = (delivered + 1) .. c /\ delivered' = c
      BY <2>1, <2>2 DEF RedisTypes
    <3> HIDE DEF new, c
    <3>2. delivered' \in 0 .. published' /\ start' \in -1 .. delivered'
      BY <2>2, <3>1 DEF RedisTypes
    <3>3. pel' \subseteq 1 .. delivered'
      BY <2>2, <3>1 DEF RedisTypes
    <3> QED BY <2>2, <3>2, <3>3 DEF RedisTypes
  <2>4. LoopTypes'
    BY <1>4, <2>1 DEF LoopTypes, ReadGroup, Goto, Forget
  <2>5. PoolTypes'
    <3>1. /\ UNCHANGED jobs
          /\ \/ UNCHANGED inflight
             \/ inflight' = [inflight EXCEPT ![s] = @ + Cardinality(new)]
      BY <1>4 DEF ReadGroup
    <3> DEFINE n == Cardinality(new)
    <3>2. n \in Nat
      BY <2>1
    <3> HIDE DEF n
    <3>3. [inflight EXCEPT ![s] = @ + n] \in [Sched -> Nat]
      BY <3>2 DEF PoolTypes
    <3> QED BY <3>1, <3>3 DEF PoolTypes, n
  <2>6. WorkTypes'
    BY <1>4, TypeFrames DEF ReadGroup
  <2>7. HistTypes'
    BY <1>4, FaultTypes DEF HistTypes, ReadGroup, hist
  <2> QED BY <2>3, <2>4, <2>5, <2>6, <2>7, TypeParts
<1>5. CASE SkipEntry(s) \/ RescueWithoutWorker(s) \/ \E w \in Worker : EnqueueEntry(s, w)
  <2>1. /\ Processing(s) /\ NextEntry(s)
        /\ UNCHANGED <<published, start, delivered, meta, up, pc, due, snap, reg, work>>
    BY <1>5 DEF SkipEntry, RescueWithoutWorker, EnqueueEntry, redis
  <2>2. Entry(s) \in Msg /\ Tail(batch[s]) \in Seq(Msg)
    BY <2>1 DEF LoopTypes, Processing, Entry
  <2>3. pel' \subseteq pel /\ idle' \subseteq pel'
    BY <1>5 DEF RedisTypes, SkipEntry, RescueWithoutWorker, EnqueueEntry, redis, Ack
  <2>4. RedisTypes'
    BY <2>1, <2>3 DEF RedisTypes
  <2>5. LoopTypes'
    BY <2>1, <2>2 DEF LoopTypes, NextEntry
  <2>6. inflight' \in [Sched -> Nat]
    <3>1. inflight[s] >= 1
      BY <2>1, SettleSafe
    <3>2. inflight' = inflight \/ inflight' = [inflight EXCEPT ![s] = @ - 1]
      BY <1>5 DEF SkipEntry, RescueWithoutWorker, EnqueueEntry, Settle
    <3> QED BY <3>1, <3>2 DEF PoolTypes
  <2>7. jobs' \in [Sched -> [Msg \X Worker -> Nat]]
    <3>1. CASE UNCHANGED jobs
      BY <3>1 DEF PoolTypes
    <3>2. ASSUME NEW w \in Worker, EnqueueEntry(s, w)
          PROVE  jobs' \in [Sched -> [Msg \X Worker -> Nat]]
      <4>1. jobs' = [jobs EXCEPT ![s] = [jobs[s] EXCEPT ![<<Entry(s), w>>] = @ + 1]]
        BY <3>2 DEF EnqueueEntry, PoolTypes
      <4>2. [jobs[s] EXCEPT ![<<Entry(s), w>>] = @ + 1] \in [Msg \X Worker -> Nat]
        <5>1. <<Entry(s), w>> \in Msg \X Worker
          BY <2>2
        <5> HIDE DEF Entry
        <5> QED BY <5>1 DEF PoolTypes
      <4> HIDE DEF Entry
      <4> QED BY <4>1, <4>2 DEF PoolTypes
    <3> QED BY <1>5, <3>1, <3>2 DEF SkipEntry, RescueWithoutWorker
  <2>8. PoolTypes'
    BY <2>6, <2>7 DEF PoolTypes
  <2>9. WorkTypes'
    BY <2>1, TypeFrames
  <2>10. HistTypes'
    <3>1. faults' \in 0 .. MaxFaults
      BY <1>5, FaultTypes DEF SkipEntry, RescueWithoutWorker, EnqueueEntry, Ack
    <3>2. skipped' \subseteq Msg /\ UNCHANGED <<accepted, reported, idled>>
      BY <1>5, <2>2 DEF HistTypes, SkipEntry, RescueWithoutWorker, EnqueueEntry, hist
    <3> QED BY <3>1, <3>2 DEF HistTypes
  <2> QED BY <2>4, <2>5, <2>8, <2>9, <2>10, TypeParts
<1>6. CASE BatchThrows(s)
  <2>1. RedisTypes' /\ PoolTypes' /\ WorkTypes'
    BY <1>6, TypeFrames DEF BatchThrows
  <2>2. LoopTypes'
    <3>1. <<>> \in Seq(Msg)
      OBVIOUS
    <3> QED BY <1>6, <3>1 DEF LoopTypes, BatchThrows, Goto, Forget
  <2>3. HistTypes'
    BY <1>6, FaultTypes DEF HistTypes, BatchThrows, hist
  <2> QED BY <2>1, <2>2, <2>3, TypeParts
<1> QED BY <1>1, <1>2, <1>3, <1>4, <1>5, <1>6 DEF RunLoop

\* The dispatch pool.
LEMMA TypePool ==
  ASSUME TypeOK, Counted, NEW s \in Sched, NEW m \in Msg, NEW w \in Worker,
         DoDispatch(s, m, w)
  PROVE  TypeOK'
<1> RedisTypes /\ LoopTypes /\ PoolTypes /\ WorkTypes /\ HistTypes
  BY TypeParts
<1>1. TakeJob(s, m, w)
  BY DEF DoDispatch, DispatchOk, DispatchFails
<1>2. RedisTypes'
  BY DEF RedisTypes, DoDispatch, DispatchOk, DispatchFails, Ack, Leave
<1>3. LoopTypes'
  BY TypeFrames DEF DoDispatch, DispatchOk, DispatchFails
<1>4. PoolTypes'
  <2>1. <<m, w>> \in Msg \X Worker
    OBVIOUS
  <2>2. [jobs[s] EXCEPT ![<<m, w>>] = @ - 1] \in [Msg \X Worker -> Nat]
    BY <1>1, <2>1 DEF TakeJob, PoolTypes
  <2>3. jobs' = [jobs EXCEPT ![s] = [jobs[s] EXCEPT ![<<m, w>>] = @ - 1]]
    BY <1>1 DEF TakeJob, PoolTypes
  <2>4. jobs' \in [Sched -> [Msg \X Worker -> Nat]]
    BY <2>2, <2>3 DEF PoolTypes
  <2>5. inflight' \in [Sched -> Nat]
    BY <1>1, SettleSafe DEF TakeJob, Settle, PoolTypes
  <2> QED BY <2>4, <2>5 DEF PoolTypes
<1>5. WorkTypes'
  <2>1. /\ running' \in {running, [running EXCEPT ![w][m] = @ + 1]}
        /\ UNCHANGED <<reg, wup>>
    BY DEF DoDispatch, DispatchOk, DispatchFails
  <2> QED BY <2>1 DEF WorkTypes
<1>6. HistTypes'
  <2>1. faults' \in 0 .. MaxFaults
    BY FaultTypes DEF DoDispatch, DispatchOk, DispatchFails, Ack
  <2>2. accepted' \subseteq Msg /\ UNCHANGED <<skipped, reported, idled>>
    BY DEF HistTypes, DoDispatch, DispatchOk, DispatchFails, hist
  <2> QED BY <2>1, <2>2 DEF HistTypes
<1> QED BY <1>2, <1>3, <1>4, <1>5, <1>6, TypeParts

-----------------------------------------------------------------------------
(***************************************************************************)
(* The counter, its bound, and the order of a batch.                       *)
(***************************************************************************)
\* The three invariants, for one scheduler.
Books(s) ==
  /\ Len(Held(s)) + NumJobs(s) <= inflight[s]
  /\ "throw" \notin Faults => inflight[s] = Len(Held(s)) + NumJobs(s)
  /\ inflight[s] <= Allowed(s)
  /\ pc[s] = "claim" => Len(batch[s]) <= RescueBatch
  /\ \A i, j \in DOMAIN batch[s] : i < j => batch[s][i] < batch[s][j]

LEMMA BooksAre ==
  /\ Counted /\ Bounded /\ BatchSorted <=> \A s \in Sched : Books(s)
  /\ Counted' /\ Bounded' /\ BatchSorted' <=> \A s \in Sched : Books(s)'
<1>1. Counted /\ Bounded /\ BatchSorted <=> \A s \in Sched : Books(s)
  BY ZenonT(60) DEF Counted, Bounded, BatchSorted, Books
<1>2. Counted' /\ Bounded' /\ BatchSorted' <=> \A s \in Sched : Books(s)'
  BY ZenonT(60) DEF Counted, Bounded, BatchSorted, Books
<1> QED BY <1>1, <1>2

\* They are about four variables.
LEMMA BooksFrame ==
  ASSUME NEW t, Books(t),
         pc'[t] = pc[t], batch'[t] = batch[t], jobs'[t] = jobs[t], inflight'[t] = inflight[t]
  PROVE  Books(t)'
<1>1. Held(t)' = Held(t) /\ NumJobs(t)' = NumJobs(t) /\ Allowed(t)' = Allowed(t)
  BY DEF Held, NumJobs, Allowed
<1> QED BY <1>1, Zenon DEF Books

\* One job more or less in a pool.
LEMMA JobsMove ==
  ASSUME TypeOK, TypeOK', NEW s \in Sched, NEW j \in Msg \X Worker, NEW d \in Int,
         jobs' = [jobs EXCEPT ![s][j] = @ + d]
  PROVE  NumJobs(s)' = NumJobs(s) + d
<1> DEFINE f == jobs[s]
           g == jobs'[s]
<1>1. f \in [Msg \X Worker -> Nat] /\ g \in [Msg \X Worker -> Nat]
  BY DEF TypeOK
<1>2. g = [f EXCEPT ![j] = @ + d]
  BY DEF TypeOK
<1> HIDE DEF f, g
<1>3. g[j] = f[j] + d /\ \A y \in (Msg \X Worker) \ {j} : f[y] = g[y]
  BY <1>1, <1>2
<1>4. IsFiniteSet(Msg \X Worker)
  BY Constants
<1> DEFINE S == Msg \X Worker
<1>5. /\ Total(g) = Total(f) + g[j] - f[j]
      /\ Total(f) \in Nat /\ Total(g) \in Nat /\ f[j] \in Nat
  <2>1. /\ IsFiniteSet(S) /\ j \in S /\ f \in [S -> Nat] /\ g \in [S -> Nat]
        /\ \A y \in S \ {j} : f[y] = g[y]
    BY <1>1, <1>3, <1>4
  <2> HIDE DEF S
  <2>2. Total(g) = Total(f) + g[j] - f[j]
    BY <2>1, TotalAt
  <2>3. Total(f) \in Nat /\ Total(g) \in Nat /\ f[j] \in Nat
    BY <2>1, TotalNat
  <2> QED BY <2>2, <2>3
<1>7. Total(g) = Total(f) + d
  BY <1>3, <1>5
<1> QED BY <1>7 DEF NumJobs, f, g

LEMMA BooksInit ==
  ASSUME Init
  PROVE  Counted /\ Bounded /\ BatchSorted
<1> SUFFICES ASSUME NEW s \in Sched PROVE Books(s)
  BY BooksAre
<1>1. Held(s) = <<>> /\ inflight[s] = 0 /\ pc[s] = "top" /\ batch[s] = <<>>
  BY DEF Init, Held
<1>2. NumJobs(s) = 0
  <2>1. jobs[s] = [j \in Msg \X Worker |-> 0]
    BY DEF Init, NoJobs
  <2>2. Total(jobs[s]) = 0
    BY <2>1, Constants, TotalZero
  <2> QED BY <2>2 DEF NumJobs
<1>3. Allowed(s) >= 0
  BY <1>1, Constants DEF Allowed
<1>4. DOMAIN batch[s] = {} /\ Len(Held(s)) = 0
  BY <1>1
<1> QED BY <1>1, <1>2, <1>3, <1>4 DEF Books

\* A step of one scheduler leaves the books of the others alone.
LEMMA BooksOfOthers ==
  ASSUME TypeOK, Counted, Bounded, BatchSorted, NEW s \in Sched,
         \A t \in Sched \ {s} : /\ pc'[t] = pc[t] /\ batch'[t] = batch[t]
                                /\ jobs'[t] = jobs[t] /\ inflight'[t] = inflight[t],
         Books(s)'
  PROVE  Counted' /\ Bounded' /\ BatchSorted'
<1>1. \A t \in Sched : Books(t)
  BY BooksAre
<1>2. ASSUME NEW t \in Sched, t # s
      PROVE  Books(t)'
  BY <1>1, <1>2, BooksFrame
<1>3. \A t \in Sched : Books(t)'
  BY <1>2
<1> QED BY <1>3, BooksAre

LEMMA BooksOutside ==
  ASSUME TypeOK, Counted, Bounded, BatchSorted,
         \/ UNCHANGED <<pc, batch, jobs, inflight>>
         \/ \E s \in Sched : SchedDies(s)
  PROVE  Counted' /\ Bounded' /\ BatchSorted'
<1>1. CASE UNCHANGED <<pc, batch, jobs, inflight>>
  <2>1. \A t \in Sched : Books(t)
    BY BooksAre
  <2>2. ASSUME NEW t \in Sched
        PROVE  Books(t)'
    BY <1>1, <2>1, BooksFrame
  <2> QED BY <2>2, BooksAre
<1>2. ASSUME NEW s \in Sched, SchedDies(s)
      PROVE  Counted' /\ Bounded' /\ BatchSorted'
  <2>1. /\ pc'[s] = "top" /\ batch'[s] = <<>> /\ inflight'[s] = 0
        /\ jobs'[s] = [j \in Msg \X Worker |-> 0]
    BY <1>2 DEF SchedDies, TypeOK, NoJobs
  <2>2. \A t \in Sched \ {s} : /\ pc'[t] = pc[t] /\ batch'[t] = batch[t]
                               /\ jobs'[t] = jobs[t] /\ inflight'[t] = inflight[t]
    BY <1>2 DEF SchedDies, TypeOK
  <2>3. NumJobs(s)' = 0
    <3>1. Total(jobs'[s]) = 0
      BY <2>1, Constants, TotalZero
    <3> QED BY <3>1 DEF NumJobs
  <2>4. Len(Held(s)') = 0 /\ DOMAIN batch'[s] = {} /\ Allowed(s)' >= 0
    BY <2>1, Constants DEF Held, Allowed
  <2>5. Books(s)'
    BY <2>1, <2>3, <2>4 DEF Books
  <2> QED BY <2>2, <2>5, BooksOfOthers
<1> QED BY <1>1, <1>2

\* The loop thread: what it counts when it takes a batch, it settles or passes on
\* entry by entry.
LEMMA BooksLoop ==
  ASSUME TypeOK, TypeOK', Counted, Bounded, BatchSorted, NEW s \in Sched,
         RunLoop(s) \/ BatchThrows(s)
  PROVE  Counted' /\ Bounded' /\ BatchSorted'
<1>1. \A t \in Sched \ {s} : /\ pc'[t] = pc[t] /\ batch'[t] = batch[t]
                             /\ jobs'[t] = jobs[t] /\ inflight'[t] = inflight[t]
  BY ZenonT(60) DEF RunLoop, BatchThrows, RescueScan, RescueClaim, TakeSnapshot, NoWorkers, ReadGroup,
         ReadTimeout, SkipEntry, RescueWithoutWorker, BatchEnds, EnqueueEntry, Goto, Settle,
         NextEntry, TypeOK
<1> SUFFICES Books(s)'
  BY <1>1, BooksOfOthers
<1>2. Books(s)
  BY BooksAre
<1>3. /\ Held(s) \in Seq(Msg) /\ Len(Held(s)) \in Nat /\ NumJobs(s) \in Nat /\ inflight[s] \in Nat
      /\ batch[s] \in Seq(Msg)
      /\ BatchSize \in Nat /\ RescueBatch \in Nat /\ MaxInflight \in Nat
  BY HeldTypes, Constants DEF TypeOK
<1>4. UNCHANGED jobs => NumJobs(s)' = NumJobs(s)
  BY DEF NumJobs
<1>5. CASE RescueScan(s)
  <2> DEFINE ids == StillIdle(Oldest(pel, RescueBatch))
  <2>1. /\ pc[s] = "top" /\ pc'[s] \in {"claim", "workers"} /\ UNCHANGED <<jobs, inflight>>
        /\ inflight[s] <= MaxInflight
        /\ \/ pc'[s] = "claim" /\ batch'[s] = InOrder(ids)
           \/ pc'[s] = "workers" /\ batch'[s] = batch[s]
    BY <1>5 DEF RescueScan, At, Goto, HasRoom, TypeOK
  <2>2. /\ Len(InOrder(ids)) <= RescueBatch
        /\ \A i, j \in DOMAIN InOrder(ids) : i < j => InOrder(ids)[i] < InOrder(ids)[j]
    BY Replies, BatchOf
  <2> HIDE DEF ids
  <2>3. Held(s) = <<>> /\ Held(s)' = <<>> /\ NumJobs(s)' = NumJobs(s)
    BY <1>4, <2>1 DEF Held
  <2>4. inflight'[s] <= Allowed(s)'
    BY <1>3, <2>1 DEF Allowed
  <2>5. \A i, j \in DOMAIN batch'[s] : i < j => batch'[s][i] < batch'[s][j]
    BY <1>2, <2>1, <2>2 DEF Books
  <2>6. pc'[s] = "claim" => Len(batch'[s]) <= RescueBatch
    BY <2>1, <2>2
  <2> QED BY <1>2, <2>1, <2>3, <2>4, <2>5, <2>6 DEF Books
<1>6. CASE RescueClaim(s)
  <2> DEFINE got == Claimable(s, ToSet(batch[s]))
             n == Cardinality(got)
  <2>1. /\ pc[s] = "claim" /\ UNCHANGED jobs
        /\ \/ pc'[s] = "rescue" /\ batch'[s] = InOrder(got) /\ inflight'[s] = inflight[s] + n
           \/ pc'[s] = "workers" /\ batch'[s] = <<>> /\ inflight'[s] = inflight[s]
    BY <1>6 DEF RescueClaim, At, Goto, TypeOK
  <2>2. /\ n <= Len(batch[s]) /\ n \in Nat /\ Len(InOrder(got)) = n
        /\ \A i, j \in DOMAIN InOrder(got) : i < j => InOrder(got)[i] < InOrder(got)[j]
    BY Replies, BatchOf
  <2> HIDE DEF got, n
  <2>3. /\ Len(Held(s)) = 0 /\ NumJobs(s)' = NumJobs(s)
        /\ Len(Held(s)') = (IF pc'[s] = "rescue" THEN n ELSE 0)
    BY <1>4, <2>1, <2>2 DEF Held
  <2>4. inflight[s] <= MaxInflight /\ Len(batch[s]) <= RescueBatch /\ Len(batch[s]) \in Nat
    BY <1>2, <1>3, <2>1 DEF Books, Allowed
  <2>5. inflight'[s] <= Allowed(s)'
    BY <1>3, <2>1, <2>2, <2>4 DEF Allowed
  <2>6. \A i, j \in DOMAIN batch'[s] : i < j => batch'[s][i] < batch'[s][j]
    BY <2>1, <2>2
  <2>7. /\ Len(Held(s)') + NumJobs(s)' <= inflight'[s]
        /\ "throw" \notin Faults => inflight'[s] = Len(Held(s)') + NumJobs(s)'
    BY <1>2, <1>3, <2>1, <2>2, <2>3 DEF Books
  <2> QED BY <2>1, <2>5, <2>6, <2>7 DEF Books
<1>7. CASE TakeSnapshot(s) \/ NoWorkers(s) \/ ReadTimeout(s)
  <2>1. /\ UNCHANGED <<batch, jobs, inflight>>
        /\ \/ pc[s] = "workers" /\ pc'[s] = "read"
           \/ pc[s] = "top" /\ pc'[s] = "read" /\ inflight[s] <= MaxInflight
           \/ pc[s] = "workers" /\ pc'[s] = "top"
           \/ pc[s] = "read" /\ pc'[s] = "top"
    BY <1>7 DEF TakeSnapshot, NoWorkers, ReadTimeout, At, Goto, HasRoom, TypeOK
  <2>2. Held(s) = <<>> /\ Held(s)' = <<>> /\ NumJobs(s)' = NumJobs(s)
    BY <1>4, <2>1 DEF Held
  <2>3. inflight'[s] <= Allowed(s)'
    BY <1>2, <1>3, <2>1 DEF Allowed, Books
  <2> QED BY <1>2, <2>1, <2>2, <2>3 DEF Books
<1>8. CASE ReadGroup(s)
  <2> DEFINE new == Oldest((delivered + 1) .. published, BatchSize)
             n == Cardinality(new)
  <2>1. /\ pc[s] = "read" /\ UNCHANGED jobs
        /\ \/ pc'[s] = "batch" /\ batch'[s] = InOrder(new) /\ inflight'[s] = inflight[s] + n
           \/ pc'[s] = "top" /\ batch'[s] = batch[s] /\ inflight'[s] = inflight[s]
    BY <1>8 DEF ReadGroup, At, Goto, TypeOK
  <2>2. /\ n <= BatchSize /\ n \in Nat /\ Len(InOrder(new)) = n
        /\ \A i, j \in DOMAIN InOrder(new) : i < j => InOrder(new)[i] < InOrder(new)[j]
    BY Replies, BatchOf
  <2> HIDE DEF new, n
  <2>3. /\ Len(Held(s)) = 0 /\ NumJobs(s)' = NumJobs(s)
        /\ Len(Held(s)') = (IF pc'[s] = "batch" THEN n ELSE 0)
    BY <1>4, <2>1, <2>2 DEF Held
  <2>4. inflight'[s] <= Allowed(s)'
    BY <1>2, <1>3, <2>1, <2>2 DEF Books, Allowed
  <2>5. \A i, j \in DOMAIN batch'[s] : i < j => batch'[s][i] < batch'[s][j]
    BY <1>2, <2>1, <2>2 DEF Books
  <2>6. /\ Len(Held(s)') + NumJobs(s)' <= inflight'[s]
        /\ "throw" \notin Faults => inflight'[s] = Len(Held(s)') + NumJobs(s)'
    BY <1>2, <1>3, <2>1, <2>2, <2>3 DEF Books
  <2> QED BY <2>1, <2>4, <2>5, <2>6 DEF Books
<1>9. CASE SkipEntry(s) \/ RescueWithoutWorker(s) \/ \E w \in Worker : EnqueueEntry(s, w)
  <2>1. /\ pc[s] \in {"batch", "rescue"} /\ UNCHANGED pc
        /\ batch[s] # <<>> /\ batch'[s] = Tail(batch[s])
    BY <1>9 DEF SkipEntry, RescueWithoutWorker, EnqueueEntry, Processing, At, NextEntry, TypeOK
  <2>2. Held(s) = batch[s] /\ Len(Held(s)') = Len(Held(s)) - 1
    BY <1>3, <2>1 DEF Held
  <2>3. \A i, j \in DOMAIN batch'[s] : i < j => batch'[s][i] < batch'[s][j]
    <3>1. SUFFICES ASSUME NEW i \in DOMAIN batch'[s], NEW j \in DOMAIN batch'[s], i < j
                   PROVE  batch'[s][i] < batch'[s][j]
      OBVIOUS
    <3>2. /\ i + 1 \in DOMAIN batch[s] /\ j + 1 \in DOMAIN batch[s] /\ i + 1 < j + 1
          /\ batch'[s][i] = batch[s][i + 1] /\ batch'[s][j] = batch[s][j + 1]
      BY <1>3, <2>1, <3>1
    <3> QED BY <1>2, <3>2 DEF Books
  <2>4. \/ NumJobs(s)' = NumJobs(s) /\ inflight'[s] = inflight[s] - 1
        \/ NumJobs(s)' = NumJobs(s) + 1 /\ inflight'[s] = inflight[s]
    <3>1. CASE SkipEntry(s) \/ RescueWithoutWorker(s)
      BY <1>4, <3>1 DEF SkipEntry, RescueWithoutWorker, Settle, TypeOK
    <3>2. ASSUME NEW w \in Worker, EnqueueEntry(s, w)
          PROVE  NumJobs(s)' = NumJobs(s) + 1 /\ inflight'[s] = inflight[s]
      <4> DEFINE j == <<Entry(s), w>>
      <4>1. j \in Msg \X Worker
        BY <1>3, <2>1 DEF Entry
      <4>2. jobs' = [jobs EXCEPT ![s][j] = @ + 1] /\ UNCHANGED inflight
        BY <3>2 DEF EnqueueEntry
      <4> HIDE DEF j
      <4>3. 1 \in Int
        OBVIOUS
      <4>4. NumJobs(s)' = NumJobs(s) + 1
        BY <4>1, <4>2, <4>3, JobsMove, Zenon
      <4> QED BY <4>2, <4>4
    <3> QED BY <1>9, <3>1, <3>2
  <2>5. inflight'[s] <= Allowed(s)'
    BY <1>2, <1>3, <2>1, <2>4 DEF Books, Allowed
  <2>6. /\ Len(Held(s)') + NumJobs(s)' <= inflight'[s]
        /\ "throw" \notin Faults => inflight'[s] = Len(Held(s)') + NumJobs(s)'
    <3>1. /\ Len(Held(s)) + NumJobs(s) <= inflight[s]
          /\ "throw" \notin Faults => inflight[s] = Len(Held(s)) + NumJobs(s)
      BY <1>2 DEF Books
    <3> QED BY SMTT(30), <1>3, <2>2, <2>4, <3>1
  <2> QED BY <2>1, <2>3, <2>5, <2>6 DEF Books
<1>10. CASE BatchEnds(s) \/ BatchThrows(s)
  <2>1. /\ UNCHANGED <<jobs, inflight>> /\ batch'[s] = <<>>
        /\ \/ pc[s] = "batch" /\ pc'[s] = "top"
           \/ pc[s] = "rescue" /\ pc'[s] = "workers"
        /\ batch[s] = <<>> \/ "throw" \in Faults
    BY <1>10 DEF BatchEnds, BatchThrows, Processing, At, Goto, Fault, TypeOK
  <2>2. /\ Len(Held(s)') = 0 /\ NumJobs(s)' = NumJobs(s)
        /\ Len(Held(s)) = 0 \/ "throw" \in Faults
    BY <1>4, <2>1 DEF Held
  <2>3. inflight'[s] <= Allowed(s)'
    BY <1>2, <1>3, <2>1 DEF Books, Allowed
  <2>4. DOMAIN batch'[s] = {}
    BY <2>1
  <2>5. /\ Len(Held(s)') + NumJobs(s)' <= inflight'[s]
        /\ "throw" \notin Faults => inflight'[s] = Len(Held(s)') + NumJobs(s)'
    BY <1>2, <1>3, <2>1, <2>2 DEF Books
  <2> QED BY <2>1, <2>3, <2>4, <2>5 DEF Books
<1> QED BY <1>5, <1>6, <1>7, <1>8, <1>9, <1>10 DEF RunLoop

\* A job that ends is settled, whatever RunTask answered.
LEMMA BooksPool ==
  ASSUME TypeOK, TypeOK', Counted, Bounded, BatchSorted,
         NEW s \in Sched, NEW m \in Msg, NEW w \in Worker, DoDispatch(s, m, w)
  PROVE  Counted' /\ Bounded' /\ BatchSorted'
<1>1. TakeJob(s, m, w) /\ UNCHANGED <<pc, batch>>
  BY DEF DoDispatch, DispatchOk, DispatchFails, loop
<1>2. \A t \in Sched \ {s} : jobs'[t] = jobs[t] /\ inflight'[t] = inflight[t]
  BY <1>1 DEF TakeJob, Settle, TypeOK
<1>3. NumJobs(s)' = NumJobs(s) - 1 /\ inflight'[s] = inflight[s] - 1
  <2> DEFINE j == <<m, w>>
  <2>1. j \in Msg \X Worker
    OBVIOUS
  <2>2. jobs' = [jobs EXCEPT ![s][j] = @ + (-1)]
    <3>1. jobs' = [jobs EXCEPT ![s][j] = @ - 1] /\ jobs[s][j] \in Nat
      BY <1>1, <2>1 DEF TakeJob, TypeOK
    <3> QED BY <3>1
  <2> HIDE DEF j
  <2>3. NumJobs(s)' = NumJobs(s) + (-1)
    <3>1. -1 \in Int
      OBVIOUS
    <3> QED BY <2>1, <2>2, <3>1, JobsMove, Zenon
  <2>4. inflight'[s] = inflight[s] - 1
    BY <1>1 DEF TakeJob, Settle, TypeOK
  <2> QED BY <2>3, <2>4, HeldTypes
<1>4. Held(s)' = Held(s) /\ Allowed(s)' = Allowed(s)
  BY <1>1 DEF Held, Allowed
<1>5. Allowed(s) \in Nat
  BY Constants DEF Allowed
<1>6. Books(s)
  BY BooksAre
<1>7. /\ Len(Held(s)') + NumJobs(s)' <= inflight'[s]
      /\ "throw" \notin Faults => inflight'[s] = Len(Held(s)') + NumJobs(s)'
      /\ inflight'[s] <= Allowed(s)'
  BY <1>3, <1>4, <1>5, <1>6, HeldTypes DEF Books
<1>8. Books(s)'
  BY <1>1, <1>6, <1>7 DEF Books
<1> QED BY <1>1, <1>2, <1>8, BooksOfOthers

-----------------------------------------------------------------------------
(***************************************************************************)
(* Counting the copies of a message.                                       *)
(***************************************************************************)
Local(s, m) == InHand(s, m) + InPool(s, m)

\* A message is in a sorted batch at most once.
LEMMA OnceIn ==
  ASSUME NEW q \in Seq(Msg), NEW m \in Msg,
         \A i, j \in DOMAIN q : i < j => q[i] < q[j]
  PROVE  /\ Cardinality({i \in DOMAIN q : q[i] = m}) \in {0, 1}
         /\ Cardinality({i \in DOMAIN q : q[i] = m}) = 0 <=> \A i \in DOMAIN q : q[i] # m
<1> DEFINE P == {i \in DOMAIN q : q[i] = m}
<1>1. CASE P = {}
  <2>1. Cardinality(P) = 0
    BY <1>1, FS_EmptySet
  <2> QED BY <1>1, <2>1
<1>2. CASE P # {}
  <2>1. PICK k \in DOMAIN q : q[k] = m
    BY <1>2
  <2>2. P = {k}
    <3>1. DOMAIN q \subseteq Int /\ m \in Int
      BY DEF Msg
    <3>2. ASSUME NEW i \in DOMAIN q, q[i] = m
          PROVE  i = k
      BY <2>1, <3>1, <3>2
    <3> QED BY <2>1, <3>2
  <2>3. Cardinality(P) = 1
    BY <2>2, FS_Singleton
  <2> QED BY <2>1, <2>3
<1> QED BY <1>1, <1>2

\* The entry that is taken from the front is the only one to leave.
LEMMA OnceTail ==
  ASSUME NEW q \in Seq(Msg), NEW m \in Msg, q # <<>>,
         \A i, j \in DOMAIN q : i < j => q[i] < q[j]
  PROVE  Cardinality({i \in DOMAIN Tail(q) : Tail(q)[i] = m})
           = Cardinality({i \in DOMAIN q : q[i] = m}) - (IF Head(q) = m THEN 1 ELSE 0)
<1> DEFINE r == Tail(q)
<1>1. /\ r \in Seq(Msg)
      /\ \A i \in DOMAIN r : i + 1 \in DOMAIN q /\ r[i] = q[i + 1] /\ i \in Nat /\ i >= 1
      /\ \A i \in DOMAIN q : i = 1 \/ (i - 1 \in DOMAIN r /\ r[i - 1] = q[i])
      /\ 1 \in DOMAIN q /\ Head(q) = q[1]
  OBVIOUS
<1> HIDE DEF r
<1>2. \A i, j \in DOMAIN r : i < j => r[i] < r[j]
  <2> SUFFICES ASSUME NEW i \in DOMAIN r, NEW j \in DOMAIN r, i < j
               PROVE  r[i] < r[j]
    OBVIOUS
  <2>1. i + 1 \in DOMAIN q /\ j + 1 \in DOMAIN q /\ i + 1 < j + 1
    BY <1>1
  <2> QED BY <1>1, <2>1
<1> DEFINE a == Cardinality({i \in DOMAIN r : r[i] = m})
           b == Cardinality({i \in DOMAIN q : q[i] = m})
<1>3. CASE Head(q) = m
  <2>1. \A i \in DOMAIN r : r[i] # m
    <3> SUFFICES ASSUME NEW i \in DOMAIN r PROVE r[i] # m
      OBVIOUS
    <3>1. i + 1 \in DOMAIN q /\ 1 < i + 1 /\ r[i] = q[i + 1]
      BY <1>1
    <3>2. q[1] < q[i + 1]
      BY <1>1, <3>1
    <3> QED BY <1>1, <1>3, <3>1, <3>2 DEF Msg
  <2>2. a = 0
    BY <1>1, <1>2, <2>1, OnceIn
  <2>3. b = 1
    BY <1>1, <1>3, OnceIn
  <2> HIDE DEF a, b
  <2>4. a = b - (IF Head(q) = m THEN 1 ELSE 0)
    BY <1>3, <2>2, <2>3
  <2> QED BY <2>4 DEF a, b, r
<1>4. CASE Head(q) # m
  <2>1. (\A i \in DOMAIN r : r[i] # m) <=> (\A i \in DOMAIN q : q[i] # m)
    BY <1>1, <1>4
  <2>2. a \in {0, 1} /\ (a = 0 <=> \A i \in DOMAIN r : r[i] # m)
    BY <1>1, <1>2, OnceIn
  <2>3. b \in {0, 1} /\ (b = 0 <=> \A i \in DOMAIN q : q[i] # m)
    BY OnceIn
  <2> HIDE DEF a, b
  <2>4. a = b - (IF Head(q) = m THEN 1 ELSE 0)
    BY <1>4, <2>1, <2>2, <2>3
  <2> QED BY <2>4 DEF a, b, r
<1> QED BY <1>3, <1>4

\* What the loop thread has in hand is counted in such a batch.
LEMMA HandIs ==
  ASSUME TypeOK, BatchSorted, NEW s \in Sched, NEW m \in Msg
  PROVE  /\ InHand(s, m) \in {0, 1}
         /\ InHand(s, m) = 0 <=> \A i \in DOMAIN Held(s) : Held(s)[i] # m
<1>1. Held(s) \in Seq(Msg)
  BY HeldTypes
<1>2. \A i, j \in DOMAIN Held(s) : i < j => Held(s)[i] < Held(s)[j]
  BY DEF BatchSorted, Held
<1> DEFINE q == Held(s)
<1> HIDE DEF q
<1>3. /\ Cardinality({i \in DOMAIN q : q[i] = m}) \in {0, 1}
      /\ Cardinality({i \in DOMAIN q : q[i] = m}) = 0 <=> \A i \in DOMAIN q : q[i] # m
  BY <1>1, <1>2, OnceIn DEF q
<1> QED BY <1>3 DEF InHand, q

LEMMA PoolIs ==
  ASSUME TypeOK, NEW s \in Sched, NEW m \in Msg
  PROVE  InPool(s, m) \in Nat
<1> DEFINE f == [w \in Worker |-> jobs[s][<<m, w>>]]
<1>1. f \in [Worker -> Nat]
  BY DEF TypeOK
<1>2. Total(f) \in Nat
  BY <1>1, Constants, TotalNat
<1> QED BY <1>2 DEF InPool

LEMMA LocalIs ==
  ASSUME TypeOK, BatchSorted, NEW s \in Sched, NEW m \in Msg
  PROVE  InHand(s, m) \in Nat /\ InPool(s, m) \in Nat /\ Local(s, m) \in Nat
BY HandIs, PoolIs DEF Local

\* The same after a step: what a batch and a pool hold is a number.
LEMMA LocalNext ==
  ASSUME TypeOK', NEW s \in Sched, NEW m \in Msg
  PROVE  Local(s, m)' \in Nat
<1>1. Held(s)' \in Seq(Msg) /\ jobs'[s] \in [Msg \X Worker -> Nat]
  <2>1. batch'[s] \in Seq(Msg) /\ <<>> \in Seq(Msg)
    BY DEF TypeOK
  <2>2. jobs'[s] \in [Msg \X Worker -> Nat]
    BY DEF TypeOK
  <2> QED BY <2>1, <2>2 DEF Held
<1> DEFINE q == Held(s)'
           P == {i \in DOMAIN q : q[i] = m}
           f == [w \in Worker |-> jobs'[s][<<m, w>>]]
<1>2. Cardinality(P) \in Nat
  <2>1. DOMAIN q = 1 .. Len(q) /\ Len(q) \in Int /\ 1 \in Int
    BY <1>1
  <2> HIDE DEF q
  <2>2. IsFiniteSet(DOMAIN q)
    BY <2>1, FS_Interval
  <2>3. P \in SUBSET DOMAIN q
    OBVIOUS
  <2> HIDE DEF P
  <2> QED BY <2>2, <2>3, FS_Subset, FS_CardinalityType
<1>3. Total(f) \in Nat
  <2>1. f \in [Worker -> Nat]
    BY <1>1
  <2> HIDE DEF f
  <2> QED BY <2>1, Constants, TotalNat
<1>4. Local(s, m)' = Cardinality(P) + Total(f)
  BY Zenon DEF Local, InHand, InPool
<1> HIDE DEF P, f
<1> QED BY <1>2, <1>3, <1>4

\* A step that touches one scheduler and one worker moves the count by what it
\* changes there.
LEMMA CopiesMove ==
  ASSUME TypeOK, BatchSorted, TypeOK',
         NEW m \in Msg, NEW s \in Sched, NEW w \in Worker,
         \A t \in Sched \ {s} : Local(t, m)' = Local(t, m),
         \A v \in Worker \ {w} : running'[v][m] = running[v][m]
  PROVE  /\ Copies(m) \in Nat /\ Copies(m)' \in Nat
         /\ Copies(m)' = Copies(m) + Local(s, m)' - Local(s, m) + running'[w][m] - running[w][m]
<1> DEFINE f == [v \in Worker |-> running[v][m]]
           g == [v \in Worker |-> running'[v][m]]
           h == [t \in Sched |-> Local(t, m)]
           k == [t \in Sched |-> Local(t, m)']
<1>1. f \in [Worker -> Nat] /\ g \in [Worker -> Nat]
  BY DEF TypeOK
<1>2. \A t \in Sched : Local(t, m) \in Nat
  BY LocalIs
<1>3. ASSUME NEW t \in Sched
      PROVE  Local(t, m)' \in Nat
  BY LocalNext
<1>4. h \in [Sched -> Nat] /\ k \in [Sched -> Nat]
  BY <1>2, <1>3
<1>5. /\ f[w] = running[w][m] /\ g[w] = running'[w][m] /\ h[s] = Local(s, m) /\ k[s] = Local(s, m)'
      /\ \A v \in Worker \ {w} : f[v] = g[v]
      /\ \A t \in Sched \ {s} : h[t] = k[t]
  OBVIOUS
<1>6. Copies(m) = Total(f) + Total(h) /\ Copies(m)' = Total(g) + Total(k)
  BY Zenon DEF Copies, Local
<1> HIDE DEF f, g, h, k
<1>7. Total(g) = Total(f) + g[w] - f[w] /\ Total(k) = Total(h) + k[s] - h[s]
  BY <1>1, <1>4, <1>5, Constants, TotalAt
<1>8. /\ Total(f) \in Nat /\ Total(g) \in Nat /\ Total(h) \in Nat /\ Total(k) \in Nat
      /\ f[w] \in Nat /\ g[w] \in Nat /\ h[s] \in Nat /\ k[s] \in Nat
  BY <1>1, <1>4, Constants, TotalNat
<1>9. Copies(m) \in Nat /\ Copies(m)' \in Nat
  BY <1>6, <1>8
<1>10. Copies(m)' = Copies(m) + k[s] - h[s] + g[w] - f[w]
  BY <1>6, <1>7, <1>8
<1> QED BY <1>5, <1>9, <1>10

\* What a scheduler has of a message depends on three variables.
LEMMA LocalFrame ==
  ASSUME NEW s, NEW m, pc'[s] = pc[s], batch'[s] = batch[s], jobs'[s] = jobs[s]
  PROVE  Local(s, m)' = Local(s, m)
<1>1. Held(s)' = Held(s)
  BY DEF Held
<1>2. InHand(s, m)' = InHand(s, m)
  BY <1>1, Zenon DEF InHand
<1>3. InPool(s, m)' = InPool(s, m)
  BY Zenon DEF InPool
<1> QED BY <1>2, <1>3 DEF Local

\* The copies of a message, its idle mark and their bound.
Cov(m) ==
  /\ idled[m] < IdleCap => Copies(m) + (IF m \in idle THEN 1 ELSE 0) <= 1 + idled[m]
  /\ m > delivered => Copies(m) = 0

LEMMA CovIs == /\ CopiesCovered <=> \A m \in Msg : Cov(m)
               /\ CopiesCovered' <=> \A m \in Msg : Cov(m)'
BY Zenon DEF CopiesCovered, Cov

\* Fewer copies, no new idle mark and a delivery more do no harm.
LEMMA CovLess ==
  ASSUME TypeOK, TypeOK', NEW m \in Msg, Cov(m),
         Copies(m) \in Nat, Copies(m)' \in Nat, Copies(m)' <= Copies(m),
         idle' \subseteq idle, idled' = idled, delivered' >= delivered
  PROVE  Cov(m)'
<1>1. idled[m] \in Nat /\ delivered \in Nat /\ delivered' \in Nat /\ m \in Nat /\ IdleCap \in Nat
  BY Constants DEF TypeOK
<1> DEFINE x == Copies(m)
           y == Copies(m)'
           a == IF m \in idle THEN 1 ELSE 0
           b == IF m \in idle' THEN 1 ELSE 0
<1>2. /\ x \in Nat /\ y \in Nat /\ y <= x /\ a \in Nat /\ b \in Nat /\ b <= a
  OBVIOUS
<1>3. /\ idled[m] < IdleCap => x + a <= 1 + idled[m]
      /\ m > delivered => x = 0
  BY Zenon DEF Cov
<1> SUFFICES /\ idled'[m] < IdleCap => y + b <= 1 + idled'[m]
             /\ m > delivered' => y = 0
  BY Zenon DEF Cov
<1> HIDE DEF x, y, a, b
<1> QED BY <1>1, <1>2, <1>3

\* So a step that makes no copy, and marks nothing as idle, does no harm either.
LEMMA CovKept ==
  ASSUME TypeOK, BatchSorted, TypeOK', NEW m \in Msg, Cov(m),
         NEW s \in Sched, NEW w \in Worker,
         \A t \in Sched \ {s} : Local(t, m)' = Local(t, m),
         \A v \in Worker \ {w} : running'[v][m] = running[v][m],
         Local(s, m)' + running'[w][m] <= Local(s, m) + running[w][m],
         idle' \subseteq idle, idled' = idled, delivered' >= delivered
  PROVE  Cov(m)'
<1>1. /\ Copies(m) \in Nat /\ Copies(m)' \in Nat
      /\ Copies(m)' = Copies(m) + Local(s, m)' - Local(s, m) + running'[w][m] - running[w][m]
  BY CopiesMove
<1>2. running[w][m] \in Nat /\ running'[w][m] \in Nat /\ Local(s, m) \in Nat
  BY ZenonT(60), LocalIs DEF TypeOK
<1>3. Local(s, m)' \in Nat
  BY LocalNext
<1>4. Copies(m)' <= Copies(m)
  BY <1>1, <1>2, <1>3
<1> QED BY <1>1, <1>4, CovLess

LEMMA CovOutside ==
  ASSUME TypeOK, BatchSorted, TypeOK', CopiesCovered,
         \/ Publish
         \/ \E m \in Msg : IdleTick(m) \/ MetaExpires(m)
         \/ \E s \in Sched : SchedStart(s) \/ SchedDies(s) \/ RescueTimer(s)
         \/ \E s \in Sched, w \in Worker : Register(s, w) \/ HeartbeatTimeout(s, w)
         \/ \E w \in Worker : WorkerStart(w) \/ WorkerDies(w)
         \/ \E w \in Worker, m \in Msg : Finish(w, m)
  PROVE  CopiesCovered'
<1> SUFFICES ASSUME NEW m \in Msg PROVE Cov(m)'
  BY CovIs
<1>1. Cov(m)
  BY CovIs
<1>2. ASSUME UNCHANGED <<pc, batch, jobs>>
      PROVE  \A t \in Sched : Local(t, m)' = Local(t, m)
  BY <1>2, LocalFrame
<1>3. PICK s \in Sched, w \in Worker : TRUE
  BY DispatchAssumption
<1>4. \A v \in Worker : running[v][m] \in Nat /\ \A t \in Sched : Local(t, m) \in Nat
  BY LocalIs DEF TypeOK
<1>5. CASE \/ Publish
           \/ \E k \in Msg : MetaExpires(k)
           \/ \E t \in Sched : SchedStart(t) \/ RescueTimer(t)
           \/ \E t \in Sched, v \in Worker : Register(t, v) \/ HeartbeatTimeout(t, v)
           \/ \E v \in Worker : WorkerStart(v)
  <2>1. UNCHANGED <<pc, batch, jobs, running, idle, idled>>
    BY <1>5 DEF Publish, MetaExpires, SchedStart, RescueTimer, Register, HeartbeatTimeout,
                WorkerStart, redis, loop, work, hist
  <2>2. delivered' >= delivered
    BY <1>5 DEF Publish, MetaExpires, SchedStart, RescueTimer, Register, HeartbeatTimeout,
                WorkerStart, redis, TypeOK
  <2>3. Local(s, m)' + running'[w][m] <= Local(s, m) + running[w][m]
    BY <1>2, <1>4, <2>1
  <2> QED BY <1>1, <1>2, <2>1, <2>2, <2>3, CovKept
<1>6. ASSUME NEW k \in Msg, IdleTick(k)
      PROVE  Cov(m)'
  <2>1. /\ UNCHANGED <<pc, batch, jobs, running, delivered>>
        /\ k \notin idle /\ idle' = idle \cup {k}
        /\ idled' = [idled EXCEPT ![k] = IF @ < IdleCap THEN @ + 1 ELSE @]
    BY <1>6 DEF IdleTick, loop, work
  <2>2. CASE m = k
    <3>1. /\ Copies(m) \in Nat /\ Copies(m)' \in Nat
          /\ Copies(m)' = Copies(m) + Local(s, m)' - Local(s, m) + running'[w][m] - running[w][m]
      BY <1>2, <2>1, CopiesMove
    <3>2. Copies(m)' = Copies(m)
      BY <1>2, <1>4, <2>1, <3>1
    <3>3. idled[m] \in Nat /\ IdleCap \in Nat
      BY Constants DEF TypeOK
    <3>4. idled'[m] = IF idled[m] < IdleCap THEN idled[m] + 1 ELSE idled[m]
      BY <2>1, <2>2 DEF TypeOK
    <3>5. m \notin idle /\ m \in idle' /\ delivered' = delivered
      BY <2>1, <2>2
    <3>6. idled[m] < IdleCap => Copies(m) <= 1 + idled[m]
      BY <1>1, <3>1, <3>5 DEF Cov
    <3>7. idled'[m] < IdleCap => Copies(m)' + 1 <= 1 + idled'[m]
      BY <3>1, <3>2, <3>3, <3>4, <3>6
    <3>8. m > delivered' => Copies(m)' = 0
      BY <1>1, <3>2, <3>5 DEF Cov
    <3> QED BY <3>5, <3>7, <3>8 DEF Cov
  <2>3. CASE m # k
    <3>1. /\ Copies(m) \in Nat /\ Copies(m)' \in Nat
          /\ Copies(m)' = Copies(m) + Local(s, m)' - Local(s, m) + running'[w][m] - running[w][m]
      BY <1>2, <2>1, CopiesMove
    <3>2. Copies(m)' = Copies(m)
      BY <1>2, <1>4, <2>1, <3>1
    <3>3. idled'[m] = idled[m] /\ (m \in idle' <=> m \in idle) /\ delivered' = delivered
      BY <2>1, <2>3 DEF TypeOK
    <3> QED BY <1>1, <3>2, <3>3 DEF Cov
  <2> QED BY <2>2, <2>3
<1>7. ASSUME NEW t \in Sched, SchedDies(t)
      PROVE  Cov(m)'
  <2>1. /\ pc'[t] = "top" /\ jobs'[t] = [j \in Msg \X Worker |-> 0]
        /\ UNCHANGED <<running, idle, idled, delivered>>
        /\ \A u \in Sched \ {t} : pc'[u] = pc[u] /\ batch'[u] = batch[u] /\ jobs'[u] = jobs[u]
    BY <1>7 DEF SchedDies, TypeOK, NoJobs, redis, work, hist
  <2>2. InHand(t, m)' = 0
    <3>1. Held(t)' = <<>>
      BY <2>1 DEF Held
    <3>2. {i \in DOMAIN (Held(t)') : (Held(t)')[i] = m} = {}
      BY <3>1
    <3> QED BY <3>2, FS_EmptySet, Zenon DEF InHand
  <2>3. InPool(t, m)' = 0
    <3> DEFINE f == [v \in Worker |-> jobs'[t][<<m, v>>]]
    <3>1. DOMAIN f = Worker /\ \A v \in Worker : f[v] = 0
      BY <2>1
    <3>2. InPool(t, m)' = Total(f)
      BY Zenon DEF InPool
    <3> HIDE DEF f
    <3> QED BY <3>1, <3>2, Constants, TotalZero
  <2>4. Local(t, m)' + running'[w][m] <= Local(t, m) + running[w][m]
    BY <1>4, <2>1, <2>2, <2>3 DEF Local
  <2>5. \A u \in Sched \ {t} : Local(u, m)' = Local(u, m)
    BY <2>1, LocalFrame
  <2>6. delivered' >= delivered
    BY <2>1 DEF TypeOK
  <2> QED BY <1>1, <2>1, <2>4, <2>5, <2>6, CovKept
<1>8. ASSUME NEW v \in Worker, WorkerDies(v) \/ \E k \in Msg : Finish(v, k)
      PROVE  Cov(m)'
  <2>1. /\ UNCHANGED <<pc, batch, jobs, idle, idled, delivered>>
        /\ \A u \in Worker \ {v} : running'[u][m] = running[u][m]
    BY <1>8 DEF WorkerDies, Finish, redis, loop, hist, TypeOK
  <2>2. running'[v][m] <= running[v][m]
    <3>1. running \in [Worker -> [Msg -> Nat]]
      BY DEF TypeOK
    <3>2. CASE WorkerDies(v)
      <4>1. running'[v][m] = 0
        BY <3>1, <3>2 DEF WorkerDies, Idle
      <4> QED BY <1>4, <4>1
    <3>3. ASSUME NEW k \in Msg, Finish(v, k)
          PROVE  running'[v][m] <= running[v][m]
      <4>1. running' = [running EXCEPT ![v][k] = @ - 1]
        BY <3>3 DEF Finish
      <4>2. running'[v][m] = IF m = k THEN running[v][m] - 1 ELSE running[v][m]
        BY <3>1, <4>1
      <4> QED BY <1>4, <4>2
    <3> QED BY <1>8, <3>2, <3>3
  <2>3. running'[v][m] \in Nat
    BY DEF TypeOK
  <2>4. Local(s, m)' + running'[v][m] <= Local(s, m) + running[v][m]
    BY <1>2, <1>4, <2>1, <2>2, <2>3
  <2>5. delivered' >= delivered
    BY <2>1 DEF TypeOK
  <2> QED BY <1>1, <1>2, <2>1, <2>4, <2>5, CovKept
<1> QED BY <1>5, <1>6, <1>7, <1>8

\* One job more or less, among those for one message.
LEMMA InPoolMove ==
  ASSUME TypeOK, TypeOK', NEW s \in Sched, NEW m \in Msg, NEW k \in Msg, NEW w \in Worker,
         NEW d \in Int, jobs' = [jobs EXCEPT ![s][<<k, w>>] = @ + d]
  PROVE  InPool(s, m)' = InPool(s, m) + (IF m = k THEN d ELSE 0)
<1> DEFINE f == [v \in Worker |-> jobs[s][<<m, v>>]]
           g == [v \in Worker |-> jobs'[s][<<m, v>>]]
<1>1. f \in [Worker -> Nat] /\ g \in [Worker -> Nat]
  <2>1. jobs[s] \in [Msg \X Worker -> Nat] /\ jobs'[s] \in [Msg \X Worker -> Nat]
    BY DEF TypeOK
  <2>2. \A v \in Worker : <<m, v>> \in Msg \X Worker
    OBVIOUS
  <2> QED BY <2>1, <2>2
<1>2. InPool(s, m) = Total(f) /\ InPool(s, m)' = Total(g)
  BY Zenon DEF InPool
<1>3. \A v \in Worker : g[v] = IF m = k /\ v = w THEN f[v] + d ELSE f[v]
  <2>1. jobs \in [Sched -> [Msg \X Worker -> Nat]]
    BY DEF TypeOK
  <2>2. jobs'[s] = [jobs[s] EXCEPT ![<<k, w>>] = @ + d]
    BY <2>1
  <2>3. \A v \in Worker : jobs'[s][<<m, v>>] = IF m = k /\ v = w THEN jobs[s][<<m, v>>] + d
                                                ELSE jobs[s][<<m, v>>]
    BY <2>1, <2>2
  <2> QED BY <2>3
<1> HIDE DEF f, g
<1>4. \A v \in Worker \ {w} : f[v] = g[v]
  BY <1>3
<1>5. Total(g) = Total(f) + g[w] - f[w]
  BY <1>1, <1>4, Constants, TotalAt
<1>6. Total(f) \in Nat /\ f[w] \in Nat
  BY <1>1, Constants, TotalNat
<1>7. Total(g) = Total(f) + (IF m = k THEN d ELSE 0)
  BY <1>3, <1>5, <1>6
<1> QED BY <1>2, <1>7

\* RunTask ends one way or the other: the copy moves to the worker, or is gone.
LEMMA CovPool ==
  ASSUME TypeOK, BatchSorted, TypeOK', CopiesCovered,
         NEW s \in Sched, NEW k \in Msg, NEW w \in Worker, DoDispatch(s, k, w)
  PROVE  CopiesCovered'
<1> SUFFICES ASSUME NEW m \in Msg PROVE Cov(m)'
  BY CovIs
<1>1. Cov(m)
  BY CovIs
<1>2. /\ TakeJob(s, k, w)
      /\ UNCHANGED <<pc, batch, delivered, idled>> /\ idle' \subseteq idle
      /\ running' = running \/ running' = [running EXCEPT ![w][k] = @ + 1]
  BY DEF DoDispatch, DispatchOk, DispatchFails, Ack, Leave, loop, hist
<1>3. InPool(s, m)' = InPool(s, m) + (IF m = k THEN -1 ELSE 0)
  <2>1. jobs' = [jobs EXCEPT ![s][<<k, w>>] = @ + (-1)] /\ -1 \in Int
    <3> DEFINE j == <<k, w>>
    <3>1. j \in Msg \X Worker
      OBVIOUS
    <3>2. jobs' = [jobs EXCEPT ![s][j] = @ - 1] /\ jobs[s][j] \in Nat
      BY <1>2, <3>1 DEF TakeJob, TypeOK
    <3> HIDE DEF j
    <3>3. jobs' = [jobs EXCEPT ![s][j] = @ + (-1)]
      BY <3>2
    <3> QED BY <3>3 DEF j
  <2> QED BY <2>1, InPoolMove, Zenon
<1>4. InHand(s, m)' = InHand(s, m)
  <2>1. Held(s)' = Held(s)
    BY <1>2 DEF Held
  <2> QED BY <2>1, Zenon DEF InHand
<1>5. \A t \in Sched \ {s} : Local(t, m)' = Local(t, m)
  <2>1. \A t \in Sched \ {s} : jobs'[t] = jobs[t]
    BY <1>2 DEF TakeJob, TypeOK
  <2> QED BY <1>2, <2>1, LocalFrame
<1>6. /\ \A v \in Worker \ {w} : running'[v][m] = running[v][m]
      /\ running'[w][m] = running[w][m] \/ (m = k /\ running'[w][m] = running[w][m] + 1)
      /\ running[w][m] \in Nat
  BY SMTT(30), <1>2 DEF TypeOK
<1>7. Local(s, m)' + running'[w][m] <= Local(s, m) + running[w][m]
  BY <1>3, <1>4, <1>6, LocalIs DEF Local
<1>8. delivered' >= delivered
  BY <1>2 DEF TypeOK
<1> QED BY <1>1, <1>2, <1>5, <1>6, <1>7, <1>8, CovKept

\* The loop thread makes copies in two places: when XREADGROUP delivers a message, and
\* when XCLAIM takes one that is idle.
LEMMA CovLoop ==
  ASSUME TypeOK, BatchSorted, TypeOK', BatchSorted', CopiesCovered,
         NEW s \in Sched, RunLoop(s) \/ BatchThrows(s)
  PROVE  CopiesCovered'
<1> SUFFICES ASSUME NEW m \in Msg PROVE Cov(m)'
  BY CovIs
<1>1. Cov(m)
  BY CovIs
<1>2. PICK w \in Worker : TRUE
  BY DispatchAssumption
<1>3. \A t \in Sched \ {s} : Local(t, m)' = Local(t, m)
  <2>1. \A t \in Sched \ {s} : pc'[t] = pc[t] /\ batch'[t] = batch[t] /\ jobs'[t] = jobs[t]
    BY ZenonT(60) DEF RunLoop, BatchThrows, RescueScan, RescueClaim, TakeSnapshot, NoWorkers, ReadGroup,
           ReadTimeout, SkipEntry, RescueWithoutWorker, BatchEnds, EnqueueEntry, Goto,
           NextEntry, TypeOK
  <2> QED BY <2>1, LocalFrame
<1>4. UNCHANGED <<running, idled>>
  BY DEF RunLoop, BatchThrows, RescueScan, RescueClaim, TakeSnapshot, NoWorkers, ReadGroup,
         ReadTimeout, SkipEntry, RescueWithoutWorker, BatchEnds, EnqueueEntry, work, hist
<1>5. /\ running[w][m] \in Nat /\ running'[w][m] = running[w][m]
      /\ InHand(s, m) \in Nat /\ InPool(s, m) \in Nat /\ Local(s, m) = InHand(s, m) + InPool(s, m)
      /\ Local(s, m)' = InHand(s, m)' + InPool(s, m)' /\ Local(s, m)' \in Nat
      /\ batch[s] \in Seq(Msg) /\ delivered \in Nat /\ delivered' \in Nat /\ m \in Nat
      /\ idled[m] \in Nat /\ IdleCap \in Nat
  <2>1. Local(s, m) = InHand(s, m) + InPool(s, m) /\ Local(s, m)' = InHand(s, m)' + InPool(s, m)'
    BY Zenon DEF Local
  <2>2. /\ running[w][m] \in Nat /\ running'[w][m] = running[w][m] /\ batch[s] \in Seq(Msg)
        /\ delivered \in Nat /\ delivered' \in Nat /\ m \in Nat /\ idled[m] \in Nat
    BY <1>4, Constants DEF TypeOK
  <2> QED BY <2>1, <2>2, LocalIs, LocalNext, Constants
<1>6. /\ Copies(m) \in Nat /\ Copies(m)' \in Nat
      /\ Copies(m)' = Copies(m) + Local(s, m)' - Local(s, m)
  BY SMTT(30), <1>3, <1>4, <1>5, CopiesMove
<1>7. UNCHANGED jobs => InPool(s, m)' = InPool(s, m)
  BY Zenon DEF InPool
<1>8. /\ Held(s) = <<>> => InHand(s, m) = 0
      /\ Held(s)' = <<>> => InHand(s, m)' = 0
  <2>1. \A q : q = <<>> => {i \in DOMAIN q : q[i] = m} = {}
    OBVIOUS
  <2> QED BY <2>1, FS_EmptySet, Zenon DEF InHand
<1>9. /\ Held(s)' \in Seq(Msg)
      /\ InHand(s, m)' \in {0, 1}
      /\ InHand(s, m)' = 0 <=> \A i \in DOMAIN (Held(s)') : (Held(s)')[i] # m
  <2>1. batch'[s] \in Seq(Msg) /\ <<>> \in Seq(Msg)
    BY DEF TypeOK
  <2>2. Held(s)' \in Seq(Msg)
    BY <2>1 DEF Held
  <2>3. \A i, j \in DOMAIN (Held(s)') : i < j => (Held(s)')[i] < (Held(s)')[j]
    BY DEF BatchSorted, Held
  <2> DEFINE q == Held(s)'
  <2> HIDE DEF q
  <2>4. /\ Cardinality({i \in DOMAIN q : q[i] = m}) \in {0, 1}
        /\ Cardinality({i \in DOMAIN q : q[i] = m}) = 0 <=> \A i \in DOMAIN q : q[i] # m
    BY <2>2, <2>3, OnceIn DEF q
  <2>5. InHand(s, m)' = Cardinality({i \in DOMAIN q : q[i] = m})
    BY Zenon DEF InHand, q
  <2> QED BY <2>2, <2>4, <2>5 DEF q
<1>10. CASE RescueScan(s) \/ TakeSnapshot(s) \/ NoWorkers(s) \/ ReadTimeout(s)
  <2>1. /\ Held(s) = <<>> /\ Held(s)' = <<>> /\ UNCHANGED <<jobs, idle, delivered>>
    BY <1>10 DEF RescueScan, TakeSnapshot, NoWorkers, ReadTimeout, At, Goto, Held, TypeOK, redis
  <2>2. Local(s, m)' + running'[w][m] <= Local(s, m) + running[w][m]
    BY <1>5, <1>7, <1>8, <2>1
  <2>3. delivered' >= delivered
    BY <1>5, <2>1
  <2> QED BY <1>1, <1>3, <1>4, <2>1, <2>2, <2>3, CovKept
<1>11. CASE RescueClaim(s)
  <2> DEFINE got == Claimable(s, ToSet(batch[s]))
  <2>1. /\ pc[s] = "claim" /\ UNCHANGED <<jobs, delivered>> /\ idle' = idle \ got
        /\ \/ pc'[s] = "rescue" /\ batch'[s] = InOrder(got)
           \/ pc'[s] = "workers"
    BY <1>11 DEF RescueClaim, At, Goto, TypeOK
  <2>2. got \in SUBSET Msg /\ got \subseteq idle /\ got \subseteq 1 .. delivered
    BY Replies DEF TypeOK
  <2>3. InOrder(got) \in Seq(got)
    BY <2>2, BatchOf
  <2> HIDE DEF got
  <2>4. InHand(s, m) = 0
    BY <1>8, <2>1 DEF Held
  <2>5. m \notin got => InHand(s, m)' = 0
    <3>1. CASE pc'[s] = "rescue"
      <4>1. Held(s)' = InOrder(got)
        BY <2>1, <3>1 DEF Held
      <4>2. \A i \in DOMAIN InOrder(got) : InOrder(got)[i] \in got
        BY <2>3
      <4> QED BY <1>9, <4>1, <4>2
    <3>2. CASE pc'[s] = "workers"
      BY <1>8, <3>2 DEF Held
    <3> QED BY <2>1, <3>1, <3>2
  <2>6. CASE m \in got
    <3>1. m \in idle /\ m \notin idle' /\ ~ (m > delivered) /\ delivered' = delivered
      BY <1>5, <2>1, <2>2, <2>6
    <3>2. idled[m] < IdleCap => Copies(m) + 1 <= 1 + idled[m]
      BY <1>1, <3>1 DEF Cov
    <3>3. Copies(m)' <= Copies(m) + 1
      BY <1>5, <1>6, <1>7, <1>9, <2>1, <2>4
    <3>4. idled[m] < IdleCap => Copies(m)' <= 1 + idled[m]
      BY SMTT(30), <1>5, <1>6, <3>2, <3>3
    <3>5. idled[m] < IdleCap => Copies(m)' + 0 <= 1 + idled[m]
      BY <1>6, <3>4
    <3> QED BY <1>4, <3>1, <3>5 DEF Cov
  <2>7. CASE m \notin got
    <3>1. Local(s, m)' + running'[w][m] <= Local(s, m) + running[w][m]
      BY <1>5, <1>7, <2>1, <2>4, <2>5, <2>7
    <3>2. idle' \subseteq idle /\ delivered' >= delivered
      BY <1>5, <2>1
    <3> QED BY <1>1, <1>3, <1>4, <3>1, <3>2, CovKept
  <2> QED BY <2>6, <2>7
<1>12. CASE ReadGroup(s)
  <2> DEFINE new == Oldest((delivered + 1) .. published, BatchSize)
  <2>1. /\ pc[s] = "read" /\ UNCHANGED <<jobs, idle>>
        /\ delivered' = delivered + Cardinality(new)
        /\ \/ pc'[s] = "batch" /\ batch'[s] = InOrder(new)
           \/ pc'[s] = "top"
    BY <1>12 DEF ReadGroup, At, Goto, TypeOK
  <2>2. /\ new \in SUBSET Msg /\ Cardinality(new) \in Nat
        /\ new = (delivered + 1) .. (delivered + Cardinality(new))
    BY Replies, BatchOf
  <2>3. InOrder(new) \in Seq(new)
    BY <2>2, BatchOf
  <2>4. /\ new = (delivered + 1) .. delivered' /\ delivered' >= delivered
    BY <1>5, <2>1, <2>2
  <2> HIDE DEF new
  <2>5. InHand(s, m) = 0
    BY <1>8, <2>1 DEF Held
  <2>6. m \notin new => InHand(s, m)' = 0
    <3>1. CASE pc'[s] = "batch"
      <4>1. Held(s)' = InOrder(new)
        BY <2>1, <3>1 DEF Held
      <4>2. \A i \in DOMAIN InOrder(new) : InOrder(new)[i] \in new
        BY <2>3
      <4> QED BY <1>9, <4>1, <4>2
    <3>2. CASE pc'[s] = "top"
      BY <1>8, <3>2 DEF Held
    <3> QED BY <2>1, <3>1, <3>2
  <2>7. CASE m \in new
    <3>1. m > delivered /\ ~ (m > delivered')
      BY <1>5, <2>4, <2>7
    <3>2. m \notin idle'
      <4>1. idle \subseteq 1 .. delivered /\ idle' = idle
        BY <2>1 DEF TypeOK
      <4> QED BY <1>5, <3>1, <4>1
    <3>3. Copies(m) = 0
      BY <1>1, <3>1 DEF Cov
    <3>4. Copies(m)' <= 1
      BY <1>5, <1>6, <1>7, <1>9, <2>1, <2>5, <3>3
    <3>5. Copies(m)' + 0 <= 1 + idled[m]
      BY SMTT(30), <1>5, <1>6, <3>4
    <3> QED BY <1>4, <3>1, <3>2, <3>5 DEF Cov
  <2>8. CASE m \notin new
    <3>1. Local(s, m)' + running'[w][m] <= Local(s, m) + running[w][m]
      BY <1>5, <1>7, <2>1, <2>5, <2>6, <2>8
    <3> QED BY <1>1, <1>3, <1>4, <2>1, <2>4, <3>1, CovKept
  <2> QED BY <2>7, <2>8
<1>13. CASE SkipEntry(s) \/ RescueWithoutWorker(s) \/ \E v \in Worker : EnqueueEntry(s, v)
  <2>1. /\ pc[s] \in {"batch", "rescue"} /\ pc' = pc /\ batch[s] # <<>>
        /\ batch'[s] = Tail(batch[s]) /\ delivered' = delivered /\ idle' \subseteq idle
    BY <1>13 DEF SkipEntry, RescueWithoutWorker, EnqueueEntry, Processing, At, NextEntry, Ack,
                 TypeOK, redis
  <2>2. InHand(s, m)' = InHand(s, m) - (IF Entry(s) = m THEN 1 ELSE 0)
    <3> DEFINE q == batch[s]
    <3>1. Held(s) = q /\ Held(s)' = Tail(q) /\ Entry(s) = Head(q)
      BY <2>1 DEF Held, Entry
    <3>2. q \in Seq(Msg) /\ q # <<>> /\ \A i, j \in DOMAIN q : i < j => q[i] < q[j]
      BY <1>5, <2>1 DEF BatchSorted
    <3>3. /\ InHand(s, m) = Cardinality({i \in DOMAIN q : q[i] = m})
          /\ InHand(s, m)' = Cardinality({i \in DOMAIN Tail(q) : Tail(q)[i] = m})
      BY <3>1, Zenon DEF InHand
    <3> HIDE DEF q
    <3>4. Cardinality({i \in DOMAIN Tail(q) : Tail(q)[i] = m})
            = Cardinality({i \in DOMAIN q : q[i] = m}) - (IF Head(q) = m THEN 1 ELSE 0)
      BY <3>2, OnceTail
    <3> QED BY <3>1, <3>3, <3>4
  <2>3. \/ InPool(s, m)' = InPool(s, m)
        \/ InPool(s, m)' = InPool(s, m) + (IF m = Entry(s) THEN 1 ELSE 0)
    <3>1. CASE SkipEntry(s) \/ RescueWithoutWorker(s)
      BY <1>7, <3>1 DEF SkipEntry, RescueWithoutWorker
    <3>2. ASSUME NEW v \in Worker, EnqueueEntry(s, v)
          PROVE  InPool(s, m)' = InPool(s, m) + (IF m = Entry(s) THEN 1 ELSE 0)
      <4>1. jobs' = [jobs EXCEPT ![s][<<Entry(s), v>>] = @ + 1]
        BY <3>2 DEF EnqueueEntry
      <4>2. Entry(s) \in Msg /\ 1 \in Int
        BY <1>5, <2>1 DEF Entry
      <4> QED BY <4>1, <4>2, InPoolMove, Zenon
    <3> QED BY <1>13, <3>1, <3>2
  <2>4. Local(s, m)' + running'[w][m] <= Local(s, m) + running[w][m]
    BY <1>5, <2>2, <2>3
  <2>5. delivered' >= delivered
    BY <1>5, <2>1
  <2> QED BY <1>1, <1>3, <1>4, <2>1, <2>4, <2>5, CovKept
<1>14. CASE BatchEnds(s) \/ BatchThrows(s)
  <2>1. batch'[s] = <<>> /\ UNCHANGED <<jobs, idle, delivered>>
    BY <1>14 DEF BatchEnds, BatchThrows, TypeOK, redis
  <2>2. Held(s)' = <<>>
    BY <2>1 DEF Held
  <2>3. Local(s, m)' + running'[w][m] <= Local(s, m) + running[w][m]
    BY <1>5, <1>7, <1>8, <2>1, <2>2
  <2>4. delivered' >= delivered
    BY <1>5, <2>1
  <2> QED BY <1>1, <1>3, <1>4, <2>1, <2>3, <2>4, CovKept
<1> QED BY <1>10, <1>11, <1>12, <1>13, <1>14 DEF RunLoop

LEMMA CovInit ==
  ASSUME Init
  PROVE  CopiesCovered
<1> SUFFICES ASSUME NEW m \in Msg PROVE Cov(m)
  BY CovIs
<1> DEFINE f == [w \in Worker |-> running[w][m]]
           h == [s \in Sched |-> InHand(s, m) + InPool(s, m)]
<1>1. \A w \in Worker : f[w] = 0
  BY DEF Init, Idle
<1>2. ASSUME NEW s \in Sched
      PROVE  h[s] = 0
  <2>1. InHand(s, m) = 0
    <3>1. Held(s) = <<>>
      BY DEF Init, Held
    <3>2. {i \in DOMAIN Held(s) : Held(s)[i] = m} = {}
      BY <3>1
    <3> QED BY <3>2, FS_EmptySet, Zenon DEF InHand
  <2>2. InPool(s, m) = 0
    <3> DEFINE g == [w \in Worker |-> jobs[s][<<m, w>>]]
    <3>1. DOMAIN g = Worker /\ \A w \in Worker : g[w] = 0
      BY DEF Init, NoJobs
    <3>2. InPool(s, m) = Total(g)
      BY Zenon DEF InPool
    <3> HIDE DEF g
    <3> QED BY <3>1, <3>2, Constants, TotalZero
  <2> QED BY <2>1, <2>2
<1>3. DOMAIN f = Worker /\ DOMAIN h = Sched
  OBVIOUS
<1>4. Copies(m) = Total(f) + Total(h)
  BY Zenon DEF Copies
<1> HIDE DEF f, h
<1>5. Total(f) = 0 /\ Total(h) = 0
  BY <1>1, <1>2, <1>3, Constants, TotalZero
<1>6. m \notin idle /\ idled[m] = 0
  BY DEF Init
<1>7. Copies(m) + 0 <= 1 + idled[m] /\ Copies(m) = 0
  BY <1>4, <1>5, <1>6
<1> QED BY <1>6, <1>7 DEF Cov

-----------------------------------------------------------------------------
(***************************************************************************)
(* The theorems.                                                           *)
(***************************************************************************)
LEMMA Invariance == Spec => []IInv
<1>1. Init => IInv
  BY TypeInit, BooksInit, CovInit DEF IInv
<1>2. IInv /\ [Next]_vars => IInv'
  <2> SUFFICES ASSUME IInv, [Next]_vars PROVE IInv'
    OBVIOUS
  <2>1. TypeOK /\ Counted /\ Bounded /\ BatchSorted /\ CopiesCovered
    BY DEF IInv
  <2>2. CASE UNCHANGED vars
    <3>1. TypeOK'
      BY <2>1, <2>2, TypeParts, TypeFrames DEF vars, HistTypes, hist
    <3>2. Counted' /\ Bounded' /\ BatchSorted'
      BY <2>1, <2>2, BooksOutside DEF vars, loop
    <3>3. CopiesCovered'
      <4> SUFFICES ASSUME NEW m \in Msg PROVE Cov(m)'
        BY CovIs
      <4>1. PICK s \in Sched, w \in Worker : TRUE
        BY DispatchAssumption
      <4>2. UNCHANGED <<pc, batch, jobs, running, idle, idled, delivered>>
        BY <2>2 DEF vars, redis, loop, work, hist
      <4>3. \A t \in Sched : Local(t, m)' = Local(t, m) /\ Local(t, m) \in Nat
        BY <2>1, <4>2, LocalFrame, LocalIs
      <4>4. running[w][m] \in Nat /\ delivered \in Nat
        BY <2>1 DEF TypeOK
      <4>5. Local(s, m)' + running'[w][m] <= Local(s, m) + running[w][m]
        BY <4>2, <4>3, <4>4
      <4>6. Cov(m)
        BY <2>1, CovIs
      <4>7. delivered' >= delivered
        BY <4>2, <4>4
      <4> QED BY <2>1, <3>1, <4>2, <4>3, <4>5, <4>6, <4>7, CovKept
    <3> QED BY <3>1, <3>2, <3>3 DEF IInv
  <2> DEFINE Outside == \/ Publish
                        \/ \E m \in Msg : IdleTick(m) \/ MetaExpires(m)
                        \/ \E s \in Sched : SchedStart(s) \/ SchedDies(s) \/ RescueTimer(s)
                        \/ \E s \in Sched, w \in Worker : Register(s, w) \/ HeartbeatTimeout(s, w)
                        \/ \E w \in Worker : WorkerStart(w) \/ WorkerDies(w)
                        \/ \E w \in Worker, m \in Msg : Finish(w, m)
  <2>3. CASE Outside
    <3>1. TypeOK'
      BY <2>1, <2>3, TypeOutside
    <3>2. \/ UNCHANGED <<pc, batch, jobs, inflight>>
          \/ \E s \in Sched : SchedDies(s)
      BY <2>3 DEF Publish, IdleTick, MetaExpires, SchedStart, RescueTimer, Register,
                  HeartbeatTimeout, WorkerStart, WorkerDies, Finish, loop
    <3>3. Counted' /\ Bounded' /\ BatchSorted'
      BY <2>1, <3>2, BooksOutside
    <3>4. CopiesCovered'
      BY <2>1, <2>3, <3>1, CovOutside
    <3> QED BY <3>1, <3>3, <3>4 DEF IInv
  <2>4. ASSUME NEW s \in Sched, RunLoop(s) \/ BatchThrows(s)
        PROVE  IInv'
    <3>1. TypeOK'
      BY <2>1, <2>4, TypeLoop
    <3>2. Counted' /\ Bounded' /\ BatchSorted'
      BY <2>1, <2>4, <3>1, BooksLoop
    <3>3. CopiesCovered'
      BY <2>1, <2>4, <3>1, <3>2, CovLoop
    <3> QED BY <3>1, <3>2, <3>3 DEF IInv
  <2>5. ASSUME NEW s \in Sched, NEW m \in Msg, NEW w \in Worker, DoDispatch(s, m, w)
        PROVE  IInv'
    <3>1. TypeOK'
      BY <2>1, <2>5, TypePool
    <3>2. Counted' /\ Bounded' /\ BatchSorted'
      BY <2>1, <2>5, <3>1, BooksPool
    <3>3. CopiesCovered'
      BY <2>1, <2>5, <3>1, CovPool
    <3> QED BY <3>1, <3>2, <3>3 DEF IInv
  <2> QED BY <2>2, <2>3, <2>4, <2>5, Zenon DEF Next
<1> QED BY <1>1, <1>2, PTL DEF Spec

\* inflight_tasks_ counts exactly what the loop thread and the pool hold, through every
\* early return of RunLoop, DoRescue and DoDispatch, lost replies and crashes included,
\* unless redis.get throws.
THEOREM InflightStaysExact ==
  ASSUME "throw" \notin Faults
  PROVE  Spec => []InflightExact
<1>1. IInv => InflightExact
  BY Zenon DEF IInv, Counted, InflightExact
<1> QED BY <1>1, Invariance, PTL

\* MAX_INFLIGHT bounds the queue of the dispatch pool, by the limit plus one rescue and
\* one read; this holds with exceptions too, which can only make the counter too large.
THEOREM PoolStaysBounded == Spec => []PoolBounded
<1>1. IInv => PoolBounded
  <2> SUFFICES ASSUME IInv, NEW s \in Sched
               PROVE  NumJobs(s) + Len(Held(s)) <= MaxInflight + RescueBatch + BatchSize
    BY DEF PoolBounded
  <2>1. TypeOK /\ Counted /\ Bounded
    BY DEF IInv
  <2>2. Len(Held(s)) + NumJobs(s) <= inflight[s] /\ inflight[s] <= Allowed(s)
    BY <2>1 DEF Counted, Bounded
  <2>3. Allowed(s) <= MaxInflight + RescueBatch + BatchSize /\ Allowed(s) \in Nat
    BY Constants DEF Allowed
  <2>4. Len(Held(s)) \in Nat /\ NumJobs(s) \in Nat /\ inflight[s] \in Nat
    BY <2>1, HeldTypes
  <2> QED BY <2>2, <2>3, <2>4, Constants
<1> QED BY <1>1, Invariance, PTL

\* A message is dispatched and executed at most once more for each time it has been idle
\* for MIN_IDLE_MS, with any number of schedulers that rescue at the same time.
THEOREM OneCopyEachIdlePeriod == Spec => []OneCopyPerIdlePeriod
<1>1. IInv => OneCopyPerIdlePeriod
  <2> SUFFICES ASSUME IInv, NEW m \in Msg, idled[m] < IdleCap
               PROVE  Copies(m) <= 1 + idled[m]
    BY DEF OneCopyPerIdlePeriod
  <2>1. TypeOK /\ BatchSorted /\ Cov(m)
    BY CovIs DEF IInv
  <2>2. Copies(m) + (IF m \in idle THEN 1 ELSE 0) <= 1 + idled[m]
    BY <2>1 DEF Cov
  <2>3. idled[m] \in Nat
    BY <2>1 DEF TypeOK
  <2>4. Copies(m) \in Nat
    <3> DEFINE f == [v \in Worker |-> running[v][m]]
               h == [t \in Sched |-> Local(t, m)]
    <3>1. f \in [Worker -> Nat]
      BY <2>1 DEF TypeOK
    <3>2. h \in [Sched -> Nat]
      BY <2>1, LocalIs
    <3>3. Copies(m) = Total(f) + Total(h)
      BY Zenon DEF Copies, Local
    <3> HIDE DEF f, h
    <3>4. Total(f) \in Nat /\ Total(h) \in Nat
      BY <3>1, <3>2, Constants, TotalNat
    <3> QED BY <3>3, <3>4
  <2> QED BY <2>2, <2>3, <2>4
<1> QED BY <1>1, Invariance, PTL

\* A message that the group has delivered leaves the pending list only when a worker
\* answered OK or its metadata was missing: nothing the loop, the rescue, the pool or a
\* crash does in between drops it.
THEOREM NothingDropped == Spec => []NoMessageDropped
<1>1. Init => NoMessageDropped
  BY DEF Init, NoMessageDropped
<1>2. IInv /\ NoMessageDropped /\ [Next]_vars => NoMessageDropped'
  <2> SUFFICES ASSUME TypeOK, NoMessageDropped, [Next]_vars,
                      NEW m \in 1 .. delivered', m > start'
               PROVE  m \in pel' \cup accepted' \cup skipped'
    BY DEF NoMessageDropped, IInv
  <2>1. ASSUME UNCHANGED <<start, delivered, pel, accepted, skipped>>
        PROVE  m \in pel' \cup accepted' \cup skipped'
    BY <2>1 DEF NoMessageDropped
  <2>2. CASE UNCHANGED vars
    BY <2>1, <2>2 DEF vars, redis, hist
  <2>3. CASE \/ Publish
             \/ \E k \in Msg : IdleTick(k) \/ MetaExpires(k)
             \/ \E s \in Sched : SchedDies(s) \/ RescueTimer(s)
             \/ \E s \in Sched, w \in Worker : Register(s, w) \/ HeartbeatTimeout(s, w)
             \/ \E w \in Worker : WorkerStart(w) \/ WorkerDies(w)
             \/ \E w \in Worker, k \in Msg : Finish(w, k)
    BY <2>1, <2>3 DEF Publish, IdleTick, MetaExpires, SchedDies, RescueTimer, Register,
                      HeartbeatTimeout, WorkerStart, WorkerDies, Finish, redis, hist
  <2>4. ASSUME NEW s \in Sched, SchedStart(s)
        PROVE  m \in pel' \cup accepted' \cup skipped'
    <3>1. CASE start = -1
      BY <2>4, <3>1 DEF SchedStart, TypeOK
    <3>2. CASE start # -1
      BY <2>1, <2>4, <3>2 DEF SchedStart, hist
    <3> QED BY <3>1, <3>2
  <2>5. ASSUME NEW s \in Sched, RunLoop(s) \/ BatchThrows(s)
        PROVE  m \in pel' \cup accepted' \cup skipped'
    <3>1. CASE ReadGroup(s)
      <4> DEFINE new == Oldest((delivered + 1) .. published, BatchSize)
      <4>1. /\ delivered' = delivered + Cardinality(new) /\ pel' = pel \cup new
            /\ UNCHANGED <<start, accepted, skipped>>
        BY <3>1 DEF ReadGroup, hist
      <4>2. new = (delivered + 1) .. (delivered + Cardinality(new))
        BY <2>5, Replies
      <4>3. new = (delivered + 1) .. delivered'
        BY <4>1, <4>2
      <4> HIDE DEF new
      <4>4. m \in 1 .. delivered \/ m \in new
        BY <4>3 DEF TypeOK
      <4> QED BY <4>1, <4>4 DEF NoMessageDropped
    <3>2. CASE SkipEntry(s)
      <4>1. /\ UNCHANGED <<start, delivered, accepted>>
            /\ pel \subseteq pel' \cup {Entry(s)} /\ skipped' = skipped \cup {Entry(s)}
        BY <3>2 DEF SkipEntry, Ack
      <4> QED BY <4>1 DEF NoMessageDropped
    <3>3. CASE \/ RescueScan(s) \/ RescueClaim(s) \/ TakeSnapshot(s) \/ NoWorkers(s)
               \/ ReadTimeout(s) \/ RescueWithoutWorker(s) \/ BatchEnds(s) \/ BatchThrows(s)
               \/ \E w \in Worker : EnqueueEntry(s, w)
      BY <2>1, <3>3 DEF RescueScan, RescueClaim, TakeSnapshot, NoWorkers, ReadTimeout,
                        RescueWithoutWorker, BatchEnds, BatchThrows, EnqueueEntry, redis, hist
    <3> QED BY <2>5, <3>1, <3>2, <3>3 DEF RunLoop
  <2>6. ASSUME NEW s \in Sched, NEW k \in Msg, NEW w \in Worker, DoDispatch(s, k, w)
        PROVE  m \in pel' \cup accepted' \cup skipped'
    <3>1. CASE DispatchOk(s, k, w)
      <4>1. /\ UNCHANGED <<start, delivered, skipped>>
            /\ pel \subseteq pel' \cup {k} /\ accepted' = accepted \cup {k}
        BY <3>1 DEF DispatchOk, Ack
      <4> QED BY <4>1 DEF NoMessageDropped
    <3>2. CASE DispatchFails(s, k, w)
      BY <2>1, <3>2 DEF DispatchFails, Leave, hist
    <3> QED BY <2>6, <3>1, <3>2 DEF DoDispatch
  <2> QED BY <2>2, <2>3, <2>4, <2>5, <2>6, Zenon DEF Next
<1> QED BY <1>1, <1>2, Invariance, PTL DEF Spec
==============================================================================
