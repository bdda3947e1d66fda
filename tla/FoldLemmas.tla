----------------------------- MODULE FoldLemmas -----------------------------
(***************************************************************************)
(* Lemmas about what folds and filters compute, proved by induction.  The  *)
(* induction theorems of the library take the predicate as an operator,    *)
(* which the provers at hand cannot instantiate; NatSet, FiniteSubsets and *)
(* SeqSet take it as a set, of the numbers, the subsets or the sequences   *)
(* it holds for.                                                           *)
(***************************************************************************)
EXTENDS Integers, Sequences, Functions, FiniteSetTheorems, SequenceTheorems, WellFoundedInduction, Filter, TLAPS

-----------------------------------------------------------------------------
(* Induction.                                                              *)

\* Over the naturals, with a set for the predicate.
LEMMA NatSet ==
  ASSUME NEW T, 0 \in T, \A n \in Nat : n \in T => n + 1 \in T
  PROVE  Nat \subseteq T
  <1>1. PICK M : M = {n \in Nat : n \notin T}
    OBVIOUS
  <1>2. SUFFICES ASSUME M # {} PROVE FALSE
    BY <1>1
  <1>3. PICK n \in M : \A m \in M : ~ (<<m, n>> \in OpToRel(<, Nat))
    BY <1>1, <1>2, WFMin, NatLessThanWellFounded
  <1>4. \A m \in M : ~ (m < n)
    BY <1>1, <1>3 DEF OpToRel
  <1>5. n \in Nat /\ n # 0 /\ n \notin T
    BY <1>1
  <1>6. n - 1 \in Nat /\ n - 1 < n /\ (n - 1) + 1 = n
    BY <1>5
  <1>7. n - 1 \in T
    BY <1>1, <1>4, <1>6
  <1> QED BY <1>5, <1>6, <1>7

LEMMA NoElements ==
  Cardinality({}) = 0 /\ \A S : IsFiniteSet(S) /\ Cardinality(S) = 0 => S = {}
  BY FS_EmptySet

LEMMA OneLess ==
  ASSUME NEW S, IsFiniteSet(S), NEW x \in S
  PROVE  IsFiniteSet(S \ {x}) /\ Cardinality(S \ {x}) = Cardinality(S) - 1 /\ Cardinality(S \ {x}) \in Nat
  BY FS_RemoveElement, FS_CardinalityType

\* Over the subsets of a finite set, with a set for the predicate: one element
\* after the other.
LEMMA FiniteSubsets ==
  ASSUME NEW S, IsFiniteSet(S), NEW F, {} \in F,
         \A T \in SUBSET S, x \in S : T \in F /\ x \notin T => T \cup {x} \in F
  PROVE  \A T \in SUBSET S : T \in F
  <1>1. PICK N : N = {n \in Nat : \A T \in SUBSET S : Cardinality(T) = n => T \in F}
    OBVIOUS
  <1>2. \A T \in SUBSET S : IsFiniteSet(T) /\ Cardinality(T) \in Nat
    BY FS_Subset, FS_CardinalityType
  <1>3. 0 \in N
    BY <1>1, <1>2, NoElements
  <1>4. ASSUME NEW n \in Nat, n \in N PROVE n + 1 \in N
    <2>1. ASSUME NEW T \in SUBSET S, Cardinality(T) = n + 1 PROVE T \in F
      <3>1. T # {}
        BY <2>1, NoElements
      <3>2. PICK x \in T : TRUE
        BY <3>1
      <3>3. PICK U : U = T \ {x}
        OBVIOUS
      <3>4. U \in SUBSET S /\ x \in S /\ x \notin U /\ U \cup {x} = T
        BY <3>3
      <3>5. Cardinality(U) = n
        <4>1. Cardinality(U) = Cardinality(T) - 1
          BY <1>2, <3>2, <3>3, OneLess
        <4> QED BY <2>1, <4>1
      <3>6. U \in F
        BY <1>1, <1>4, <3>4, <3>5
      <3> QED BY <3>4, <3>6
    <2> QED BY <1>1, <2>1
  <1>5. Nat \subseteq N
    BY <1>3, <1>4, NatSet
  <1> QED BY <1>1, <1>2, <1>5
-----------------------------------------------------------------------------
(* Sums.  Sums(g, f, S): g gives the sum of f over every subset of S.      *)

One(s) == CHOOSE x \in s : TRUE

Sums(g, f, S) ==
  g = [s \in SUBSET S |-> IF s = {} THEN 0 ELSE f[One(s)] + g[s \ {One(s)}]]

\* What a recursion over the subsets of up to n elements makes.
Upto(S, n) == {s \in SUBSET S : Cardinality(s) <= n}
SumsUpto(g, f, S, n) ==
  g = [s \in Upto(S, n) |-> IF s = {} THEN 0 ELSE f[One(s)] + g[s \ {One(s)}]]

LEMMA SumsExist ==
  ASSUME NEW f, NEW S, IsFiniteSet(S)
  PROVE  \E g : Sums(g, f, S)
  <1>1. PICK N : N = {n \in Nat : \E g : SumsUpto(g, f, S, n)}
    OBVIOUS
  <1>2. \A T \in SUBSET S : IsFiniteSet(T) /\ Cardinality(T) \in Nat /\ Cardinality(T) <= Cardinality(S)
    BY FS_Subset, FS_CardinalityType
  <1>3. 0 \in N
    <2>1. PICK g : g = [s \in Upto(S, 0) |-> 0]
      OBVIOUS
    <2>2. \A s \in Upto(S, 0) : s = {}
      BY <1>2, NoElements DEF Upto
    <2>3. SumsUpto(g, f, S, 0)
      BY <2>1, <2>2 DEF SumsUpto
    <2> QED BY <1>1, <2>3
  <1>4. ASSUME NEW n \in Nat, n \in N PROVE n + 1 \in N
    <2>1. PICK h : SumsUpto(h, f, S, n)
      BY <1>1, <1>4
    <2>2. PICK g : g = [s \in Upto(S, n + 1) |-> IF s = {} THEN 0 ELSE f[One(s)] + h[s \ {One(s)}]]
      OBVIOUS
    <2>3. ASSUME NEW s \in Upto(S, n + 1), s # {} PROVE g[s \ {One(s)}] = h[s \ {One(s)}]
      <3>1. PICK t : t = s \ {One(s)}
        OBVIOUS
      <3>2. One(s) \in s /\ s \in SUBSET S /\ Cardinality(s) <= n + 1
        BY <2>3 DEF One, Upto
      <3>3. Cardinality(t) = Cardinality(s) - 1 /\ t \in SUBSET S
        BY <1>2, <3>1, <3>2, OneLess
      <3>4. t \in Upto(S, n) /\ t \in Upto(S, n + 1)
        BY <1>2, <3>2, <3>3 DEF Upto
      <3>5. h[t] = IF t = {} THEN 0 ELSE f[One(t)] + h[t \ {One(t)}]
        BY <2>1, <3>4 DEF SumsUpto
      <3> QED BY <2>2, <3>1, <3>4, <3>5
    <2>4. SumsUpto(g, f, S, n + 1)
      BY <2>2, <2>3 DEF SumsUpto
    <2> QED BY <1>1, <2>4
  <1>5. Nat \subseteq N
    BY <1>3, <1>4, NatSet
  <1>6. PICK g : SumsUpto(g, f, S, Cardinality(S))
    BY <1>1, <1>5, FS_CardinalityType
  <1>7. Upto(S, Cardinality(S)) = SUBSET S
    BY <1>2 DEF Upto
  <1> QED BY <1>6, <1>7 DEF Sums, SumsUpto

\* The sum of the library is such a g.
LEMMA SumIs ==
  ASSUME NEW f, NEW S, IsFiniteSet(S)
  PROVE  \E g : Sums(g, f, S) /\ SumFunctionOnSet(f, S) = g[S]
  <1>1. SumFunctionOnSet(f, S) = (CHOOSE g : Sums(g, f, S))[S]
    BY DEF SumFunctionOnSet, FoldFunctionOnSet, MapThenFoldSet, Sums, One
  <1> QED BY <1>1, SumsExist

\* Whichever element is taken out first, the sum is the same.
Splits(g, f, s) == g[s] \in Int /\ \A x \in s : g[s] = f[x] + g[s \ {x}]

LEMMA SumsSplit ==
  ASSUME NEW f, NEW S, IsFiniteSet(S), \A x \in S : f[x] \in Int, NEW g, Sums(g, f, S)
  PROVE  g[{}] = 0 /\ \A s \in SUBSET S : Splits(g, f, s)
  <1>1. \A s \in SUBSET S : g[s] = IF s = {} THEN 0 ELSE f[One(s)] + g[s \ {One(s)}]
    BY DEF Sums
  <1>2. PICK N : N = {n \in Nat : \A s \in SUBSET S : Cardinality(s) <= n => Splits(g, f, s)}
    OBVIOUS
  <1>3. \A T \in SUBSET S : IsFiniteSet(T) /\ Cardinality(T) \in Nat
    BY FS_Subset, FS_CardinalityType
  <1>4. 0 \in N
    <2>1. ASSUME NEW s \in SUBSET S, Cardinality(s) <= 0 PROVE Splits(g, f, s)
      <3>1. s = {}
        <4>1. Cardinality(s) = 0 /\ IsFiniteSet(s)
          BY <1>3, <2>1
        <4> QED BY <4>1, NoElements
      <3>2. g[s] = 0
        BY <1>1, <3>1
      <3> QED BY <3>1, <3>2 DEF Splits
    <2> QED BY <1>2, <2>1
  <1>5. ASSUME NEW n \in Nat, n \in N PROVE n + 1 \in N
    <2>1. \A t \in SUBSET S : Cardinality(t) <= n => Splits(g, f, t)
      BY <1>2, <1>5
    <2>2. ASSUME NEW s \in SUBSET S, Cardinality(s) <= n + 1, s # {} PROVE Splits(g, f, s)
      <3>1. PICK y : y = One(s)
        OBVIOUS
      <3>2. y \in s /\ g[s] = f[y] + g[s \ {y}]
        BY <1>1, <2>2, <3>1 DEF One
      <3>3. \A x \in s : s \ {x} \in SUBSET S /\ Cardinality(s \ {x}) <= n
        BY <1>3, <2>2, OneLess
      <3>4. \A x \in s : Splits(g, f, s \ {x})
        BY <2>1, <3>3
      <3>5. g[s] \in Int
        <4>1. g[s \ {y}] \in Int /\ f[y] \in Int
          BY <3>2, <3>4 DEF Splits
        <4> QED BY <3>2, <4>1
      <3>6. ASSUME NEW x \in s, x # y PROVE g[s] = f[x] + g[s \ {x}]
        <4>1. (s \ {y}) \ {x} = (s \ {x}) \ {y} /\ x \in s \ {y} /\ y \in s \ {x}
          BY <3>2, <3>6
        <4>2. PICK r : r = (s \ {y}) \ {x}
          OBVIOUS
        <4>3. g[s \ {y}] = f[x] + g[r] /\ g[s \ {x}] = f[y] + g[r]
          BY <3>2, <3>4, <3>6, <4>1, <4>2 DEF Splits
        <4>4. Cardinality(r) <= n /\ r \in SUBSET S
          <5>1. x \in s \ {y} /\ s \ {y} \in SUBSET S /\ Cardinality(s \ {y}) <= n
            BY <3>2, <3>3, <3>6
          <5>2. IsFiniteSet(s \ {y}) /\ Cardinality(s \ {y}) \in Nat
            BY <1>3, <5>1
          <5>3. Cardinality(r) = Cardinality(s \ {y}) - 1
            BY <4>2, <5>1, <5>2, OneLess
          <5> QED BY <4>2, <5>1, <5>2, <5>3
        <4>5. g[r] \in Int /\ f[x] \in Int /\ f[y] \in Int
          BY <2>1, <3>2, <4>4 DEF Splits
        <4> QED BY <3>2, <4>3, <4>5
      <3> QED BY <3>2, <3>5, <3>6 DEF Splits
    <2>3. ASSUME NEW s \in SUBSET S, Cardinality(s) <= n + 1 PROVE Splits(g, f, s)
      <3>1. CASE s = {}
        BY <2>1, <3>1, NoElements
      <3> QED BY <2>2, <2>3, <3>1
    <2> QED BY <1>2, <2>3
  <1>6. Nat \subseteq N
    BY <1>4, <1>5, NatSet
  <1>7. ASSUME NEW s \in SUBSET S PROVE Splits(g, f, s)
    <2>1. Cardinality(s) \in Nat /\ Cardinality(s) \in N
      BY <1>3, <1>6
    <2> QED BY <1>2, <2>1
  <1> QED BY <1>1, <1>7

\* A sum depends on the values it is of.
LEMMA SumsAgree ==
  ASSUME NEW s, IsFiniteSet(s), NEW U, s \subseteq U, NEW f, NEW e, \A x \in s : f[x] = e[x],
         NEW g, Sums(g, f, s), NEW h, Sums(h, e, U)
  PROVE  g[s] = h[s]
  <1>1. PICK N : N = {n \in Nat : \A t \in SUBSET s : Cardinality(t) = n => g[t] = h[t]}
    OBVIOUS
  <1>3. \A t \in SUBSET s : IsFiniteSet(t) /\ Cardinality(t) \in Nat
    BY FS_Subset, FS_CardinalityType
  <1>4. \A t \in SUBSET s : t # {} => g[t] = f[One(t)] + g[t \ {One(t)}] /\ h[t] = e[One(t)] + h[t \ {One(t)}]
    BY DEF Sums
  <1>5. g[{}] = 0 /\ h[{}] = 0
    BY DEF Sums
  <1>6. 0 \in N
    BY <1>1, <1>3, <1>5, NoElements
  <1>7. ASSUME NEW n \in Nat, n \in N PROVE n + 1 \in N
    <2>1. ASSUME NEW t \in SUBSET s, Cardinality(t) = n + 1 PROVE g[t] = h[t]
      <3>1. t # {}
        BY <2>1, NoElements
      <3>2. One(t) \in t
        BY <3>1 DEF One
      <3>3. Cardinality(t \ {One(t)}) = Cardinality(t) - 1 /\ t \ {One(t)} \in SUBSET s
        BY <1>3, <3>2, OneLess
      <3>4. Cardinality(t \ {One(t)}) = n
        BY <2>1, <3>3
      <3>5. g[t \ {One(t)}] = h[t \ {One(t)}]
        BY <1>1, <1>7, <3>3, <3>4
      <3>6. f[One(t)] = e[One(t)]
        BY <3>2
      <3> QED BY <1>4, <3>1, <3>5, <3>6
    <2> QED BY <1>1, <2>1
  <1>8. Nat \subseteq N
    BY <1>6, <1>7, NatSet
  <1> QED BY <1>1, <1>8, FS_CardinalityType

LEMMA SumSame ==
  ASSUME NEW S, IsFiniteSet(S), NEW f, NEW e, \A x \in S : f[x] = e[x]
  PROVE  SumFunctionOnSet(f, S) = SumFunctionOnSet(e, S)
  <1>1. PICK g : Sums(g, f, S) /\ SumFunctionOnSet(f, S) = g[S]
    BY SumIs
  <1>2. PICK h : Sums(h, e, S) /\ SumFunctionOnSet(e, S) = h[S]
    BY SumIs
  <1>3. g[S] = h[S]
    BY <1>1, <1>2, SumsAgree
  <1> QED BY <1>1, <1>2, <1>3

\* Sums of integers, one element after the other.
LEMMA SumSplit ==
  ASSUME NEW S, IsFiniteSet(S), NEW f, \A x \in S : f[x] \in Int
  PROVE  /\ SumFunctionOnSet(f, S) \in Int
         /\ S = {} => SumFunctionOnSet(f, S) = 0
         /\ \A x \in S : SumFunctionOnSet(f, S) = f[x] + SumFunctionOnSet(f, S \ {x})
  <1>1. PICK g : Sums(g, f, S) /\ SumFunctionOnSet(f, S) = g[S]
    BY SumIs
  <1>2. g[{}] = 0 /\ Splits(g, f, S)
    BY <1>1, SumsSplit
  <1>3. ASSUME NEW x \in S PROVE g[S \ {x}] = SumFunctionOnSet(f, S \ {x})
    <2>1. IsFiniteSet(S \ {x})
      BY OneLess
    <2>2. PICK h : Sums(h, f, S \ {x}) /\ SumFunctionOnSet(f, S \ {x}) = h[S \ {x}]
      BY <2>1, SumIs
    <2>3. g[S \ {x}] = h[S \ {x}]
      <3>1. S \ {x} \subseteq S /\ \A y \in S \ {x} : f[y] = f[y]
        OBVIOUS
      <3>2. h[S \ {x}] = g[S \ {x}]
        BY <1>1, <2>1, <2>2, <3>1, SumsAgree
      <3> QED BY <3>2
    <2> QED BY <2>2, <2>3
  <1> QED BY <1>1, <1>2, <1>3 DEF Splits

LEMMA SumWith ==
  ASSUME NEW S, IsFiniteSet(S), NEW x, x \notin S, NEW f, \A y \in S \cup {x} : f[y] \in Int
  PROVE  SumFunctionOnSet(f, S \cup {x}) = SumFunctionOnSet(f, S) + f[x]
  <1>1. IsFiniteSet(S \cup {x}) /\ (S \cup {x}) \ {x} = S
    BY FS_AddElement
  <1>2. SumFunctionOnSet(f, S \cup {x}) = f[x] + SumFunctionOnSet(f, S)
    BY <1>1, SumSplit
  <1>3. SumFunctionOnSet(f, S) \in Int
    BY SumSplit
  <1> QED BY <1>2, <1>3

\* One value changes.
LEMMA SumChange ==
  ASSUME NEW S, IsFiniteSet(S), NEW x \in S, NEW f, NEW e, \A y \in S : f[y] \in Int /\ e[y] \in Int,
         \A y \in S \ {x} : e[y] = f[y]
  PROVE  /\ SumFunctionOnSet(f, S) \in Int
         /\ SumFunctionOnSet(e, S) = SumFunctionOnSet(f, S) + (e[x] - f[x])
  <1>1. IsFiniteSet(S \ {x})
    BY OneLess
  <1>2. SumFunctionOnSet(f, S) = f[x] + SumFunctionOnSet(f, S \ {x})
    BY SumSplit
  <1>3. SumFunctionOnSet(e, S) = e[x] + SumFunctionOnSet(e, S \ {x})
    BY SumSplit
  <1>4. SumFunctionOnSet(e, S \ {x}) = SumFunctionOnSet(f, S \ {x})
    BY <1>1, SumSame
  <1>5. SumFunctionOnSet(f, S \ {x}) \in Int
    BY <1>1, SumSplit
  <1> QED BY <1>2, <1>3, <1>4, <1>5

\* Sums of naturals are naturals, and no less than what they are of.
LEMMA SumNat ==
  ASSUME NEW S, IsFiniteSet(S), NEW f, \A x \in S : f[x] \in Nat
  PROVE  SumFunctionOnSet(f, S) \in Nat /\ \A x \in S : f[x] <= SumFunctionOnSet(f, S)
  <1>1. PICK F : F = {T \in SUBSET S : SumFunctionOnSet(f, T) \in Nat}
    OBVIOUS
  <1>2. \A T \in SUBSET S : IsFiniteSet(T)
    BY FS_Subset
  <1>3. {} \in F
    <2>1. SumFunctionOnSet(f, {}) = 0
      BY SumSplit, FS_EmptySet
    <2> QED BY <1>1, <2>1
  <1>4. ASSUME NEW T \in SUBSET S, NEW x \in S, T \in F, x \notin T PROVE T \cup {x} \in F
    <2>1. (\A y \in T \cup {x} : f[y] \in Int) /\ IsFiniteSet(T)
      BY <1>2
    <2>2. SumFunctionOnSet(f, T \cup {x}) = SumFunctionOnSet(f, T) + f[x]
      BY <1>4, <2>1, SumWith
    <2> QED BY <1>1, <1>4, <2>2
  <1>5. \A T \in SUBSET S : T \in F
    BY <1>3, <1>4, FiniteSubsets
  <1>6. SumFunctionOnSet(f, S) \in Nat /\ \A x \in S : SumFunctionOnSet(f, S \ {x}) \in Nat
    BY <1>1, <1>5
  <1>7. ASSUME NEW x \in S PROVE f[x] <= SumFunctionOnSet(f, S)
    <2>1. SumFunctionOnSet(f, S) = f[x] + SumFunctionOnSet(f, S \ {x})
      BY SumSplit
    <2> QED BY <1>6, <2>1
  <1> QED BY <1>6, <1>7

LEMMA SumZero ==
  ASSUME NEW S, IsFiniteSet(S), NEW f, \A x \in S : f[x] = 0
  PROVE  SumFunctionOnSet(f, S) = 0
  <1>1. PICK F : F = {T \in SUBSET S : SumFunctionOnSet(f, T) = 0}
    OBVIOUS
  <1>2. \A T \in SUBSET S : IsFiniteSet(T)
    BY FS_Subset
  <1>3. SumFunctionOnSet(f, {}) = 0
    BY SumSplit, FS_EmptySet
  <1>4. ASSUME NEW T \in SUBSET S, NEW x \in S, T \in F, x \notin T PROVE T \cup {x} \in F
    <2>1. (\A y \in T \cup {x} : f[y] \in Int) /\ IsFiniteSet(T)
      BY <1>2
    <2>2. SumFunctionOnSet(f, T \cup {x}) = SumFunctionOnSet(f, T) + f[x]
      BY <1>4, <2>1, SumWith
    <2> QED BY <1>1, <1>4, <2>2
  <1>5. \A T \in SUBSET S : T \in F
    BY <1>1, <1>3, <1>4, FiniteSubsets
  <1> QED BY <1>1, <1>5

-----------------------------------------------------------------------------
(* Folds of sequences.  Folding(g, G, base, seq, n): g gives what G makes  *)
(* of base and the elements of seq at every set of places up to n, the     *)
(* last place last.                                                        *)

Largest(s) == CHOOSE x \in s : \A y \in s : x >= y

Folding(g, G, base, seq, n) ==
  g = [s \in SUBSET (1 .. n) |-> IF s = {} THEN base ELSE G[g[s \ {Largest(s)}], seq[Largest(s)]]]

\* Some g of values in A is one.
Foldable(A, G, base, seq, n) == \E g \in [SUBSET (1 .. n) -> A] : Folding(g, G, base, seq, n)

\* One element after the other: f[k] is what the first k make.
Steps(f, G, base, seq, n) ==
  f[0] = base /\ \A k \in Nat : k + 1 <= n => f[k + 1] = G[f[k], seq[k + 1]]

LEMMA LargestIs ==
  ASSUME NEW n \in Nat, NEW s \in SUBSET (1 .. n), s # {}
  PROVE  Largest(s) \in s /\ \A y \in s : Largest(s) >= y
  <1>1. PICK N : N = {k \in Nat : \A t \in SUBSET (1 .. k) : t # {} => \E x \in t : \A y \in t : x >= y}
    OBVIOUS
  <1>2. 0 \in N
    <2>1. \A t \in SUBSET (1 .. 0) : t = {}
      OBVIOUS
    <2> QED BY <1>1, <2>1
  <1>3. ASSUME NEW k \in Nat, k \in N PROVE k + 1 \in N
    <2>1. ASSUME NEW t \in SUBSET (1 .. k + 1), t # {} PROVE \E x \in t : \A y \in t : x >= y
      <3>1. CASE k + 1 \in t
        <4>1. \A y \in t : k + 1 >= y
          OBVIOUS
        <4> QED BY <3>1, <4>1
      <3>2. CASE k + 1 \notin t
        <4>1. t \in SUBSET (1 .. k)
          BY <3>2
        <4> QED BY <1>1, <1>3, <2>1, <4>1
      <3> QED BY <3>1, <3>2
    <2> QED BY <1>1, <2>1
  <1>4. Nat \subseteq N
    BY <1>2, <1>3, NatSet
  <1>5. \E x \in s : \A y \in s : x >= y
    BY <1>1, <1>4
  <1> QED BY <1>5 DEF Largest

LEMMA WithoutLargest ==
  ASSUME NEW n \in Nat
  PROVE  /\ \A s \in SUBSET (1 .. n + 1) : s # {} => /\ s \ {Largest(s)} \in SUBSET (1 .. n)
                                                     /\ Largest(s) \in 1 .. n + 1
         /\ Largest(1 .. n + 1) = n + 1 /\ (1 .. n + 1) \ {Largest(1 .. n + 1)} = 1 .. n
  <1>1. ASSUME NEW s \in SUBSET (1 .. n + 1), s # {}
        PROVE  s \ {Largest(s)} \in SUBSET (1 .. n) /\ Largest(s) \in 1 .. n + 1
    <2>1. Largest(s) \in s /\ \A y \in s : Largest(s) >= y
      BY <1>1, LargestIs
    <2>2. ASSUME NEW y \in s \ {Largest(s)} PROVE y \in 1 .. n
      <3>1. y \in 1 .. n + 1 /\ Largest(s) \in 1 .. n + 1 /\ Largest(s) >= y /\ Largest(s) # y
        BY <2>1
      <3> QED BY <3>1
    <2> QED BY <2>1, <2>2
  <1>2. Largest(1 .. n + 1) = n + 1
    <2>1. PICK s : s = 1 .. n + 1
      OBVIOUS
    <2>2. n + 1 \in Nat /\ s \in SUBSET (1 .. n + 1) /\ s # {} /\ n + 1 \in s
      BY <2>1
    <2>3. Largest(s) \in s /\ Largest(s) >= n + 1
      BY <2>2, LargestIs
    <2> QED BY <2>1, <2>3
  <1>3. (1 .. n + 1) \ {n + 1} = 1 .. n
    OBVIOUS
  <1> QED BY <1>1, <1>2, <1>3

\* The recursion has a function, and its values are what G may take.
LEMMA FoldingExists ==
  ASSUME NEW A, NEW S, NEW G \in [A \X S -> A], NEW base \in A,
         NEW n \in Nat, NEW seq, \A i \in 1 .. n : seq[i] \in S
  PROVE  Foldable(A, G, base, seq, n)
  <1>1. PICK N : N = {k \in Nat : k <= n => Foldable(A, G, base, seq, k)}
    OBVIOUS
  <1>2. 0 \in N
    <2>1. PICK g : g = [s \in SUBSET (1 .. 0) |-> base]
      OBVIOUS
    <2>2. \A s \in SUBSET (1 .. 0) : s = {}
      OBVIOUS
    <2>3. Folding(g, G, base, seq, 0) /\ g \in [SUBSET (1 .. 0) -> A]
      BY <2>1, <2>2 DEF Folding
    <2>4. Foldable(A, G, base, seq, 0)
      BY <2>3 DEF Foldable
    <2> QED BY <1>1, <2>4
  <1>3. ASSUME NEW k \in Nat, k \in N PROVE k + 1 \in N
    <2>1. SUFFICES ASSUME k + 1 <= n PROVE Foldable(A, G, base, seq, k + 1)
      BY <1>1
    <2>2. PICK h \in [SUBSET (1 .. k) -> A] : Folding(h, G, base, seq, k)
      <3>1. Foldable(A, G, base, seq, k)
        BY <1>1, <1>3, <2>1
      <3> QED BY <3>1 DEF Foldable
    <2>3. PICK g : g = [s \in SUBSET (1 .. k + 1) |->
                          IF s = {} THEN base ELSE G[h[s \ {Largest(s)}], seq[Largest(s)]]]
      OBVIOUS
    <2>4. ASSUME NEW s \in SUBSET (1 .. k + 1), s # {}
          PROVE  g[s \ {Largest(s)}] = h[s \ {Largest(s)}] /\ g[s] \in A
      <3>1. PICK t : t = s \ {Largest(s)}
        OBVIOUS
      <3>2. t \in SUBSET (1 .. k) /\ t \in SUBSET (1 .. k + 1) /\ Largest(s) \in 1 .. k + 1
        BY <2>4, <3>1, WithoutLargest
      <3>3. h[t] = IF t = {} THEN base ELSE G[h[t \ {Largest(t)}], seq[Largest(t)]]
        BY <2>2, <3>2 DEF Folding
      <3>4. g[t] = h[t]
        BY <2>3, <3>2, <3>3
      <3>5. h[t] \in A /\ seq[Largest(s)] \in S
        BY <2>1, <2>2, <3>2
      <3>6. g[s] = G[h[t], seq[Largest(s)]]
        BY <2>3, <2>4, <3>1
      <3> QED BY <3>1, <3>4, <3>5, <3>6
    <2>5. \A s \in SUBSET (1 .. k + 1) : g[s] \in A
      BY <2>3, <2>4
    <2>6. Folding(g, G, base, seq, k + 1)
      BY <2>3, <2>4 DEF Folding
    <2> QED BY <2>3, <2>5, <2>6 DEF Foldable
  <1>4. Nat \subseteq N
    BY <1>2, <1>3, NatSet
  <1> QED BY <1>1, <1>4

\* A prefix is folded alike.
LEMMA StepsAgree ==
  ASSUME NEW n \in Nat, NEW m \in Nat, n <= m, NEW G, NEW base, NEW seq, NEW ext,
         \A i \in 1 .. n : ext[i] = seq[i],
         NEW f, Steps(f, G, base, seq, n), NEW h, Steps(h, G, base, ext, m)
  PROVE  h[n] = f[n]
  <1>1. PICK N : N = {k \in Nat : k <= n => h[k] = f[k]}
    OBVIOUS
  <1>2. 0 \in N
    BY <1>1 DEF Steps
  <1>3. ASSUME NEW k \in Nat, k \in N PROVE k + 1 \in N
    <2>1. ASSUME k + 1 <= n PROVE h[k + 1] = f[k + 1]
      <3>1. k + 1 <= m /\ k <= n /\ k + 1 \in 1 .. n
        BY <2>1
      <3>2. h[k + 1] = G[h[k], ext[k + 1]]
        BY <3>1 DEF Steps
      <3>3. f[k + 1] = G[f[k], seq[k + 1]]
        BY <2>1 DEF Steps
      <3> QED BY <1>1, <1>3, <3>1, <3>2, <3>3
    <2> QED BY <1>1, <2>1
  <1>4. Nat \subseteq N
    BY <1>2, <1>3, NatSet
  <1> QED BY <1>1, <1>4

-----------------------------------------------------------------------------
(* A sequence of sequences, one behind the other.                          *)

In(x, s) == \E i \in DOMAIN s : s[i] = x

Flattens(f, seqs, n) == f = [i \in 1 .. n |-> IF i = 1 THEN seqs[i] ELSE f[i - 1] \o seqs[i]]

LEMMA FlattensExists ==
  ASSUME NEW seqs, NEW n \in Nat
  PROVE  \E f : Flattens(f, seqs, n)
  <1>1. PICK N : N = {k \in Nat : \E f : Flattens(f, seqs, k)}
    OBVIOUS
  <1>2. 0 \in N
    <2>1. PICK f : f = [i \in 1 .. 0 |-> seqs[i]]
      OBVIOUS
    <2>2. \A i \in 1 .. 0 : FALSE
      OBVIOUS
    <2>3. Flattens(f, seqs, 0)
      BY <2>1, <2>2 DEF Flattens
    <2> QED BY <1>1, <2>3
  <1>3. ASSUME NEW k \in Nat, k \in N PROVE k + 1 \in N
    <2>1. PICK h : Flattens(h, seqs, k)
      BY <1>1, <1>3
    <2>2. PICK f : f = [i \in 1 .. k + 1 |-> IF i = 1 THEN seqs[i] ELSE h[i - 1] \o seqs[i]]
      OBVIOUS
    <2>3. ASSUME NEW i \in 1 .. k + 1, i # 1 PROVE f[i - 1] = h[i - 1]
      <3>1. PICK j : j = i - 1
        OBVIOUS
      <3>2. j \in 1 .. k /\ j \in 1 .. k + 1
        BY <2>3, <3>1
      <3>3. h[j] = IF j = 1 THEN seqs[j] ELSE h[j - 1] \o seqs[j]
        BY <2>1, <3>2 DEF Flattens
      <3> QED BY <2>2, <3>1, <3>2, <3>3
    <2>4. Flattens(f, seqs, k + 1)
      BY <2>2, <2>3 DEF Flattens
    <2> QED BY <1>1, <2>4
  <1>4. Nat \subseteq N
    BY <1>2, <1>3, NatSet
  <1> QED BY <1>1, <1>4

LEMMA InConcat ==
  ASSUME NEW S, NEW s \in Seq(S), NEW t \in Seq(S), NEW x
  PROVE  In(x, s \o t) <=> In(x, s) \/ In(x, t)
  <1>1. PICK c : c = s \o t
    OBVIOUS
  <1>2. /\ c \in Seq(S) /\ Len(c) = Len(s) + Len(t)
        /\ \A i \in 1 .. Len(s) + Len(t) : c[i] = IF i <= Len(s) THEN s[i] ELSE t[i - Len(s)]
    BY <1>1, ConcatProperties
  <1>3. /\ Len(s) \in Nat /\ DOMAIN s = 1 .. Len(s) /\ Len(t) \in Nat /\ DOMAIN t = 1 .. Len(t)
        /\ DOMAIN c = 1 .. Len(s) + Len(t)
    BY <1>2, LenProperties
  <1>4. ASSUME NEW i \in DOMAIN c, c[i] = x PROVE In(x, s) \/ In(x, t)
    <2>1. CASE i <= Len(s)
      BY <1>2, <1>3, <1>4, <2>1 DEF In
    <2>2. CASE ~ i <= Len(s)
      <3>1. i - Len(s) \in DOMAIN t
        BY <1>3, <2>2
      <3> QED BY <1>2, <1>3, <1>4, <2>2, <3>1 DEF In
    <2> QED BY <2>1, <2>2
  <1>5. ASSUME NEW i \in DOMAIN s PROVE In(s[i], c)
    BY <1>2, <1>3 DEF In
  <1>6. ASSUME NEW i \in DOMAIN t PROVE In(t[i], c)
    <2>1. PICK j : j = Len(s) + i
      OBVIOUS
    <2>2. j \in DOMAIN c /\ ~ j <= Len(s) /\ j - Len(s) = i
      BY <1>3, <2>1
    <2> QED BY <1>2, <1>3, <2>2 DEF In
  <1> QED BY <1>1, <1>4, <1>5, <1>6 DEF In

\* What is in the whole is in one of them.
Whole(f, S, seqs, k) ==
  f[k] \in Seq(S) /\ \A x : In(x, f[k]) <=> \E t \in 1 .. k : In(x, seqs[t])

LEMMA FlattensAll ==
  ASSUME NEW S, NEW n \in Nat, NEW seqs, \A i \in 1 .. n : seqs[i] \in Seq(S), NEW f, Flattens(f, seqs, n),
         NEW k \in 1 .. n
  PROVE  Whole(f, S, seqs, k) /\ (k = 1 => f[k] = seqs[k])
  <1>1. PICK N : N = {i \in Nat : i + 1 <= n => Whole(f, S, seqs, i + 1)}
    OBVIOUS
  <1>2. n >= 1 /\ f[1] = seqs[1] /\ seqs[1] \in Seq(S)
    BY DEF Flattens
  <1>3. 0 \in N
    <2>1. \A x : In(x, seqs[1]) <=> \E t \in 1 .. 1 : In(x, seqs[t])
      OBVIOUS
    <2>2. 0 + 1 = 1
      OBVIOUS
    <2> QED BY <1>1, <1>2, <2>1, <2>2 DEF Whole
  <1>4. ASSUME NEW i \in Nat, i \in N PROVE i + 1 \in N
    <2>1. PICK j \in Nat : j = i + 1
      OBVIOUS
    <2>2. ASSUME j + 1 <= n PROVE Whole(f, S, seqs, j + 1)
      <3>1. Whole(f, S, seqs, j) /\ j + 1 \in 1 .. n /\ j + 1 # 1 /\ (j + 1) - 1 = j
        BY <1>1, <1>4, <2>1, <2>2
      <3>2. f[j + 1] = f[j] \o seqs[j + 1] /\ f[j] \in Seq(S) /\ seqs[j + 1] \in Seq(S)
        BY <3>1 DEF Flattens, Whole
      <3>3. f[j] \o seqs[j + 1] \in Seq(S)
        BY <3>2, ConcatProperties
      <3>4. ASSUME NEW x PROVE In(x, f[j + 1]) <=> \E t \in 1 .. j + 1 : In(x, seqs[t])
        <4>1. In(x, f[j + 1]) <=> In(x, f[j]) \/ In(x, seqs[j + 1])
          BY <3>2, InConcat
        <4>2. In(x, f[j]) <=> \E t \in 1 .. j : In(x, seqs[t])
          BY <3>1 DEF Whole
        <4>3. \A t : t \in 1 .. j + 1 <=> t \in 1 .. j \/ t = j + 1
          BY <2>1
        <4> QED BY <4>1, <4>2, <4>3
      <3> QED BY <3>2, <3>3, <3>4 DEF Whole
    <2> QED BY <1>1, <2>1, <2>2
  <1>5. Nat \subseteq N
    BY <1>3, <1>4, NatSet
  <1>6. k - 1 \in N /\ (k - 1) + 1 = k
    BY <1>5
  <1> QED BY <1>1, <1>2, <1>6

LEMMA InAppend ==
  ASSUME NEW S, NEW s \in Seq(S), NEW y \in S, NEW x
  PROVE  In(x, Append(s, y)) <=> In(x, s) \/ x = y
  <1>1. /\ Len(Append(s, y)) = Len(s) + 1 /\ Append(s, y)[Len(s) + 1] = y
        /\ \A i \in 1 .. Len(s) : Append(s, y)[i] = s[i]
    BY AppendProperties
  <1>2. /\ Len(s) \in Nat /\ DOMAIN s = 1 .. Len(s) /\ DOMAIN Append(s, y) = 1 .. Len(s) + 1
    BY <1>1, AppendProperties, LenProperties
  <1>3. \A i : i \in 1 .. Len(s) + 1 <=> i \in 1 .. Len(s) \/ i = Len(s) + 1
    BY <1>2
  <1> QED BY <1>1, <1>2, <1>3 DEF In

LEMMA InTail ==
  ASSUME NEW S, NEW s \in Seq(S), s # <<>>, NEW x, In(x, Tail(s))
  PROVE  In(x, s)
  <1>1. /\ Tail(s) \in Seq(S) /\ Len(Tail(s)) = Len(s) - 1
        /\ \A i \in 1 .. Len(Tail(s)) : Tail(s)[i] = s[i + 1]
    BY HeadTailProperties
  <1>2. Len(s) \in Nat /\ DOMAIN s = 1 .. Len(s) /\ DOMAIN Tail(s) = 1 .. Len(s) - 1
    BY <1>1, LenProperties
  <1>3. \A i \in 1 .. Len(s) - 1 : i + 1 \in 1 .. Len(s)
    BY <1>2
  <1> QED BY <1>1, <1>2, <1>3 DEF In

LEMMA HeadConcat ==
  ASSUME NEW A, NEW s \in Seq(A), NEW t \in Seq(A)
  PROVE  /\ s # <<>> => s \o t # <<>> /\ Head(s \o t) = Head(s)
         /\ s = <<>> => s \o t = t
  <1>1. ASSUME s # <<>> PROVE s \o t # <<>> /\ Head(s \o t) = Head(s)
    <2>1. PICK n \in Nat : n = Len(s)
      BY LenProperties
    <2>2. n >= 1
      BY <1>1, <2>1, EmptySeq
    <2>3. PICK u : u = s \o t
      OBVIOUS
    <2>4. u \in Seq(A) /\ Len(u) = n + Len(t) /\ Len(t) \in Nat
      BY <2>1, <2>3, ConcatProperties, LenProperties
    <2>5. u[1] = s[1]
      BY <2>1, <2>2, <2>3, <2>4, ConcatProperties
    <2>6. Head(u) = u[1] /\ Head(s) = s[1] /\ u # <<>>
      BY <1>1, <2>2, <2>4, EmptySeq
    <2> QED BY <2>3, <2>5, <2>6
  <1>2. ASSUME s = <<>> PROVE s \o t = t
    BY <1>2, ConcatEmptySeq
  <1> QED BY <1>1, <1>2

LEMMA OneMore ==
  ASSUME NEW A, NEW x \in A, NEW s \in Seq(A), NEW t \in Seq(A), Len(t) = Len(s) + 1,
         t[Len(t)] = x, \A i \in 1 .. Len(s) : t[i] = s[i]
  PROVE  s \o <<x>> = t
  <1>1. PICK n \in Nat : n = Len(s)
    BY LenProperties
  <1>2. PICK u : u = Append(s, x)
    OBVIOUS
  <1>3. u \in Seq(A) /\ Len(u) = n + 1 /\ u[n + 1] = x /\ \A i \in 1 .. n : u[i] = s[i]
    BY <1>1, <1>2, AppendProperties
  <1>4. \A i : i \in 1 .. n + 1 <=> i \in 1 .. n \/ i = n + 1
    BY <1>1
  <1>5. u = t
    BY <1>1, <1>3, <1>4, SeqEqual
  <1> QED BY <1>2, <1>5, AppendIsConcat

LEMMA FiveInOrder ==
  ASSUME NEW a, NEW b, NEW c, NEW d, NEW e
  PROVE  /\ <<a>> \o <<b>> = <<a, b>> /\ <<a, b>> \o <<c>> = <<a, b, c>>
         /\ <<a, b, c>> \o <<d>> = <<a, b, c, d>> /\ <<a, b, c, d>> \o <<e>> = <<a, b, c, d, e>>
  <1>1. PICK A : A = {a, b, c, d, e}
    OBVIOUS
  <1>2. a \in A /\ b \in A /\ c \in A /\ d \in A /\ e \in A
    BY <1>1
  <1>3. ASSUME NEW s, s = <<a>> PROVE s \in Seq(A) /\ Len(s) = 1 /\ s[1] = a
    BY <1>2, <1>3
  <1>4. ASSUME NEW s, s = <<a, b>> PROVE s \in Seq(A) /\ Len(s) = 2 /\ s[1] = a /\ s[2] = b
    BY <1>2, <1>4
  <1>5. ASSUME NEW s, s = <<a, b, c>> PROVE s \in Seq(A) /\ Len(s) = 3 /\ s[1] = a /\ s[2] = b /\ s[3] = c
    BY <1>2, <1>5
  <1>6. ASSUME NEW s, s = <<a, b, c, d>> PROVE s \in Seq(A) /\ Len(s) = 4 /\ s[1] = a /\ s[2] = b /\ s[3] = c /\ s[4] = d
    BY <1>2, <1>6
  <1>7. ASSUME NEW s, s = <<a, b, c, d, e>> PROVE s \in Seq(A) /\ Len(s) = 5 /\ s[1] = a /\ s[2] = b /\ s[3] = c /\ s[4] = d /\ s[5] = e
    BY <1>2, <1>7
  <1>8. <<a>> \o <<b>> = <<a, b>>
    <2>1. PICK s : s = <<a>>
      OBVIOUS
    <2>2. PICK t : t = <<a, b>>
      OBVIOUS
    <2>3. s \in Seq(A) /\ t \in Seq(A) /\ Len(s) = 1 /\ Len(t) = 2 /\ t[2] = b
      BY <1>3, <1>4, <2>1, <2>2
    <2>4. \A i \in 1 .. 1 : i = 1
      OBVIOUS
    <2>5. t[1] = s[1]
      BY <1>3, <1>4, <2>1, <2>2
    <2>6. \A i \in 1 .. 1 : t[i] = s[i]
      BY <2>4, <2>5
    <2>7. 2 = 1 + 1
      OBVIOUS
    <2>8. s \o <<b>> = t
      BY <1>2, <2>3, <2>6, <2>7, OneMore
    <2> QED BY <2>1, <2>2, <2>8
  <1>9. <<a, b>> \o <<c>> = <<a, b, c>>
    <2>1. PICK s : s = <<a, b>>
      OBVIOUS
    <2>2. PICK t : t = <<a, b, c>>
      OBVIOUS
    <2>3. s \in Seq(A) /\ t \in Seq(A) /\ Len(s) = 2 /\ Len(t) = 3 /\ t[3] = c
      BY <1>4, <1>5, <2>1, <2>2
    <2>4. \A i \in 1 .. 2 : i = 1 \/ i = 2
      OBVIOUS
    <2>5. t[1] = s[1] /\ t[2] = s[2]
      BY <1>4, <1>5, <2>1, <2>2
    <2>6. \A i \in 1 .. 2 : t[i] = s[i]
      BY <2>4, <2>5
    <2>7. 3 = 2 + 1
      OBVIOUS
    <2>8. s \o <<c>> = t
      BY <1>2, <2>3, <2>6, <2>7, OneMore
    <2> QED BY <2>1, <2>2, <2>8
  <1>10. <<a, b, c>> \o <<d>> = <<a, b, c, d>>
    <2>1. PICK s : s = <<a, b, c>>
      OBVIOUS
    <2>2. PICK t : t = <<a, b, c, d>>
      OBVIOUS
    <2>3. s \in Seq(A) /\ t \in Seq(A) /\ Len(s) = 3 /\ Len(t) = 4 /\ t[4] = d
      BY <1>5, <1>6, <2>1, <2>2
    <2>4. \A i \in 1 .. 3 : i = 1 \/ i = 2 \/ i = 3
      OBVIOUS
    <2>5. t[1] = s[1] /\ t[2] = s[2] /\ t[3] = s[3]
      BY <1>5, <1>6, <2>1, <2>2
    <2>6. \A i \in 1 .. 3 : t[i] = s[i]
      BY <2>4, <2>5
    <2>7. 4 = 3 + 1
      OBVIOUS
    <2>8. s \o <<d>> = t
      BY <1>2, <2>3, <2>6, <2>7, OneMore
    <2> QED BY <2>1, <2>2, <2>8
  <1>11. <<a, b, c, d>> \o <<e>> = <<a, b, c, d, e>>
    <2>1. PICK s : s = <<a, b, c, d>>
      OBVIOUS
    <2>2. PICK t : t = <<a, b, c, d, e>>
      OBVIOUS
    <2>3. s \in Seq(A) /\ t \in Seq(A) /\ Len(s) = 4 /\ Len(t) = 5 /\ t[5] = e
      BY <1>6, <1>7, <2>1, <2>2
    <2>4. \A i \in 1 .. 4 : i = 1 \/ i = 2 \/ i = 3 \/ i = 4
      OBVIOUS
    <2>5. t[1] = s[1] /\ t[2] = s[2] /\ t[3] = s[3] /\ t[4] = s[4]
      BY <1>6, <1>7, <2>1, <2>2
    <2>6. \A i \in 1 .. 4 : t[i] = s[i]
      BY <2>4, <2>5
    <2>7. 5 = 4 + 1
      OBVIOUS
    <2>8. s \o <<e>> = t
      BY <1>2, <2>3, <2>6, <2>7, OneMore
    <2> QED BY <2>1, <2>2, <2>8
  <1> QED BY <1>8, <1>9, <1>10, <1>11

\* Over the sequences, with a set for the predicate: one element after the other.
LEMMA SeqSet ==
  ASSUME NEW A, NEW F, <<>> \in F, \A s \in Seq(A), x \in A : s \in F => Append(s, x) \in F
  PROVE  Seq(A) \subseteq F
  <1>1. PICK N : N = {n \in Nat : \A s \in Seq(A) : Len(s) = n => s \in F}
    OBVIOUS
  <1>2. 0 \in N
    <2>1. \A s \in Seq(A) : Len(s) = 0 => s = <<>>
      BY EmptySeq
    <2> QED BY <1>1, <2>1
  <1>3. ASSUME NEW n \in Nat, n \in N PROVE n + 1 \in N
    <2>1. ASSUME NEW s \in Seq(A), Len(s) = n + 1 PROVE s \in F
      <3>1. s # <<>>
        BY <2>1, EmptySeq
      <3>2. PICK t \in Seq(A), x \in A : s = Append(t, x)
        BY <3>1, SequenceEmptyOrAppend
      <3>3. Len(t) \in Nat /\ Len(s) = Len(t) + 1
        BY <3>2, AppendProperties, LenProperties
      <3>4. Len(t) = n
        BY <2>1, <3>3
      <3> QED BY <1>1, <1>3, <3>2, <3>4
    <2> QED BY <1>1, <2>1
  <1>4. Nat \subseteq N
    BY <1>2, <1>3, NatSet
  <1>5. \A s \in Seq(A) : Len(s) \in Nat
    BY LenProperties
  <1> QED BY <1>1, <1>4, <1>5

-----------------------------------------------------------------------------
(* What passes a filter.                                                   *)

Filters(f, s, P) ==
  f = [i \in 0 .. Len(s) |-> IF i = 0 THEN <<>>
                             ELSE IF s[i] \in P THEN Append(f[i - 1], s[i]) ELSE f[i - 1]]

LEMMA FilterIs == \A s, P : filter(s, P) = (CHOOSE f : Filters(f, s, P))[Len(s)]
  BY DEF filter, Filters

LEMMA FilterEmpty == ASSUME NEW P PROVE filter(<<>>, P) = <<>>
  <1>1. Len(<<>>) = 0 /\ 0 .. 0 = {0}
    OBVIOUS
  <1>2. PICK f : f = [i \in 0 .. 0 |-> <<>>]
    OBVIOUS
  <1>3. Filters(f, <<>>, P)
    BY <1>1, <1>2 DEF Filters
  <1>4. Filters(CHOOSE g : Filters(g, <<>>, P), <<>>, P)
    BY <1>3
  <1>5. PICK g : g = CHOOSE h : Filters(h, <<>>, P)
    OBVIOUS
  <1>6. g[0] = <<>>
    BY <1>1, <1>4, <1>5 DEF Filters
  <1> QED BY <1>1, <1>5, <1>6, FilterIs

\* The recursion has one solution, and a longer sequence begins alike.
LEMMA FiltersExist ==
  ASSUME NEW A, NEW P, NEW s \in Seq(A)
  PROVE  \E f : Filters(f, s, P)
  <1>1. PICK F : F = {t \in Seq(A) : \E f : Filters(f, t, P)}
    OBVIOUS
  <1>2. <<>> \in F
    <2>1. PICK f : f = [i \in 0 .. 0 |-> <<>>]
      OBVIOUS
    <2>2. Len(<<>>) = 0 /\ 0 .. 0 = {0} /\ <<>> \in Seq(A)
      BY EmptySeq
    <2>3. Filters(f, <<>>, P)
      BY <2>1, <2>2 DEF Filters
    <2> QED BY <1>1, <2>2, <2>3
  <1>3. ASSUME NEW t \in Seq(A), NEW x \in A, t \in F PROVE Append(t, x) \in F
    <2>1. PICK h : Filters(h, t, P)
      BY <1>1, <1>3
    <2>2. PICK n \in Nat : n = Len(t)
      BY LenProperties
    <2>10. PICK u : u = Append(t, x)
      OBVIOUS
    <2>3. u \in Seq(A) /\ Len(u) = n + 1 /\ u[n + 1] = x /\ \A i \in 1 .. n : u[i] = t[i]
      BY <2>2, <2>10, AppendProperties
    <2>4. PICK f : f = [i \in 0 .. n + 1 |-> IF i = n + 1 THEN IF x \in P THEN Append(h[n], x) ELSE h[n] ELSE h[i]]
      OBVIOUS
    <2>5. f[0] = <<>>
      BY <2>1, <2>2, <2>10, <2>4 DEF Filters
    <2>6. ASSUME NEW i \in 1 .. n + 1
          PROVE  f[i] = IF u[i] \in P THEN Append(f[i - 1], u[i]) ELSE f[i - 1]
      <3>1. CASE i = n + 1
        <4>1. f[i - 1] = h[n]
          BY <2>4, <3>1
        <4> QED BY <2>3, <2>4, <3>1, <4>1
      <3>2. CASE i # n + 1
        <4>1. i \in 1 .. n /\ i \in 0 .. n + 1 /\ i - 1 \in 0 .. n + 1 /\ i - 1 # n + 1 /\ i # 0 /\ i \in 0 .. n
          BY <3>2
        <4>2. f[i] = h[i] /\ f[i - 1] = h[i - 1] /\ u[i] = t[i]
          BY <2>3, <2>4, <3>2, <4>1
        <4>3. h[i] = IF t[i] \in P THEN Append(h[i - 1], t[i]) ELSE h[i - 1]
          BY <2>1, <2>2, <2>10, <4>1 DEF Filters
        <4> QED BY <4>2, <4>3
      <3> QED BY <3>1, <3>2
    <2>7. ASSUME NEW i \in 0 .. n + 1, i # 0 PROVE i \in 1 .. n + 1
      BY <2>7
    <2>8. f = [i \in 0 .. n + 1 |-> f[i]]
      BY <2>4
    <2>9. Filters(f, u, P)
      BY <2>3, <2>5, <2>6, <2>7, <2>8 DEF Filters
    <2> QED BY <1>1, <2>2, <2>10, <2>3, <2>9
  <1>4. Seq(A) \subseteq F
    BY <1>2, <1>3, SeqSet
  <1> QED BY <1>1, <1>4

LEMMA FiltersAgree ==
  ASSUME NEW A, NEW P, NEW s \in Seq(A), NEW x \in A,
         NEW f, Filters(f, s, P), NEW h, Filters(h, Append(s, x), P)
  PROVE  h[Len(s)] = f[Len(s)]
  <1>1. PICK n \in Nat : n = Len(s)
    BY LenProperties
  <1>10. PICK u : u = Append(s, x)
    OBVIOUS
  <1>2. Len(u) = n + 1 /\ \A i \in 1 .. n : u[i] = s[i]
    BY <1>1, <1>10, AppendProperties
  <1>3. PICK N : N = {i \in Nat : i <= n => h[i] = f[i]}
    OBVIOUS
  <1>4. 0 \in N
    BY <1>1, <1>10, <1>2, <1>3 DEF Filters
  <1>5. ASSUME NEW i \in Nat, i \in N PROVE i + 1 \in N
    <2>1. ASSUME i + 1 <= n PROVE h[i + 1] = f[i + 1]
      <3>1. PICK j : j = i + 1
        OBVIOUS
      <3>2. j \in 1 .. n /\ j # 0 /\ j - 1 = i /\ j \in 0 .. n /\ j \in 0 .. n + 1
        BY <2>1, <3>1
      <3>3. h[j] = IF u[j] \in P THEN Append(h[j - 1], u[j]) ELSE h[j - 1]
        BY <1>1, <1>10, <1>2, <3>2 DEF Filters
      <3>4. f[j] = IF s[j] \in P THEN Append(f[j - 1], s[j]) ELSE f[j - 1]
        BY <1>1, <1>10, <3>2 DEF Filters
      <3>5. h[i] = f[i]
        BY <1>3, <1>5, <2>1
      <3> QED BY <1>2, <3>1, <3>2, <3>3, <3>4, <3>5
    <2> QED BY <1>3, <2>1
  <1>6. Nat \subseteq N
    BY <1>4, <1>5, NatSet
  <1> QED BY <1>1, <1>10, <1>3, <1>6

\* One element more passes, or does not.
LEMMA FilterAppend ==
  ASSUME NEW A, NEW P, NEW s \in Seq(A), NEW x \in A
  PROVE  /\ x \in P => filter(Append(s, x), P) = Append(filter(s, P), x)
         /\ x \notin P => filter(Append(s, x), P) = filter(s, P)
  <1>1. PICK n \in Nat : n = Len(s)
    BY LenProperties
  <1>10. PICK u : u = Append(s, x)
    OBVIOUS
  <1>2. u \in Seq(A) /\ Len(u) = n + 1 /\ u[n + 1] = x
    BY <1>1, <1>10, AppendProperties
  <1>3. PICK f : Filters(f, s, P) /\ filter(s, P) = f[n]
    BY <1>1, <1>10, FiltersExist, FilterIs
  <1>4. PICK h : Filters(h, u, P) /\ filter(u, P) = h[n + 1]
    BY <1>2, FiltersExist, FilterIs
  <1>5. h[n] = f[n]
    BY <1>1, <1>10, <1>3, <1>4, FiltersAgree
  <1>6. n + 1 # 0 /\ (n + 1) - 1 = n /\ n + 1 \in 0 .. n + 1
    OBVIOUS
  <1>7. h[n + 1] = IF u[n + 1] \in P THEN Append(h[n], u[n + 1]) ELSE h[n]
    BY <1>2, <1>4, <1>6 DEF Filters
  <1> QED BY <1>1, <1>10, <1>2, <1>3, <1>4, <1>5, <1>7

LEMMA FilterTyped ==
  ASSUME NEW A, NEW P, NEW s \in Seq(A)
  PROVE  filter(s, P) \in Seq(A)
  <1>1. PICK F : F = {t \in Seq(A) : filter(t, P) \in Seq(A)}
    OBVIOUS
  <1>2. <<>> \in F
    BY <1>1, FilterEmpty, EmptySeq
  <1>3. ASSUME NEW t \in Seq(A), NEW x \in A, t \in F PROVE Append(t, x) \in F
    <2>1. filter(t, P) \in Seq(A) /\ Append(t, x) \in Seq(A) /\ Append(filter(t, P), x) \in Seq(A)
      BY <1>1, <1>3, AppendProperties
    <2>2. CASE x \in P
      BY <1>1, <2>1, <2>2, FilterAppend
    <2>3. CASE x \notin P
      BY <1>1, <2>1, <2>3, FilterAppend
    <2> QED BY <2>2, <2>3
  <1>4. Seq(A) \subseteq F
    BY <1>2, <1>3, SeqSet
  <1> QED BY <1>1, <1>4

LEMMA InFilter ==
  ASSUME NEW A, NEW P, NEW s \in Seq(A), NEW y
  PROVE  In(y, filter(s, P)) <=> In(y, s) /\ y \in P
  <1>1. PICK F : F = {t \in Seq(A) : In(y, filter(t, P)) <=> In(y, t) /\ y \in P}
    OBVIOUS
  <1>2. <<>> \in F
    <2>1. ~ In(y, <<>>) /\ <<>> \in Seq(A)
      BY EmptySeq DEF In
    <2> QED BY <1>1, <2>1, FilterEmpty
  <1>3. ASSUME NEW t \in Seq(A), NEW x \in A, t \in F PROVE Append(t, x) \in F
    <2>1. Append(t, x) \in Seq(A) /\ filter(t, P) \in Seq(A)
      BY AppendProperties, FilterTyped
    <2>2. In(y, Append(t, x)) <=> In(y, t) \/ y = x
      BY InAppend
    <2>3. In(y, Append(filter(t, P), x)) <=> In(y, filter(t, P)) \/ y = x
      BY <2>1, InAppend
    <2>4. In(y, filter(Append(t, x), P)) <=> In(y, filter(t, P)) \/ (y = x /\ x \in P)
      <3>1. CASE x \in P
        BY <2>3, <3>1, FilterAppend
      <3>2. CASE x \notin P
        BY <3>2, FilterAppend
      <3> QED BY <3>1, <3>2
    <2> QED BY <1>1, <1>3, <2>1, <2>2, <2>4
  <1>4. Seq(A) \subseteq F
    BY <1>2, <1>3, SeqSet
  <1> QED BY <1>1, <1>4

\* What passes depends on what is in the sequence only.
LEMMA FilterSame ==
  ASSUME NEW A, NEW P, NEW Q, NEW s \in Seq(A), \A y : In(y, s) => (y \in P <=> y \in Q)
  PROVE  filter(s, P) = filter(s, Q)
  <1>1. PICK F : F = {t \in Seq(A) : (\A y : In(y, t) => (y \in P <=> y \in Q)) => filter(t, P) = filter(t, Q)}
    OBVIOUS
  <1>2. <<>> \in F
    BY <1>1, FilterEmpty, EmptySeq
  <1>3. ASSUME NEW t \in Seq(A), NEW x \in A, t \in F PROVE Append(t, x) \in F
    <2>1. Append(t, x) \in Seq(A) /\ \A y : In(y, Append(t, x)) <=> In(y, t) \/ y = x
      BY AppendProperties, InAppend
    <2>2. ASSUME \A y : In(y, Append(t, x)) => (y \in P <=> y \in Q)
          PROVE  filter(Append(t, x), P) = filter(Append(t, x), Q)
      <3>1. filter(t, P) = filter(t, Q) /\ (x \in P <=> x \in Q)
        BY <1>1, <1>3, <2>1, <2>2
      <3>2. CASE x \in P
        BY <3>1, <3>2, FilterAppend
      <3>3. CASE x \notin P
        BY <3>1, <3>3, FilterAppend
      <3> QED BY <3>2, <3>3
    <2> QED BY <1>1, <2>1, <2>2
  <1>4. Seq(A) \subseteq F
    BY <1>2, <1>3, SeqSet
  <1> QED BY <1>1, <1>4

LEMMA FilterNone ==
  ASSUME NEW A, NEW s \in Seq(A)
  PROVE  filter(s, {}) = <<>>
  <1>1. PICK F : F = {t \in Seq(A) : filter(t, {}) = <<>>}
    OBVIOUS
  <1>2. <<>> \in F
    BY <1>1, FilterEmpty, EmptySeq
  <1>3. ASSUME NEW t \in Seq(A), NEW x \in A, t \in F PROVE Append(t, x) \in F
    BY <1>1, <1>3, FilterAppend, AppendProperties
  <1>4. Seq(A) \subseteq F
    BY <1>2, <1>3, SeqSet
  <1> QED BY <1>1, <1>4

LEMMA FilterAll ==
  ASSUME NEW A, NEW s \in Seq(A)
  PROVE  filter(s, A) = s
  <1>1. PICK F : F = {t \in Seq(A) : filter(t, A) = t}
    OBVIOUS
  <1>2. <<>> \in F
    BY <1>1, FilterEmpty, EmptySeq
  <1>3. ASSUME NEW t \in Seq(A), NEW x \in A, t \in F PROVE Append(t, x) \in F
    BY <1>1, <1>3, FilterAppend, AppendProperties
  <1>4. Seq(A) \subseteq F
    BY <1>2, <1>3, SeqSet
  <1> QED BY <1>1, <1>4

\* Two filters, one behind the other.
LEMMA FilterAgain ==
  ASSUME NEW A, NEW P, NEW Q, NEW s \in Seq(A)
  PROVE  filter(filter(s, P), Q) = filter(s, P \cap Q)
  <1>1. PICK F : F = {t \in Seq(A) : filter(filter(t, P), Q) = filter(t, P \cap Q)}
    OBVIOUS
  <1>2. <<>> \in F
    BY <1>1, FilterEmpty, EmptySeq
  <1>3. ASSUME NEW t \in Seq(A), NEW x \in A, t \in F PROVE Append(t, x) \in F
    <2>1. Append(t, x) \in Seq(A) /\ filter(t, P) \in Seq(A) /\ filter(filter(t, P), Q) = filter(t, P \cap Q)
      BY <1>1, <1>3, AppendProperties, FilterTyped
    <2>2. filter(filter(Append(t, x), P), Q) = filter(Append(t, x), P \cap Q)
      <3>1. CASE x \in P /\ x \in Q
        <4>1. filter(Append(filter(t, P), x), Q) = Append(filter(filter(t, P), Q), x)
          <5>1. PICK h \in Seq(A) : h = filter(t, P)
            BY <2>1
          <5>2. filter(Append(h, x), Q) = Append(filter(h, Q), x)
            BY <3>1, FilterAppend
          <5> QED BY <5>1, <5>2
        <4>2. filter(Append(t, x), P) = Append(filter(t, P), x)
          BY <3>1, FilterAppend
        <4>3. filter(Append(t, x), P \cap Q) = Append(filter(t, P \cap Q), x)
          BY <3>1, FilterAppend
        <4> QED BY <2>1, <4>1, <4>2, <4>3
      <3>2. CASE x \in P /\ x \notin Q
        <4>1. filter(Append(filter(t, P), x), Q) = filter(filter(t, P), Q)
          BY <2>1, <3>2, FilterAppend
        <4>2. filter(Append(t, x), P) = Append(filter(t, P), x)
          BY <3>2, FilterAppend
        <4>3. filter(Append(t, x), P \cap Q) = filter(t, P \cap Q)
          BY <3>2, FilterAppend
        <4> QED BY <2>1, <4>1, <4>2, <4>3
      <3>3. CASE x \notin P
        <4>1. filter(Append(t, x), P) = filter(t, P)
          BY <3>3, FilterAppend
        <4>2. filter(Append(t, x), P \cap Q) = filter(t, P \cap Q)
          BY <3>3, FilterAppend
        <4> QED BY <2>1, <4>1, <4>2
      <3> QED BY <3>1, <3>2, <3>3
    <2> QED BY <1>1, <2>1, <2>2
  <1>4. Seq(A) \subseteq F
    BY <1>2, <1>3, SeqSet
  <1> QED BY <1>1, <1>4

LEMMA FilterConcat ==
  ASSUME NEW A, NEW P, NEW s \in Seq(A), NEW t \in Seq(A)
  PROVE  filter(s \o t, P) = filter(s, P) \o filter(t, P)
  <1>1. PICK F : F = {u \in Seq(A) : filter(s \o u, P) = filter(s, P) \o filter(u, P)}
    OBVIOUS
  <1>2. <<>> \in F
    BY <1>1, FilterEmpty, FilterTyped, EmptySeq, ConcatEmptySeq
  <1>3. ASSUME NEW u \in Seq(A), NEW x \in A, u \in F PROVE Append(u, x) \in F
    <2>1. \A a, b \in Seq(A) : a \o b \in Seq(A) /\ a \o Append(b, x) = Append(a \o b, x)
      <3>1. ASSUME NEW a \in Seq(A), NEW b \in Seq(A) PROVE a \o Append(b, x) = Append(a \o b, x)
        <4>1. <<x>> \in Seq(A) /\ a \o b \in Seq(A)
          BY ConcatProperties
        <4> QED BY <4>1, AppendIsConcat, ConcatAssociative
      <3> QED BY <3>1, ConcatProperties
    <2>2. Append(u, x) \in Seq(A) /\ filter(s, P) \in Seq(A) /\ filter(u, P) \in Seq(A)
      BY AppendProperties, FilterTyped
    <2>3. filter(s \o u, P) = filter(s, P) \o filter(u, P) /\ s \o u \in Seq(A)
      BY <1>1, <1>3, <2>1
    <2>4. filter(s \o Append(u, x), P) = filter(s, P) \o filter(Append(u, x), P)
      <3>1. s \o Append(u, x) = Append(s \o u, x)
        BY <2>1
      <3>2. CASE x \in P
        <4>1. filter(Append(s \o u, x), P) = Append(filter(s, P) \o filter(u, P), x)
          BY <2>3, <3>2, FilterAppend
        <4>2. filter(Append(u, x), P) = Append(filter(u, P), x)
          BY <3>2, FilterAppend
        <4>3. filter(s, P) \o Append(filter(u, P), x) = Append(filter(s, P) \o filter(u, P), x)
          BY <2>1, <2>2
        <4> QED BY <3>1, <4>1, <4>2, <4>3
      <3>3. CASE x \notin P
        <4>1. filter(Append(s \o u, x), P) = filter(s, P) \o filter(u, P)
          BY <2>3, <3>3, FilterAppend
        <4>2. filter(Append(u, x), P) = filter(u, P)
          BY <3>3, FilterAppend
        <4> QED BY <3>1, <4>1, <4>2
      <3> QED BY <3>2, <3>3
    <2> QED BY <1>1, <2>2, <2>4
  <1>4. Seq(A) \subseteq F
    BY <1>2, <1>3, SeqSet
  <1> QED BY <1>1, <1>4

\* What passes one of two filters that have nothing in common.
LEMMA FilterSplit ==
  ASSUME NEW A, NEW P, NEW Q, P \cap Q = {}, NEW s \in Seq(A)
  PROVE  Len(filter(s, P \cup Q)) = Len(filter(s, P)) + Len(filter(s, Q))
  <1>1. PICK F : F = {t \in Seq(A) : Len(filter(t, P \cup Q)) = Len(filter(t, P)) + Len(filter(t, Q))}
    OBVIOUS
  <1>2. <<>> \in F
    BY <1>1, FilterEmpty, EmptySeq
  <1>3. ASSUME NEW t \in Seq(A), NEW x \in A, t \in F PROVE Append(t, x) \in F
    <2>1. /\ Append(t, x) \in Seq(A)
          /\ \A R : Len(filter(t, R)) \in Nat /\ Len(Append(filter(t, R), x)) = Len(filter(t, R)) + 1
      BY FilterTyped, AppendProperties, LenProperties
    <2>2. Len(filter(t, P \cup Q)) = Len(filter(t, P)) + Len(filter(t, Q))
      BY <1>1, <1>3
    <2>3. \A R : Len(filter(Append(t, x), R)) = Len(filter(t, R)) + IF x \in R THEN 1 ELSE 0
      <3>1. ASSUME NEW R, x \in R PROVE Len(filter(Append(t, x), R)) = Len(filter(t, R)) + 1
        BY <2>1, <3>1, FilterAppend
      <3>2. ASSUME NEW R, x \notin R PROVE Len(filter(Append(t, x), R)) = Len(filter(t, R)) + 0
        BY <2>1, <3>2, FilterAppend
      <3> QED BY <3>1, <3>2
    <2>4. x \in P \cup Q <=> (x \in P /\ x \notin Q) \/ (x \in Q /\ x \notin P)
      OBVIOUS
    <2>5. Len(filter(Append(t, x), P \cup Q)) = Len(filter(Append(t, x), P)) + Len(filter(Append(t, x), Q))
      BY <2>1, <2>2, <2>3, <2>4
    <2> QED BY <1>1, <2>1, <2>5
  <1>4. Seq(A) \subseteq F
    BY <1>2, <1>3, SeqSet
  <1> QED BY <1>1, <1>4

\* What passes comes from different places, in their order.
Before(x, y, s) == \E a, b \in DOMAIN s : a < b /\ s[a] = x /\ s[b] = y

LEMMA FilterOrder ==
  ASSUME NEW A, NEW P, NEW s \in Seq(A)
  PROVE  \A i, j \in DOMAIN filter(s, P) : i < j => Before(filter(s, P)[i], filter(s, P)[j], s)
  <1>1. PICK F : F = {t \in Seq(A) : \A i, j \in DOMAIN filter(t, P) :
                                       i < j => Before(filter(t, P)[i], filter(t, P)[j], t)}
    OBVIOUS
  <1>2. <<>> \in F
    <2>1. \A i \in DOMAIN <<>> : FALSE
      OBVIOUS
    <2> QED BY <1>1, <2>1, FilterEmpty, EmptySeq
  <1>3. ASSUME NEW t \in Seq(A), NEW x \in A, t \in F PROVE Append(t, x) \in F
    <2>1. PICK n \in Nat : n = Len(t)
      BY LenProperties
    <2>2. PICK u : u = Append(t, x)
      OBVIOUS
    <2>3. /\ u \in Seq(A) /\ DOMAIN t = 1 .. n /\ DOMAIN u = 1 .. n + 1 /\ u[n + 1] = x
          /\ \A i \in 1 .. n : u[i] = t[i]
      BY <2>1, <2>2, AppendProperties, LenProperties
    <2>4. ASSUME NEW y, NEW z, Before(y, z, t) PROVE Before(y, z, u)
      BY <2>3, <2>4 DEF Before
    <2>5. PICK f : f = filter(t, P)
      OBVIOUS
    <2>6. f \in Seq(A) /\ \A i, j \in DOMAIN f : i < j => Before(f[i], f[j], t)
      BY <1>1, <1>3, <2>5, FilterTyped
    <2>7. PICK m \in Nat : m = Len(f)
      BY <2>6, LenProperties
    <2>8. DOMAIN f = 1 .. m
      BY <2>6, <2>7, LenProperties
    <2>9. CASE x \in P
      <3>1. PICK g : g = Append(f, x)
        OBVIOUS
      <3>2. filter(u, P) = g
        BY <2>2, <2>5, <2>9, <3>1, FilterAppend
      <3>3. DOMAIN g = 1 .. m + 1 /\ g[m + 1] = x /\ \A i \in 1 .. m : g[i] = f[i]
        BY <2>6, <2>7, <3>1, AppendProperties, LenProperties
      <3>4. ASSUME NEW i \in 1 .. m + 1, NEW j \in 1 .. m + 1, i < j PROVE Before(g[i], g[j], u)
        <4>1. CASE j = m + 1
          <5>1. i \in 1 .. m /\ g[i] = f[i]
            BY <3>3, <3>4, <4>1
          <5>2. In(f[i], f)
            BY <2>8, <5>1 DEF In
          <5>3. In(f[i], t)
            BY <2>5, <5>2, InFilter
          <5>4. PICK a \in 1 .. n : t[a] = f[i]
            BY <2>3, <5>3 DEF In
          <5>5. a \in DOMAIN u /\ n + 1 \in DOMAIN u /\ a < n + 1 /\ u[a] = g[i] /\ u[n + 1] = g[j]
            BY <2>3, <3>3, <4>1, <5>1, <5>4
          <5> QED BY <5>5 DEF Before
        <4>2. CASE j # m + 1
          <5>1. i \in 1 .. m /\ j \in 1 .. m
            BY <3>4, <4>2
          <5> QED BY <2>4, <2>6, <2>8, <3>3, <3>4, <5>1
        <4> QED BY <4>1, <4>2
      <3> QED BY <1>1, <2>2, <2>3, <3>2, <3>3, <3>4
    <2>10. CASE x \notin P
      <3>1. filter(u, P) = f
        BY <2>2, <2>5, <2>10, FilterAppend
      <3> QED BY <1>1, <2>2, <2>3, <2>4, <2>6, <3>1
    <2> QED BY <2>9, <2>10
  <1>4. Seq(A) \subseteq F
    BY <1>2, <1>3, SeqSet
  <1> QED BY <1>1, <1>4
=============================================================================
