--------------------------- MODULE SolutionProofs ---------------------------
(***************************************************************************)
(* Proofs about Solution and Normalization, for any files, rows and        *)
(* submissions, any number of actions and hands and any total: what an     *)
(* import may store, what a reader sees of it and what a hand scores.      *)
(*                                                                         *)
(* Sums come first, as the fold of the community modules.  Origin, the     *)
(* inductive invariant, says where the row, the view and the answer come   *)
(* from; the properties follow from it by what the operators compute: an   *)
(* apportionment is fair, the latest checkpoint is the greatest, two       *)
(* distributions of the whole are as similar as they overlap, and rounding *)
(* keeps the order.                                                        *)
(***************************************************************************)
EXTENDS Solution, FiniteSetTheorems, WellFoundedInduction, TLAPS

-----------------------------------------------------------------------------
(* Finite sets.                                                            *)

\* Of any collection of subsets one has no other below it.
LEMMA LeastSubset ==
    ASSUME NEW S, IsFiniteSet(S), NEW C \in SUBSET (SUBSET S), C # {}
    PROVE  \E T \in C : \A U \in C : U \subseteq T => U = T
  <1>1. IsWellFoundedOn(StrictSubsetOrdering(S), SUBSET S)
    BY FS_FiniteSubsetsOfFinite, FS_StrictSubsetOrderingWellFounded, Zenon
  <1>2. PICK T \in C : \A U \in C : ~(<<U, T>> \in StrictSubsetOrdering(S))
    BY <1>1, WFMin, Zenon
  <1>3. QED
    BY <1>2 DEF StrictSubsetOrdering

-----------------------------------------------------------------------------
(* Sums.  The fold of the community modules takes the elements of a set in *)
(* some order; any function that follows its equation is that fold.        *)

Pick(s) == CHOOSE x \in s : TRUE

Adds(F, g, S) == F = [s \in SUBSET S |-> IF s = {} THEN 0 ELSE g[Pick(s)] + F[s \ {Pick(s)}]]

Total2(g, S) == (CHOOSE F : Adds(F, g, S))[S]

LEMMA SumIsFold == ASSUME NEW g, NEW S PROVE SumFunctionOnSet(g, S) = Total2(g, S)
  BY Zenon DEF SumFunctionOnSet, FoldFunctionOnSet, MapThenFoldSet, Adds, Pick, Total2

LEMMA Picks ==
    ASSUME NEW s, s # {}
    PROVE  Pick(s) \in s /\ s \ {Pick(s)} \subseteq s /\ s \ {Pick(s)} # s
  BY DEF Pick

LEMMA AddsValue ==
    ASSUME NEW F, NEW g, NEW S, Adds(F, g, S), NEW s \in SUBSET S
    PROVE  F[s] = IF s = {} THEN 0 ELSE g[Pick(s)] + F[s \ {Pick(s)}]
  BY Zenon DEF Adds

LEMMA AddsAgree ==
    ASSUME NEW S, IsFiniteSet(S), NEW T \in SUBSET S, NEW g, NEW F, Adds(F, g, S), NEW G, Adds(G, g, T)
    PROVE  \A s \in SUBSET T : F[s] = G[s]
  <1> DEFINE Wrong == {s \in SUBSET T : F[s] # G[s]}
  <1>1. SUFFICES ASSUME Wrong # {} PROVE FALSE
    OBVIOUS
  <1>2. Wrong \in SUBSET SUBSET T /\ Wrong # {} /\ IsFiniteSet(T)
    BY <1>1, FS_Subset
  <1>i. \A x : x \in Wrong <=> x \in SUBSET T /\ F[x] # G[x]
    OBVIOUS
  <1> HIDE DEF Wrong
  <1>3. PICK s \in Wrong : \A u \in Wrong : u \subseteq s => u = s
    <2>1. \A A : IsFiniteSet(A) => \A C \in SUBSET SUBSET A : C # {} => \E x \in C : \A u \in C : u \subseteq x => u = x
      BY LeastSubset
    <2>2. QED
      BY <1>2, <2>1
  <1>4. s \in SUBSET T /\ s \in SUBSET S /\ F[s] # G[s]
    BY <1>i
  <1>t. IsFiniteSet(S) /\ Adds(F, g, S) /\ Adds(G, g, T)
    OBVIOUS
  <1>v. /\ F[s] = IF s = {} THEN 0 ELSE g[Pick(s)] + F[s \ {Pick(s)}]
        /\ G[s] = IF s = {} THEN 0 ELSE g[Pick(s)] + G[s \ {Pick(s)}]
    BY <1>4, <1>t, AddsValue, ZenonT(30)
  <1>5. s # {}
    BY <1>4, <1>v, Zenon
  <1>6. s \ {Pick(s)} \subseteq s /\ s \ {Pick(s)} # s
    BY <1>5, Picks, Zenon
  <1>w. s \ {Pick(s)} \in SUBSET T
    BY <1>4, <1>6
  <1>7. F[s \ {Pick(s)}] = G[s \ {Pick(s)}]
    BY <1>3, <1>i, <1>w, <1>6, Zenon
  <1>9. QED
    BY <1>4, <1>5, <1>7, <1>v, Zenon

LEMMA AddsExists == ASSUME NEW S, IsFiniteSet(S), NEW g PROVE \E F : Adds(F, g, S)
  <1> DEFINE Missing == {s \in SUBSET S : ~ \E F : Adds(F, g, s)}
  <1>1. SUFFICES ASSUME Missing # {} PROVE FALSE
    OBVIOUS
  <1>2. Missing \in SUBSET SUBSET S /\ Missing # {} /\ IsFiniteSet(S)
    BY <1>1
  <1>i. \A x : x \in Missing <=> x \in SUBSET S /\ ~ \E F : Adds(F, g, x)
    OBVIOUS
  <1> HIDE DEF Missing
  <1>3. PICK t \in Missing : \A u \in Missing : u \subseteq t => u = t
    <2>1. \A A : IsFiniteSet(A) => \A C \in SUBSET SUBSET A : C # {} => \E x \in C : \A u \in C : u \subseteq x => u = x
      BY LeastSubset
    <2>2. QED
      BY <1>2, <2>1
  <1>4. t \in SUBSET S /\ ~ \E F : Adds(F, g, t)
    BY <1>i, Zenon
  <1>5. ASSUME NEW u \in SUBSET t, u # t PROVE Adds(CHOOSE F : Adds(F, g, u), g, u)
    <2>1. \E F : Adds(F, g, u)
      BY <1>3, <1>4, <1>5 DEF Missing
    <2>2. QED
      BY <2>1, Zenon
  <1> DEFINE V(u) == Total2(g, u)
             F == [u \in SUBSET t |-> IF u = {} THEN 0 ELSE g[Pick(u)] + V(u \ {Pick(u)})]
  <1>6. ASSUME NEW u \in SUBSET t, u # t PROVE F[u] = V(u)
    <2>1. PICK H : H = (CHOOSE I : Adds(I, g, u)) /\ Adds(H, g, u)
      BY <1>5, <1>6, Zenon
    <2>2. V(u) = H[u]
      BY <2>1, Zenon DEF Total2
    <2>3. H[u] = IF u = {} THEN 0 ELSE g[Pick(u)] + H[u \ {Pick(u)}]
      BY <2>1, AddsValue
    <2>4. ASSUME u # {} PROVE H[u \ {Pick(u)}] = V(u \ {Pick(u)})
      <3> DEFINE w == u \ {Pick(u)}
      <3>1. w \in SUBSET u /\ w \in SUBSET t /\ w # t /\ w \in SUBSET w
        BY <1>6, <2>4, Picks
      <3>2. IsFiniteSet(u)
        BY <1>4, FS_Subset
      <3> HIDE DEF w
      <3>3. PICK K : K = (CHOOSE I : Adds(I, g, w)) /\ Adds(K, g, w)
        BY <1>5, <3>1, Zenon
      <3>4. H[w] = K[w]
        BY <2>1, <3>1, <3>2, <3>3, AddsAgree
      <3>5. V(w) = K[w]
        BY <3>3, Zenon DEF Total2
      <3>6. QED
        BY <3>4, <3>5 DEF w
    <2> HIDE DEF V
    <2>5. F[u] = IF u = {} THEN 0 ELSE g[Pick(u)] + V(u \ {Pick(u)})
      BY Zenon
    <2>6. QED
      BY <2>2, <2>3, <2>4, <2>5, Zenon
  <1> HIDE DEF V
  <1>7. ASSUME NEW u \in SUBSET t
        PROVE  F[u] = IF u = {} THEN 0 ELSE g[Pick(u)] + F[u \ {Pick(u)}]
    <2>1. u # {} => F[u \ {Pick(u)}] = V(u \ {Pick(u)})
      <3>1. SUFFICES ASSUME u # {} PROVE F[u \ {Pick(u)}] = V(u \ {Pick(u)})
        OBVIOUS
      <3>2. u \ {Pick(u)} \in SUBSET t /\ u \ {Pick(u)} # t
        BY <3>1, Picks
      <3> HIDE DEF F
      <3>3. QED
        BY <1>6, <3>2
    <2>2. F[u] = IF u = {} THEN 0 ELSE g[Pick(u)] + V(u \ {Pick(u)})
      BY Zenon
    <2> HIDE DEF F
    <2>3. QED
      BY <2>1, <2>2, Zenon
  <1>8. F = [u \in SUBSET t |-> IF u = {} THEN 0 ELSE g[Pick(u)] + F[u \ {Pick(u)}]]
    <2>1. F = [u \in SUBSET t |-> F[u]]
      BY Zenon
    <2> HIDE DEF F
    <2>2. QED
      BY <1>7, <2>1, Zenon
  <1>9. Adds(F, g, t)
    BY <1>8, Zenon DEF Adds
  <1>10. QED
    BY <1>4, <1>9, Zenon

\* The sum over a set is one of its elements and the sum over the others.
LEMMA SumSteps ==
    ASSUME NEW g, NEW S, IsFiniteSet(S)
    PROVE  /\ SumFunctionOnSet(g, {}) = 0
           /\ S # {} => SumFunctionOnSet(g, S) = g[Pick(S)] + SumFunctionOnSet(g, S \ {Pick(S)})
  <1>1. ASSUME NEW T, IsFiniteSet(T)
        PROVE  \E F : F = (CHOOSE G : Adds(G, g, T)) /\ Adds(F, g, T) /\ SumFunctionOnSet(g, T) = F[T]
    BY <1>1, AddsExists, SumIsFold, Zenon DEF Total2
  <1>2. SumFunctionOnSet(g, {}) = 0
    <2>1. PICK F : Adds(F, g, {}) /\ SumFunctionOnSet(g, {}) = F[{}]
      BY <1>1, FS_EmptySet
    <2>2. QED
      BY <2>1, AddsValue
  <1>3. ASSUME S # {} PROVE SumFunctionOnSet(g, S) = g[Pick(S)] + SumFunctionOnSet(g, S \ {Pick(S)})
    <2> DEFINE T == S \ {Pick(S)}
    <2>1. T \in SUBSET S /\ IsFiniteSet(T) /\ T \in SUBSET T /\ S \in SUBSET S
      BY FS_Subset
    <2>2. PICK F : Adds(F, g, S) /\ SumFunctionOnSet(g, S) = F[S]
      BY <1>1
    <2>3. PICK G : Adds(G, g, T) /\ SumFunctionOnSet(g, T) = G[T]
      BY <1>1, <2>1
    <2>4. F[S] = g[Pick(S)] + F[T]
      BY <1>3, <2>1, <2>2, AddsValue
    <2> HIDE DEF T
    <2>a. \A s \in SUBSET T : F[s] = G[s]
      <3>1. T \in SUBSET S /\ Adds(F, g, S) /\ Adds(G, g, T)
        BY <2>1, <2>2, <2>3
      <3>2. QED
        BY <3>1, AddsAgree
    <2>5. F[T] = G[T]
      BY <2>1, <2>a, Zenon
    <2>6. SumFunctionOnSet(g, S) = g[Pick(S)] + SumFunctionOnSet(g, T)
      BY <2>2, <2>3, <2>4, <2>5, Zenon
    <2>7. QED
      BY <2>6, Zenon DEF T
  <1>4. QED
    BY <1>2, <1>3

\* A set of which all smaller subsets are in the collection is in it, too.
Grows(C, S) == \A T \in SUBSET S : (\A U \in SUBSET T : U # T => U \in C) => T \in C

\* A collection that grows with its subsets holds all of them.
LEMMA SubsetsInduction ==
    ASSUME NEW S, IsFiniteSet(S), NEW C, Grows(C, S)
    PROVE  S \in C /\ \A T \in SUBSET S : T \in C
  <1> DEFINE Missing == (SUBSET S) \ C
  <1>1. SUFFICES ASSUME Missing # {} PROVE FALSE
    OBVIOUS
  <1>2. \A A : IsFiniteSet(A) => \A D \in SUBSET SUBSET A : D # {} => \E x \in D : \A u \in D : u \subseteq x => u = x
    BY LeastSubset
  <1>3. PICK T \in Missing : \A U \in Missing : U \subseteq T => U = T
    <2>1. Missing \in SUBSET SUBSET S /\ Missing # {}
      BY <1>1
    <2> HIDE DEF Missing
    <2>2. QED
      BY <1>2, <2>1
  <1>4. T \in SUBSET S /\ T \notin C /\ \A U \in SUBSET T : U # T => U \in C
    <2>1. T \in SUBSET S /\ T \notin C
      OBVIOUS
    <2>2. ASSUME NEW U \in SUBSET T, U # T PROVE U \in C
      <3>1. U \notin Missing
        BY <1>3, <2>2
      <3>2. U \in SUBSET S
        BY <2>1
      <3>3. QED
        BY <3>1, <3>2
    <2>3. QED
      BY <2>1, <2>2
  <1> HIDE DEF Missing
  <1>5. QED
    BY <1>4, Zenon DEF Grows

LEMMA SumType ==
    ASSUME NEW S, IsFiniteSet(S), NEW g, \A x \in S : g[x] \in Int
    PROVE  /\ SumFunctionOnSet(g, S) \in Int
           /\ (\A x \in S : g[x] >= 0) => SumFunctionOnSet(g, S) >= 0
           /\ (\A x \in S : g[x] = 0) => SumFunctionOnSet(g, S) = 0
  <1> DEFINE Sum(T) == SumFunctionOnSet(g, T)
             C == {T \in SUBSET S :
                     /\ Sum(T) \in Int
                     /\ (\A x \in T : g[x] >= 0) => Sum(T) >= 0
                     /\ (\A x \in T : g[x] = 0) => Sum(T) = 0}
  <1>1. ASSUME NEW T \in SUBSET S, \A U \in SUBSET T : U # T => U \in C PROVE T \in C
    <2>1. IsFiniteSet(T)
      BY FS_Subset
    <2>2. /\ Sum({}) = 0
          /\ T # {} => Sum(T) = g[Pick(T)] + Sum(T \ {Pick(T)})
      BY <2>1, SumSteps
    <2>3. CASE T = {}
      BY <2>2, <2>3
    <2>4. CASE T # {}
      <3> DEFINE U == T \ {Pick(T)}
      <3>1. U \in SUBSET T /\ U # T /\ Pick(T) \in T /\ U \in C /\ Sum(T) = g[Pick(T)] + Sum(U)
        BY <1>1, <2>2, <2>4, Picks
      <3> HIDE DEF Sum, U
      <3>2. QED
        BY <3>1
    <2>5. QED
      BY <2>3, <2>4
  <1> HIDE DEF C
  <1>2. \A T \in SUBSET S : T \in C
    <2>1. Grows(C, S)
      BY <1>1, Zenon DEF Grows
    <2>2. QED
      BY <2>1, SubsetsInduction
  <1>3. QED
    BY <1>2 DEF C

\* Sums follow combinations of their terms.
LEMMA SumLinear ==
    ASSUME NEW S, IsFiniteSet(S), NEW f, NEW g, NEW h, NEW a \in Int, NEW b \in Int,
           \A x \in S : f[x] \in Int /\ g[x] \in Int /\ h[x] = a * f[x] + b * g[x]
    PROVE  SumFunctionOnSet(h, S) = a * SumFunctionOnSet(f, S) + b * SumFunctionOnSet(g, S)
  <1> DEFINE F(T) == SumFunctionOnSet(f, T)
             G(T) == SumFunctionOnSet(g, T)
             H(T) == SumFunctionOnSet(h, T)
             C == {T \in SUBSET S : H(T) = a * F(T) + b * G(T)}
  <1>1. ASSUME NEW T \in SUBSET S, \A U \in SUBSET T : U # T => U \in C PROVE T \in C
    <2>1. IsFiniteSet(T)
      BY FS_Subset
    <2>2. /\ F({}) = 0 /\ G({}) = 0 /\ H({}) = 0
          /\ T # {} => F(T) = f[Pick(T)] + F(T \ {Pick(T)})
          /\ T # {} => G(T) = g[Pick(T)] + G(T \ {Pick(T)})
          /\ T # {} => H(T) = h[Pick(T)] + H(T \ {Pick(T)})
      BY <2>1, SumSteps
    <2>3. CASE T = {}
      BY <2>2, <2>3
    <2>4. CASE T # {}
      <3> DEFINE U == T \ {Pick(T)}
                 x == Pick(T)
      <3>1. U \in SUBSET T /\ U # T /\ x \in S /\ IsFiniteSet(U)
        BY <2>1, <2>4, Picks, FS_Subset
      <3>2. F(U) \in Int /\ G(U) \in Int
        BY <3>1, SumType
      <3>3. /\ F(T) = f[x] + F(U) /\ G(T) = g[x] + G(U) /\ H(T) = h[x] + H(U)
            /\ H(U) = a * F(U) + b * G(U)
            /\ f[x] \in Int /\ g[x] \in Int /\ h[x] = a * f[x] + b * g[x]
        BY <1>1, <2>2, <2>4, <3>1
      <3> HIDE DEF F, G, H, U, x
      <3>4. a * (f[x] + F(U)) = a * f[x] + a * F(U) /\ b * (g[x] + G(U)) = b * g[x] + b * G(U)
        BY <3>2, <3>3
      <3>5. /\ a * f[x] \in Int /\ a * F(U) \in Int /\ b * g[x] \in Int /\ b * G(U) \in Int
        BY <3>2, <3>3
      <3>6. H(T) = a * F(T) + b * G(T)
        BY <3>3, <3>4, <3>5
      <3>7. QED
        BY <3>6
    <2>5. QED
      BY <2>3, <2>4
  <1> HIDE DEF C
  <1>2. \A T \in SUBSET S : T \in C
    <2>1. Grows(C, S)
      BY <1>1, Zenon DEF Grows
    <2>2. QED
      BY <2>1, SubsetsInduction
  <1>3. QED
    BY <1>2 DEF C

Combines(h, a, f, b, g, S) ==
    a \in Int /\ b \in Int /\ \A x \in S : f[x] \in Int /\ g[x] \in Int /\ h[x] = a * f[x] + b * g[x]

LEMMA SumCombined ==
    ASSUME NEW S, IsFiniteSet(S), NEW f, NEW g, NEW h, NEW a, NEW b, Combines(h, a, f, b, g, S)
    PROVE  SumFunctionOnSet(h, S) = a * SumFunctionOnSet(f, S) + b * SumFunctionOnSet(g, S)
  BY SumLinear DEF Combines

LEMMA SumScale ==
    ASSUME NEW S, IsFiniteSet(S), NEW f, NEW h, NEW a \in Int, \A x \in S : f[x] \in Int /\ h[x] = a * f[x]
    PROVE  SumFunctionOnSet(h, S) = a * SumFunctionOnSet(f, S)
  <1>1. PICK b \in Int : b = 0
    OBVIOUS
  <1>2. \A x \in S : f[x] \in Int /\ h[x] = a * f[x] + b * f[x]
    BY <1>1
  <1>3. SumFunctionOnSet(h, S) = a * SumFunctionOnSet(f, S) + b * SumFunctionOnSet(f, S)
    <2>1. Combines(h, a, f, b, f, S)
      BY <1>2, Zenon DEF Combines
    <2>2. QED
      BY <2>1, SumCombined
  <1>4. SumFunctionOnSet(f, S) \in Int
    BY SumType
  <1>5. QED
    BY <1>1, <1>3, <1>4

\* Terms that are equal or greater have such a sum.
LEMMA SumCompares ==
    ASSUME NEW S, IsFiniteSet(S), NEW f, NEW g, \A x \in S : f[x] \in Int /\ g[x] \in Int
    PROVE  /\ (\A x \in S : f[x] = g[x]) => SumFunctionOnSet(f, S) = SumFunctionOnSet(g, S)
           /\ (\A x \in S : f[x] <= g[x]) => SumFunctionOnSet(f, S) <= SumFunctionOnSet(g, S)
  <1> DEFINE h == [x \in S |-> 1 * g[x] + (-1) * f[x]]
  <1>1. \A x \in S : h[x] = 1 * g[x] + (-1) * f[x] /\ h[x] = g[x] - f[x] /\ h[x] \in Int
    OBVIOUS
  <1>2. 1 \in Int /\ -1 \in Int
    OBVIOUS
  <1> HIDE DEF h
  <1>3. SumFunctionOnSet(h, S) = 1 * SumFunctionOnSet(g, S) + (-1) * SumFunctionOnSet(f, S)
    <2>1. Combines(h, 1, g, -1, f, S)
      BY <1>1, <1>2, Zenon DEF Combines
    <2>2. QED
      BY <2>1, SumCombined
  <1>4. /\ SumFunctionOnSet(f, S) \in Int /\ SumFunctionOnSet(g, S) \in Int
        /\ (\A x \in S : h[x] >= 0) => SumFunctionOnSet(h, S) >= 0
        /\ (\A x \in S : h[x] = 0) => SumFunctionOnSet(h, S) = 0
    BY <1>1, SumType
  <1>5. /\ (\A x \in S : f[x] = g[x]) => \A x \in S : h[x] = 0
        /\ (\A x \in S : f[x] <= g[x]) => \A x \in S : h[x] >= 0
    BY <1>1
  <1>6. SumFunctionOnSet(h, S) = SumFunctionOnSet(g, S) - SumFunctionOnSet(f, S)
    BY <1>3, <1>4
  <1>7. QED
    BY <1>4, <1>5, <1>6

\* Ones over a set within another count it.
LEMMA SumCounts ==
    ASSUME NEW S, IsFiniteSet(S), NEW B \in SUBSET S, NEW g,
           \A x \in S : g[x] = IF x \in B THEN 1 ELSE 0
    PROVE  SumFunctionOnSet(g, S) = Cardinality(B)
  <1> DEFINE Sum(T) == SumFunctionOnSet(g, T)
             C == {T \in SUBSET S : Sum(T) = Cardinality(T \cap B)}
  <1>1. ASSUME NEW T \in SUBSET S, \A U \in SUBSET T : U # T => U \in C PROVE T \in C
    <2>1. IsFiniteSet(T)
      BY FS_Subset
    <2>2. /\ Sum({}) = 0
          /\ T # {} => Sum(T) = g[Pick(T)] + Sum(T \ {Pick(T)})
      BY <2>1, SumSteps
    <2>3. CASE T = {}
      <3>1. T \cap B = {} /\ Cardinality({}) = 0
        BY <2>3, FS_EmptySet
      <3>2. QED
        BY <2>2, <2>3, <3>1
    <2>4. CASE T # {}
      <3> DEFINE U == T \ {Pick(T)}
                 x == Pick(T)
      <3>1. U \in SUBSET T /\ U # T /\ x \in T /\ Sum(T) = g[x] + Sum(U) /\ Sum(U) = Cardinality(U \cap B)
        BY <1>1, <2>2, <2>4, Picks
      <3>2. IsFiniteSet(T \cap B) /\ U \cap B = (T \cap B) \ {x}
        BY <2>1, FS_Subset
      <3>3. Cardinality(T \cap B) \in Nat
        BY <3>2, FS_CardinalityType
      <3>4. Cardinality((T \cap B) \ {x}) = IF x \in T \cap B THEN Cardinality(T \cap B) - 1 ELSE Cardinality(T \cap B)
        BY <3>2, FS_RemoveElement, Zenon
      <3> HIDE DEF U, Sum, x
      <3>5. Sum(T) = Cardinality(T \cap B)
        <4>1. g[x] = (IF x \in T \cap B THEN 1 ELSE 0)
          BY <3>1
        <4>2. Sum(U) = (IF x \in T \cap B THEN Cardinality(T \cap B) - 1 ELSE Cardinality(T \cap B))
          BY <3>1, <3>2, <3>4, Zenon
        <4>3. QED
          BY <3>1, <3>3, <4>1, <4>2
      <3>6. QED
        BY <3>5
    <2>5. QED
      BY <2>3, <2>4
  <1> HIDE DEF C
  <1>2. S \in C
    <2>1. Grows(C, S)
      BY <1>1, Zenon DEF Grows
    <2>2. QED
      BY <2>1, SubsetsInduction
  <1>3. Sum(S) = Cardinality(S \cap B) /\ S \cap B = B
    BY <1>2 DEF C
  <1>4. QED
    BY <1>3

-----------------------------------------------------------------------------
(* What is stored, shown and answered, and where it comes from.            *)

Sound(spot) == (\E i \in Items : Importable(i) /\ spot = Envelope(i)) \/ spot \in LegacySpots

Origin ==
    /\ item = None \/ item \in Items
    /\ stored # None => Sound(stored)
    /\ Imported => Importable(item) /\ stored = Envelope(item)
    /\ view # None => stored # None /\ view = ReadPublicSpot(stored)
    /\ Scored => /\ view # None /\ hands \in Submissions /\ Admitted(view, hands)
                 /\ answer = Score(stored.strategy, hands)

LEMMA InitOrigin == Init => Origin
  BY DEF Init, Origin, Sound, Imported, Scored, Pending

LEMMA ImportKeepsOrigin == ASSUME Origin, ImportSpot PROVE Origin'
  <1>1. CASE Importable(item)
    BY <1>1 DEF Origin, ImportSpot, Sound, Imported, Scored, Pending
  <1>2. CASE ~Importable(item)
    BY <1>2 DEF Origin, ImportSpot, Sound, Imported, Scored, Pending
  <1>3. QED
    BY <1>1, <1>2

LEMMA ReadKeepsOrigin == ASSUME Origin, Read PROVE Origin'
  BY DEF Origin, Read, Sound, Imported, Scored, Pending

LEMMA SubmitKeepsOrigin == ASSUME Origin, NEW submission \in Submissions, Submit(submission) PROVE Origin'
  <1>1. /\ UNCHANGED <<item, stored, view>> /\ view # None /\ hands' = submission
        /\ answer'.result = "scored" => Admitted(view, submission) /\ answer' = Score(stored.strategy, submission)
    BY DEF Submit
  <1>2. QED
    BY <1>1 DEF Origin, Imported, Scored

LEMMA OriginHolds == Spec => []Origin
  <1>1. ASSUME Origin, [Next]_vars PROVE Origin'
    <2>1. CASE Next
      BY <1>1, <2>1, ImportKeepsOrigin, ReadKeepsOrigin, SubmitKeepsOrigin DEF Next
    <2>2. CASE UNCHANGED vars
      BY <1>1, <2>2 DEF vars, Origin, Imported, Scored
    <2>3. QED
      BY <1>1, <2>1, <2>2
  <1>2. QED
    BY <1>1, InitOrigin, PTL DEF Spec

-----------------------------------------------------------------------------
(* Imports.                                                                *)

LEMMA ResolveIs ==
    ASSUME NEW combo, NEW table
    PROVE  Resolve(combo, table) =
             IF combo \in table THEN combo ELSE IF Reversed(combo) \in table THEN Reversed(combo) ELSE None
  <1> DEFINE I == {i \in 1 .. Len(Variants(combo)) : Variants(combo)[i] \in table}
             first == IF I # {} THEN Min(I) ELSE 0
  <1>1. Resolve(combo, table) = IF first = 0 THEN None ELSE Variants(combo)[first]
    BY Zenon DEF Resolve, SelectInSeq
  <1>2. Len(Variants(combo)) = 2 /\ Variants(combo)[1] = combo /\ Variants(combo)[2] = Reversed(combo)
    BY DEF Variants
  <1>3. /\ 1 \in I <=> combo \in table
        /\ 2 \in I <=> Reversed(combo) \in table
        /\ I \in SUBSET {1, 2}
    BY <1>2
  <1> HIDE DEF I
  <1>4. first = IF 1 \in I THEN 1 ELSE IF 2 \in I THEN 2 ELSE 0
    <2>1. ASSUME I # {} PROVE Min(I) \in I /\ (1 \in I => Min(I) = 1)
      <3>1. \E x \in I : \A y \in I : x <= y
        <4>1. CASE 1 \in I
          BY <1>3, <4>1
        <4>2. CASE 1 \notin I
          <5>1. \A y \in I : y = 2
            BY <1>3, <4>2
          <5>2. QED
            BY <2>1, <5>1
        <4>3. QED
          BY <4>1, <4>2
      <3>2. Min(I) \in I /\ \A y \in I : Min(I) <= y
        BY <3>1, Zenon DEF Min
      <3> DEFINE m == Min(I)
      <3> HIDE DEF m
      <3>3. m \in I /\ m \in {1, 2} /\ \A y \in I : m <= y
        BY <1>3, <3>2 DEF m
      <3>4. 1 \in I => m <= 1
        BY <3>3
      <3>5. QED
        BY <3>3, <3>4 DEF m
    <2>2. I # {} => Min(I) = IF 1 \in I THEN 1 ELSE 2
      BY <1>3, <2>1
    <2>3. I # {} <=> 1 \in I \/ 2 \in I
      BY <1>3
    <2>4. QED
      BY <2>2, <2>3
  <1> HIDE DEF first
  <1>5. CASE combo \in table
    <2>1. first = 1
      BY <1>3, <1>4, <1>5
    <2>2. QED
      BY <1>1, <1>2, <1>5, <2>1
  <1>6. CASE combo \notin table /\ Reversed(combo) \in table
    <2>1. first = 2
      BY <1>3, <1>4, <1>6
    <2>2. QED
      BY <1>1, <1>2, <1>6, <2>1
  <1>7. CASE combo \notin table /\ Reversed(combo) \notin table
    <2>1. first = 0
      BY <1>3, <1>4, <1>7
    <2>2. QED
      BY <1>1, <1>7, <2>1
  <1>8. QED
    BY <1>5, <1>6, <1>7

LEMMA SelectableListed ==
    ASSUME NEW i \in Items, None \notin Selectable(i)
    PROVE  Selectable(i) \subseteq ToSet(i.keys)
  <1>1. ASSUME NEW combo \in Requested(i) PROVE Resolve(combo, ToSet(i.keys)) \in ToSet(i.keys)
    <2>1. Resolve(combo, ToSet(i.keys)) # None
      BY <1>1 DEF Selectable
    <2>2. QED
      BY <2>1, ResolveIs
  <1>2. QED
    BY <1>1 DEF Selectable

-----------------------------------------------------------------------------
(* Division.                                                               *)

LEMMA Division ==
    ASSUME NEW n \in Int, NEW d \in Nat \ {0}
    PROVE  /\ n \div d \in Int /\ n % d \in 0 .. (d - 1) /\ n = d * (n \div d) + (n % d)
         /\ n >= 0 => n \div d >= 0
  OBVIOUS

LEMMA ProductOrder ==
    ASSUME NEW d \in Nat \ {0}, NEW a \in Int, NEW b \in Int
    PROVE  a * d \in Int /\ d * a = a * d /\ (a * d <= b * d <=> a <= b) /\ (a + 1) * d = a * d + d
  <1>1. a * d \in Int /\ d * a = a * d /\ b * d \in Int
    OBVIOUS
  <1>2. (b - a) * d = b * d - a * d
    OBVIOUS
  <1>3. a <= b => (b - a) * d >= 0
    <2>1. SUFFICES ASSUME b - a >= 0 PROVE (b - a) * d >= 0
      OBVIOUS
    <2>2. PICK e \in Nat : e = b - a
      BY <2>1
    <2>3. e * d >= 0
      OBVIOUS
    <2>4. QED
      BY <2>2, <2>3
  <1>4. a > b => (b - a) * d < 0
    <2>1. SUFFICES ASSUME a > b PROVE (b - a) * d < 0
      OBVIOUS
    <2>2. PICK e \in Nat \ {0} : e = a - b
      BY <2>1
    <2>3. e * d > 0
      OBVIOUS
    <2>4. (b - a) * d = -(e * d)
      BY <2>2
    <2>5. QED
      BY <2>3, <2>4
  <1>5. (a + 1) * d = a * d + d
    OBVIOUS
  <1>6. QED
    BY <1>1, <1>2, <1>3, <1>4, <1>5

LEMMA Quotient ==
    ASSUME NEW n \in Int, NEW d \in Nat \ {0}, NEW q \in Int, q * d <= n, n < q * d + d
    PROVE  n \div d = q
  <1>1. /\ n \div d \in Int /\ n % d \in Int /\ 0 <= n % d /\ n % d < d /\ n = d * (n \div d) + (n % d)
    BY Division
  <1> DEFINE p == n \div d
  <1>2. p \in Int /\ n = d * p + (n % d)
    BY <1>1
  <1> HIDE DEF p
  <1>3. /\ d * p = p * d /\ p * d \in Int /\ q * d \in Int
        /\ (p + 1) * d = p * d + d /\ (q + 1) * d = q * d + d
    BY <1>2, ProductOrder
  <1>4. p * d < (q + 1) * d /\ q * d < (p + 1) * d
    BY <1>1, <1>2, <1>3
  <1>5. p < q + 1
    <2>1. (q + 1) * d <= p * d <=> q + 1 <= p
      BY <1>2, ProductOrder
    <2>2. (q + 1) * d \in Int
      BY <1>3
    <2>3. QED
      BY <1>2, <1>3, <1>4, <2>1, <2>2
  <1>6. q < p + 1
    <2>1. (p + 1) * d <= q * d <=> p + 1 <= q
      BY <1>2, ProductOrder
    <2>2. (p + 1) * d \in Int
      BY <1>3
    <2>3. QED
      BY <1>2, <1>3, <1>4, <2>1, <2>2
  <1>7. p = q
    BY <1>2, <1>5, <1>6
  <1>8. QED
    BY <1>7 DEF p

-----------------------------------------------------------------------------
(* Rounding.  The greatest fractions are rounded up, as many as the floors *)
(* leave of the whole.                                                     *)

StrictOrder(R, S) ==
    /\ \A s \in S : <<s, s>> \notin R
    /\ \A s, t \in S : s # t => <<s, t>> \in R \/ <<t, s>> \in R
    /\ \A s, t, u \in S : <<s, t>> \in R /\ <<t, u>> \in R => <<s, u>> \in R

\* As many elements of an ordered set have fewer than k before them as k says.
LEMMA FirstOfRow ==
    ASSUME NEW S, IsFiniteSet(S), NEW R, StrictOrder(R, S), NEW k \in 0 .. Cardinality(S), NEW Before,
           \A s \in S : Before[s] = {t \in S : <<t, s>> \in R}
    PROVE  /\ Cardinality({s \in S : Cardinality(Before[s]) < k}) = k
           /\ \A s, t \in S : <<s, t>> \in R => Cardinality(Before[s]) < Cardinality(Before[t])
  <1> DEFINE n == Cardinality(S)
             rank == [s \in S |-> Cardinality(Before[s])]
             W == {s \in S : Cardinality(Before[s]) < k}
  <1>0. \A s \in S : Before[s] \in SUBSET S /\ \A t : t \in Before[s] <=> t \in S /\ <<t, s>> \in R
    OBVIOUS
  <1>1. n \in Nat /\ k \in Nat /\ k <= n
    BY FS_CardinalityType
  <1>2. \A s \in S : IsFiniteSet(Before[s]) /\ Cardinality(Before[s]) \in Nat
    BY <1>0, FS_Subset, FS_CardinalityType
  <1>3. ASSUME NEW s \in S PROVE Cardinality(Before[s]) <= n - 1
    <2>1. Before[s] \in SUBSET (S \ {s})
      BY <1>0 DEF StrictOrder
    <2>2. IsFiniteSet(S \ {s}) /\ Cardinality(S \ {s}) = n - 1
      BY FS_RemoveElement
    <2> HIDE DEF n
    <2>3. Cardinality(Before[s]) <= Cardinality(S \ {s})
      BY <2>1, <2>2, FS_Subset, Zenon
    <2>4. QED
      BY <2>2, <2>3
  <1>4. ASSUME NEW s \in S, NEW t \in S, <<s, t>> \in R
        PROVE  Cardinality(Before[s]) < Cardinality(Before[t])
    <2>1. Before[s] \cup {s} \in SUBSET Before[t] /\ s \notin Before[s]
      <3>1. \A u \in Before[s] : u \in Before[t]
        BY <1>0, <1>4 DEF StrictOrder
      <3>2. s \in Before[t] /\ s \notin Before[s]
        BY <1>0, <1>4 DEF StrictOrder
      <3>3. QED
        BY <3>1, <3>2
    <2>2. Cardinality(Before[s] \cup {s}) = Cardinality(Before[s]) + 1
      BY <1>2, <2>1, FS_AddElement
    <2>3. Cardinality(Before[s] \cup {s}) <= Cardinality(Before[t])
      BY <1>2, <2>1, FS_Subset
    <2>4. QED
      BY <1>2, <2>2, <2>3
  <1>5. rank \in [S -> 0 .. n - 1] /\ \A s \in S : rank[s] = Cardinality(Before[s])
    <2> HIDE DEF n
    <2>1. QED
      BY <1>1, <1>2, <1>3
  <1>6. W = {s \in S : rank[s] < k}
    BY <1>5
  <1> HIDE DEF rank, W
  <1>7. rank \in Injection(S, 0 .. n - 1)
    <2>1. \A s, t \in S : rank[s] = rank[t] => s = t
      <3>1. SUFFICES ASSUME NEW s \in S, NEW t \in S, s # t PROVE rank[s] # rank[t]
        OBVIOUS
      <3>2. rank[s] \in Int /\ rank[t] \in Int
        BY <1>5
      <3>3. <<s, t>> \in R \/ <<t, s>> \in R
        BY <3>1 DEF StrictOrder
      <3>4. rank[s] < rank[t] \/ rank[t] < rank[s]
        BY <1>4, <1>5, <3>3
      <3>5. QED
        BY <3>2, <3>4
    <2>2. QED
      BY <1>5, <2>1 DEF Injection, IsInjective
  <1>8. rank \in Surjection(S, 0 .. n - 1)
    <2>1. IsFiniteSet(0 .. n - 1) /\ Cardinality(0 .. n - 1) = n
      <3>1. n - 1 \in Int /\ 0 \in Int
        BY <1>1
      <3>2. IsFiniteSet(0 .. n - 1) /\ Cardinality(0 .. n - 1) = (IF 0 > n - 1 THEN 0 ELSE (n - 1) - 0 + 1)
        BY <3>1, FS_Interval, Zenon
      <3> HIDE DEF n
      <3>3. QED
        BY <1>1, <3>2
    <2>2. QED
      BY <1>7, <2>1, FS_Injection
  <1>9. Cardinality(W) = k
    <2> DEFINE part == [s \in W |-> rank[s]]
    <2>1. part \in [W -> 0 .. k - 1]
      BY <1>1, <1>5, <1>6
    <2>2. part \in Injection(W, 0 .. k - 1)
      BY <1>6, <1>7, <2>1 DEF Injection, IsInjective
    <2>3. part \in Surjection(W, 0 .. k - 1)
      <3>1. ASSUME NEW i \in 0 .. k - 1 PROVE \E s \in W : part[s] = i
        <4>1. i \in 0 .. n - 1
          BY <1>1
        <4>2. PICK s \in S : rank[s] = i
          BY <1>8, <4>1 DEF Surjection
        <4>3. s \in W
          BY <1>1, <1>6, <4>2
        <4>4. QED
          BY <4>2, <4>3
      <3>2. QED
        BY <2>1, <3>1 DEF Surjection
    <2>4. IsFiniteSet(0 .. k - 1) /\ Cardinality(0 .. k - 1) = k
      <3>1. k - 1 \in Int /\ 0 \in Int
        BY <1>1
      <3>2. IsFiniteSet(0 .. k - 1) /\ Cardinality(0 .. k - 1) = (IF 0 > k - 1 THEN 0 ELSE (k - 1) - 0 + 1)
        BY <3>1, FS_Interval, Zenon
      <3>3. QED
        BY <1>1, <3>2
    <2> HIDE DEF part
    <2>5. QED
      BY <2>2, <2>3, <2>4, FS_Injection
  <1>10. QED
    BY <1>4, <1>9 DEF W

Divides(d, q, p, r) == d \in Nat \ {0} /\ q \in Nat /\ p \in Nat /\ r \in Nat /\ r < d /\ q = d * p + r

\* A floor, or one more where there is a fraction, is less than one off the quota.
LEMMA NearQuota ==
    ASSUME NEW d, NEW q, NEW p, NEW r, Divides(d, q, p, r), NEW f, f = p \/ (f = p + 1 /\ r > 0)
    PROVE  f * d > q - d /\ f * d < q + d /\ (q = 0 => f = 0)
  <1> USE DEF Divides
  <1>1. p * d \in Nat /\ d * p = p * d /\ (p + 1) * d = p * d + d
    OBVIOUS
  <1>2. f * d = p * d \/ (f * d = p * d + d /\ r > 0)
    BY <1>1
  <1>3. ASSUME q = 0 PROVE f = 0
    <2>1. p * d = 0 /\ r = 0
      BY <1>1, <1>3
    <2>2. p > 0 => p * d > 0
      OBVIOUS
    <2>3. QED
      BY <2>1, <2>2
  <1>4. QED
    BY <1>1, <1>2, <1>3

\* Of two quotas the greater has no smaller floor, and of equal floors the greater fraction.
LEMMA QuotasInOrder ==
    ASSUME NEW d, NEW q, NEW p, NEW r, Divides(d, q, p, r), NEW v, NEW t, NEW u, Divides(d, v, t, u), q > v
    PROVE  p >= t /\ (p = t => r > u)
  <1> USE DEF Divides
  <1>1. p * d \in Nat /\ d * p = p * d /\ (p + 1) * d = p * d + d /\ t * d \in Nat /\ d * t = t * d
    OBVIOUS
  <1>2. p + 1 \in Int /\ t \in Int /\ ((p + 1) * d <= t * d <=> p + 1 <= t)
    <2>1. p + 1 \in Int /\ t \in Int
      OBVIOUS
    <2>2. QED
      BY <2>1, ProductOrder
  <1>3. QED
    BY <1>1, <1>2

Shares(w, n) == SumFunctionOnSet(w, 1 .. n)

Fair(f, w, n) ==
    /\ f = [a \in 1 .. n |-> f[a]]
    /\ SumFunction(f) = Total
    /\ \A a \in 1 .. n :
          /\ f[a] \in Nat
          /\ f[a] * Shares(w, n) > w[a] * Total - Shares(w, n)
          /\ f[a] * Shares(w, n) < w[a] * Total + Shares(w, n)
          /\ w[a] = 0 => f[a] = 0
          /\ \A b \in 1 .. n : w[a] > w[b] => f[a] >= f[b]

\* The apportionment of weights that are not all zero: it adds up to the whole,
\* no action that the solver never takes gets a share, none is off its quota by
\* a whole point, and weights are never put in another order.
LEMMA Apportioned ==
    ASSUME Total \in Nat \ {0}, NEW n \in Nat, NEW w, \A a \in 1 .. n : w[a] \in Nat, Shares(w, n) > 0,
           NEW f, f = Apportion(w, 1 .. n)
    PROVE  Fair(f, w, n)
  <1> DEFINE A == 1 .. n
             S == Shares(w, n)
             fl == [a \in A |-> (w[a] * Total) \div S]
             fr == [a \in A |-> (w[a] * Total) % S]
             Before == [a \in A |-> {b \in A : fr[b] > fr[a] \/ (fr[b] = fr[a] /\ b < a)}]
             R == Total - SumFunctionOnSet(fl, A)
  <1>1. /\ f = [a \in A |-> IF Cardinality(Before[a]) < R THEN fl[a] + 1 ELSE fl[a]]
        /\ IsFiniteSet(A) /\ Cardinality(A) = n
    <2>1. DOMAIN fl = A
      BY Zenon
    <2>2. \A a \in A : Before[a] = {b \in A : fr[b] > fr[a] \/ (fr[b] = fr[a] /\ b < a)}
      BY Zenon
    <2>3. f = [a \in A |-> IF Cardinality({b \in A : fr[b] > fr[a] \/ (fr[b] = fr[a] /\ b < a)}) < R
                          THEN fl[a] + 1 ELSE fl[a]]
      BY <2>1, Zenon DEF Apportion, SumFunction, Shares
    <2> HIDE DEF fr, fl, Before, R
    <2>4. f = [a \in A |-> IF Cardinality(Before[a]) < R THEN fl[a] + 1 ELSE fl[a]]
      BY <2>2, <2>3, Zenon
    <2>5. IsFiniteSet(A) /\ Cardinality(A) = n
      BY FS_Interval
    <2>6. QED
      BY <2>4, <2>5
  <1>2. S \in Nat \ {0}
    BY <1>1, SumType DEF Shares
  <1> DEFINE q == [a \in A |-> w[a] * Total]
  <1>3. \A a \in A : /\ q[a] = w[a] * Total /\ q[a] \in Nat /\ w[a] \in Nat
                     /\ fl[a] = q[a] \div S /\ fr[a] = q[a] % S
    BY <1>2
  <1>4. \A a \in A : \A b \in A : b \in Before[a] <=> fr[b] > fr[a] \/ (fr[b] = fr[a] /\ b < a)
    BY Zenon
  <1>b. \A a \in A : Before[a] \in SUBSET A
    OBVIOUS
  <1> DEFINE Above == {p \in A \X A : fr[p[1]] > fr[p[2]] \/ (fr[p[1]] = fr[p[2]] /\ p[1] < p[2])}
  <1>a. \A a, b \in A : <<b, a>> \in Above <=> fr[b] > fr[a] \/ (fr[b] = fr[a] /\ b < a)
    <2> HIDE DEF fr
    <2>1. QED
      OBVIOUS
  <1>c. Above \in SUBSET (A \X A)
    BY Zenon
  <1> HIDE DEF fl, fr, q, Before, S, R, Above
  <1>5. ASSUME NEW a \in A
        PROVE  /\ Divides(S, q[a], fl[a], fr[a])
               /\ fl[a] \in Nat /\ fr[a] \in Nat /\ fr[a] < S /\ q[a] = S * fl[a] + fr[a]
    <2>1. q[a] \in Int /\ q[a] >= 0 /\ S \in Nat \ {0}
      BY <1>2, <1>3
    <2>2. PICK x \in Int, d \in Nat \ {0} : x = q[a] /\ d = S
      BY <2>1
    <2>a. /\ x \div d \in Int /\ x % d \in 0 .. (d - 1) /\ x = d * (x \div d) + (x % d)
          /\ x >= 0 => x \div d >= 0
      OBVIOUS
    <2>3. fl[a] \in Int /\ fl[a] >= 0 /\ fr[a] \in 0 .. (S - 1) /\ q[a] = S * fl[a] + fr[a]
      BY <1>3, <2>1, <2>2, <2>a, Zenon
    <2>b. fl[a] \in Int /\ fl[a] >= 0 /\ fr[a] \in 0 .. (S - 1)
      BY <2>3, Zenon
    <2>c. fl[a] \in Nat /\ fr[a] \in Nat /\ fr[a] < S
      BY <1>2, <2>b
    <2>4. S \in Nat \ {0} /\ q[a] \in Nat /\ fl[a] \in Nat /\ fr[a] \in Nat /\ fr[a] < S
      BY <1>2, <1>3, <2>c, Zenon
    <2>5. QED
      BY <2>3, <2>4 DEF Divides
  <1>6. S * R = SumFunctionOnSet(fr, A) /\ R \in Int
    <2> DEFINE SF == SumFunctionOnSet(fl, A)
               SR == SumFunctionOnSet(fr, A)
               SQ == SumFunctionOnSet(q, A)
    <2>1. SF \in Int /\ SR \in Int
      BY <1>1, <1>5, SumType
    <2>2. SQ = Total * S + 0 * S
      <3>1. \A a \in A : w[a] \in Int /\ q[a] = Total * w[a] + 0 * w[a]
        BY <1>3
      <3>2. Total \in Int /\ 0 \in Int
        OBVIOUS
      <3> HIDE DEF A
      <3>4. Combines(q, Total, w, 0, w, A)
        BY <3>1, <3>2, Zenon DEF Combines
      <3>5. SQ = Total * SumFunctionOnSet(w, A) + 0 * SumFunctionOnSet(w, A)
        BY <1>1, <3>4, SumCombined
      <3>3. QED
        <4>1. S = SumFunctionOnSet(w, A)
          BY Zenon DEF S, Shares, A
        <4>2. QED
          BY <3>5, <4>1, Zenon
    <2>3. SQ = S * SF + 1 * SR
      <3>1. \A a \in A : fl[a] \in Int /\ fr[a] \in Int /\ q[a] = S * fl[a] + 1 * fr[a]
        BY <1>5
      <3>2. S \in Int /\ 1 \in Int
        BY <1>2
      <3>3. Combines(q, S, fl, 1, fr, A)
        BY <3>1, <3>2, Zenon DEF Combines
      <3>4. QED
        BY <1>1, <3>3, SumCombined
    <2>4. R = Total - SF
      BY Zenon DEF R
    <2> HIDE DEF SF, SR, SQ
    <2>5. S * R = S * Total - S * SF /\ S * Total = Total * S
      BY <1>2, <2>1, <2>4
    <2>6. S * Total \in Int /\ S * SF \in Int
      BY <1>2, <2>1
    <2>7. S * R = SR
      BY <1>2, <2>1, <2>2, <2>3, <2>5, <2>6
    <2>8. QED
      BY <2>1, <2>4, <2>7 DEF SR
  <1>7. R \in Nat
    <2>0. \A a \in A : fr[a] \in Int /\ fr[a] >= 0
      BY <1>5
    <2>1. SumFunctionOnSet(fr, A) >= 0 /\ SumFunctionOnSet(fr, A) \in Int
      BY <1>1, <2>0, SumType
    <2>2. ASSUME R + 1 <= 0 PROVE FALSE
      <3>1. (R + 1) * S <= 0 * S /\ (R + 1) * S = R * S + S /\ S * R = R * S /\ R * S \in Int
        BY <1>2, <1>6, <2>2, ProductOrder
      <3>2. QED
        BY <1>2, <1>6, <2>1, <3>1
    <2>3. QED
      BY <1>6, <2>2
  <1> DEFINE P == {a \in A : fr[a] > 0}
             one == [a \in A |-> IF a \in P THEN 1 ELSE 0]
  <1>8. R <= Cardinality(P) /\ Cardinality(P) <= n /\ Cardinality(P) \in Nat /\ IsFiniteSet(P)
    <2>1. P \in SUBSET A /\ \A a \in A : one[a] = (IF a \in P THEN 1 ELSE 0) /\ (a \in P <=> fr[a] > 0)
      OBVIOUS
    <2> HIDE DEF P, one
    <2>2. IsFiniteSet(P) /\ Cardinality(P) <= n /\ Cardinality(P) \in Nat
      BY <1>1, <2>1, FS_Subset, FS_CardinalityType
    <2>3. SumFunctionOnSet(one, A) = Cardinality(P)
      BY <1>1, <2>1, SumCounts
    <2> DEFINE cap == [a \in A |-> S * one[a] + 0 * one[a]]
    <2>4. \A a \in A : cap[a] = S * one[a] + 0 * one[a] /\ one[a] \in Int /\ fr[a] \in Int /\ cap[a] \in Int /\ fr[a] <= cap[a]
      <3>1. TAKE a \in A
      <3>2. one[a] \in {0, 1} /\ (one[a] = 0 => fr[a] = 0) /\ fr[a] \in Nat /\ fr[a] < S
        BY <1>5, <2>1
      <3>3. S * 1 = S /\ S * 0 = 0
        BY <1>2
      <3>4. cap[a] = S * one[a] + 0 * one[a]
        OBVIOUS
      <3> HIDE DEF cap
      <3>5. cap[a] = (IF one[a] = 1 THEN S ELSE 0)
        BY <1>2, <3>2, <3>3, <3>4
      <3>6. QED
        BY <1>2, <3>2, <3>4, <3>5
    <2> HIDE DEF cap
    <2>5. SumFunctionOnSet(fr, A) <= SumFunctionOnSet(cap, A)
      BY <1>1, <2>4, SumCompares
    <2>6. SumFunctionOnSet(cap, A) = S * Cardinality(P) + 0 * Cardinality(P)
      <3>1. S \in Int /\ 0 \in Int
        BY <1>2
      <3>2. Combines(cap, S, one, 0, one, A)
        BY <2>4, <3>1, Zenon DEF Combines
      <3>3. QED
        BY <1>1, <2>3, <3>2, SumCombined
    <2>7. R * S <= Cardinality(P) * S
      BY <1>2, <1>6, <1>7, <2>2, <2>5, <2>6
    <2>8. R <= Cardinality(P)
      <3>1. R \in Int /\ Cardinality(P) \in Int
        BY <1>7, <2>2
      <3>2. R * S <= Cardinality(P) * S <=> R <= Cardinality(P)
        BY <1>2, <3>1, ProductOrder
      <3>3. QED
        BY <2>7, <3>2
    <2>9. QED
      BY <2>2, <2>8
  <1> DEFINE W == {a \in A : Cardinality(Before[a]) < R}
  <1>9. ASSUME NEW a \in A PROVE IsFiniteSet(Before[a]) /\ Cardinality(Before[a]) \in Nat
    BY <1>1, <1>b, FS_Subset, FS_CardinalityType
  <1>10. \A a \in W : a \in A /\ fr[a] > 0
    <2>1. SUFFICES ASSUME NEW a \in A, fr[a] = 0 PROVE ~(Cardinality(Before[a]) < R)
      BY <1>5
    <2>2. P \in SUBSET Before[a]
      <3>1. \A b \in P : b \in A /\ fr[b] > fr[a]
        BY <1>5, <2>1
      <3> HIDE DEF P
      <3>2. QED
        BY <1>4, <3>1
    <2> HIDE DEF P
    <2>3. Cardinality(P) <= Cardinality(Before[a])
      BY <1>9, <2>2, FS_Subset
    <2>4. QED
      BY <1>7, <1>8, <1>9, <2>3
  <1>11. /\ Cardinality(W) = R
         /\ \A a, b \in A : <<a, b>> \in Above => Cardinality(Before[a]) < Cardinality(Before[b])
    <2> HIDE DEF W, P
    <2>1. StrictOrder(Above, A)
      <3>1. \A a \in A : fr[a] \in Int /\ a \in Int
        BY <1>5
      <3>2. \A s \in A : <<s, s>> \notin Above
        BY <1>a, <3>1
      <3>3. \A s, t \in A : s # t => <<s, t>> \in Above \/ <<t, s>> \in Above
        BY <1>a, <3>1
      <3>4. \A s, t, u \in A : <<s, t>> \in Above /\ <<t, u>> \in Above => <<s, u>> \in Above
        BY <1>a, <3>1, SMTT(30)
      <3>5. QED
        BY <3>2, <3>3, <3>4 DEF StrictOrder
    <2>2. \A s \in A : Before[s] = {t \in A : <<t, s>> \in Above}
      BY <1>4, <1>b, <1>a
    <2>3. R \in 0 .. Cardinality(A)
      BY <1>1, <1>7, <1>8
    <2>4. QED
      <3>1. /\ Cardinality({s \in A : Cardinality(Before[s]) < R}) = R
            /\ \A s, t \in A : <<s, t>> \in Above => Cardinality(Before[s]) < Cardinality(Before[t])
        BY <1>1, <2>1, <2>2, <2>3, FirstOfRow
      <3>2. QED
        BY <3>1, Zenon DEF W
  <1> DEFINE up == [a \in A |-> IF a \in W THEN 1 ELSE 0]
  <1>12. ASSUME NEW a \in A
         PROVE  /\ f[a] = fl[a] + up[a] /\ up[a] = (IF a \in W THEN 1 ELSE 0)
                /\ up[a] \in {0, 1} /\ (up[a] = 1 => fr[a] > 0)
    BY <1>1, <1>5, <1>10
  <1>13. W \in SUBSET A /\ \A a \in A : a \in W <=> Cardinality(Before[a]) < R
    OBVIOUS
  <1> HIDE DEF W, P, up
  <1>14. f = [a \in A |-> f[a]]
    BY <1>1
  <1>15. SumFunction(f) = Total
    <2>1. SumFunction(f) = SumFunctionOnSet(f, A)
      BY <1>14, Zenon DEF SumFunction
    <2>2. ASSUME NEW a \in A PROVE fl[a] \in Int /\ up[a] \in Int /\ f[a] = 1 * fl[a] + 1 * up[a]
      <3>1. fl[a] \in Int /\ up[a] \in Int
        BY <1>5, <1>12
      <3>2. f[a] = fl[a] + up[a]
        BY <1>12
      <3>3. QED
        BY <3>1, <3>2
    <2>3. SumFunctionOnSet(f, A) = 1 * SumFunctionOnSet(fl, A) + 1 * SumFunctionOnSet(up, A)
      <3>1. 1 \in Int
        OBVIOUS
      <3>2. Combines(f, 1, fl, 1, up, A)
        BY <2>2, <3>1, Zenon DEF Combines
      <3>3. QED
        BY <1>1, <3>2, SumCombined
    <2>4. SumFunctionOnSet(up, A) = Cardinality(W)
      BY <1>1, <1>12, <1>13, SumCounts
    <2>5. SumFunctionOnSet(fl, A) \in Int
      BY <1>1, <1>5, SumType
    <2>6. R = Total - SumFunctionOnSet(fl, A)
      BY Zenon DEF R
    <2>7. QED
      BY <1>7, <1>11, <2>1, <2>3, <2>4, <2>5, <2>6
  <1>16. ASSUME NEW a \in A
         PROVE  /\ f[a] \in Nat
                /\ f[a] * S > w[a] * Total - S
                /\ f[a] * S < w[a] * Total + S
                /\ w[a] = 0 => f[a] = 0
    <2>1. fl[a] \in Nat /\ fr[a] \in Nat /\ fr[a] < S /\ q[a] = S * fl[a] + fr[a]
      BY <1>5
    <2>2. f[a] \in Nat /\ (f[a] = fl[a] \/ (f[a] = fl[a] + 1 /\ fr[a] > 0))
      BY <1>12, <2>1
    <2>3. q[a] \in Nat /\ q[a] = w[a] * Total /\ w[a] \in Nat
      BY <1>3
    <2>4. f[a] * S > q[a] - S /\ f[a] * S < q[a] + S /\ (q[a] = 0 => f[a] = 0)
      <3>1. Divides(S, q[a], fl[a], fr[a])
        BY <1>5
      <3>2. QED
        BY <2>2, <3>1, NearQuota
    <2>5. w[a] = 0 => q[a] = 0
      BY <2>3
    <2>6. QED
      BY <2>2, <2>3, <2>4, <2>5, Zenon
  <1>17. ASSUME NEW a \in A, NEW b \in A, w[a] > w[b] PROVE f[a] >= f[b]
    <2>1. /\ fl[a] \in Nat /\ fr[a] \in Nat /\ fr[a] < S /\ q[a] = S * fl[a] + fr[a]
          /\ fl[b] \in Nat /\ fr[b] \in Nat /\ fr[b] < S /\ q[b] = S * fl[b] + fr[b]
          /\ f[a] = fl[a] + up[a] /\ f[b] = fl[b] + up[b] /\ up[a] \in {0, 1} /\ up[b] \in {0, 1}
      BY <1>5, <1>12
    <2>2. q[a] > q[b]
      <3>1. w[a] \in Int /\ w[b] \in Int /\ w[a] * Total \in Int /\ w[b] * Total \in Int
        BY <1>3
      <3>2. w[a] * Total <= w[b] * Total <=> w[a] <= w[b]
        BY <3>1, ProductOrder
      <3>3. QED
        BY <1>3, <1>17, <3>1, <3>2
    <2>3. q[a] \in Nat /\ q[b] \in Nat
      BY <1>3
    <2>4. fl[a] >= fl[b] /\ (fl[a] = fl[b] => fr[a] > fr[b])
      BY <1>5, <2>2, QuotasInOrder, Zenon
    <2>6. CASE fl[a] > fl[b]
      BY <2>1, <2>6
    <2>7. CASE fl[a] = fl[b]
      <3>1. fr[a] > fr[b]
        BY <2>4, <2>7
      <3>2. <<a, b>> \in Above
        BY <1>a, <3>1
      <3>3. Cardinality(Before[a]) < Cardinality(Before[b])
        BY <1>11, <3>2
      <3>4. b \in W => a \in W
        BY <1>7, <1>9, <1>13, <3>3
      <3>5. QED
        BY <1>12, <2>1, <2>7, <3>4
    <2>8. QED
      BY <2>1, <2>4, <2>6, <2>7
  <1>18. QED
    BY <1>14, <1>15, <1>16, <1>17 DEF Fair, S

-----------------------------------------------------------------------------
(* What an envelope holds.                                                 *)

Weights(i, combo) == i.byCombo[combo].weights

LEMMA EnvelopeShape ==
    ASSUME NEW i
    PROVE  /\ Envelope(i).allIn = i.allIn /\ Envelope(i).order = ActionOrder(i)
           /\ Envelope(i).strategy = Strategy(i) /\ Envelope(i).story = i.story
           /\ Envelope(i).featured = Resolve(Featured(i), Selectable(i))
           /\ Envelope(i).positions = [lane \in Lanes |-> Position(i, lane)]
           /\ Envelope(i).dealer = Dealer(i) /\ Envelope(i).configuration = i.hash
  BY DEF Envelope

LEMMA EnvelopeHolds ==
    ASSUME NEW i \in Items, Importable(i), NEW e, e = Envelope(i)
    PROVE  /\ Len(i.allIn) \in Nat /\ DOMAIN e.allIn = 1 .. Len(i.allIn) /\ e.allIn = i.allIn
           /\ DOMAIN e.strategy = Selectable(i)
           /\ \A combo \in Selectable(i) :
                 /\ combo \in ToSet(i.keys) /\ combo # None /\ IsCombo(combo)
                 /\ e.strategy[combo].reach = EffectiveReach(i, combo)
                 /\ e.strategy[combo].frequencies = Apportion(Weights(i, combo), 1 .. Len(i.allIn))
                 /\ \A a \in 1 .. Len(i.allIn) : Weights(i, combo)[a] \in Nat
                 /\ Shares(Weights(i, combo), Len(i.allIn)) > 0
  <1> DEFINE n == Len(i.allIn)
  <1>1. Playable(i) /\ ValidStrategy(e)
    BY DEF Importable, Normalizes
  <1>2. n \in Nat /\ DOMAIN i.allIn = 1 .. n /\ e.allIn = i.allIn
    <2>1. i.allIn \in Seq(BOOLEAN)
      BY ItemsAssumption, Zenon
    <2>2. e.allIn = i.allIn
      BY EnvelopeShape, Zenon
    <2>3. QED
      BY <2>1, <2>2
  <1>3. ToSet(ActionOrder(i)) = 1 .. n
    <2>1. ActionOrder(i) = [a \in 1 .. n |-> a]
      BY <1>1, <1>2, EnvelopeShape, Zenon DEF ValidStrategy
    <2> HIDE DEF n
    <2>2. QED
      BY <2>1 DEF ToSet
  <1>4. e.strategy = [combo \in Selectable(i) |->
          [reach |-> EffectiveReach(i, combo), frequencies |-> Apportion(Weights(i, combo), 1 .. n)]]
    <2> DEFINE Table(actions) ==
                 [combo \in Selectable(i) |->
                    [reach |-> EffectiveReach(i, combo), frequencies |-> Apportion(Weights(i, combo), actions)]]
    <2>1. e.strategy = Table(ToSet(ActionOrder(i)))
      BY EnvelopeShape, Zenon DEF Strategy, Weights
    <2> HIDE DEF Table
    <2>2. e.strategy = Table(1 .. n)
      BY <1>3, <2>1, Zenon
    <2>3. QED
      BY <2>2, Zenon DEF Table
  <1>5. ASSUME NEW combo \in Selectable(i)
        PROVE  /\ combo \in ToSet(i.keys) /\ combo # None /\ IsCombo(combo)
               /\ \A a \in 1 .. n : Weights(i, combo)[a] \in Nat
               /\ Shares(Weights(i, combo), n) > 0
    <2>1. combo \in ToSet(i.keys)
      BY <1>1, SelectableListed DEF Playable
    <2>2. combo # None /\ IsCombo(combo) /\ Weights(i, combo) \in Seq(Nat)
      BY <2>1, ItemsAssumption, Zenon DEF Weights
    <2>3. Weighted(Weights(i, combo), 1 .. n)
      BY <1>1, <1>3, <2>1, Zenon DEF Playable, Weights
    <2>4. 1 .. n \subseteq DOMAIN Weights(i, combo) /\ Shares(Weights(i, combo), n) > 0
      BY <2>3, Zenon DEF Weighted, Shares
    <2> DEFINE w == Weights(i, combo)
    <2> HIDE DEF w, n
    <2>5. \A a \in DOMAIN w : w[a] \in Nat
      <3>1. w \in Seq(Nat)
        BY <2>2, Zenon DEF w
      <3>2. QED
        BY <3>1
    <2>6. \A a \in 1 .. n : w[a] \in Nat
      BY <2>4, <2>5 DEF w
    <2>7. QED
      BY <2>1, <2>2, <2>4, <2>6, Zenon DEF w
  <1> HIDE DEF n
  <1>6. DOMAIN e.strategy = Selectable(i)
    BY <1>4, Zenon
  <1>7. ASSUME NEW combo \in Selectable(i)
        PROVE  /\ e.strategy[combo].reach = EffectiveReach(i, combo)
               /\ e.strategy[combo].frequencies = Apportion(Weights(i, combo), 1 .. n)
    <2>1. e.strategy[combo] =
            [reach |-> EffectiveReach(i, combo), frequencies |-> Apportion(Weights(i, combo), 1 .. n)]
      BY <1>4, Zenon
    <2>2. QED
      BY <2>1
  <1>8. QED
    BY <1>2, <1>5, <1>6, <1>7, Zenon DEF n

\* Whatever weights the solver reports, the stored frequencies of a hand are a
\* fair rounding of them (FairlyApportioned of Solution), and they add up by the
\* way they are computed, not because the import checks it.
THEOREM FairlyApportionedHolds == Spec => []FairlyApportioned
  <1>1. Origin => FairlyApportioned
    <2>1. SUFFICES ASSUME Origin, Imported, NEW combo \in DOMAIN stored.strategy,
                          NEW f, f = stored.strategy[combo].frequencies,
                          NEW w, w = item.byCombo[combo].weights
                   PROVE  /\ SumFunction(f) = Total
                          /\ \A a \in DOMAIN f :
                                /\ f[a] * SumFunctionOnSet(w, DOMAIN f) > w[a] * Total - SumFunctionOnSet(w, DOMAIN f)
                                /\ f[a] * SumFunctionOnSet(w, DOMAIN f) < w[a] * Total + SumFunctionOnSet(w, DOMAIN f)
                                /\ w[a] = 0 => f[a] = 0
                                /\ \A b \in DOMAIN f : w[a] > w[b] => f[a] >= f[b]
      BY ZenonT(30) DEF FairlyApportioned
    <2>2. item \in Items /\ Importable(item) /\ stored = Envelope(item)
      BY <2>1 DEF Origin, Imported
    <2> DEFINE n == Len(item.allIn)
    <2>3. /\ n \in Nat /\ combo \in Selectable(item) /\ w = Weights(item, combo)
          /\ f = Apportion(w, 1 .. n) /\ Shares(w, n) > 0 /\ \A a \in 1 .. n : w[a] \in Nat
      BY <2>1, <2>2, EnvelopeHolds, ZenonT(30) DEF Weights
    <2> HIDE DEF n
    <2>4. Total \in Nat \ {0}
      BY NumbersAssumption
    <2>5. Fair(f, w, n)
      BY <2>3, <2>4, Apportioned
    <2>6. DOMAIN f = 1 .. n /\ Shares(w, n) = SumFunctionOnSet(w, DOMAIN f)
      BY <2>5, Zenon DEF Fair, Shares
    <2>7. QED
      BY <2>5, <2>6, Zenon DEF Fair
  <1>2. QED
    BY <1>1, OriginHolds, PTL

-----------------------------------------------------------------------------
(* Evidence.                                                               *)

LEMMA GreatestOfFinite ==
    ASSUME NEW S \in SUBSET Int, IsFiniteSet(S), S # {}
    PROVE  Max(S) \in S /\ \A m \in S : m <= Max(S)
  <1> DEFINE C == {T \in SUBSET S : T = {} \/ \E n \in T : \A m \in T : n >= m}
  <1>1. ASSUME NEW T \in SUBSET S, \A U \in SUBSET T : U # T => U \in C PROVE T \in C
    <2>1. CASE T = {}
      BY <2>1
    <2>2. CASE T # {}
      <3>1. PICK x \in T : TRUE
        BY <2>2
      <3> DEFINE U == T \ {x}
      <3>2. U \in SUBSET T /\ U # T
        BY <3>1
      <3>3. U = {} \/ \E n \in U : \A m \in U : n >= m
        BY <1>1, <3>2
      <3>4. CASE U = {}
        BY <3>1, <3>4
      <3>5. CASE \E n \in U : \A m \in U : n >= m
        <4>1. PICK n \in U : \A m \in U : n >= m
          BY <3>5
        <4>2. x \in Int /\ n \in Int /\ n \in T /\ \A m \in T : m \in Int /\ (m = x \/ n >= m)
          BY <4>1
        <4>3. \E k \in T : \A m \in T : k >= m
          <5>1. CASE x >= n
            <6>1. \A m \in T : x >= m
              BY <4>2, <5>1
            <6>2. QED
              BY <3>1, <6>1
          <5>2. CASE n >= x
            <6>1. \A m \in T : n >= m
              BY <4>2, <5>2
            <6>2. QED
              BY <4>2, <6>1
          <5>3. QED
            BY <4>2, <5>1, <5>2
        <4>4. QED
          BY <4>3
      <3>6. QED
        BY <3>3, <3>4, <3>5
    <2>3. QED
      BY <2>1, <2>2
  <1> HIDE DEF C
  <1>2. S \in C
    <2>1. Grows(C, S)
      BY <1>1, Zenon DEF Grows
    <2>2. QED
      BY <2>1, SubsetsInduction
  <1>3. PICK n \in S : \A m \in S : n >= m
    BY <1>2 DEF C
  <1>4. Max(S) \in S /\ \A m \in S : Max(S) >= m
    BY <1>3 DEF Max
  <1>5. QED
    BY <1>4

LEMMA LogTyped ==
    ASSUME NEW i \in Items
    PROVE  /\ Len(i.log) \in Nat /\ DOMAIN i.log = 1 .. Len(i.log)
           /\ \A k \in DOMAIN i.log : i.log[k].value \in Int
           /\ \A k \in DOMAIN i.log : Iteration(i.log, k) \in Int
           /\ i.config.minimum \in Int
  <1>1. i.log \in Seq([kind : {"iter", "total", "text"}, value : Int]) /\ i.config.minimum \in Int
    BY ItemsAssumption, Zenon
  <1> DEFINE log == i.log
  <1> HIDE DEF log
  <1>2. log \in Seq([kind : {"iter", "total", "text"}, value : Int])
    BY <1>1, Zenon DEF log
  <1>3. Len(log) \in Nat /\ DOMAIN log = 1 .. Len(log) /\ \A k \in DOMAIN log : log[k].value \in Int
    <2> DEFINE Line == [kind : {"iter", "total", "text"}, value : Int]
    <2>1. \A line \in Line : line.value \in Int
      OBVIOUS
    <2>2. log \in Seq(Line)
      BY <1>2
    <2> HIDE DEF Line
    <2>3. Len(log) \in Nat /\ DOMAIN log = 1 .. Len(log) /\ \A k \in DOMAIN log : log[k] \in Line
      BY <2>2
    <2>4. QED
      BY <2>1, <2>3
  <1>4. ASSUME NEW k \in DOMAIN log PROVE Iteration(log, k) \in Int
    <2> DEFINE I == {j \in 1 .. k : log[j].kind = "iter"}
               last == IF I # {} THEN Max(I) ELSE 0
    <2>1. Iteration(log, k) = IF last = 0 THEN 0 ELSE log[last].value
      BY Zenon DEF Iteration, SelectLastInSubSeq
    <2>a. k \in Int /\ 1 .. k \subseteq DOMAIN log
      BY <1>3
    <2>b. IsFiniteSet(1 .. k)
      BY <2>a, FS_Interval
    <2>2. I \in SUBSET (1 .. k) /\ 1 .. k \subseteq DOMAIN log
      BY <2>a
    <2> HIDE DEF I
    <2>c. IsFiniteSet(I)
      BY <2>b, <2>2, FS_Subset
    <2>3. I \in SUBSET Int /\ IsFiniteSet(I)
      BY <2>2, <2>c
    <2>4. I # {} => Max(I) \in DOMAIN log
      BY <2>2, <2>3, GreatestOfFinite
    <2>5. last = 0 \/ last \in DOMAIN log
      BY <2>4
    <2> HIDE DEF last
    <2>6. QED
      BY <1>3, <2>1, <2>5
  <1>5. QED
    BY <1>1, <1>3, <1>4, Zenon DEF log

LEMMA LatestMeets ==
    ASSUME NEW i \in Items, Converged(i)
    PROVE  \E k \in DOMAIN i.log :
              /\ i.log[k].kind = "total" /\ i.log[k].value <= i.config.target
              /\ Iteration(i.log, k) >= i.config.minimum
              /\ \A j \in (k + 1) .. Len(i.log) :
                    i.log[j].kind = "total" => Iteration(i.log, j) < i.config.minimum
  <1> DEFINE K == Checkpoints(i)
  <1>1. \A k : k \in K <=> /\ k \in DOMAIN i.log /\ i.log[k].kind = "total"
                           /\ Iteration(i.log, k) >= i.config.minimum
    BY Zenon DEF Checkpoints
  <1>2. /\ Len(i.log) \in Nat /\ DOMAIN i.log = 1 .. Len(i.log) /\ i.config.minimum \in Int
        /\ \A k \in DOMAIN i.log : Iteration(i.log, k) \in Int
    BY LogTyped
  <1>3. K # {} /\ i.log[Max(K)].value <= i.config.target
    BY Zenon DEF Converged
  <1> HIDE DEF K
  <1>4. K \in SUBSET (1 .. Len(i.log)) /\ IsFiniteSet(K) /\ K \in SUBSET Int
    <2>1. K \in SUBSET (1 .. Len(i.log)) /\ K \in SUBSET Int
      BY <1>1, <1>2
    <2>2. IsFiniteSet(1 .. Len(i.log))
      BY <1>2, FS_Interval
    <2>3. QED
      BY <2>1, <2>2, FS_Subset
  <1>5. Max(K) \in K /\ \A m \in K : m <= Max(K)
    BY <1>3, <1>4, GreatestOfFinite
  <1> DEFINE k == Max(K)
  <1> HIDE DEF k
  <1>6. /\ k \in K /\ k \in 1 .. Len(i.log) /\ (\A m \in K : m <= k)
        /\ i.log[k].value <= i.config.target /\ i.log[k].kind = "total"
        /\ Iteration(i.log, k) >= i.config.minimum
    BY <1>1, <1>3, <1>4, <1>5 DEF k
  <1>7. ASSUME NEW j \in (k + 1) .. Len(i.log), i.log[j].kind = "total"
        PROVE  Iteration(i.log, j) < i.config.minimum
    <2>1. j \in DOMAIN i.log /\ j \notin K
      BY <1>2, <1>6
    <2>2. ~(Iteration(i.log, j) >= i.config.minimum)
      BY <1>1, <1>7, <2>1, Zenon
    <2>3. QED
      BY <1>2, <2>1, <2>2
  <1>8. QED
    BY <1>2, <1>6, <1>7

\* A weight alone takes the whole.
LEMMA LoneShare ==
    ASSUME Total \in Nat \ {0}, NEW n \in Nat, NEW w, \A x \in 1 .. n : w[x] \in Nat, Shares(w, n) > 0,
           NEW f, f = Apportion(w, 1 .. n), NEW a \in 1 .. n, \A b \in 1 .. n : b # a => w[b] = 0
    PROVE  f = [x \in 1 .. n |-> IF x = a THEN Total ELSE 0]
  <1>1. Fair(f, w, n)
    BY Apportioned
  <1>2. f = [x \in 1 .. n |-> f[x]] /\ SumFunction(f) = Total
    BY <1>1, Zenon DEF Fair
  <1>3. \A x \in 1 .. n : f[x] \in Nat /\ (x # a => f[x] = 0)
    BY <1>1 DEF Fair
  <1> DEFINE one == [x \in 1 .. n |-> IF x \in {a} THEN 1 ELSE 0]
  <1>4. IsFiniteSet(1 .. n) /\ Cardinality({a}) = 1 /\ {a} \in SUBSET (1 .. n)
    <2>1. IsFiniteSet(1 .. n)
      BY FS_Interval
    <2>2. Cardinality({a}) = 1
      BY FS_Singleton
    <2>3. QED
      BY <2>1, <2>2
  <1>5. \A x \in 1 .. n : one[x] = (IF x \in {a} THEN 1 ELSE 0)
    OBVIOUS
  <1> HIDE DEF one
  <1>6. SumFunctionOnSet(one, 1 .. n) = 1
    BY <1>4, <1>5, SumCounts
  <1>7. f[a] \in Int /\ 0 \in Int
    BY <1>3
  <1>8. \A x \in 1 .. n : one[x] \in Int /\ f[x] = f[a] * one[x] + 0 * one[x]
    <2> TAKE x \in 1 .. n
    <2>1. f[a] * 1 + 0 * 1 = f[a] /\ f[a] * 0 + 0 * 0 = 0
      BY <1>7
    <2>2. CASE x = a
      BY <1>5, <1>7, <2>1, <2>2
    <2>3. CASE x # a
      <3>1. one[x] = 0 /\ f[x] = 0
        BY <1>3, <1>5, <2>3
      <3>2. QED
        BY <2>1, <3>1
    <2>4. QED
      BY <2>2, <2>3
  <1>9. SumFunctionOnSet(f, 1 .. n) = f[a] * SumFunctionOnSet(one, 1 .. n) + 0 * SumFunctionOnSet(one, 1 .. n)
    <2> DEFINE k == f[a]
    <2> HIDE DEF k
    <2>1. k \in Int /\ 0 \in Int /\ \A x \in 1 .. n : one[x] \in Int /\ f[x] = k * one[x] + 0 * one[x]
      BY <1>7, <1>8, Zenon DEF k
    <2>2. SumFunctionOnSet(f, 1 .. n) = k * SumFunctionOnSet(one, 1 .. n) + 0 * SumFunctionOnSet(one, 1 .. n)
      <3>1. \A x \in 1 .. n : one[x] \in Int /\ f[x] = k * one[x]
        BY <2>1
      <3>2. SumFunctionOnSet(f, 1 .. n) = k * SumFunctionOnSet(one, 1 .. n)
        BY <1>4, <2>1, <3>1, SumScale
      <3>3. QED
        BY <1>6, <2>1, <3>2
    <2>3. QED
      BY <2>2, Zenon DEF k
  <1>10. SumFunctionOnSet(f, 1 .. n) = f[a]
    BY <1>6, <1>7, <1>9
  <1>11. f[a] = Total
    BY <1>2, <1>10, Zenon DEF SumFunction
  <1>12. \A x \in 1 .. n : f[x] = IF x = a THEN Total ELSE 0
    BY <1>3, <1>11
  <1>13. QED
    BY <1>2, <1>12, Zenon

\* What every hand puts all-in is collapsed.
LEMMA AllInCollapses ==
    ASSUME NEW i \in Items, Importable(i), NEW e, e = Envelope(i),
           NEW a \in DOMAIN e.allIn, e.allIn[a], Len(e.allIn) >= 3, Cardinality(DOMAIN e.strategy) > 1,
           \A combo \in DOMAIN e.strategy, b \in DOMAIN e.allIn : b # a => Weights(i, combo)[b] = 0
    PROVE  FALSE
  <1> DEFINE n == Len(i.allIn)
             v == [x \in 1 .. n |-> IF x = a THEN Total ELSE 0]
             vectors == [combo \in DOMAIN e.strategy |-> e.strategy[combo].frequencies]
  <1>1. /\ n \in Nat /\ a \in 1 .. n /\ DOMAIN e.allIn = 1 .. n /\ DOMAIN e.strategy = Selectable(i)
        /\ e.featured \in DOMAIN e.strategy
    BY EnvelopeHolds DEF Importable, Normalizes, ValidStrategy
  <1>2. Total \in Nat \ {0}
    BY NumbersAssumption
  <1>3. ASSUME NEW combo \in DOMAIN e.strategy PROVE e.strategy[combo].frequencies = v
    <2>1. /\ e.strategy[combo].frequencies = Apportion(Weights(i, combo), 1 .. n)
          /\ \A x \in 1 .. n : Weights(i, combo)[x] \in Nat
          /\ Shares(Weights(i, combo), n) > 0
      BY <1>1, EnvelopeHolds
    <2>2. \A b \in 1 .. n : b # a => Weights(i, combo)[b] = 0
      BY <1>1
    <2> DEFINE w == Weights(i, combo)
               f == e.strategy[combo].frequencies
    <2> HIDE DEF w, f, n
    <2>3. f = Apportion(w, 1 .. n) /\ (\A x \in 1 .. n : w[x] \in Nat) /\ Shares(w, n) > 0
          /\ \A b \in 1 .. n : b # a => w[b] = 0
      BY <2>1, <2>2, Zenon DEF w, f
    <2>4. f = v
      BY <1>1, <1>2, <2>3, LoneShare
    <2>5. QED
      BY <2>4, Zenon DEF f
  <1>4. v[a] = Total
    BY <1>1
  <1> HIDE DEF v, n
  <1>5. \A combo \in DOMAIN vectors : vectors[combo] = v
    BY <1>3
  <1>6. DOMAIN vectors = DOMAIN e.strategy
    BY Zenon
  <1> HIDE DEF vectors
  <1>7. Range(vectors) = {v}
    BY <1>1, <1>5, <1>6 DEF Range
  <1>8. Cardinality(Range(vectors)) = 1
    BY <1>7, FS_Singleton
  <1>9. Diversity(e) = [combos |-> Cardinality(DOMAIN e.strategy), distinct |-> 1]
    BY <1>6, <1>8, Zenon DEF Diversity, vectors
  <1>10. Uniform(Diversity(e))
    BY <1>9 DEF Uniform
  <1>11. e.strategy[e.featured].frequencies[a] = Total
    BY <1>1, <1>3, <1>4
  <1>12. Collapsed(e)
    BY <1>10, <1>11, Zenon DEF Collapsed
  <1>13. QED
    BY <1>12 DEF Importable

\* The range of a player is the last line of the input for his lane.
LEMMA LastLine ==
    ASSUME NEW i \in Items, NEW lane, InputRange(i, lane) # <<>>
    PROVE  \E k \in DOMAIN i.input :
              /\ i.input[k].lane = lane
              /\ \A j \in (k + 1) .. Len(i.input) : i.input[j].lane # lane
              /\ i.input[k].tokens = InputRange(i, lane)
  <1> DEFINE n == Len(i.input)
             I == {k \in 1 .. n : i.input[k].lane = lane}
             last == IF I # {} THEN Max(I) ELSE 0
  <1>1. n \in Nat /\ DOMAIN i.input = 1 .. n
    <2>1. i.input = [k \in 1 .. n |-> i.input[k]] /\ n \in Nat
      BY ItemsAssumption, Zenon
    <2>2. QED
      BY <2>1, Zenon
  <1>2. InputRange(i, lane) = IF last = 0 THEN <<>> ELSE i.input[last].tokens
    BY Zenon DEF InputRange, SelectLastInSeq
  <1> HIDE DEF n
  <1>3. I \in SUBSET (1 .. n) /\ I \in SUBSET Int
    BY <1>1
  <1>4. \A k : k \in I <=> k \in 1 .. n /\ i.input[k].lane = lane
    BY Zenon
  <1> HIDE DEF I
  <1>5. IsFiniteSet(I)
    <2>1. IsFiniteSet(1 .. n)
      BY <1>1, FS_Interval
    <2>2. QED
      BY <1>3, <2>1, FS_Subset
  <1>6. I # {} /\ last = Max(I)
    <2>1. last # 0
      BY <1>2, Zenon
    <2>2. QED
      BY <2>1
  <1>7. Max(I) \in I /\ \A m \in I : m <= Max(I)
    BY <1>3, <1>5, <1>6, GreatestOfFinite
  <1> DEFINE k == Max(I)
  <1>8. i.input[k].tokens = InputRange(i, lane)
    <2>1. last # 0
      BY <1>2, Zenon
    <2>2. QED
      BY <1>2, <1>6, <2>1, Zenon
  <1> HIDE DEF k, last
  <1>9. k \in I /\ (\A m \in I : m <= k) /\ k \in 1 .. n /\ i.input[k].lane = lane
    BY <1>4, <1>7, Zenon DEF k
  <1>10. ASSUME NEW j \in (k + 1) .. n PROVE i.input[j].lane # lane
    <2>1. j \in 1 .. n /\ ~(j <= k)
      BY <1>1, <1>9
    <2>2. QED
      BY <1>4, <1>9, <2>1, Zenon
  <1>11. QED
    BY <1>1, <1>8, <1>9, <1>10, Zenon DEF n

\* No import takes a solve whose evidence does not hold (OnlySoundSolves of
\* Solution): the latest checkpoint that counts, the story and the ranges of the
\* configuration, the reach of every hand on offer, and a decision that is more
\* than an all-in.
THEOREM OnlySoundSolvesHolds == Spec => []OnlySoundSolves
  <1>1. Origin => OnlySoundSolves
    <2>1. SUFFICES ASSUME Origin, Imported PROVE OnlySoundSolves
      BY DEF OnlySoundSolves
    <2>2. item \in Items /\ Importable(item) /\ stored = Envelope(item)
      BY <2>1 DEF Origin, Imported
    <2>3. \E i \in DOMAIN item.log :
              /\ item.log[i].kind = "total" /\ item.log[i].value <= item.config.target
              /\ Iteration(item.log, i) >= item.config.minimum
              /\ \A j \in (i + 1) .. Len(item.log) :
                    item.log[j].kind = "total" => Iteration(item.log, j) < item.config.minimum
      BY <2>2, LatestMeets, Zenon DEF Importable
    <2>4. stored.configuration = item.config.hash /\ stored.story = item.config.story
      BY <2>2, EnvelopeShape, Zenon DEF Importable, Provenanced
    <2>5. ASSUME NEW combo \in DOMAIN stored.strategy PROVE EffectiveReach(item, combo) >= MinReach
      <3>1. combo \in Selectable(item)
        BY <2>2, EnvelopeHolds, Zenon
      <3>2. QED
        BY <2>2, <3>1, Zenon DEF Importable, Normalizes, Playable, Active
    <2>6. ~ \E a \in DOMAIN stored.allIn :
              /\ stored.allIn[a] /\ Len(stored.allIn) >= 3 /\ Cardinality(DOMAIN stored.strategy) > 1
              /\ \A combo \in DOMAIN stored.strategy, b \in DOMAIN stored.allIn :
                    b # a => item.byCombo[combo].weights[b] = 0
      BY <2>2, AllInCollapses, Zenon DEF Weights
    <2>7. ASSUME NEW lane \in Lanes
          PROVE  \E i \in DOMAIN item.input :
                    /\ item.input[i].lane = lane
                    /\ \A j \in (i + 1) .. Len(item.input) : item.input[j].lane # lane
                    /\ ToBag(item.input[i].tokens) = ToBag(item.config.ranges[lane])
      <3>1. /\ InputRange(item, lane) # <<>>
            /\ ToBag(InputRange(item, lane)) = ToBag(item.config.ranges[lane])
        BY <2>2, Zenon DEF Importable, Provenanced
      <3>2. PICK k \in DOMAIN item.input :
                /\ item.input[k].lane = lane
                /\ \A j \in (k + 1) .. Len(item.input) : item.input[j].lane # lane
                /\ item.input[k].tokens = InputRange(item, lane)
        BY <2>2, <3>1, LastLine
      <3>3. QED
        BY <3>1, <3>2, Zenon
    <2>8. QED
      BY <2>3, <2>4, <2>5, <2>6, <2>7, Zenon DEF OnlySoundSolves
  <1>2. QED
    BY <1>1, OriginHolds, PTL

-----------------------------------------------------------------------------
(* Readers.                                                                *)

\* What the proofs use of a stored row, from an import or from before.
SeatedByStory(spot) ==
    \A lane \in Lanes :
        /\ Cardinality(ToldSeats(spot.story, lane)) <= 1
        /\ \A a, b \in ToldSeats(spot.story, lane) : a = b
        /\ \A name \in ToldSeats(spot.story, lane) :
              IsName(name) /\ Upper(name) = name /\ Upper(spot.positions[lane]) \in {Name(lane), name}

LEMMA LowerReplaced ==
    ASSUME NEW seat, NEW lower, NEW padded, NEW to
    PROVE  [[seat |-> seat, lower |-> lower, padded |-> padded] EXCEPT !.lower = to]
           = [seat |-> seat, lower |-> to, padded |-> padded]
  OBVIOUS

LEMMA UpperOnce == ASSUME NEW name, IsName(name) PROVE IsName(Upper(name)) /\ Upper(Upper(name)) = Upper(name)
  <1>1. Upper(name) = [seat |-> name.seat, lower |-> FALSE, padded |-> name.padded]
    <2>1. PICK seat, lower, padded : name = [seat |-> seat, lower |-> lower, padded |-> padded]
      BY Zenon DEF IsName
    <2>2. name.seat = seat /\ name.padded = padded
      BY <2>1
    <2>3. Upper(name) = [[seat |-> seat, lower |-> lower, padded |-> padded] EXCEPT !.lower = FALSE]
      BY <2>1, Zenon DEF Upper
    <2>4. Upper(name) = [seat |-> seat, lower |-> FALSE, padded |-> padded]
      BY <2>3, LowerReplaced, Zenon
    <2>5. QED
      BY <2>2, <2>4, Zenon
  <1>2. QED
    BY <1>1 DEF IsName, Upper

LEMMA NamesAreNames ==
    ASSUME NEW seat
    PROVE  IsName(Name(seat)) /\ Upper(Name(seat)) = Name(seat) /\ Name(seat).seat = seat
  <1>1. Name(seat) = [seat |-> seat, lower |-> FALSE, padded |-> FALSE]
    BY DEF Name
  <1>2. Name(seat).seat = seat /\ Name(seat).lower = FALSE /\ Name(seat).padded = FALSE
    BY <1>1
  <1>3. IsName(Name(seat))
    BY <1>1, <1>2, Zenon DEF IsName
  <1>4. Upper(Name(seat)) = Name(seat)
    <2>1. Upper(Name(seat)) = [[seat |-> seat, lower |-> FALSE, padded |-> FALSE] EXCEPT !.lower = FALSE]
      BY <1>1 DEF Upper
    <2>2. QED
      BY <1>1, <2>1, LowerReplaced
  <1>5. QED
    BY <1>2, <1>3, <1>4

LEMMA ToldOnce ==
    ASSUME NEW story, IsStory(story), NEW lane \in Lanes, Cardinality(ToldSeats(story, lane)) <= 1
    PROVE  /\ \A a, b \in ToldSeats(story, lane) : a = b
           /\ \A name \in ToldSeats(story, lane) : IsName(name) /\ Upper(name) = name
  <1> DEFINE names == Told(story, lane)
             seats == ToldSeats(story, lane)
  <1>1. IsFiniteSet(names) /\ \A name \in names : IsName(name)
    BY FS_EmptySet DEF IsStory, Told
  <1>2. seats = {Upper(name) : name \in names}
    BY Zenon DEF ToldSeats
  <1> HIDE DEF names, seats
  <1>3. \A name \in seats : IsName(name) /\ Upper(name) = name
    BY <1>1, <1>2, UpperOnce
  <1>4. IsFiniteSet(seats)
    <2> DEFINE f == [name \in names |-> Upper(name)]
    <2>1. f \in Surjection(names, seats)
      BY <1>2 DEF Surjection
    <2> HIDE DEF f
    <2>2. QED
      BY <1>1, <2>1, FS_Surjection, Zenon
  <1>5. \A a, b \in seats : a = b
    <2>1. SUFFICES ASSUME NEW a \in seats, NEW b \in seats, a # b PROVE FALSE
      OBVIOUS
    <2>2. {a, b} \in SUBSET seats
      OBVIOUS
    <2>3. Cardinality({a, b}) = 2
      <3>1. IsFiniteSet({a}) /\ Cardinality({a}) = 1
        BY FS_Singleton
      <3>2. Cardinality({a} \cup {b}) = 2
        <4>1. b \notin {a} /\ IsFiniteSet({a})
          BY <2>1, <3>1
        <4>2. Cardinality({a} \cup {b}) = (IF b \in {a} THEN Cardinality({a}) ELSE Cardinality({a}) + 1)
          BY <4>1, FS_AddElement, Zenon
        <4>3. QED
          BY <3>1, <4>1, <4>2
      <3>3. {a} \cup {b} = {a, b}
        OBVIOUS
      <3>4. QED
        BY <3>2, <3>3
    <2>4. Cardinality({a, b}) <= Cardinality(seats) /\ Cardinality(seats) \in Nat
      BY <1>4, <2>2, FS_Subset, FS_CardinalityType
    <2>5. Cardinality(seats) <= 1
      BY Zenon DEF seats
    <2>6. QED
      BY <2>3, <2>4, <2>5
  <1>6. QED
    BY <1>3, <1>5, Zenon DEF seats

\* A stored row has the columns of the table and the names of both players.
LEMMA SoundRow ==
    ASSUME NEW spot, Sound(spot)
    PROVE  /\ spot = [allIn |-> spot.allIn, order |-> spot.order, strategy |-> spot.strategy,
                      featured |-> spot.featured, story |-> spot.story, positions |-> spot.positions,
                      dealer |-> spot.dealer, configuration |-> spot.configuration]
           /\ DOMAIN spot.positions = Lanes
           /\ IsStory(spot.story)
  <1>1. ASSUME NEW i \in Items, spot = Envelope(i)
        PROVE  /\ spot = [allIn |-> spot.allIn, order |-> spot.order, strategy |-> spot.strategy,
                          featured |-> spot.featured, story |-> spot.story, positions |-> spot.positions,
                          dealer |-> spot.dealer, configuration |-> spot.configuration]
               /\ DOMAIN spot.positions = Lanes
               /\ IsStory(spot.story)
    <2>1. spot = [allIn |-> spot.allIn, order |-> spot.order, strategy |-> spot.strategy,
                  featured |-> spot.featured, story |-> spot.story, positions |-> spot.positions,
                  dealer |-> spot.dealer, configuration |-> spot.configuration]
      BY <1>1 DEF Envelope
    <2>2. spot.story = i.story /\ spot.positions = [lane \in Lanes |-> Position(i, lane)]
      BY <1>1, EnvelopeShape, Zenon
    <2>3. IsStory(spot.story)
      BY <2>2, ItemsAssumption, Zenon
    <2>4. DOMAIN spot.positions = Lanes
      BY <2>2, Zenon
    <2>5. QED
      BY <2>1, <2>3, <2>4
  <1>2. ASSUME spot \in LegacySpots
        PROVE  /\ spot = [allIn |-> spot.allIn, order |-> spot.order, strategy |-> spot.strategy,
                          featured |-> spot.featured, story |-> spot.story, positions |-> spot.positions,
                          dealer |-> spot.dealer, configuration |-> spot.configuration]
               /\ DOMAIN spot.positions = Lanes
               /\ IsStory(spot.story)
    <2> DEFINE positions == [lane \in Lanes |-> spot.positions[lane]]
    <2>1. /\ spot = [allIn |-> spot.allIn, order |-> spot.order, strategy |-> spot.strategy,
                     featured |-> spot.featured, story |-> spot.story, positions |-> positions,
                     dealer |-> spot.dealer, configuration |-> spot.configuration]
          /\ IsStory(spot.story)
      BY <1>2, LegacyAssumption, Zenon
    <2>2. DOMAIN positions = Lanes
      BY Zenon
    <2> HIDE DEF positions
    <2>3. spot.positions = positions
      BY <2>1
    <2>4. QED
      BY <2>1, <2>2, <2>3, Zenon
  <1>3. QED
    BY <1>1, <1>2 DEF Sound

\* The reader's name for a player: the story's, or else the stored one.
LEMMA ReadName ==
    ASSUME NEW spot, NEW lane \in Lanes
    PROVE  /\ ToldSeats(spot.story, lane) = {} => ReadPositions(spot)[lane] = spot.positions[lane]
           /\ ToldSeats(spot.story, lane) # {} => ReadPositions(spot)[lane] \in ToldSeats(spot.story, lane)
  <1>1. ReadPositions(spot)[lane] = IF ToldSeats(spot.story, lane) = {} THEN spot.positions[lane]
                                    ELSE TheOne(ToldSeats(spot.story, lane))
    BY Zenon DEF ReadPositions
  <1>2. ToldSeats(spot.story, lane) # {} => TheOne(ToldSeats(spot.story, lane)) \in ToldSeats(spot.story, lane)
    BY Zenon DEF TheOne
  <1>3. QED
    BY <1>1, <1>2, Zenon

\* A row the reader takes seats the players as its story does.
LEMMA ReadableSeats ==
    ASSUME NEW spot, Sound(spot), Readable(spot), spot.story # None
    PROVE  SeatedByStory(spot) /\ Buttons(ReadPositions(spot)) # Lanes
  <1>1. IsStory(spot.story)
    BY SoundRow, Zenon
  <1>2. /\ Buttons(ReadPositions(spot)) # Lanes
        /\ \A lane \in Lanes :
              /\ Cardinality(ToldSeats(spot.story, lane)) <= 1
              /\ \A name \in ToldSeats(spot.story, lane) : Upper(spot.positions[lane]) \in {Name(lane), name}
    BY Zenon DEF Readable
  <1>3. \A lane \in Lanes :
           /\ \A a, b \in ToldSeats(spot.story, lane) : a = b
           /\ \A name \in ToldSeats(spot.story, lane) : IsName(name) /\ Upper(name) = name
    BY <1>1, <1>2, ToldOnce, Zenon
  <1>4. QED
    BY <1>2, <1>3, Zenon DEF SeatedByStory

\* The reader takes what an import stored.
LEMMA ImportReadable ==
    ASSUME NEW i \in Items, Importable(i), NEW spot, spot = Envelope(i)
    PROVE  Readable(spot)
  <1>1. SeatsAgree(i) /\ ValidSeats(spot)
    BY DEF Importable, Normalizes
  <1>2. spot.story = i.story /\ spot.positions = [lane \in Lanes |-> Position(i, lane)]
    BY EnvelopeShape, Zenon
  <1>3. IsStory(spot.story)
    BY <1>2, ItemsAssumption, Zenon
  <1>4. \A lane \in Lanes :
           /\ Cardinality(ToldSeats(spot.story, lane)) <= 1
           /\ \A name \in ToldSeats(spot.story, lane) : Upper(spot.positions[lane]) = name
    BY <1>1, Zenon DEF ValidSeats
  <1>5. Buttons(spot.positions) # Lanes
    BY <1>1, <1>2, Zenon DEF SeatsAgree
  <1>6. ASSUME NEW lane \in Lanes
        PROVE  IsButton(ReadPositions(spot)[lane]) <=> IsButton(spot.positions[lane])
    <2> DEFINE seats == ToldSeats(spot.story, lane)
    <2>1. CASE seats = {}
      BY <2>1, ReadName, Zenon
    <2>2. CASE seats # {}
      <3>1. ReadPositions(spot)[lane] \in seats
        BY <2>2, ReadName, Zenon
      <3>2. \A name \in seats : Upper(spot.positions[lane]) = name /\ Upper(name) = name
        BY <1>3, <1>4, ToldOnce, Zenon
      <3>3. QED
        BY <3>1, <3>2, Zenon DEF IsButton
    <2>3. QED
      BY <2>1, <2>2
  <1>7. Buttons(ReadPositions(spot)) = Buttons(spot.positions)
    BY <1>6, Zenon DEF Buttons
  <1>8. Buttons(ReadPositions(spot)) # Lanes
    BY <1>5, <1>7, Zenon
  <1>9. \A lane \in Lanes : \A name \in ToldSeats(spot.story, lane) :
           Upper(spot.positions[lane]) \in {Name(lane), name}
    BY <1>4, Zenon
  <1>10. QED
    BY <1>4, <1>8, <1>9, Zenon DEF Readable

\* Positions that agree with what the story tells of a lane and with the stored name.
Agrees(spot, lane, seat) ==
    /\ ToldSeats(spot.story, lane) \subseteq {seat}
    /\ \/ Upper(seat) = Upper(spot.positions[lane])
       \/ ToldSeats(spot.story, lane) # {} /\ Upper(spot.positions[lane]) = Name(lane)

LEMMA SeatingsAre ==
    ASSUME NEW spot, NEW seats
    PROVE  seats \in Seatings(spot) <=>
             /\ seats \in [Lanes -> UNION {ToldSeats(spot.story, lane) \cup {spot.positions[lane]} : lane \in Lanes}]
             /\ \A lane \in Lanes : Agrees(spot, lane, seats[lane])
             /\ \E lane \in Lanes : ~IsButton(seats[lane])
  BY Zenon DEF Seatings, Agrees

\* What the reader shows of a row it takes is a seating that agrees with it.
LEMMA ReadIsSeating ==
    ASSUME NEW spot, Sound(spot), Readable(spot), spot.story # None
    PROVE  ReadPositions(spot) \in Seatings(spot)
  <1> DEFINE read == ReadPositions(spot)
             names == UNION {ToldSeats(spot.story, lane) \cup {spot.positions[lane]} : lane \in Lanes}
  <1>1. SeatedByStory(spot) /\ Buttons(read) # Lanes
    BY ReadableSeats
  <1>2. read = [lane \in Lanes |-> read[lane]]
    BY Zenon DEF ReadPositions
  <1>3. ASSUME NEW lane \in Lanes PROVE read[lane] \in names /\ Agrees(spot, lane, read[lane])
    <2> DEFINE seats == ToldSeats(spot.story, lane)
    <2>1. seats \cup {spot.positions[lane]} \subseteq names
      BY Zenon
    <2> HIDE DEF names, read
    <2>2. CASE seats = {}
      <3>1. read[lane] = spot.positions[lane]
        BY <2>2, ReadName, Zenon DEF read
      <3>2. QED
        BY <2>1, <2>2, <3>1, Zenon DEF Agrees
    <2>3. CASE seats # {}
      <3>1. read[lane] \in seats
        BY <2>3, ReadName, Zenon DEF read
      <3>2. \A name \in seats : name = read[lane]
        BY <1>1, <3>1, Zenon DEF SeatedByStory
      <3>3. Upper(spot.positions[lane]) \in {Name(lane), read[lane]} /\ Upper(read[lane]) = read[lane]
        BY <1>1, <3>1, Zenon DEF SeatedByStory
      <3>4. Upper(read[lane]) = Upper(spot.positions[lane]) \/ Upper(spot.positions[lane]) = Name(lane)
        BY <3>3, Zenon
      <3>5. seats \subseteq {read[lane]} /\ read[lane] \in names
        BY <2>1, <3>1, <3>2, Zenon
      <3>6. QED
        BY <2>3, <3>4, <3>5, Zenon DEF Agrees
    <2>4. QED
      BY <2>2, <2>3
  <1>4. \E lane \in Lanes : ~IsButton(read[lane])
    <2>1. Buttons(read) \subseteq Lanes /\ \A lane \in Lanes : lane \in Buttons(read) <=> IsButton(read[lane])
      BY Zenon DEF Buttons
    <2> HIDE DEF read
    <2>2. QED
      BY <1>1, <2>1
  <1>5. read \in [Lanes -> names]
    <2> HIDE DEF read, names
    <2>1. QED
      BY <1>2, <1>3, Zenon
  <1>6. QED
    BY <1>3, <1>4, <1>5, SeatingsAre, Zenon

\* The reader takes every row whose players can be seated.
LEMMA SeatingReadable ==
    ASSUME NEW spot, Sound(spot), NEW seats \in Seatings(spot)
    PROVE  Readable(spot)
  <1> DEFINE read == ReadPositions(spot)
  <1>1. (\A lane \in Lanes : Agrees(spot, lane, seats[lane])) /\ \E lane \in Lanes : ~IsButton(seats[lane])
    BY SeatingsAre, Zenon
  <1>2. ASSUME NEW lane \in Lanes PROVE Cardinality(ToldSeats(spot.story, lane)) <= 1
    <2> DEFINE told == ToldSeats(spot.story, lane)
    <2>1. told \subseteq {seats[lane]}
      BY <1>1, Zenon DEF Agrees
    <2> HIDE DEF told
    <2>2. told = {} \/ told = {seats[lane]}
      BY <2>1
    <2>3. Cardinality(told) = 0 \/ Cardinality(told) = 1
      BY <2>2, FS_EmptySet, FS_Singleton
    <2>4. Cardinality(told) <= 1
      BY <2>3
    <2>5. QED
      BY <2>4 DEF told
  <1>3. \A lane \in Lanes : \A name \in ToldSeats(spot.story, lane) : Upper(name) = name
    BY <1>2, SoundRow, ToldOnce, Zenon
  <1>4. ASSUME NEW lane \in Lanes, NEW name \in ToldSeats(spot.story, lane)
        PROVE  Upper(spot.positions[lane]) \in {Name(lane), name}
    <2>1. name = seats[lane] /\ Upper(name) = name
      BY <1>1, <1>3, Zenon DEF Agrees
    <2>2. QED
      BY <1>1, <2>1, Zenon DEF Agrees
  <1>5. Buttons(read) # Lanes
    <2>1. PICK lane \in Lanes : ~IsButton(seats[lane])
      BY <1>1
    <2>2. ~IsButton(read[lane])
      <3>1. CASE ToldSeats(spot.story, lane) = {}
        <4>1. read[lane] = spot.positions[lane] /\ Upper(seats[lane]) = Upper(spot.positions[lane])
          BY <1>1, <3>1, ReadName, Zenon DEF Agrees
        <4>2. QED
          BY <2>1, <4>1, Zenon DEF IsButton
      <3>2. CASE ToldSeats(spot.story, lane) # {}
        <4>1. read[lane] = seats[lane]
          BY <1>1, <3>2, ReadName, Zenon DEF Agrees
        <4>2. QED
          BY <2>1, <4>1, Zenon
      <3>3. QED
        BY <3>1, <3>2
    <2>3. lane \notin Buttons(read)
      BY <2>2, Zenon DEF Buttons
    <2>4. QED
      BY <2>1, <2>3, Zenon
  <1>6. QED
    BY <1>2, <1>4, <1>5, Zenon DEF Readable

\* The view of a row keeps its strategy and puts the dealer on the button.
LEMMA SoundView ==
    ASSUME NEW spot, Sound(spot), NEW seen, seen = ReadPublicSpot(spot)
    PROVE  /\ seen.strategy = spot.strategy /\ seen.allIn = spot.allIn /\ seen.featured = spot.featured
           /\ spot.story # None =>
                 /\ seen.positions = ReadPositions(spot)
                 /\ Buttons(ReadPositions(spot)) # Lanes =>
                       \A lane \in Lanes : IsButton(seen.positions[lane]) => seen.dealer = lane
  <1> DEFINE read == ReadPositions(spot)
             buttons == Buttons(read)
  <1>1. CASE spot.story = None
    <2>1. seen = spot
      BY <1>1, Zenon DEF ReadPublicSpot
    <2>2. QED
      BY <1>1, <2>1, Zenon
  <1>2. CASE spot.story # None
    <2>1. seen = [spot EXCEPT !.positions = read, !.dealer = IF buttons = {} THEN @ ELSE TheOne(buttons)]
      BY <1>2, Zenon DEF ReadPublicSpot
    <2>2. spot = [allIn |-> spot.allIn, order |-> spot.order, strategy |-> spot.strategy,
                  featured |-> spot.featured, story |-> spot.story, positions |-> spot.positions,
                  dealer |-> spot.dealer, configuration |-> spot.configuration]
      BY SoundRow
    <2> HIDE DEF read, buttons
    <2>3. /\ seen.positions = read /\ seen.dealer = (IF buttons = {} THEN spot.dealer ELSE TheOne(buttons))
          /\ seen.strategy = spot.strategy /\ seen.allIn = spot.allIn /\ seen.featured = spot.featured
      BY <2>1, <2>2
    <2>4. ASSUME buttons # Lanes, NEW lane \in Lanes, IsButton(seen.positions[lane]) PROVE seen.dealer = lane
      <3>1. lane \in buttons /\ buttons \subseteq Lanes
        BY <2>3, <2>4 DEF buttons, Buttons
      <3>2. buttons = {lane}
        BY <2>4, <3>1 DEF Lanes
      <3>3. TheOne(buttons) = lane
        BY <3>2 DEF TheOne
      <3>4. QED
        BY <2>3, <3>1, <3>3
    <2>5. QED
      BY <2>3, <2>4, Zenon DEF read, buttons
  <1>3. QED
    BY <1>1, <1>2

\* What has been read could be read, and what has been refused could not.
ReadableInv ==
    /\ view # None => stored # None /\ Readable(stored)
    /\ answer.result = "unreadable" => stored # None /\ ~Readable(stored)

\* Whoever reads a version with a story sees the players in seats that agree with
\* it, the reader refuses only a row that no seats agree with, and an import
\* never stores one (ReadersSeeTheStory of Solution); nothing is assumed of the
\* seats or the story of earlier rows but that they are names.
THEOREM ReadersSeeTheStoryHolds == Spec => []ReadersSeeTheStory
  <1>1. Init => ReadableInv
    BY DEF Init, ReadableInv, Pending
  <1>2. ASSUME Origin, ReadableInv, [Next]_vars PROVE ReadableInv'
    <2>1. CASE ImportSpot
      <3>1. view' = None /\ answer'.result # "unreadable"
        BY <1>2, <2>1 DEF ImportSpot, Origin, Pending
      <3>2. QED
        BY <3>1 DEF ReadableInv
    <2>2. CASE Read
      <3>1. CASE Readable(stored)
        BY <1>2, <2>2, <3>1 DEF Read, ReadableInv, Pending
      <3>2. CASE ~Readable(stored)
        BY <1>2, <2>2, <3>2 DEF Read, ReadableInv, Pending
      <3>3. QED
        BY <3>1, <3>2
    <2>3. ASSUME NEW submission \in Submissions, Submit(submission) PROVE ReadableInv'
      <3>1. answer'.result \in {"refused", "unavailable", "scored"} /\ UNCHANGED <<stored, view>>
        BY <2>3 DEF Submit, Score
      <3>2. QED
        BY <1>2, <3>1 DEF ReadableInv
    <2>4. CASE UNCHANGED vars
      BY <1>2, <2>4 DEF vars, ReadableInv
    <2>5. QED
      BY <1>2, <2>1, <2>2, <2>3, <2>4 DEF Next
  <1>3. ASSUME Origin, ReadableInv PROVE ReadersSeeTheStory
    <2>1. ASSUME Imported, stored.story # None PROVE Seatings(stored) # {}
      <3>1. item \in Items /\ Importable(item) /\ stored = Envelope(item) /\ Sound(stored)
        BY <1>3, <2>1 DEF Origin, Imported
      <3>2. Readable(stored)
        BY <3>1, ImportReadable
      <3>3. ReadPositions(stored) \in Seatings(stored)
        BY <2>1, <3>1, <3>2, ReadIsSeating
      <3>4. QED
        BY <3>3, Zenon
    <2>2. ASSUME answer.result = "unreadable" PROVE stored.story # None /\ Seatings(stored) = {}
      <3>1. stored # None /\ ~Readable(stored) /\ Sound(stored)
        BY <1>3, <2>2, Zenon DEF ReadableInv, Origin
      <3>2. ASSUME NEW seats \in Seatings(stored) PROVE FALSE
        BY <3>1, <3>2, SeatingReadable
      <3>3. stored.story # None
        BY <3>1, Zenon DEF Readable
      <3>4. QED
        BY <3>2, <3>3, Zenon
    <2>3. ASSUME view # None, stored.story # None
          PROVE  /\ view.positions \in Seatings(stored)
                 /\ \A lane \in Lanes : IsButton(view.positions[lane]) => view.dealer = lane
      <3>1. Sound(stored) /\ view = ReadPublicSpot(stored) /\ Readable(stored)
        BY <1>3, <2>3, Zenon DEF ReadableInv, Origin
      <3>2. ReadPositions(stored) \in Seatings(stored) /\ Buttons(ReadPositions(stored)) # Lanes
        BY <2>3, <3>1, ReadIsSeating, ReadableSeats
      <3>3. QED
        BY <2>3, <3>1, <3>2, SoundView, Zenon
    <2>4. QED
      BY <2>1, <2>2, <2>3, Zenon DEF ReadersSeeTheStory
  <1>4. QED
    BY <1>1, <1>2, <1>3, OriginHolds, PTL DEF Spec

-----------------------------------------------------------------------------
(* Hands.                                                                  *)

\* A distribution of the whole over n actions.
Whole(f, n) == f = [a \in 1 .. n |-> f[a]] /\ (\A a \in 1 .. n : f[a] \in Nat) /\ SumFunctionOnSet(f, 1 .. n) = Total

LEMMA SoundStrategy ==
    ASSUME NEW spot, Sound(spot)
    PROVE  /\ Len(spot.allIn) \in Nat /\ DOMAIN spot.allIn = 1 .. Len(spot.allIn)
           /\ None \notin DOMAIN spot.strategy
           /\ \A combo \in DOMAIN spot.strategy :
                 /\ IsCombo(combo) /\ Active(spot.strategy[combo].reach)
                 /\ Whole(spot.strategy[combo].frequencies, Len(spot.allIn))
  <1>1. ASSUME NEW i \in Items, Importable(i), spot = Envelope(i)
        PROVE  /\ Len(spot.allIn) \in Nat /\ DOMAIN spot.allIn = 1 .. Len(spot.allIn)
               /\ None \notin DOMAIN spot.strategy
               /\ \A combo \in DOMAIN spot.strategy :
                     /\ IsCombo(combo) /\ Active(spot.strategy[combo].reach)
                     /\ Whole(spot.strategy[combo].frequencies, Len(spot.allIn))
    <2>1. /\ Len(spot.allIn) \in Nat /\ DOMAIN spot.allIn = 1 .. Len(spot.allIn) /\ spot.allIn = i.allIn
          /\ DOMAIN spot.strategy = Selectable(i) /\ None \notin DOMAIN spot.strategy
      BY <1>1, EnvelopeHolds
    <2>2. ASSUME NEW combo \in DOMAIN spot.strategy
          PROVE  /\ IsCombo(combo) /\ Active(spot.strategy[combo].reach)
                 /\ Whole(spot.strategy[combo].frequencies, Len(spot.allIn))
      <3> DEFINE w == Weights(i, combo)
                 n == Len(i.allIn)
                 f == spot.strategy[combo].frequencies
      <3>1. /\ IsCombo(combo) /\ f = Apportion(w, 1 .. n) /\ (\A a \in 1 .. n : w[a] \in Nat) /\ Shares(w, n) > 0
            /\ n \in Nat
        BY <1>1, <2>1, EnvelopeHolds
      <3>2. Active(spot.strategy[combo].reach)
        BY <1>1, Zenon DEF Importable, Normalizes, ValidStrategy
      <3> HIDE DEF w, n, f
      <3>3. Fair(f, w, n)
        BY <3>1, NumbersAssumption, Apportioned
      <3>4. Whole(f, n)
        <4>1. f = [a \in 1 .. n |-> f[a]] /\ SumFunction(f) = Total /\ \A a \in 1 .. n : f[a] \in Nat
          BY <3>3, Zenon DEF Fair
        <4>2. DOMAIN f = 1 .. n
          BY <4>1, Zenon
        <4>3. QED
          BY <4>1, <4>2, Zenon DEF Whole, SumFunction
      <3>5. QED
        BY <2>1, <3>1, <3>2, <3>4, Zenon DEF f, n
    <2>3. QED
      BY <2>1, <2>2
  <1>2. ASSUME spot \in LegacySpots
        PROVE  /\ Len(spot.allIn) \in Nat /\ DOMAIN spot.allIn = 1 .. Len(spot.allIn)
               /\ None \notin DOMAIN spot.strategy
               /\ \A combo \in DOMAIN spot.strategy :
                     /\ IsCombo(combo) /\ Active(spot.strategy[combo].reach)
                     /\ Whole(spot.strategy[combo].frequencies, Len(spot.allIn))
    <2>1. /\ spot.allIn \in Seq(BOOLEAN) /\ ValidStrategy(spot) /\ None \notin DOMAIN spot.strategy
          /\ \A combo \in DOMAIN spot.strategy : IsCombo(combo) /\ spot.strategy[combo].frequencies \in Seq(Nat)
      BY <1>2, LegacyAssumption, Zenon
    <2>2. Len(spot.allIn) \in Nat /\ DOMAIN spot.allIn = 1 .. Len(spot.allIn)
      BY <2>1
    <2>3. ASSUME NEW combo \in DOMAIN spot.strategy
          PROVE  /\ Active(spot.strategy[combo].reach)
                 /\ Whole(spot.strategy[combo].frequencies, Len(spot.allIn))
      <3> DEFINE f == spot.strategy[combo].frequencies
                 n == Len(spot.allIn)
      <3>1. Active(spot.strategy[combo].reach) /\ DOMAIN f = 1 .. n /\ SumFunction(f) = Total
        BY <2>1, <2>2, Zenon DEF ValidStrategy
      <3>2. f \in Seq(Nat)
        BY <2>1, Zenon
      <3> HIDE DEF f, n
      <3>3. f = [a \in DOMAIN f |-> f[a]] /\ \A a \in DOMAIN f : f[a] \in Nat
        BY <3>2
      <3>4. Whole(f, n)
        BY <3>1, <3>3, Zenon DEF Whole, SumFunction
      <3>5. QED
        BY <3>1, <3>4, Zenon DEF f, n
    <2>4. QED
      BY <2>1, <2>2, <2>3, Zenon
  <1>3. QED
    BY <1>1, <1>2, Zenon DEF Sound

\* A hand that the contract admits: the row it is scored by, and its allocations.
LEMMA AdmittedHand ==
    ASSUME NEW spot, Sound(spot), NEW submission \in Submissions, Admitted(ReadPublicSpot(spot), submission),
           NEW i \in DOMAIN submission, NEW exact, exact = ResolveExactCombo(spot.strategy, submission[i].combo)
    PROVE  /\ exact \in DOMAIN spot.strategy /\ exact \in ToSet(Variants(submission[i].combo))
           /\ submission[i].combo \in DOMAIN spot.strategy => exact = submission[i].combo
           /\ Available(spot.strategy, submission[i].combo)
           /\ Whole(submission[i].allocations, Len(spot.allIn))
           /\ Whole(spot.strategy[exact].frequencies, Len(spot.allIn))
  <1> DEFINE c == submission[i].combo
             p == submission[i].allocations
             n == Len(spot.allIn)
             seen == ReadPublicSpot(spot)
             table == DOMAIN spot.strategy
  <1>1. seen.strategy = spot.strategy /\ seen.allIn = spot.allIn
    BY SoundView
  <1>2. /\ {submission[k].combo : k \in DOMAIN submission} \subseteq UNION {ToSet(Variants(combo)) : combo \in table}
        /\ DOMAIN p = DOMAIN spot.allIn /\ SumFunction(p) = Total
    BY <1>1, Zenon DEF Admitted
  <1>3. /\ n \in Nat /\ DOMAIN spot.allIn = 1 .. n /\ None \notin table
        /\ \A combo \in table : IsCombo(combo) /\ Active(spot.strategy[combo].reach)
                                /\ Whole(spot.strategy[combo].frequencies, n)
    BY SoundStrategy
  <1> HIDE DEF seen, table
  <1>4. PICK combo \in table : c \in ToSet(Variants(combo))
    BY <1>2
  <1>5. \A k : ToSet(Variants(k)) = {k, Reversed(k)}
    BY DEF ToSet, Variants
  <1>6. c = combo \/ (c = Reversed(combo) /\ Reversed(c) = combo)
    <2>1. combo = <<combo[1], combo[2]>>
      BY <1>3, <1>4 DEF IsCombo
    <2>2. c = combo \/ c = Reversed(combo)
      BY <1>4, <1>5
    <2>3. c = Reversed(combo) => Reversed(c) = <<combo[1], combo[2]>>
      <3> HIDE DEF c
      <3>1. QED
        BY DEF Reversed
    <2>4. QED
      BY <2>1, <2>2, <2>3, Zenon
  <1>7. exact = IF c \in table THEN c ELSE IF Reversed(c) \in table THEN Reversed(c) ELSE None
    BY ResolveIs, Zenon DEF ResolveExactCombo, table
  <1>8. exact \in table /\ exact \in {c, Reversed(c)} /\ (c \in table => exact = c)
    BY <1>4, <1>6, <1>7
  <1>9. Available(spot.strategy, c)
    BY <1>3, <1>8, Zenon DEF Available
  <1>10. Whole(p, n)
    <2>1. p \in Seq(Nat)
      BY SubmissionsAssumption, Zenon
    <2> HIDE DEF p, n
    <2>2. p = [a \in DOMAIN p |-> p[a]] /\ \A a \in DOMAIN p : p[a] \in Nat
      BY <2>1
    <2>3. DOMAIN p = 1 .. n
      BY <1>2, <1>3, Zenon
    <2>4. QED
      BY <1>2, <2>2, <2>3, Zenon DEF Whole, SumFunction
  <1>11. QED
    BY <1>3, <1>5, <1>8, <1>9, <1>10, Zenon DEF table

LEMMA MinOfTwo == ASSUME NEW a \in Int, NEW b \in Int PROVE Min({a, b}) = IF a <= b THEN a ELSE b
  <1> DEFINE m == IF a <= b THEN a ELSE b
  <1>1. m \in {a, b} /\ (\A y \in {a, b} : m <= y) /\ m \in Int
    OBVIOUS
  <1>2. \A x \in {a, b} : (\A y \in {a, b} : x <= y) => x = m
    OBVIOUS
  <1> HIDE DEF m
  <1>3. Min({a, b}) \in {a, b} /\ \A y \in {a, b} : Min({a, b}) <= y
    BY <1>1, Zenon DEF Min
  <1>4. Min({a, b}) = m
    BY <1>2, <1>3
  <1>5. QED
    BY <1>4 DEF m

Shared(p, f, n) == [a \in 1 .. n |-> Min({f[a], p[a]})]

\* The similarity of two distributions of the whole is what they share.
LEMMA SharedPart ==
    ASSUME NEW n \in Nat, NEW p, Whole(p, n), NEW f, Whole(f, n)
    PROVE  /\ L1(p, f) = SumFunctionOnSet(Shared(p, f, n), 1 .. n)
           /\ SumFunctionOnSet(Shared(p, f, n), 1 .. n) \in 0 .. Total
  <1>s. PICK shared : shared = Shared(p, f, n) /\ shared = [a \in 1 .. n |-> Min({f[a], p[a]})]
    BY Zenon DEF Shared
  <1> DEFINE A == 1 .. n
             both == [a \in A |-> 1 * p[a] + 1 * f[a]]
             apart == [a \in A |-> IF p[a] > f[a] THEN p[a] - f[a] ELSE f[a] - p[a]]
             O == SumFunctionOnSet(shared, A)
  <1>0. Total \in Nat \ {0} /\ IsFiniteSet(A)
    BY NumbersAssumption, FS_Interval
  <1>1. /\ \A a \in A : p[a] \in Nat /\ f[a] \in Nat
        /\ SumFunctionOnSet(p, A) = Total /\ SumFunctionOnSet(f, A) = Total /\ DOMAIN p = A
    BY Zenon DEF Whole
  <1>2. \A a \in A : /\ shared[a] = (IF f[a] <= p[a] THEN f[a] ELSE p[a]) /\ shared[a] \in Int
                     /\ shared[a] >= 0 /\ shared[a] <= f[a]
    <2>1. TAKE a \in A
    <2>2. p[a] \in Nat /\ f[a] \in Nat /\ p[a] \in Int /\ f[a] \in Int
      BY <1>1
    <2>3. shared[a] = Min({f[a], p[a]})
      BY <1>s, Zenon
    <2>4. Min({f[a], p[a]}) = IF f[a] <= p[a] THEN f[a] ELSE p[a]
      BY <2>2, MinOfTwo, Zenon
    <2>5. QED
      BY <2>2, <2>3, <2>4
  <1>3. \A a \in A : both[a] = 1 * p[a] + 1 * f[a] /\ both[a] \in Int
    BY <1>1
  <1>4. \A a \in A : apart[a] = 1 * both[a] + (-2) * shared[a]
    <2>1. TAKE a \in A
    <2>2. /\ p[a] \in Nat /\ f[a] \in Nat /\ both[a] = p[a] + f[a]
          /\ shared[a] = (IF f[a] <= p[a] THEN f[a] ELSE p[a])
      BY <1>1, <1>2, <1>3
    <2>3. apart[a] = IF p[a] > f[a] THEN p[a] - f[a] ELSE f[a] - p[a]
      OBVIOUS
    <2> HIDE DEF apart, both, A
    <2>4. CASE f[a] <= p[a]
      BY <2>2, <2>3, <2>4
    <2>5. CASE f[a] > p[a]
      BY <2>2, <2>3, <2>5
    <2>6. QED
      BY <2>2, <2>4, <2>5
  <1> HIDE DEF A, both, O
  <1>5. SumFunctionOnSet(both, A) = 1 * SumFunctionOnSet(p, A) + 1 * SumFunctionOnSet(f, A)
    <2>1. \A a \in A : p[a] \in Int /\ f[a] \in Int /\ both[a] = 1 * p[a] + 1 * f[a]
      BY <1>1, <1>3
    <2>2. 1 \in Int
      OBVIOUS
    <2>3. Combines(both, 1, p, 1, f, A)
      BY <2>1, <2>2, Zenon DEF Combines
    <2>4. QED
      BY <1>0, <2>3, SumCombined
  <1>6. SumFunctionOnSet(apart, A) = 1 * SumFunctionOnSet(both, A) + (-2) * SumFunctionOnSet(shared, A)
    <2>1. \A a \in A : both[a] \in Int /\ shared[a] \in Int /\ apart[a] = 1 * both[a] + (-2) * shared[a]
      BY <1>2, <1>3, <1>4
    <2>2. PICK k \in Int, l \in Int : k = 1 /\ l = -2
      OBVIOUS
    <2> HIDE DEF apart
    <2>3. \A a \in A : both[a] \in Int /\ shared[a] \in Int /\ apart[a] = k * both[a] + l * shared[a]
      BY <2>1, <2>2, Zenon
    <2>4. Combines(apart, k, both, l, shared, A)
      BY <2>2, <2>3, Zenon DEF Combines
    <2>b. SumFunctionOnSet(apart, A) = k * SumFunctionOnSet(both, A) + l * SumFunctionOnSet(shared, A)
      BY <1>0, <2>4, SumCombined
    <2>5. QED
      BY <2>2, <2>b, Zenon
  <1>7. O \in Int /\ O >= 0 /\ O <= Total
    <2>1. SumFunctionOnSet(shared, A) \in Int /\ SumFunctionOnSet(shared, A) >= 0
      BY <1>0, <1>2, SumType
    <2>2. \A a \in A : shared[a] \in Int /\ f[a] \in Int /\ shared[a] <= f[a]
      <3>1. TAKE a \in A
      <3>2. f[a] \in Int
        BY <1>1
      <3>3. QED
        BY <1>2, <3>2, Zenon
    <2>3. SumFunctionOnSet(shared, A) <= SumFunctionOnSet(f, A)
      BY <1>0, <2>2, SumCompares
    <2>4. QED
      BY <1>1, <2>1, <2>3 DEF O
  <1>8. Distance(p, f) = 2 * Total - 2 * O
    <2>1. Distance(p, f) = SumFunctionOnSet(apart, A)
      <3>1. DOMAIN apart = A
        BY Zenon
      <3>2. Distance(p, f) = SumFunction(apart)
        BY <1>1, Zenon DEF Distance
      <3> HIDE DEF apart
      <3>3. QED
        BY <3>1, <3>2, Zenon DEF SumFunction
    <2> DEFINE D == SumFunctionOnSet(apart, A)
               B == SumFunctionOnSet(both, A)
    <2>2. D = 1 * B + (-2) * O /\ B = 1 * Total + 1 * Total
      BY <1>1, <1>5, <1>6, Zenon DEF O
    <2> HIDE DEF D, B, apart
    <2>3. D = 2 * Total - 2 * O
      BY <1>0, <1>7, <2>2
    <2>4. QED
      BY <2>1, <2>3, Zenon DEF D
  <1>9. Round(2 * Total - Distance(p, f), 2) = O
    <2>1. 2 * Total - Distance(p, f) = 2 * O
      BY <1>0, <1>7, <1>8
    <2>2. (2 * (2 * O) + 2) \div (2 * 2) = O
      BY <1>7
    <2>3. QED
      BY <2>1, <2>2, Zenon DEF Round
  <1>10. L1(p, f) = O
    <2>1. Min({Total, O}) = O
      <3>1. Min({Total, O}) = IF Total <= O THEN Total ELSE O
        BY <1>0, <1>7, MinOfTwo
      <3>2. QED
        BY <1>0, <1>7, <3>1
    <2>2. Max({0, O}) = O
      <3>1. {0, O} \in SUBSET Int /\ {0, O} # {}
        BY <1>7
      <3>2. IsFiniteSet({0, O})
        <4>1. IsFiniteSet({0} \cup {O})
          BY FS_Singleton, FS_AddElement
        <4>2. {0} \cup {O} = {0, O}
          OBVIOUS
        <4>3. QED
          BY <4>1, <4>2
      <3>3. Max({0, O}) \in {0, O} /\ \A m \in {0, O} : m <= Max({0, O})
        BY <3>1, <3>2, GreatestOfFinite
      <3>4. QED
        BY <1>7, <3>3
    <2>3. QED
      BY <1>9, <2>1, <2>2, Zenon DEF L1
  <1>11. QED
    BY <1>0, <1>7, <1>10, <1>s DEF O, A

\* The majority action is one of the greatest frequency.
LEMMA MajorityIsGreatest ==
    ASSUME NEW n \in Nat, NEW f, Whole(f, n)
    PROVE  Majority(f) \in 1 .. n /\ f[Majority(f)] = Max(Range(f))
  <1> DEFINE A == 1 .. n
             V == {f[a] : a \in A}
             m == Max(V)
             J == {n - a : a \in {b \in A : f[b] = m}}
             Best(a) == \A b \in A : f[b] < f[a] \/ (f[b] = f[a] /\ a <= b)
  <1>1. DOMAIN f = A /\ (\A a \in A : f[a] \in Nat) /\ SumFunctionOnSet(f, A) = Total
    BY Zenon DEF Whole
  <1>2. Total \in Nat \ {0} /\ IsFiniteSet(A) /\ SumFunctionOnSet(f, {}) = 0
    <2>1. IsFiniteSet(A)
      BY FS_Interval
    <2>2. SumFunctionOnSet(f, {}) = 0
      BY FS_EmptySet, SumSteps
    <2>3. QED
      BY <2>1, <2>2, NumbersAssumption
  <1>3. A # {}
    BY <1>1, <1>2
  <1>4. V \in SUBSET Int /\ V # {} /\ IsFiniteSet(V)
    <2>1. V \in SUBSET Int /\ V # {}
      BY <1>1, <1>3
    <2> DEFINE g == [a \in A |-> f[a]]
    <2>2. g \in Surjection(A, V)
      BY DEF Surjection
    <2> HIDE DEF g, V, A
    <2>3. IsFiniteSet(V)
      BY <1>2, <2>2, FS_Surjection
    <2>4. QED
      BY <2>1, <2>3
  <1>5. m \in V /\ \A v \in V : v <= m
    BY <1>4, GreatestOfFinite
  <1>6. Range(f) = V
    BY <1>1 DEF Range
  <1> HIDE DEF m
  <1>7. \E a \in A : Best(a)
    <2>1. J \in SUBSET (0 .. n) /\ J # {}
      BY <1>5
    <2>2. J \in SUBSET Int /\ IsFiniteSet(J)
      <3>1. IsFiniteSet(0 .. n)
        BY FS_Interval
      <3> HIDE DEF J
      <3>2. IsFiniteSet(J)
        BY <2>1, <3>1, FS_Subset
      <3>3. \A j \in 0 .. n : j \in Int
        OBVIOUS
      <3>4. QED
        BY <2>1, <3>2, <3>3
    <2>3. Max(J) \in J /\ \A j \in J : j <= Max(J)
      <3> HIDE DEF J
      <3>1. QED
        BY <2>1, <2>2, GreatestOfFinite
    <2>4. PICK k \in J : \A j \in J : j <= k
      BY <2>3
    <2>5. PICK a \in A : f[a] = m /\ k = n - a
      BY <2>4
    <2>6. ASSUME NEW b \in A PROVE f[b] < f[a] \/ (f[b] = f[a] /\ a <= b)
      <3>1. f[b] <= m /\ f[b] \in Nat /\ f[a] \in Nat /\ b \in Int /\ a \in Int
        BY <1>1, <1>5
      <3>2. f[b] = m => n - b <= n - a
        BY <2>4, <2>5
      <3>3. QED
        BY <2>5, <3>1, <3>2
    <2>7. QED
      BY <2>6
  <1>8. Majority(f) \in A /\ Best(Majority(f))
    <2>1. Majority(f) = CHOOSE a \in A : Best(a)
      BY <1>1, Zenon DEF Majority
    <2> HIDE DEF Best
    <2>2. QED
      BY <1>7, <2>1, Zenon
  <1>9. f[Majority(f)] = m
    <2> DEFINE a == Majority(f)
    <2> HIDE DEF a
    <2>1. a \in A /\ \A b \in A : f[b] < f[a] \/ (f[b] = f[a] /\ a <= b)
      BY <1>8 DEF a
    <2>2. PICK b \in A : f[b] = m
      BY <1>5
    <2>3. f[a] <= m /\ f[a] \in Nat /\ f[b] \in Nat
      BY <1>1, <1>5, <2>1
    <2>4. f[a] = m
      BY <2>1, <2>2, <2>3
    <2>5. QED
      BY <2>4 DEF a
  <1>10. QED
    BY <1>6, <1>8, <1>9 DEF m

\* The differences of a hand cancel out.
LEMMA DifferencesCancel ==
    ASSUME NEW n \in Nat, NEW p, Whole(p, n), NEW f, Whole(f, n)
    PROVE  SumFunction([a \in DOMAIN f |-> p[a] - f[a]]) = 0
  <1> DEFINE d == [a \in 1 .. n |-> p[a] - f[a]]
  <1>1. /\ \A a \in 1 .. n : p[a] \in Nat /\ f[a] \in Nat
        /\ SumFunctionOnSet(p, 1 .. n) = Total /\ SumFunctionOnSet(f, 1 .. n) = Total /\ DOMAIN f = 1 .. n
    BY Zenon DEF Whole
  <1>2. IsFiniteSet(1 .. n) /\ 1 \in Int /\ -1 \in Int
    BY FS_Interval
  <1>3. \A a \in 1 .. n : p[a] \in Int /\ f[a] \in Int /\ d[a] = 1 * p[a] + (-1) * f[a]
    BY <1>1
  <1>4. DOMAIN d = 1 .. n
    BY Zenon
  <1> HIDE DEF d
  <1>5. SumFunctionOnSet(d, 1 .. n) = 1 * SumFunctionOnSet(p, 1 .. n) + (-1) * SumFunctionOnSet(f, 1 .. n)
    <2>1. Combines(d, 1, p, -1, f, 1 .. n)
      BY <1>2, <1>3, Zenon DEF Combines
    <2>2. QED
      BY <1>2, <2>1, SumCombined
  <1>6. SumFunctionOnSet(d, 1 .. n) = 0
    BY <1>1, <1>5, NumbersAssumption
  <1>7. SumFunction(d) = 0
    BY <1>4, <1>6, Zenon DEF SumFunction
  <1>8. QED
    BY <1>1, <1>7, Zenon DEF d

ByTheHolding(spot, hand, result) ==
    \E combo \in ToSet(Variants(hand.combo)) \cap DOMAIN spot.strategy :
        LET f == spot.strategy[combo].frequencies
            overlap == [a \in DOMAIN f |-> Min({f[a], hand.allocations[a]})]
        IN  /\ hand.combo \in DOMAIN spot.strategy => combo = hand.combo
            /\ result.similarity = SumFunction(overlap)
            /\ SumFunction(result.differences) = 0
            /\ f[result.majority] = Max(Range(f))

LEMMA HandScored ==
    ASSUME NEW spot, Sound(spot), NEW submission \in Submissions, Admitted(ReadPublicSpot(spot), submission),
           NEW i \in DOMAIN submission
    PROVE  /\ ScoreHand(spot.strategy, submission[i]).similarity \in 0 .. Total
           /\ ByTheHolding(spot, submission[i], ScoreHand(spot.strategy, submission[i]))
  <1>r. PICK result : result = ScoreHand(spot.strategy, submission[i])
    OBVIOUS
  <1> DEFINE exact == ResolveExactCombo(spot.strategy, submission[i].combo)
             f == spot.strategy[exact].frequencies
             p == submission[i].allocations
             n == Len(spot.allIn)
             overlap == [a \in DOMAIN f |-> Min({f[a], p[a]})]
  <1>1. /\ exact \in DOMAIN spot.strategy /\ exact \in ToSet(Variants(submission[i].combo))
        /\ submission[i].combo \in DOMAIN spot.strategy => exact = submission[i].combo
        /\ Whole(p, n) /\ Whole(f, n)
    BY AdmittedHand
  <1>2. n \in Nat
    BY SoundStrategy
  <1>3. /\ result.similarity = L1(p, f) /\ result.majority = Majority(f)
        /\ result.differences = [a \in DOMAIN f |-> p[a] - f[a]]
    BY <1>r DEF ScoreHand
  <1> HIDE DEF exact, f, p, n
  <1>4. DOMAIN f = 1 .. n
    BY <1>1, Zenon DEF Whole
  <1>5. overlap = [a \in 1 .. n |-> Min({f[a], p[a]})] /\ DOMAIN overlap = 1 .. n
    BY <1>4, Zenon
  <1> HIDE DEF overlap
  <1>6. L1(p, f) = SumFunctionOnSet(overlap, 1 .. n) /\ SumFunctionOnSet(overlap, 1 .. n) \in 0 .. Total
    <2>1. overlap = Shared(p, f, n)
      BY <1>5, Zenon DEF Shared
    <2>2. L1(p, f) = SumFunctionOnSet(Shared(p, f, n), 1 .. n) /\ SumFunctionOnSet(Shared(p, f, n), 1 .. n) \in 0 .. Total
      BY <1>1, <1>2, SharedPart
    <2>3. QED
      BY <2>1, <2>2, Zenon
  <1>7. result.similarity = SumFunction(overlap) /\ result.similarity \in 0 .. Total
    BY <1>3, <1>5, <1>6, Zenon DEF SumFunction
  <1>8. SumFunction(result.differences) = 0
    <2>1. SumFunction([a \in DOMAIN f |-> p[a] - f[a]]) = 0
      BY <1>1, <1>2, DifferencesCancel
    <2>2. QED
      BY <1>3, <2>1, Zenon
  <1>9. f[result.majority] = Max(Range(f))
    BY <1>1, <1>2, <1>3, MajorityIsGreatest, Zenon
  <1>10. exact \in ToSet(Variants(submission[i].combo)) \cap DOMAIN spot.strategy
    BY <1>1
  <1>11. QED
    <2>1. ByTheHolding(spot, submission[i], result)
      BY <1>1, <1>7, <1>8, <1>9, <1>10, Zenon DEF f, p, overlap, ByTheHolding
    <2>2. QED
      BY <1>7, <1>r, <2>1, Zenon

ScorableInv == answer.result # "unavailable"

LEMMA ViewAdmits ==
    ASSUME Origin, NEW submission, Admitted(view, submission), view # None
    PROVE  Sound(stored) /\ Admitted(ReadPublicSpot(stored), submission)
  BY Zenon DEF Origin

\* What the contract admits can be scored, in either spelling, and every hand
\* gets the overlap with the stored strategy of this very holding
\* (AdmittedHandsScore of Solution).
THEOREM AdmittedHandsScoreHolds == Spec => []AdmittedHandsScore
  <1>1. Init => ScorableInv
    BY DEF Init, ScorableInv, Pending
  <1>2. ASSUME Origin, ScorableInv, [Next]_vars PROVE ScorableInv'
    <2>1. CASE ImportSpot
      BY <1>2, <2>1 DEF ImportSpot, ScorableInv
    <2>2. CASE Read
      BY <1>2, <2>2 DEF Read, ScorableInv
    <2>3. ASSUME NEW submission \in Submissions, Submit(submission) PROVE ScorableInv'
      <3>1. CASE ~Admitted(view, submission)
        BY <2>3, <3>1 DEF Submit, ScorableInv
      <3>2. CASE Admitted(view, submission)
        <4>1. Sound(stored) /\ Admitted(ReadPublicSpot(stored), submission)
          BY <1>2, <2>3, <3>2, ViewAdmits DEF Submit
        <4>2. \A i \in DOMAIN submission : Available(stored.strategy, submission[i].combo)
          BY <4>1, AdmittedHand
        <4>3. answer' = Score(stored.strategy, submission)
          BY <2>3, <3>2, <4>2, Zenon DEF Submit
        <4>4. QED
          BY <4>3 DEF Score, ScorableInv
      <3>3. QED
        BY <3>1, <3>2
    <2>4. CASE UNCHANGED vars
      BY <1>2, <2>4 DEF vars, ScorableInv
    <2>5. QED
      BY <1>2, <2>1, <2>2, <2>3, <2>4 DEF Next
  <1>3. ASSUME Origin, ScorableInv PROVE AdmittedHandsScore
    <2>1. ASSUME Scored, NEW i \in DOMAIN hands
          PROVE  ByTheHolding(stored, hands[i], answer.hands[i])
      <3>1. /\ Sound(stored) /\ hands \in Submissions /\ Admitted(ReadPublicSpot(stored), hands)
            /\ answer = Score(stored.strategy, hands)
        BY <1>3, <2>1, ViewAdmits DEF Origin
      <3>2. answer.hands = [k \in DOMAIN hands |-> ScoreHand(stored.strategy, hands[k])]
        BY <3>1 DEF Score
      <3>3. answer.hands[i] = ScoreHand(stored.strategy, hands[i])
        BY <3>2, Zenon
      <3>4. QED
        <4>1. ByTheHolding(stored, hands[i], ScoreHand(stored.strategy, hands[i]))
          BY <2>1, <3>1, HandScored
        <4>2. QED
          BY <3>3, <4>1, Zenon
    <2>2. QED
      BY <1>3, <2>1, Zenon DEF AdmittedHandsScore, ScorableInv, ByTheHolding
  <1>4. QED
    BY <1>1, <1>2, <1>3, OriginHolds, PTL DEF Spec

-----------------------------------------------------------------------------
(* Points.                                                                 *)

\* Rounding a quotient keeps within bounds and keeps the order.
LEMMA RoundBounds ==
    ASSUME NEW d \in Nat \ {0}, NEW t \in Nat, NEW m \in Int, 0 <= m, m <= t * d
    PROVE  /\ Round(m, d) \in 0 .. t
           /\ m = t * d => Round(m, d) = t
           /\ m = 0 => Round(m, d) = 0
  <1> DEFINE n == 2 * m + d
             e == 2 * d
  <1>1. n \in Int /\ n >= 0 /\ e \in Nat \ {0} /\ Round(m, d) = n \div e
    BY DEF Round
  <1>2. t * e = 2 * (t * d) /\ 0 * e = 0 /\ t * d \in Nat
    OBVIOUS
  <1>3. n < t * e + e /\ (m = t * d => t * e <= n) /\ (m = 0 => n < 0 * e + e)
    BY <1>2
  <1> HIDE DEF n, e
  <1>4. Round(m, d) \in Int /\ Round(m, d) >= 0 /\ e * Round(m, d) <= n
    <2>1. n \div e \in Int /\ n % e \in 0 .. (e - 1) /\ n = e * (n \div e) + (n % e) /\ (n >= 0 => n \div e >= 0)
      <3>1. PICK v \in Int, g \in Nat \ {0} : v = n /\ g = e
        BY <1>1
      <3>2. v \div g \in Int /\ v % g \in 0 .. (g - 1) /\ v = g * (v \div g) + (v % g) /\ (v >= 0 => v \div g >= 0)
        OBVIOUS
      <3>3. QED
        BY <3>1, <3>2, Zenon
    <2>2. PICK q \in Int, r \in 0 .. (e - 1) : q = n \div e /\ n = e * q + r /\ q >= 0
      BY <1>1, <2>1
    <2>3. e * q \in Int /\ e * q <= n
      BY <1>1, <2>2
    <2>4. QED
      BY <1>1, <2>2, <2>3, Zenon
  <1>5. Round(m, d) <= t
    <2>1. PICK q \in Int : q = Round(m, d)
      BY <1>4
    <2>2. e * q = q * e /\ q * e \in Int /\ (t + 1) * e = t * e + e /\ t * e \in Int
      BY <1>1, ProductOrder
    <2>3. ~((t + 1) * e <= q * e)
      BY <1>1, <1>3, <1>4, <2>1, <2>2
    <2>4. t + 1 \in Int /\ ((t + 1) * e <= q * e <=> t + 1 <= q)
      <3>1. t + 1 \in Int
        OBVIOUS
      <3>2. QED
        BY <1>1, <3>1, ProductOrder
    <2>5. q <= t
      BY <2>3, <2>4
    <2>6. QED
      BY <2>1, <2>5
  <1>6. m = t * d => Round(m, d) = t
    BY <1>1, <1>3, Quotient
  <1>7. m = 0 => Round(m, d) = 0
    BY <1>1, <1>2, <1>3, Quotient
  <1>8. QED
    BY <1>4, <1>5, <1>6, <1>7

LEMMA RoundMonotone ==
    ASSUME NEW d \in Nat \ {0}, NEW m \in Int, NEW k \in Int, m <= k
    PROVE  Round(m, d) <= Round(k, d)
  <1> DEFINE e == 2 * d
             x == 2 * m + d
             y == 2 * k + d
  <1>1. x \in Int /\ y \in Int /\ x <= y /\ e \in Nat \ {0} /\ Round(m, d) = x \div e /\ Round(k, d) = y \div e
    BY DEF Round
  <1> HIDE DEF e, x, y
  <1>2. PICK p \in Int, r \in 0 .. (e - 1) : p = x \div e /\ x = e * p + r
    BY <1>1, Division
  <1>3. PICK q \in Int, s \in 0 .. (e - 1) : q = y \div e /\ y = e * q + s
    <2>1. PICK v \in Int, g \in Nat \ {0} : v = y /\ g = e
      BY <1>1
    <2>2. v \div g \in Int /\ v % g \in 0 .. (g - 1) /\ v = g * (v \div g) + (v % g)
      OBVIOUS
    <2>3. QED
      BY <2>1, <2>2, Zenon
  <1>4. /\ e * p = p * e /\ p * e \in Int /\ e * q = q * e /\ q * e \in Int /\ (q + 1) * e = q * e + e
    BY <1>1, ProductOrder
  <1>5. p * e < (q + 1) * e
    BY <1>1, <1>2, <1>3, <1>4
  <1>6. q + 1 \in Int /\ ((q + 1) * e <= p * e <=> q + 1 <= p)
    <2>1. q + 1 \in Int
      OBVIOUS
    <2>2. QED
      BY <1>1, <2>1, ProductOrder
  <1>7. p <= q
    BY <1>1, <1>4, <1>5, <1>6
  <1>8. QED
    BY <1>1, <1>2, <1>3, <1>7

LEMMA SumOfEquals ==
    ASSUME NEW k \in Nat, NEW c \in Int, NEW g, \A i \in 1 .. k : g[i] = c
    PROVE  SumFunctionOnSet(g, 1 .. k) = c * k
  <1> DEFINE S == 1 .. k
             one == [i \in S |-> IF i \in S THEN 1 ELSE 0]
  <1>1. IsFiniteSet(S) /\ Cardinality(S) = k
    BY FS_Interval
  <1>2. \A i \in S : one[i] = (IF i \in S THEN 1 ELSE 0) /\ one[i] \in Int /\ g[i] = c * one[i]
    OBVIOUS
  <1> HIDE DEF S, one
  <1>3. SumFunctionOnSet(one, S) = k
    BY <1>1, <1>2, SumCounts
  <1>4. SumFunctionOnSet(g, S) = c * SumFunctionOnSet(one, S)
    BY <1>1, <1>2, SumScale
  <1>5. QED
    BY <1>3, <1>4 DEF S

Similarities(spot, submission) == [i \in DOMAIN submission |-> ScoreHand(spot.strategy, submission[i]).similarity]
Together(spot, submission) == SumFunctionOnSet(Similarities(spot, submission), 1 .. Len(submission))

LEMMA ScoreIs ==
    ASSUME NEW spot, Sound(spot), NEW submission \in Submissions, Admitted(ReadPublicSpot(spot), submission)
    PROVE  /\ Len(submission) \in Nat \ {0} /\ DOMAIN submission = 1 .. Len(submission)
           /\ \A i \in DOMAIN submission : Similarities(spot, submission)[i] \in 0 .. Total
           /\ Score(spot.strategy, submission).hands = [i \in DOMAIN submission |-> ScoreHand(spot.strategy, submission[i])]
           /\ Together(spot, submission) \in Int /\ 0 <= Together(spot, submission)
           /\ Together(spot, submission) <= Total * Len(submission)
           /\ Score(spot.strategy, submission).points =
                 Round(Round(Together(spot, submission), Len(submission)), PointUnit)
  <1> DEFINE k == Len(submission)
             s == Similarities(spot, submission)
             results == [i \in DOMAIN submission |-> ScoreHand(spot.strategy, submission[i])]
  <1>1. k \in Nat \ {0} /\ DOMAIN submission = 1 .. k
    <2>1. k \in 1 .. MaxHands
      BY Zenon DEF Admitted
    <2>2. submission = [i \in 1 .. k |-> submission[i]] /\ k \in Nat /\ MaxHands \in Nat
      BY SubmissionsAssumption, NumbersAssumption, Zenon
    <2> HIDE DEF k
    <2>3. DOMAIN submission = 1 .. k
      BY <2>2, Zenon
    <2>4. QED
      BY <2>1, <2>2, <2>3
  <1>2. DOMAIN results = 1 .. k /\ Len(results) = k
    <2>1. results = [i \in 1 .. k |-> ScoreHand(spot.strategy, submission[i])]
      BY <1>1, Zenon
    <2> HIDE DEF results, k
    <2>2. QED
      BY <1>1, <2>1
  <1>3. \A i \in DOMAIN submission : s[i] \in 0 .. Total
    <2>1. TAKE i \in DOMAIN submission
    <2>2. s[i] = ScoreHand(spot.strategy, submission[i]).similarity
      BY Zenon DEF Similarities
    <2>3. ScoreHand(spot.strategy, submission[i]).similarity \in 0 .. Total
      BY HandScored
    <2>4. QED
      BY <2>2, <2>3, Zenon
  <1>4. s = [i \in DOMAIN results |-> results[i].similarity] /\ DOMAIN s = 1 .. k
    <2>1. s = [i \in DOMAIN submission |-> s[i]]
      BY Zenon DEF Similarities
    <2>2. \A i \in DOMAIN submission : s[i] = results[i].similarity
      BY Zenon DEF Similarities
    <2>3. DOMAIN results = DOMAIN submission
      BY Zenon
    <2> HIDE DEF results, s, k
    <2>4. s = [i \in DOMAIN results |-> results[i].similarity]
      BY <2>1, <2>2, <2>3, Zenon
    <2>5. DOMAIN s = 1 .. k
      BY <1>1, <2>1, Zenon
    <2>6. QED
      BY <2>4, <2>5
  <1>5. Score(spot.strategy, submission) =
          [result |-> "scored", hands |-> results,
           similarity |-> Round(SumFunction([i \in DOMAIN results |-> results[i].similarity]), Len(results)),
           points |-> Round(Round(SumFunction([i \in DOMAIN results |-> results[i].similarity]), Len(results)), PointUnit)]
    BY Zenon DEF Score
  <1> DEFINE sum == Together(spot, submission)
  <1> HIDE DEF results, s, k
  <1>6. SumFunction([i \in DOMAIN results |-> results[i].similarity]) = sum /\ sum = SumFunctionOnSet(s, 1 .. k)
    BY <1>4, Zenon DEF SumFunction, Together, s, k
  <1> HIDE DEF sum
  <1>7. /\ Score(spot.strategy, submission).hands = results
        /\ Score(spot.strategy, submission).points = Round(Round(sum, k), PointUnit)
    <2>1. Score(spot.strategy, submission) =
            [result |-> "scored", hands |-> results, similarity |-> Round(sum, k),
             points |-> Round(Round(sum, k), PointUnit)]
      BY <1>2, <1>5, <1>6, Zenon
    <2>2. QED
      BY <2>1
  <1>8. sum \in Int /\ 0 <= sum /\ sum <= Total * k
    <2>1. Total \in Int
      BY NumbersAssumption
    <2>2. \A i \in 1 .. k : s[i] \in Int /\ s[i] >= 0 /\ s[i] <= Total
      BY <1>1, <1>3, <2>1
    <2> DEFINE c == [i \in 1 .. k |-> Total]
    <2>3. \A i \in 1 .. k : c[i] = Total
      OBVIOUS
    <2>4. IsFiniteSet(1 .. k)
      BY <1>1, FS_Interval
    <2> HIDE DEF c
    <2>5. SumFunctionOnSet(c, 1 .. k) = Total * k
      BY <1>1, <2>1, <2>3, SumOfEquals
    <2>6. \A i \in 1 .. k : s[i] \in Int /\ c[i] \in Int /\ s[i] <= c[i]
      BY <2>1, <2>2, <2>3
    <2>7. SumFunctionOnSet(s, 1 .. k) <= SumFunctionOnSet(c, 1 .. k)
      BY <2>4, <2>6, SumCompares
    <2>8. SumFunctionOnSet(s, 1 .. k) \in Int /\ SumFunctionOnSet(s, 1 .. k) >= 0
      BY <2>2, <2>4, SumType
    <2>9. QED
      BY <1>6, <2>5, <2>7, <2>8
  <1>9. QED
    BY <1>1, <1>3, <1>7, <1>8, Zenon DEF sum, s, k, results

\* The points of an attempt reflect its hands: within bounds, the maximum for the
\* stored frequencies, none for missing them all, and no hand played closer costs
\* a point (PointsReflectHands of Solution).
THEOREM PointsReflectHandsHolds == Spec => []PointsReflectHands
  <1>1. ASSUME Origin, Scored PROVE PointsReflectHands
    <2> DEFINE k == Len(hands)
               maximum == Total \div PointUnit
               s == [i \in DOMAIN hands |-> answer.hands[i].similarity]
               sum == Together(stored, hands)
    <2>1. /\ Sound(stored) /\ hands \in Submissions /\ Admitted(ReadPublicSpot(stored), hands)
          /\ answer = Score(stored.strategy, hands) /\ view # None
      BY <1>1, ViewAdmits DEF Origin
    <2>2. /\ k \in Nat \ {0} /\ DOMAIN hands = 1 .. k
          /\ \A i \in DOMAIN hands : Similarities(stored, hands)[i] \in 0 .. Total
          /\ answer.hands = [i \in DOMAIN hands |-> ScoreHand(stored.strategy, hands[i])]
          /\ sum \in Int /\ 0 <= sum /\ sum <= Total * k
          /\ answer.points = Round(Round(sum, k), PointUnit)
      BY <2>1, ScoreIs, Zenon
    <2>3. s = Similarities(stored, hands)
      <3>1. \A i \in DOMAIN hands : answer.hands[i] = ScoreHand(stored.strategy, hands[i])
        BY <2>2, Zenon
      <3>2. QED
        BY <3>1, Zenon DEF Similarities
    <2>4. /\ Total \in Nat /\ PointUnit \in Nat \ {0} /\ maximum \in Nat /\ maximum * PointUnit = Total
      <3>1. Total \in Nat /\ PointUnit \in Nat \ {0} /\ Total % PointUnit = 0
        BY NumbersAssumption
      <3>2. PICK v \in Nat, g \in Nat \ {0} : v = Total /\ g = PointUnit
        BY <3>1
      <3>3. v % g = 0
        BY <3>1, <3>2, Zenon
      <3>4. v \div g \in Int /\ v \div g >= 0 /\ v = g * (v \div g) + (v % g)
        OBVIOUS
      <3>5. v \div g \in Nat /\ (v \div g) * g = v
        BY <3>3, <3>4
      <3>6. QED
        BY <3>1, <3>2, <3>5, Zenon
    <2> HIDE DEF k, maximum, s, sum
    <2>f. IsFiniteSet(1 .. k)
      <3>1. 1 \in Int /\ k \in Int
        BY <2>2
      <3>2. QED
        BY <3>1, FS_Interval
    <2>5. /\ Round(sum, k) \in 0 .. Total
          /\ sum = Total * k => Round(sum, k) = Total
          /\ sum = 0 => Round(sum, k) = 0
      BY <2>2, <2>4, RoundBounds
    <2> DEFINE mean == Round(sum, k)
    <2>6. mean \in Int /\ 0 <= mean /\ mean <= maximum * PointUnit
      BY <2>4, <2>5
    <2>7. /\ Round(mean, PointUnit) \in 0 .. maximum
          /\ mean = maximum * PointUnit => Round(mean, PointUnit) = maximum
          /\ mean = 0 => Round(mean, PointUnit) = 0
      <3> HIDE DEF mean
      <3>1. QED
        BY <2>4, <2>6, RoundBounds
    <2>8. sum = SumFunctionOnSet(s, 1 .. k) /\ DOMAIN s = 1 .. k
      <3>1. DOMAIN s = DOMAIN hands
        BY Zenon DEF s
      <3>2. QED
        BY <2>2, <2>3, <3>1, Zenon DEF sum, Together, k
    <2>9. (\A i \in DOMAIN s : s[i] = Total) => answer.points = maximum
      <3>1. ASSUME \A i \in DOMAIN s : s[i] = Total PROVE sum = Total * k
        <4>1. Total \in Int /\ k \in Nat /\ \A i \in 1 .. k : s[i] = Total
          BY <2>2, <2>4, <2>8, <3>1
        <4>2. QED
          BY <2>8, <4>1, SumOfEquals
      <3>2. QED
        BY <2>2, <2>4, <2>5, <2>7, <3>1, Zenon
    <2>10. (\A i \in DOMAIN s : s[i] = 0) => answer.points = 0
      <3>1. ASSUME \A i \in DOMAIN s : s[i] = 0 PROVE sum = 0
        <4>1. IsFiniteSet(1 .. k) /\ \A i \in 1 .. k : s[i] \in Int /\ s[i] = 0
          BY <2>f, <2>8, <3>1
        <4>2. QED
          BY <2>8, <4>1, SumType
      <3>2. QED
        BY <2>2, <2>5, <2>7, <3>1, Zenon
    <2>11. ASSUME NEW better \in Submissions, Admitted(view, better), Len(better) = Len(hands),
                  \A i \in DOMAIN hands : ScoreHand(stored.strategy, better[i]).similarity >= s[i]
           PROVE  Score(stored.strategy, better).points >= answer.points
      <3> DEFINE t == Similarities(stored, better)
                 total == Together(stored, better)
      <3>1. Admitted(ReadPublicSpot(stored), better)
        BY <1>1, <2>1, <2>11, ViewAdmits
      <3>2. /\ DOMAIN better = 1 .. k
            /\ \A i \in DOMAIN better : t[i] \in 0 .. Total
            /\ total \in Int /\ Score(stored.strategy, better).points = Round(Round(total, k), PointUnit)
            /\ 0 <= total /\ total <= Total * k
        BY <2>1, <2>11, <3>1, ScoreIs, Zenon DEF k
      <3>3. \A i \in 1 .. k : t[i] = ScoreHand(stored.strategy, better[i]).similarity
        BY <3>2, Zenon DEF Similarities
      <3>4. total = SumFunctionOnSet(t, 1 .. k)
        BY <2>11, Zenon DEF Together, k
      <3> HIDE DEF t, total
      <3>5. \A i \in 1 .. k : s[i] \in Int /\ t[i] \in Int /\ s[i] <= t[i]
        <4>1. TAKE i \in 1 .. k
        <4>2. s[i] \in 0 .. Total /\ t[i] \in 0 .. Total
          BY <2>2, <2>3, <3>2, Zenon
        <4>3. t[i] >= s[i]
          BY <2>2, <2>11, <3>3, Zenon
        <4>4. QED
          BY <2>4, <4>2, <4>3
      <3>6. sum <= total
        <4>1. IsFiniteSet(1 .. k)
          BY <2>f
        <4>2. SumFunctionOnSet(s, 1 .. k) <= SumFunctionOnSet(t, 1 .. k)
          BY <3>5, <4>1, SumCompares
        <4>3. QED
          BY <2>8, <3>4, <4>2, Zenon
      <3>7. Round(sum, k) <= Round(total, k)
        BY <2>2, <3>2, <3>6, RoundMonotone
      <3>8. Round(sum, k) \in Int /\ Round(total, k) \in Int
        <4>1. Round(total, k) \in 0 .. Total
          BY <2>2, <2>4, <3>2, RoundBounds
        <4>2. QED
          BY <2>4, <2>5, <4>1
      <3>9. Round(Round(sum, k), PointUnit) <= Round(Round(total, k), PointUnit)
        BY <2>4, <3>7, <3>8, RoundMonotone
      <3> DEFINE x == Round(Round(sum, k), PointUnit)
                 y == Round(Round(total, k), PointUnit)
      <3> HIDE DEF x, y
      <3>10. x \in Int /\ y \in Int /\ x <= y
        <4>1. x \in 0 .. maximum
          BY <2>7 DEF x
        <4>2. y \in Int
          <5>1. Round(total, k) \in 0 .. Total
            BY <2>2, <2>4, <3>2, RoundBounds
          <5> DEFINE z == Round(total, k)
          <5>2. z \in Int /\ 0 <= z /\ z <= maximum * PointUnit
            BY <2>4, <5>1
          <5> HIDE DEF z
          <5>3. Round(z, PointUnit) \in 0 .. maximum
            BY <2>4, <5>2, RoundBounds
          <5>4. QED
            BY <2>4, <5>3 DEF y, z
        <4>3. QED
          BY <2>4, <3>9, <4>1, <4>2 DEF x, y
      <3>11. answer.points = x /\ Score(stored.strategy, better).points = y
        BY <2>2, <3>2, Zenon DEF x, y
      <3>12. y >= x
        BY <3>10
      <3>13. QED
        BY <3>11, <3>12, Zenon
    <2>12. answer.points \in 0 .. maximum
      BY <2>2, <2>7, Zenon
    <2>13. QED
      BY <2>9, <2>10, <2>11, <2>12, Zenon DEF PointsReflectHands, maximum, s
  <1>2. Origin => PointsReflectHands
    BY <1>1, Zenon DEF PointsReflectHands
  <1>3. QED
    BY <1>2, OriginHolds, PTL

=============================================================================
