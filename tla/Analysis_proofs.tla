-------------------------- MODULE Analysis_proofs ---------------------------
(***************************************************************************)
(* What Analysis computes with: sums over finite sets, sorting, and the    *)
(* percentiles that compute_latency_stats() takes by interpolation.        *)
(***************************************************************************)
EXTENDS Analysis, FiniteSetTheorems, TLAPS

USE SMTT(30)

-----------------------------------------------------------------------------
(* Sums over finite sets.                                                  *)

\* A nonempty collection of subsets of a finite set has a smallest one: what
\* stands for induction below.
LEMMA MinimalSubset ==
  ASSUME NEW S, IsFiniteSet(S), NEW B, B \subseteq SUBSET S, B # {}
  PROVE  \E T \in B : IsFiniteSet(T) /\ \A U \in SUBSET T : U # T => U \notin B
<1>1. IsWellFoundedOn(StrictSubsetOrdering(S), FiniteSubsetsOf(S))
  BY FS_StrictSubsetOrderingWellFounded
<1>2. B \subseteq FiniteSubsetsOf(S)
  BY FS_FiniteSubsetsOfFinite
<1>3. PICK T \in B : \A U \in B : <<U, T>> \notin StrictSubsetOrdering(S)
  BY ZenonT(30), <1>1, <1>2, WFMin
<1>4. IsFiniteSet(T)
  BY FS_Subset
<1>5. ASSUME NEW U \in SUBSET T, U # T, U \in B PROVE FALSE
  <2>1. <<U, T>> \in StrictSubsetOrdering(S)
    BY <1>5 DEF StrictSubsetOrdering
  <2> QED BY <1>3, <1>5, <2>1
<1> QED BY <1>3, <1>4, <1>5

Pick(s) == CHOOSE x \in s : TRUE

\* it is the function with which the sum of f over S is computed.
IsIter(it, f, S) ==
  it = [s \in SUBSET S |-> IF s = {} THEN 0 ELSE f[Pick(s)] + it[s \ {Pick(s)}]]

Iter(f, S) == CHOOSE it : IsIter(it, f, S)

\* What is picked from a set that has elements is one of them.
LEMMA PickIn == ASSUME NEW s, s # {} PROVE Pick(s) \in s
  BY DEF Pick

\* The sum that TokensOf() and the others take is the value of that function at S.
LEMMA SumIsIter ==
  ASSUME NEW f, NEW S
  PROVE  SumFunctionOnSet(f, S) = Iter(f, S)[S]
BY ZenonT(30) DEF SumFunctionOnSet, FoldFunctionOnSet, MapThenFoldSet, Pick, Iter, IsIter

\* Its value at a set, from its value at a smaller one.
LEMMA IterEquation ==
  ASSUME NEW f, NEW S, NEW it, IsIter(it, f, S), NEW s \in SUBSET S
  PROVE  it[s] = IF s = {} THEN 0 ELSE f[Pick(s)] + it[s \ {Pick(s)}]
BY ZenonT(30) DEF IsIter

\* Two of them agree wherever both are defined.
LEMMA ItersAgree ==
  ASSUME NEW f, NEW S, NEW T, IsFiniteSet(S), S \subseteq T,
         NEW g, NEW h, IsIter(g, f, S), IsIter(h, f, T)
  PROVE  g[S] = h[S]
<1> DEFINE B == {s \in SUBSET S : g[s] # h[s]}
<1>1. SUFFICES ASSUME B # {} PROVE FALSE
  OBVIOUS
<1>2. PICK s \in B : \A u \in SUBSET s : u # s => u \notin B
  <2>1. B \subseteq SUBSET S
    OBVIOUS
  <2> HIDE DEF B
  <2> QED BY ZenonT(30), <1>1, <2>1, MinimalSubset
<1>3. s \in SUBSET S /\ s \in SUBSET T /\ g[s] # h[s]
  OBVIOUS
<1>4. CASE s = {}
  BY <1>3, <1>4, IterEquation
<1>5. CASE s # {}
  <2>1. Pick(s) \in s
    BY <1>5, PickIn
  <2>2. g[s \ {Pick(s)}] = h[s \ {Pick(s)}]
    BY <1>2, <1>3, <2>1
  <2>3. g[s] = f[Pick(s)] + g[s \ {Pick(s)}] /\ h[s] = f[Pick(s)] + h[s \ {Pick(s)}]
    BY <1>3, <1>5, IterEquation
  <2> QED BY <1>3, <2>2, <2>3
<1> QED BY <1>4, <1>5

\* There is one for every finite set.
LEMMA IterExists ==
  ASSUME NEW f, NEW S, IsFiniteSet(S)
  PROVE  IsIter(Iter(f, S), f, S)
<1> DEFINE B == {T \in SUBSET S : ~IsIter(Iter(f, T), f, T)}
<1>1. SUFFICES ASSUME B # {} PROVE FALSE
  OBVIOUS
<1>2. PICK T \in B : IsFiniteSet(T) /\ \A U \in SUBSET T : U # T => U \notin B
  <2>1. B \subseteq SUBSET S
    OBVIOUS
  <2> HIDE DEF B
  <2> QED BY ZenonT(30), <1>1, <2>1, MinimalSubset
<1>3. \A U \in SUBSET T : U # T => IsIter(Iter(f, U), f, U) /\ IsFiniteSet(U)
  BY <1>2, FS_Subset
<1>4. ~IsIter(Iter(f, T), f, T)
  BY <1>2
<1> DEFINE it == [s \in SUBSET T |->
                    IF s = {} THEN 0
                    ELSE f[Pick(s)] + Iter(f, s \ {Pick(s)})[s \ {Pick(s)}]]
<1> HIDE DEF B
<1>5. ASSUME NEW u \in SUBSET T, u # T PROVE it[u] = Iter(f, u)[u]
  <2>1. IsIter(Iter(f, u), f, u)
    BY <1>3, <1>5
  <2>2. CASE u = {}
    <3>1. Iter(f, u)[u] = 0
      BY ZenonT(30), <2>1, <2>2, IterEquation
    <3> QED BY <2>2, <3>1
  <2>3. CASE u # {}
    <3> DEFINE v == u \ {Pick(u)}
    <3>1. v \in SUBSET T /\ v # T /\ v \in SUBSET u
      BY <1>5, <2>3, PickIn
    <3>2. IsIter(Iter(f, v), f, v) /\ IsFiniteSet(v)
      BY <1>3, <3>1
    <3>3. Iter(f, v)[v] = Iter(f, u)[v]
      BY <2>1, <3>1, <3>2, ItersAgree
    <3>4. Iter(f, u)[u] = f[Pick(u)] + Iter(f, u)[v]
      BY <2>1, <2>3, IterEquation
    <3>5. it[u] = f[Pick(u)] + Iter(f, v)[v]
      BY ZenonT(30), <2>3
    <3> QED BY ZenonT(30), <3>3, <3>4, <3>5
  <2> QED BY <2>2, <2>3
<1>6. IsIter(it, f, T)
  <2>1. it = [s \in SUBSET T |-> it[s]]
    OBVIOUS
  <2>2. \A s \in SUBSET T : it[s] = IF s = {} THEN 0 ELSE f[Pick(s)] + it[s \ {Pick(s)}]
    <3>1. ASSUME NEW s \in SUBSET T, s # {}
          PROVE  it[s] = f[Pick(s)] + it[s \ {Pick(s)}]
      <4>1. s \ {Pick(s)} \in SUBSET T /\ s \ {Pick(s)} # T
        BY <3>1, PickIn
      <4>2. it[s \ {Pick(s)}] = Iter(f, s \ {Pick(s)})[s \ {Pick(s)}]
        BY ZenonT(30), <1>5, <4>1
      <4> QED BY ZenonT(30), <3>1, <4>2
    <3>2. it[{}] = 0
      OBVIOUS
    <3> HIDE DEF it
    <3> QED BY ZenonT(30), <3>1, <3>2
  <2> HIDE DEF it
  <2> QED BY ZenonT(30), <2>1, <2>2 DEF IsIter
<1> QED BY ZenonT(30), <1>4, <1>6 DEF Iter

\* A sum of nothing is 0: no request, no token.
LEMMA SumEmpty == ASSUME NEW f PROVE SumFunctionOnSet(f, {}) = 0
<1>1. IsIter(Iter(f, {}), f, {})
  BY IterExists, FS_EmptySet
<1> QED BY ZenonT(30), <1>1, IterEquation, SumIsIter

\* A sum takes out the element that CHOOSE picks, and goes on with the others.
LEMMA SumPick ==
  ASSUME NEW f, NEW S, IsFiniteSet(S), S # {}
  PROVE  SumFunctionOnSet(f, S) = f[Pick(S)] + SumFunctionOnSet(f, S \ {Pick(S)})
<1> DEFINE T == S \ {Pick(S)}
<1>1. IsIter(Iter(f, S), f, S)
  BY IterExists
<1>2. IsFiniteSet(T) /\ T \subseteq S
  BY FS_Subset
<1>3. IsIter(Iter(f, T), f, T)
  BY <1>2, IterExists
<1>4. Iter(f, T)[T] = Iter(f, S)[T]
  BY <1>1, <1>2, <1>3, ItersAgree
<1>5. Iter(f, S)[S] = f[Pick(S)] + Iter(f, S)[T]
  BY <1>1, IterEquation
<1> HIDE DEF T
<1> QED BY ZenonT(30), <1>4, <1>5, SumIsIter DEF T

\* A sum of natural numbers is one.
LEMMA SumType ==
  ASSUME NEW f, NEW S, IsFiniteSet(S), \A x \in S : f[x] \in Nat
  PROVE  SumFunctionOnSet(f, S) \in Nat
<1> DEFINE B == {T \in SUBSET S : SumFunctionOnSet(f, T) \notin Nat}
<1>1. SUFFICES ASSUME B # {} PROVE FALSE
  OBVIOUS
<1>2. PICK T \in B : IsFiniteSet(T) /\ \A U \in SUBSET T : U # T => U \notin B
  <2>1. B \subseteq SUBSET S
    OBVIOUS
  <2> HIDE DEF B
  <2> QED BY ZenonT(30), <1>1, <2>1, MinimalSubset
<1>3. T # {}
  BY SumEmpty
<1>4. Pick(T) \in T
  BY <1>3, PickIn
<1>5. SumFunctionOnSet(f, T \ {Pick(T)}) \in Nat
  BY <1>2, <1>4
<1>6. SumFunctionOnSet(f, T) = f[Pick(T)] + SumFunctionOnSet(f, T \ {Pick(T)})
  BY <1>2, <1>3, SumPick
<1> QED BY <1>4, <1>5, <1>6

\* Any element may be taken out first.
LEMMA SumRemove ==
  ASSUME NEW f, NEW S, IsFiniteSet(S), \A x \in S : f[x] \in Nat, NEW x \in S
  PROVE  SumFunctionOnSet(f, S) = f[x] + SumFunctionOnSet(f, S \ {x})
<1> DEFINE Sum(T) == SumFunctionOnSet(f, T)
           B == {T \in SUBSET S : \E y \in T : Sum(T) # f[y] + Sum(T \ {y})}
<1>1. SUFFICES ASSUME Sum(S) # f[x] + Sum(S \ {x}) PROVE FALSE
  OBVIOUS
<1>2. PICK T \in B : IsFiniteSet(T) /\ \A U \in SUBSET T : U # T => U \notin B
  <2>1. B \subseteq SUBSET S
    OBVIOUS
  <2>2. S \in B
    BY ZenonT(30), <1>1
  <2> HIDE DEF B
  <2> QED BY ZenonT(30), <2>1, <2>2, MinimalSubset
<1>3. PICK y \in T : Sum(T) # f[y] + Sum(T \ {y})
  BY <1>2
<1>4. \A U \in SUBSET T : U # T => \A z \in U : Sum(U) = f[z] + Sum(U \ {z})
  <2> HIDE DEF Sum
  <2> SUFFICES ASSUME NEW U \in SUBSET T, U # T, NEW z \in U
               PROVE  Sum(U) = f[z] + Sum(U \ {z})
    OBVIOUS
  <2>1. U \notin B /\ U \in SUBSET S
    BY <1>2
  <2> QED BY ZenonT(30), <2>1
<1> DEFINE p == Pick(T)
           R == (T \ {p}) \ {y}
<1>5. p \in T
  BY PickIn
<1>6. Sum(T) = f[p] + Sum(T \ {p})
  BY <1>2, SumPick
<1>7. p # y
  BY <1>3, <1>6
<1>8. Sum(T \ {p}) = f[y] + Sum(R) /\ Sum(T \ {y}) = f[p] + Sum(R)
  <2> HIDE DEF p, Sum
  <2>1. (T \ {y}) \ {p} = R
    OBVIOUS
  <2>2. T \ {p} \in SUBSET T /\ T \ {p} # T /\ y \in T \ {p}
    BY <1>5, <1>7
  <2>3. T \ {y} \in SUBSET T /\ T \ {y} # T /\ p \in T \ {y}
    BY <1>5, <1>7
  <2>4. Sum(T \ {p}) = f[y] + Sum((T \ {p}) \ {y})
    BY ZenonT(30), <1>4, <2>2
  <2>5. Sum(T \ {y}) = f[p] + Sum((T \ {y}) \ {p})
    BY ZenonT(30), <1>4, <2>3
  <2> QED BY <2>1, <2>4, <2>5
<1>9. f[p] \in Nat /\ f[y] \in Nat /\ Sum(R) \in Nat
  <2>1. IsFiniteSet(R) /\ R \subseteq S
    BY <1>2, FS_Subset
  <2> HIDE DEF R
  <2> QED BY <1>5, <2>1, SumType
<1> HIDE DEF Sum, p, R
<1> QED BY <1>3, <1>6, <1>8, <1>9

\* A sum of more and larger numbers is at least as large.
LEMMA SumMonotone ==
  ASSUME NEW f, NEW g, NEW S, NEW T, IsFiniteSet(T), S \subseteq T,
         \A x \in S : f[x] \in Nat /\ f[x] <= g[x], \A x \in T : g[x] \in Nat
  PROVE  SumFunctionOnSet(f, S) <= SumFunctionOnSet(g, T)
<1> DEFINE F(U) == SumFunctionOnSet(f, U)
           G(U) == SumFunctionOnSet(g, U)
           B == {U \in SUBSET T : ~(F(S \cap U) <= G(U))}
<1>1. SUFFICES ASSUME B # {} PROVE FALSE
  <2>1. S \cap T = S
    OBVIOUS
  <2> QED BY <2>1
<1>2. PICK U \in B : IsFiniteSet(U) /\ \A V \in SUBSET U : V # U => V \notin B
  <2>1. B \subseteq SUBSET T
    OBVIOUS
  <2> HIDE DEF B
  <2> QED BY ZenonT(30), <1>1, <2>1, MinimalSubset
<1>3. U # {}
  <2>1. S \cap {} = {}
    OBVIOUS
  <2> QED BY <2>1, SumEmpty
<1> DEFINE p == Pick(U)
           V == U \ {p}
<1>4. p \in U /\ V \in SUBSET U /\ V # U
  BY <1>3, PickIn
<1>5. F(S \cap V) <= G(V)
  BY <1>2, <1>4
<1>6. G(U) = g[p] + G(V)
  BY <1>2, <1>3, SumPick
<1>7. IsFiniteSet(S \cap U) /\ IsFiniteSet(V) /\ IsFiniteSet(S \cap V)
  BY <1>2, FS_Subset
<1>8. F(S \cap V) \in Nat /\ G(V) \in Nat /\ g[p] \in Nat
  BY <1>4, <1>7, SumType
<1>9. F(S \cap U) = IF p \in S THEN f[p] + F(S \cap V) ELSE F(S \cap V)
  <2>1. CASE p \in S
    <3>1. (S \cap U) \ {p} = S \cap V
      OBVIOUS
    <3> QED BY <1>4, <1>7, <2>1, <3>1, SumRemove
  <2>2. CASE p \notin S
    <3>1. S \cap U = S \cap V
      BY <2>2
    <3> QED BY <2>2, <3>1
  <2> QED BY <2>1, <2>2
<1>10. ~(F(S \cap U) <= G(U))
  BY <1>2
<1> HIDE DEF F, G, p, V
<1> QED BY <1>5, <1>6, <1>8, <1>9, <1>10

\* The sum depends on the summands only.
LEMMA SumCongruence ==
  ASSUME NEW f, NEW g, NEW S, IsFiniteSet(S), \A x \in S : f[x] \in Nat /\ f[x] = g[x]
  PROVE  SumFunctionOnSet(f, S) = SumFunctionOnSet(g, S)
<1>1. SumFunctionOnSet(f, S) \in Nat /\ SumFunctionOnSet(g, S) \in Nat
  BY SumType
<1>2. SumFunctionOnSet(f, S) <= SumFunctionOnSet(g, S)
  BY SumMonotone
<1>3. SumFunctionOnSet(g, S) <= SumFunctionOnSet(f, S)
  BY SumMonotone
<1> QED BY <1>1, <1>2, <1>3

\* Sums over disjoint sets add up.
LEMMA SumUnion ==
  ASSUME NEW f, NEW S, NEW T, IsFiniteSet(S), IsFiniteSet(T), S \cap T = {},
         \A x \in S \cup T : f[x] \in Nat
  PROVE  SumFunctionOnSet(f, S \cup T) = SumFunctionOnSet(f, S) + SumFunctionOnSet(f, T)
<1> DEFINE Sum(U) == SumFunctionOnSet(f, U)
           B == {U \in SUBSET T : Sum(S \cup U) # Sum(S) + Sum(U)}
<1>1. SUFFICES ASSUME B # {} PROVE FALSE
  OBVIOUS
<1>2. PICK U \in B : IsFiniteSet(U) /\ \A V \in SUBSET U : V # U => V \notin B
  <2>1. B \subseteq SUBSET T
    OBVIOUS
  <2> HIDE DEF B
  <2> QED BY ZenonT(30), <1>1, <2>1, MinimalSubset
<1>3. Sum(S) \in Nat
  BY SumType
<1>4. U # {}
  <2>1. S \cup {} = S
    OBVIOUS
  <2> QED BY <1>3, <2>1, SumEmpty
<1> DEFINE p == Pick(U)
           V == U \ {p}
<1>5. p \in U /\ V \in SUBSET U /\ V # U
  BY <1>4, PickIn
<1>6. Sum(S \cup V) = Sum(S) + Sum(V)
  BY <1>2, <1>5
<1>7. Sum(U) = f[p] + Sum(V)
  BY <1>2, <1>4, SumPick
<1>8. IsFiniteSet(V) /\ IsFiniteSet(S \cup U)
  <2>1. IsFiniteSet(V)
    BY <1>2, FS_Subset
  <2>2. IsFiniteSet(S \cup U)
    BY ZenonT(30), <1>2, FS_Union
  <2> QED BY <2>1, <2>2
<1>9. Sum(V) \in Nat /\ f[p] \in Nat
  BY <1>5, <1>8, SumType
<1>10. Sum(S \cup U) = f[p] + Sum(S \cup V)
  <2>1. (S \cup U) \ {p} = S \cup V
    BY <1>5
  <2> QED BY <1>5, <1>8, <2>1, SumRemove
<1>11. Sum(S \cup U) # Sum(S) + Sum(U)
  BY <1>2
<1> HIDE DEF Sum, p, V
<1> QED BY <1>3, <1>6, <1>7, <1>9, <1>10, <1>11

\* One more for each element of T is Cardinality(T) more.
LEMMA SumCount ==
  ASSUME NEW f, NEW g, NEW S, NEW T, IsFiniteSet(S), T \subseteq S,
         \A x \in S : f[x] \in Nat /\ g[x] = IF x \in T THEN f[x] + 1 ELSE f[x]
  PROVE  SumFunctionOnSet(g, S) = SumFunctionOnSet(f, S) + Cardinality(T)
<1> DEFINE F(U) == SumFunctionOnSet(f, U)
           G(U) == SumFunctionOnSet(g, U)
           B == {U \in SUBSET S : G(U) # F(U) + Cardinality(T \cap U)}
<1>1. SUFFICES ASSUME G(S) # F(S) + Cardinality(T \cap S) PROVE FALSE
  <2>1. T \cap S = T
    OBVIOUS
  <2> QED BY ZenonT(30), <2>1
<1>2. PICK U \in B : IsFiniteSet(U) /\ \A V \in SUBSET U : V # U => V \notin B
  <2>1. B \subseteq SUBSET S
    OBVIOUS
  <2>2. S \in B
    <3> HIDE DEF F, G
    <3> QED BY <1>1
  <2>3. B # {}
    BY <2>2
  <2> HIDE DEF B
  <2> QED BY <2>1, <2>3, MinimalSubset
<1>3. U # {}
  <2>1. Cardinality(T \cap {}) = 0
    <3>1. T \cap {} = {}
      OBVIOUS
    <3> QED BY <3>1, FS_EmptySet
  <2>2. G({}) = F({}) + Cardinality(T \cap {})
    BY <2>1, SumEmpty
  <2>3. G(U) # F(U) + Cardinality(T \cap U)
    BY <1>2
  <2> QED BY ZenonT(30), <2>2, <2>3
<1> DEFINE p == Pick(U)
           V == U \ {p}
<1>4. p \in U /\ p \in S /\ V \in SUBSET U /\ V # U
  BY <1>3, PickIn
<1>5. G(V) = F(V) + Cardinality(T \cap V)
  BY <1>2, <1>4
<1>6. F(U) = f[p] + F(V) /\ G(U) = g[p] + G(V)
  BY <1>2, <1>3, SumPick
<1>7. IsFiniteSet(V) /\ IsFiniteSet(T \cap U) /\ IsFiniteSet(T \cap V)
  BY <1>2, FS_Subset
<1>8. F(V) \in Nat /\ f[p] \in Nat /\ Cardinality(T \cap V) \in Nat
  BY <1>4, <1>7, SumType, FS_CardinalityType
<1>9. Cardinality(T \cap U) = Cardinality(T \cap V) + IF p \in T THEN 1 ELSE 0
  <2>1. (T \cap U) \ {p} = T \cap V
    OBVIOUS
  <2>2. Cardinality(T \cap U) \in Nat
    BY <1>7, FS_CardinalityType
  <2>3. Cardinality(T \cap V) =
          IF p \in T \cap U THEN Cardinality(T \cap U) - 1 ELSE Cardinality(T \cap U)
    BY ZenonT(30), <1>7, <2>1, FS_RemoveElement
  <2> HIDE DEF p, V
  <2> QED BY <1>4, <2>2, <2>3
<1>10. G(U) # F(U) + Cardinality(T \cap U)
  BY <1>2
<1>11. g[p] = f[p] + IF p \in T THEN 1 ELSE 0
  BY <1>4
<1> HIDE DEF F, G, p, V
<1> QED BY <1>5, <1>6, <1>8, <1>9, <1>10, <1>11

\* A sum with one more term.
LEMMA SumOneMore ==
  ASSUME NEW f, NEW g, NEW S, IsFiniteSet(S), NEW x, x \notin S,
         \A y \in S : f[y] \in Nat /\ g[y] = f[y], g[x] \in Nat
  PROVE  SumFunctionOnSet(g, S \cup {x}) = g[x] + SumFunctionOnSet(f, S)
<1> DEFINE T == S \cup {x}
<1>1. IsFiniteSet(T) /\ T \ {x} = S /\ x \in T
  BY FS_AddElement
<1>2. \A y \in T : g[y] \in Nat
  OBVIOUS
<1> HIDE DEF T
<1>3. SumFunctionOnSet(g, T) = g[x] + SumFunctionOnSet(g, T \ {x})
  BY <1>1, <1>2, SumRemove
<1>4. SumFunctionOnSet(f, S) = SumFunctionOnSet(g, S)
  BY SumCongruence
<1> QED BY ZenonT(30), <1>1, <1>3, <1>4 DEF T

-----------------------------------------------------------------------------
(* Sorting.                                                                *)

\* A sample: numbers, for finitely many requests.
IsSample(sample) ==
  IsFiniteSet(DOMAIN sample) /\ \A i \in DOMAIN sample : sample[i] \in Nat

\* A finite set has an element with the largest value.
LEMMA LargestExists ==
  ASSUME NEW f, NEW S, IsFiniteSet(S), S # {}, \A x \in S : f[x] \in Nat
  PROVE  \E m \in S : \A x \in S : f[x] <= f[m]
<1> DEFINE B == {T \in SUBSET S : T # {} /\ ~\E m \in T : \A x \in T : f[x] <= f[m]}
<1>1. SUFFICES ASSUME B # {} PROVE FALSE
  OBVIOUS
<1>2. PICK T \in B : IsFiniteSet(T) /\ \A U \in SUBSET T : U # T => U \notin B
  <2>1. B \subseteq SUBSET S
    OBVIOUS
  <2> HIDE DEF B
  <2> QED BY ZenonT(30), <1>1, <2>1, MinimalSubset
<1>3. T \subseteq S /\ T # {} /\ ~\E m \in T : \A x \in T : f[x] <= f[m]
  OBVIOUS
<1>4. PICK t \in T : TRUE
  BY <1>3
<1> DEFINE U == T \ {t}
<1>5. U # {}
  <2> SUFFICES ASSUME U = {} PROVE FALSE
    OBVIOUS
  <2>1. T = {t} /\ f[t] \in Nat
    BY <1>3, <1>4
  <2>2. \A x \in T : f[x] <= f[t]
    BY <2>1
  <2> QED BY <1>3, <1>4, <2>2
<1>6. U \in SUBSET T /\ U # T /\ U \notin B
  BY ZenonT(30), <1>2, <1>4
<1>7. PICK m \in U : \A x \in U : f[x] <= f[m]
  BY <1>3, <1>5, <1>6
<1>8. f[t] \in Nat /\ \A x \in U : f[x] \in Nat
  BY <1>3, <1>4
<1>9. CASE f[t] <= f[m]
  BY <1>3, <1>7, <1>9
<1>10. CASE f[m] < f[t]
  BY <1>3, <1>4, <1>7, <1>8, <1>10
<1> QED BY <1>7, <1>8, <1>9, <1>10

\* The elements of a finite set can be listed by size.
LEMMA OrderExists ==
  ASSUME NEW f, NEW S, IsFiniteSet(S), \A x \in S : f[x] \in Nat
  PROVE  \E o \in Bijection(1 .. Cardinality(S), S) : IsOrder(o, f)
<1> DEFINE Ordered(T) == \E o \in Bijection(1 .. Cardinality(T), T) : IsOrder(o, f)
           B == {T \in SUBSET S : ~Ordered(T)}
<1>1. SUFFICES ASSUME B # {} PROVE FALSE
  <2>1. S \notin B
    BY <1>1
  <2> QED BY <2>1
<1>2. PICK T \in B : IsFiniteSet(T) /\ \A U \in SUBSET T : U # T => U \notin B
  <2>1. B \subseteq SUBSET S
    OBVIOUS
  <2> HIDE DEF B
  <2> QED BY ZenonT(30), <1>1, <2>1, MinimalSubset
<1>3. T \subseteq S /\ ~Ordered(T)
  <2> HIDE DEF Ordered
  <2> QED OBVIOUS
<1>4. T # {}
  <2> SUFFICES ASSUME T = {} PROVE FALSE
    OBVIOUS
  <2>1. Cardinality(T) = 0
    BY FS_EmptySet
  <2>2. 1 .. Cardinality(T) = {}
    BY <2>1
  <2> DEFINE e == [i \in {} |-> 0]
  <2>3. e \in [{} -> {}] /\ DOMAIN e = {}
    OBVIOUS
  <2> HIDE DEF e
  <2>4. e \in Bijection({}, {}) /\ IsOrder(e, f)
    BY ZenonT(30), <2>3 DEF Bijection, Injection, Surjection, IsInjective, IsOrder
  <2> QED BY ZenonT(30), <1>3, <2>2, <2>4
<1>5. PICK m \in T : \A x \in T : f[x] <= f[m]
  BY <1>2, <1>3, <1>4, LargestExists
<1> DEFINE U == T \ {m}
           n == Cardinality(U)
<1>6. Ordered(U)
  <2> HIDE DEF Ordered
  <2>1. U \in SUBSET T /\ U # T /\ U \in SUBSET S
    BY <1>3, <1>5
  <2>2. U \notin B
    BY <1>2, <2>1
  <2> QED BY <2>1, <2>2
<1>7. PICK o \in Bijection(1 .. n, U) : IsOrder(o, f)
  BY <1>6
<1>8. n \in Nat /\ Cardinality(T) = n + 1
  <2>1. IsFiniteSet(U) /\ Cardinality(U) = Cardinality(T) - 1
    BY <1>2, <1>5, FS_RemoveElement
  <2>2. Cardinality(U) \in Nat /\ Cardinality(T) \in Nat
    BY <1>2, <2>1, FS_CardinalityType
  <2> QED BY <2>1, <2>2
<1> HIDE DEF n
<1> DEFINE q == [i \in 1 .. n + 1 |-> IF i = n + 1 THEN m ELSE o[i]]
<1>9. /\ o \in [1 .. n -> U] /\ (\A i, j \in 1 .. n : o[i] = o[j] => i = j)
      /\ \A u \in U : \E i \in 1 .. n : o[i] = u
  BY DEF Bijection, Injection, Surjection, IsInjective
<1>10. /\ \A i \in 1 .. n : q[i] = o[i] /\ q[i] \in U
       /\ q[n + 1] = m
       /\ \A i \in 1 .. n + 1 : i = n + 1 \/ i \in 1 .. n
  BY <1>8, <1>9
<1>11. q \in [1 .. n + 1 -> T]
  BY <1>5, <1>8, <1>9
<1> HIDE DEF q
<1>12. q \in Bijection(1 .. n + 1, T)
  <2>1. ASSUME NEW i \in 1 .. n + 1, NEW j \in 1 .. n + 1, q[i] = q[j] PROVE i = j
    BY <1>9, <1>10, <2>1
  <2>2. ASSUME NEW t \in T PROVE \E i \in 1 .. n + 1 : q[i] = t
    <3>1. CASE t = m
      BY <3>1, <1>8, <1>10
    <3>2. CASE t # m
      <4>1. PICK i \in 1 .. n : o[i] = t
        BY <3>2, <1>9
      <4>2. i \in 1 .. n + 1
        BY <1>8
      <4> QED BY <4>1, <4>2, <1>10
    <3> QED BY <3>1, <3>2
  <2> QED BY <1>11, <2>1, <2>2 DEF Bijection, Injection, Surjection, IsInjective
<1>13. IsOrder(q, f)
  <2> SUFFICES ASSUME NEW i \in 1 .. n + 1, NEW j \in 1 .. n + 1, i < j
               PROVE  f[q[i]] <= f[q[j]]
    BY <1>11 DEF IsOrder
  <2>1. i \in 1 .. n
    BY <1>8
  <2>2. CASE j = n + 1
    BY <1>5, <1>10, <2>1, <2>2
  <2>3. CASE j \in 1 .. n
    BY <1>7, <1>9, <1>10, <2>1, <2>3 DEF IsOrder
  <2> QED BY <1>10, <2>2, <2>3
<1> QED BY <1>3, <1>8, <1>12, <1>13

\* What std::sort leaves: the values of the sample, each as often, in order.
LEMMA SortedFacts ==
  ASSUME NEW sample, IsSample(sample)
  PROVE  LET n == Cardinality(DOMAIN sample)
             sorted == Sorted(sample)
         IN /\ n \in Nat /\ sorted \in [1 .. n -> Nat] /\ Len(sorted) = n
            /\ \A i, j \in 1 .. n : i <= j => sorted[i] <= sorted[j]
            /\ \E o \in Bijection(1 .. n, DOMAIN sample) :
                 \A i \in 1 .. n : sorted[i] = sample[o[i]]
<1> DEFINE D == DOMAIN sample
           n == Cardinality(D)
           sorted == Sorted(sample)
           order == CHOOSE o \in Bijection(1 .. n, D) : IsOrder(o, sample)
<1>1. n \in Nat
  BY FS_CardinalityType DEF IsSample
<1>2. order \in Bijection(1 .. n, D) /\ IsOrder(order, sample)
  <2>1. \E o \in Bijection(1 .. n, D) : IsOrder(o, sample)
    BY OrderExists DEF IsSample
  <2> HIDE DEF n, D
  <2> QED BY ZenonT(30), <2>1
<1>3. sorted = [i \in 1 .. n |-> sample[order[i]]]
  BY ZenonT(30) DEF Sorted
<1> HIDE DEF order, sorted, n
<1>4. order \in [1 .. n -> D]
  BY <1>2 DEF Bijection, Injection
<1>5. sorted \in [1 .. n -> Nat]
  BY <1>3, <1>4 DEF IsSample
<1>6. Len(sorted) = n
  BY <1>1, <1>5
<1>7. ASSUME NEW i \in 1 .. n, NEW j \in 1 .. n, i <= j PROVE sorted[i] <= sorted[j]
  <2>1. CASE i < j
    BY <1>2, <1>3, <1>4, <2>1 DEF IsOrder
  <2>2. CASE i = j
    BY <1>5, <2>2
  <2> QED BY <1>1, <1>7, <2>1, <2>2
<1>8. \A i \in 1 .. n : sorted[i] = sample[order[i]]
  BY <1>3
<1> QED BY ZenonT(30), <1>1, <1>2, <1>5, <1>6, <1>7, <1>8 DEF n, sorted

\* Elements that all have one of some ranks are no more than these ranks.
LEMMA CountByRank ==
  ASSUME NEW n \in Nat, NEW D, NEW o \in Bijection(1 .. n, D),
         NEW a \in Nat, NEW b \in Nat, NEW A, A \subseteq D,
         \A j \in 1 .. n : o[j] \in A => j \in a .. b
  PROVE  IsFiniteSet(A) /\ Cardinality(A) \in Nat /\ Cardinality(A) <= IF a > b THEN 0 ELSE b - a + 1
<1> DEFINE R == {j \in 1 .. n : o[j] \in A}
           g == [j \in R |-> o[j]]
<1>1. o \in [1 .. n -> D] /\ \A x \in D : \E j \in 1 .. n : o[j] = x
  BY DEF Bijection, Surjection
<1>2. g \in Surjection(R, A)
  <2>1. g \in [R -> A]
    OBVIOUS
  <2>2. \A x \in A : \E j \in R : g[j] = x
    BY <1>1
  <2> HIDE DEF g
  <2> QED BY <2>1, <2>2 DEF Surjection
<1>3. R \subseteq a .. b
  OBVIOUS
<1> HIDE DEF R, g
<1>4. IsFiniteSet(a .. b) /\ Cardinality(a .. b) = IF a > b THEN 0 ELSE b - a + 1
  BY FS_Interval
<1>5. IsFiniteSet(R) /\ Cardinality(R) <= Cardinality(a .. b)
  <2>1. R \in SUBSET (a .. b)
    BY <1>3
  <2> QED BY ZenonT(30), <1>4, <2>1, FS_Subset
<1>6. IsFiniteSet(A) /\ Cardinality(A) <= Cardinality(R)
  BY <1>2, <1>5, FS_Surjection
<1>7. Cardinality(A) \in Nat /\ Cardinality(R) \in Nat
  BY <1>5, <1>6, FS_CardinalityType
<1> QED BY <1>4, <1>5, <1>6, <1>7

\* The value at a place of the sorted sample is the order statistic of that rank.
LEMMA SortedIsOrderStatistic ==
  ASSUME NEW sample, IsSample(sample), NEW k \in 0 .. Cardinality(DOMAIN sample) - 1
  PROVE  OrderStatistic(sample, k) = Sorted(sample)[k + 1]
<1> DEFINE D == DOMAIN sample
           n == Cardinality(D)
           sorted == Sorted(sample)
           Below(x) == {i \in D : sample[i] < x}
           UpTo(x) == {i \in D : sample[i] <= x}
           Above(x) == {i \in D : ~(sample[i] <= x)}
           IsRank(x) == Cardinality(Below(x)) <= k /\ k < Cardinality(UpTo(x))
<1>1. /\ n \in Nat /\ sorted \in [1 .. n -> Nat]
      /\ \A i, j \in 1 .. n : i <= j => sorted[i] <= sorted[j]
  BY SortedFacts
<1>2. PICK o \in Bijection(1 .. n, D) : \A i \in 1 .. n : sorted[i] = sample[o[i]]
  BY SortedFacts
<1>3. IsFiniteSet(D) /\ \A i \in D : sample[i] \in Nat
  BY DEF IsSample
<1> HIDE DEF n, sorted
<1>4. k \in Nat /\ k + 1 \in 1 .. n /\ k + 2 \in Nat
  BY <1>1 DEF n
<1> DEFINE x == sorted[k + 1]
<1>5. x \in Nat
  BY <1>1, <1>4
<1>6. x \in Range(sample)
  <2>1. o[k + 1] \in D
    BY <1>4 DEF Bijection, Injection
  <2> QED BY <1>2, <1>4, <2>1 DEF Range
<1>7. Cardinality(Below(x)) <= k
  <2>1. \A j \in 1 .. n : o[j] \in Below(x) => j \in 1 .. k
    <3> SUFFICES ASSUME NEW j \in 1 .. n, sample[o[j]] < x, ~(j <= k) PROVE FALSE
      BY <1>1, <1>4
    <3>1. sorted[k + 1] <= sorted[j]
      BY <1>1, <1>4
    <3>2. sorted[j] < sorted[k + 1]
      BY <1>2
    <3> QED BY <1>1, <1>4, <3>1, <3>2
  <2>2. Below(x) \subseteq D
    OBVIOUS
  <2> DEFINE A == Below(x)
  <2> HIDE DEF A
  <2>3. A \subseteq D /\ \A j \in 1 .. n : o[j] \in A => j \in 1 .. k
    BY <2>1, <2>2 DEF A
  <2>4. Cardinality(A) <= IF 1 > k THEN 0 ELSE k - 1 + 1
    <3>1. 1 \in Nat
      OBVIOUS
    <3> QED BY ZenonT(30), <1>1, <1>4, <2>3, <3>1, CountByRank
  <2> QED BY <1>4, <2>4 DEF A
<1>8. k < Cardinality(UpTo(x))
  <2>1. \A j \in 1 .. n : o[j] \in Above(x) => j \in k + 2 .. n
    <3> SUFFICES ASSUME NEW j \in 1 .. n, ~(sample[o[j]] <= x), ~(k + 2 <= j) PROVE FALSE
      BY <1>1, <1>4
    <3>1. sorted[j] <= sorted[k + 1]
      BY <1>1, <1>4
    <3> QED BY <1>2, <3>1
  <2> DEFINE A == Above(x)
             C == UpTo(x)
  <2>2. A \cup C = D /\ A \cap C = {}
    BY ZenonT(30)
  <2> HIDE DEF A, C
  <2>3. A \subseteq D /\ \A j \in 1 .. n : o[j] \in A => j \in k + 2 .. n
    BY <2>1, <2>2 DEF A
  <2>4. /\ IsFiniteSet(A) /\ Cardinality(A) \in Nat
        /\ Cardinality(A) <= IF k + 2 > n THEN 0 ELSE n - (k + 2) + 1
    BY ZenonT(30), <1>1, <1>4, <2>3, CountByRank
  <2>5. IsFiniteSet(C) /\ Cardinality(C) \in Nat
    BY <1>3, <2>2, FS_Subset, FS_CardinalityType
  <2>6. Cardinality(A \cup C) = Cardinality(A) + Cardinality(C) - Cardinality(A \cap C)
    BY ZenonT(30), <2>4, <2>5, FS_Union
  <2>7. n = Cardinality(A) + Cardinality(C)
    <3>1. n = Cardinality(A) + Cardinality(C) - 0
      BY ZenonT(30), <2>2, <2>6, FS_EmptySet DEF n
    <3> QED BY <2>4, <2>5, <3>1
  <2> QED BY <1>1, <1>4, <2>4, <2>5, <2>7 DEF C
<1>9. ASSUME NEW y \in Range(sample), NEW z \in Range(sample), IsRank(y), IsRank(z), y < z
      PROVE  FALSE
  <2>1. y \in Nat /\ z \in Nat
    BY <1>3 DEF Range
  <2>2. UpTo(y) \subseteq Below(z) /\ Below(z) \subseteq D /\ UpTo(y) \subseteq D
    BY <1>3, <1>9, <2>1
  <2> DEFINE A == UpTo(y)
             C == Below(z)
  <2>3. A \subseteq C /\ C \subseteq D /\ k < Cardinality(A) /\ Cardinality(C) <= k
    BY <1>9, <2>2
  <2> HIDE DEF A, C
  <2>4. IsFiniteSet(C) /\ IsFiniteSet(A)
    BY <1>3, <2>3, FS_Subset
  <2>5. Cardinality(A) <= Cardinality(C) /\ Cardinality(A) \in Nat /\ Cardinality(C) \in Nat
    BY <2>3, <2>4, FS_Subset, FS_CardinalityType
  <2> QED BY <1>4, <2>3, <2>5
<1>10. OrderStatistic(sample, k) = CHOOSE y \in Range(sample) : IsRank(y)
  BY ZenonT(30) DEF OrderStatistic
<1>11. \A y \in Range(sample) : y \in Nat
  BY <1>3 DEF Range
<1>12. IsRank(x)
  BY <1>7, <1>8
<1> HIDE DEF IsRank, x
<1>13. \A y \in Range(sample) : IsRank(y) => y = x
  BY <1>5, <1>6, <1>9, <1>11, <1>12
<1>14. (CHOOSE y \in Range(sample) : IsRank(y)) = x
  BY ZenonT(30), <1>6, <1>12, <1>13
<1> QED BY <1>10, <1>14 DEF x, sorted

-----------------------------------------------------------------------------
(* Percentiles.                                                            *)

\* A sum of nothing but 0 is 0.
LEMMA SumZero ==
  ASSUME NEW f, NEW S, IsFiniteSet(S), \A x \in S : f[x] = 0
  PROVE  SumFunctionOnSet(f, S) = 0
<1> DEFINE B == {T \in SUBSET S : SumFunctionOnSet(f, T) # 0}
<1>1. SUFFICES ASSUME B # {} PROVE FALSE
  OBVIOUS
<1>2. PICK T \in B : IsFiniteSet(T) /\ \A U \in SUBSET T : U # T => U \notin B
  <2>1. B \subseteq SUBSET S
    OBVIOUS
  <2> HIDE DEF B
  <2> QED BY ZenonT(30), <1>1, <2>1, MinimalSubset
<1>3. T # {}
  BY SumEmpty
<1>4. Pick(T) \in T
  BY <1>3, PickIn
<1>5. SumFunctionOnSet(f, T \ {Pick(T)}) = 0
  BY <1>2, <1>4
<1>6. SumFunctionOnSet(f, T) = f[Pick(T)] + SumFunctionOnSet(f, T \ {Pick(T)})
  BY <1>2, <1>3, SumPick
<1> QED BY <1>4, <1>5, <1>6

\* A sum with one term that may not be 0.
LEMMA SumSingle ==
  ASSUME NEW f, NEW S, IsFiniteSet(S), NEW a \in S, f[a] \in Nat,
         \A x \in S : x # a => f[x] = 0
  PROVE  SumFunctionOnSet(f, S) = f[a]
<1>1. \A x \in S : f[x] \in Nat
  OBVIOUS
<1> DEFINE T == S \ {a}
<1>2. IsFiniteSet(T) /\ \A x \in T : f[x] = 0
  BY FS_RemoveElement
<1>3. SumFunctionOnSet(f, S) = f[a] + SumFunctionOnSet(f, T)
  BY <1>1, SumRemove
<1> HIDE DEF T
<1>4. SumFunctionOnSet(f, T) = 0
  BY <1>2, SumZero
<1> QED BY <1>3, <1>4

\* A sum with two terms that may not be 0.
LEMMA SumPair ==
  ASSUME NEW f, NEW S, IsFiniteSet(S), NEW a \in S, NEW b \in S, a # b,
         f[a] \in Nat, f[b] \in Nat, \A x \in S : x # a /\ x # b => f[x] = 0
  PROVE  SumFunctionOnSet(f, S) = f[a] + f[b]
<1>1. \A x \in S : f[x] \in Nat
  OBVIOUS
<1> DEFINE T == S \ {a}
<1>2. IsFiniteSet(T) /\ b \in T /\ \A x \in T : x # b => f[x] = 0
  BY FS_RemoveElement
<1>3. SumFunctionOnSet(f, S) = f[a] + SumFunctionOnSet(f, T)
  BY <1>1, SumRemove
<1> HIDE DEF T
<1>4. SumFunctionOnSet(f, T) = f[b]
  BY <1>2, SumSingle
<1> QED BY <1>3, <1>4

\* The ranks next to percentile p of a sample whose last rank is last, and how
\* far p is from the one below.
Lower(p, last) == (p * last) \div 100
Upper(p, last) == (p * last + 99) \div 100
Weight(p, last) == p * last - 100 * Lower(p, last)

\* The two ranks next to a percentile are places of the sample.
LEMMA RankFacts ==
  ASSUME NEW last \in Nat, NEW p \in 0 .. 100
  PROVE  /\ p * last \in Nat /\ p * last = 100 * Lower(p, last) + Weight(p, last)
         /\ Lower(p, last) \in 0 .. last /\ Upper(p, last) \in 0 .. last
         /\ Weight(p, last) \in 0 .. 99
         /\ Upper(p, last) = IF Weight(p, last) = 0 THEN Lower(p, last) ELSE Lower(p, last) + 1
<1>1. p * last \in Nat /\ p * last <= 100 * last
  OBVIOUS
<1>2. ASSUME NEW rank \in Nat, rank <= 100 * last
      PROVE  LET lower == rank \div 100
                 upper == (rank + 99) \div 100
                 weight == rank - 100 * lower
             IN /\ rank = 100 * lower + weight
                /\ lower \in 0 .. last /\ upper \in 0 .. last /\ weight \in 0 .. 99
                /\ upper = IF weight = 0 THEN lower ELSE lower + 1
  BY <1>2
<1> QED BY <1>1, <1>2 DEF Lower, Upper, Weight

\* How many of the hundred values around rank / 100 have rank k.
Share(rank, k) == Cardinality({j \in 0 .. 99 : (rank + j) \div 100 = k})

\* Some have the rank below and the others that above.
LEMMA RankShares ==
  ASSUME NEW lower \in Nat, NEW weight \in 0 .. 99
  PROVE  /\ Share(100 * lower + weight, lower) = 100 - weight
         /\ Share(100 * lower + weight, lower + 1) = weight
<1> DEFINE A(k) == {j \in 0 .. 99 : (100 * lower + weight + j) \div 100 = k}
<1>1. A(lower) = 0 .. 99 - weight
  OBVIOUS
<1>2. A(lower + 1) = 100 - weight .. 99
  OBVIOUS
<1>3. Cardinality(0 .. 99 - weight) = 100 - weight
  BY FS_Interval
<1>4. Cardinality(100 - weight .. 99) = weight
  BY FS_Interval
<1> HIDE DEF A
<1>5. Cardinality(A(lower)) = 100 - weight /\ Cardinality(A(lower + 1)) = weight
  BY ZenonT(30), <1>1, <1>2, <1>3, <1>4
<1> QED BY ZenonT(30), <1>5 DEF A, Share

\* None has another rank.
LEMMA RankElsewhere ==
  ASSUME NEW lower \in Nat, NEW weight \in 0 .. 99, NEW k \in Nat, k # lower, k # lower + 1
  PROVE  Share(100 * lower + weight, k) = 0
<1>1. {j \in 0 .. 99 : (100 * lower + weight + j) \div 100 = k} = {}
  OBVIOUS
<1> QED BY ZenonT(30), <1>1, FS_EmptySet DEF Share

\* A mean with weights of hundredths.
Mean(a, b, w) == a * (100 - w) + b * w

\* A mean lies between the numbers, and moves to the one with more weight.
LEMMA MeanFacts ==
  ASSUME NEW a \in Nat, NEW b \in Nat, a <= b, NEW v \in 0 .. 99, NEW w \in 0 .. 99, v <= w
  PROVE  /\ Mean(a, b, v) \in Nat
         /\ 100 * a <= Mean(a, b, v) /\ Mean(a, b, v) <= 100 * b
         /\ Mean(a, b, v) <= Mean(a, b, w)
<1>1. /\ a * v \in Nat /\ b * v \in Nat /\ a * (100 - v) \in Nat /\ b * (100 - v) \in Nat
      /\ a * w \in Nat /\ b * w \in Nat /\ a * (w - v) \in Nat /\ b * (w - v) \in Nat
  OBVIOUS
<1>2. a * v <= b * v /\ a * (100 - v) <= b * (100 - v) /\ a * (w - v) <= b * (w - v)
  OBVIOUS
<1>3. /\ a * (100 - v) + a * v = 100 * a /\ b * (100 - v) + b * v = 100 * b
      /\ a * (100 - v) = a * (100 - w) + a * (w - v) /\ b * w = b * v + b * (w - v)
  OBVIOUS
<1>4. a * (100 - w) \in Nat
  OBVIOUS
<1> QED BY <1>1, <1>2, <1>3, <1>4 DEF Mean

\* Interpolation is a weighted mean.
LEMMA PercentileIsMean ==
  ASSUME NEW last \in Nat, NEW sorted \in [1 .. last + 1 -> Nat], Len(sorted) = last + 1,
         NEW p \in 0 .. 100
  PROVE  /\ sorted[Lower(p, last) + 1] \in Nat /\ sorted[Upper(p, last) + 1] \in Nat
         /\ Percentile(sorted, p)
              = Mean(sorted[Lower(p, last) + 1], sorted[Upper(p, last) + 1], Weight(p, last))
<1> DEFINE a == sorted[Lower(p, last) + 1]
           b == sorted[Upper(p, last) + 1]
           w == Weight(p, last)
<1>0. /\ Lower(p, last) \in 0 .. last /\ Upper(p, last) \in 0 .. last
      /\ Weight(p, last) \in 0 .. 99
  BY ZenonT(30), RankFacts
<1>1. /\ Lower(p, last) + 1 \in 1 .. last + 1 /\ Upper(p, last) + 1 \in 1 .. last + 1
      /\ w \in 0 .. 99
  BY <1>0
<1>2. a \in Nat /\ b \in Nat
  BY <1>1
<1>3. Len(sorted) - 1 = last
  OBVIOUS
<1>4. Percentile(sorted, p) = IF Len(sorted) = 1 THEN 100 * sorted[1] ELSE 100 * a + w * (b - a)
  BY ZenonT(30), <1>3 DEF Percentile, Lower, Upper, Weight
<1>5. Len(sorted) = 1 => a = sorted[1] /\ b = sorted[1]
  <2>1. Len(sorted) = 1 => last = 0
    <3>1. Len(sorted) = 1 => last = 1 - 1
      BY ZenonT(30), <1>3
    <3>2. 1 - 1 = 0
      OBVIOUS
    <3> QED BY ZenonT(30), <3>1, <3>2
  <2>2. ASSUME NEW x \in 0 .. last, last = 0 PROVE x + 1 = 1
    BY <2>2
  <2> QED BY ZenonT(30), <2>1, <2>2, <1>0
<1> HIDE DEF a, b, w
<1>6. 100 * a + w * (b - a) = a * (100 - w) + b * w /\ 100 * a = a * (100 - w) + a * w
  BY <1>1, <1>2
<1>7. Percentile(sorted, p) = Mean(a, b, w)
  BY ZenonT(30), <1>4, <1>5, <1>6 DEF Mean
<1> QED BY ZenonT(30), <1>2, <1>7 DEF a, b, w

\* Interpolating between ranks gives the mean of the hundred values around p.
LEMMA PercentileExact ==
  ASSUME NEW sample, IsSample(sample), DOMAIN sample # {}, NEW p \in 0 .. 100
  PROVE  Percentile(Sorted(sample), p) = ReferencePercentile(sample, p)
<1> DEFINE sorted == Sorted(sample)
           n == Cardinality(DOMAIN sample)
           last == n - 1
           value == [k \in 0 .. last |-> OrderStatistic(sample, k) * Share(p * last, k)]
           a == sorted[Lower(p, last) + 1]
           b == sorted[Upper(p, last) + 1]
           w == Weight(p, last)
           l == Lower(p, last)
<1>1. n \in Nat /\ n # 0
  BY ZenonT(30), FS_CardinalityType, FS_EmptySet DEF IsSample
<1>2. last \in Nat /\ n = last + 1
  BY <1>1
<1>3. /\ sorted \in [1 .. n -> Nat] /\ Len(sorted) = n
  BY ZenonT(30), SortedFacts
<1>4. \A k \in 0 .. last : OrderStatistic(sample, k) = sorted[k + 1] /\ sorted[k + 1] \in Nat
  <2> SUFFICES ASSUME NEW k \in 0 .. last
               PROVE  OrderStatistic(sample, k) = sorted[k + 1] /\ sorted[k + 1] \in Nat
    OBVIOUS
  <2>1. k \in 0 .. n - 1 /\ k + 1 \in 1 .. n
    BY <1>2
  <2>2. OrderStatistic(sample, k) = sorted[k + 1]
    BY ZenonT(30), <2>1, SortedIsOrderStatistic
  <2> QED BY <1>3, <2>1, <2>2
<1>5. ReferencePercentile(sample, p) = SumFunction(value)
  BY ZenonT(30) DEF ReferencePercentile, Share
<1> HIDE DEF sorted, n, last
<1>6. Percentile(sorted, p) = Mean(a, b, w)
  BY ZenonT(30), <1>2, <1>3, PercentileIsMean
<1>7. /\ p * last \in Nat /\ p * last = 100 * l + w /\ l \in 0 .. last /\ w \in 0 .. 99
      /\ Upper(p, last) = (IF w = 0 THEN l ELSE l + 1) /\ Upper(p, last) \in 0 .. last
  BY ZenonT(30), <1>2, RankFacts
<1>8. l \in Nat
  BY <1>2, <1>7
<1>9. /\ Share(p * last, l) = 100 - w /\ Share(p * last, l + 1) = w
      /\ \A k \in Nat : k # l /\ k # l + 1 => Share(p * last, k) = 0
  <2>1. w \in 0 .. 99
    BY ZenonT(30), <1>7
  <2> HIDE DEF l, w
  <2>2. p * last = 100 * l + w
    BY ZenonT(30), <1>7
  <2>3. Share(100 * l + w, l) = 100 - w /\ Share(100 * l + w, l + 1) = w
    BY ZenonT(30), <2>1, <1>8, RankShares
  <2>4. ASSUME NEW k \in Nat, k # l, k # l + 1 PROVE Share(100 * l + w, k) = 0
    BY ZenonT(30), <2>1, <2>4, <1>8, RankElsewhere
  <2> QED BY ZenonT(30), <2>2, <2>3, <2>4
<1>10. DOMAIN value = 0 .. last /\ \A k \in 0 .. last : value[k] = sorted[k + 1] * Share(p * last, k)
  BY ZenonT(30), <1>4
<1>11. SumFunction(value) = SumFunctionOnSet(value, 0 .. last)
  BY ZenonT(30), <1>10 DEF SumFunction
<1>12. IsFiniteSet(0 .. last)
  BY <1>2, FS_Interval
<1>13. /\ value[l] = a * (100 - w) /\ a \in Nat
       /\ \A k \in 0 .. last : k # l /\ k # l + 1 => value[k] = 0
  <2>1. value[l] = a * (100 - w) /\ a \in Nat
    BY ZenonT(30), <1>4, <1>7, <1>9, <1>10
  <2>2. ASSUME NEW k \in 0 .. last, k # l, k # l + 1 PROVE value[k] = 0
    <3>1. k \in Nat
      BY <1>2
    <3>2. value[k] = sorted[k + 1] * 0 /\ sorted[k + 1] \in Nat
      BY ZenonT(30), <2>2, <3>1, <1>4, <1>9, <1>10
    <3> HIDE DEF value
    <3> QED BY <3>2
  <2> QED BY <2>1, <2>2
<1> HIDE DEF value, l, w
<1>14. CASE w = 0
  <2>1. Upper(p, last) = l
    BY <1>7, <1>14
  <2>2. a = b
    BY ZenonT(30), <2>1 DEF l
  <2>3. value[l + 1] = 0 \/ l + 1 \notin 0 .. last
    <3> SUFFICES ASSUME l + 1 \in 0 .. last PROVE value[l + 1] = 0
      OBVIOUS
    <3>1. value[l + 1] = sorted[l + 1 + 1] * 0 /\ sorted[l + 1 + 1] \in Nat
      BY ZenonT(30), <1>4, <1>9, <1>10, <1>14
    <3> QED BY <3>1
  <2>4. \A k \in 0 .. last : k # l => value[k] = 0
    BY ZenonT(30), <2>3, <1>13
  <2>5. a * (100 - w) \in Nat
    BY <1>7, <1>13
  <2>6. SumFunctionOnSet(value, 0 .. last) = value[l]
    BY ZenonT(30), <2>4, <2>5, <1>7, <1>12, <1>13, SumSingle
  <2> HIDE DEF a, b
  <2>7. Mean(a, b, w) = a * (100 - w)
    BY <2>2, <1>13, <1>14 DEF Mean
  <2> QED BY ZenonT(30), <2>6, <2>7, <1>5, <1>6, <1>11, <1>13 DEF sorted
<1>15. CASE w # 0
  <2>1. Upper(p, last) = l + 1
    BY <1>7, <1>15
  <2>2. l + 1 \in 0 .. last /\ l # l + 1
    BY <2>1, <1>7, <1>8
  <2>3. value[l + 1] = b * w /\ b \in Nat
    BY ZenonT(30), <2>1, <2>2, <1>4, <1>9, <1>10
  <2> HIDE DEF a, b
  <2>4. value[l] \in Nat /\ value[l + 1] \in Nat
    BY <2>3, <1>7, <1>13
  <2>5. SumFunctionOnSet(value, 0 .. last) = value[l] + value[l + 1]
    BY ZenonT(30), <2>2, <2>4, <1>7, <1>12, <1>13, SumPair
  <2> QED BY ZenonT(30), <2>3, <2>5, <1>5, <1>6, <1>11, <1>13 DEF Mean, sorted
<1> QED BY <1>14, <1>15 DEF sorted

\* A percentile lies between the values at the two ranks next to it.
LEMMA PercentileBounds ==
  ASSUME NEW last \in Nat, NEW sorted \in [1 .. last + 1 -> Nat], Len(sorted) = last + 1,
         \A i, j \in 1 .. last + 1 : i <= j => sorted[i] <= sorted[j], NEW p \in 0 .. 100
  PROVE  /\ Percentile(sorted, p) \in Nat
         /\ 100 * sorted[Lower(p, last) + 1] <= Percentile(sorted, p)
         /\ Percentile(sorted, p) <= 100 * sorted[Upper(p, last) + 1]
<1> DEFINE a == sorted[Lower(p, last) + 1]
           b == sorted[Upper(p, last) + 1]
           w == Weight(p, last)
<1>1. a \in Nat /\ b \in Nat /\ Percentile(sorted, p) = Mean(a, b, w)
  BY ZenonT(30), PercentileIsMean
<1>2. /\ Lower(p, last) \in 0 .. last /\ Upper(p, last) \in 0 .. last /\ w \in 0 .. 99
      /\ Upper(p, last) = IF w = 0 THEN Lower(p, last) ELSE Lower(p, last) + 1
  BY ZenonT(30), RankFacts
<1>3. a <= b
  <2>1. ASSUME NEW l \in 0 .. last, NEW u \in 0 .. last, u = IF w = 0 THEN l ELSE l + 1
        PROVE  l + 1 \in 1 .. last + 1 /\ u + 1 \in 1 .. last + 1 /\ l + 1 <= u + 1
    BY <2>1
  <2>2. /\ Lower(p, last) + 1 \in 1 .. last + 1 /\ Upper(p, last) + 1 \in 1 .. last + 1
        /\ Lower(p, last) + 1 <= Upper(p, last) + 1
    BY ZenonT(30), <1>2, <2>1
  <2> QED BY ZenonT(30), <2>2
<1> HIDE DEF a, b, w
<1>4. w <= w
  BY <1>2
<1>5. Mean(a, b, w) \in Nat /\ 100 * a <= Mean(a, b, w) /\ Mean(a, b, w) <= 100 * b
  BY ZenonT(30), <1>1, <1>2, <1>3, <1>4, MeanFacts
<1> QED BY ZenonT(30), <1>1, <1>5 DEF a, b

\* A larger percentage has ranks that are no smaller, and if they are the same
\* then a weight that is no smaller.
LEMMA RankMonotone ==
  ASSUME NEW last \in Nat, NEW p \in 0 .. 100, NEW q \in 0 .. 100, p <= q
  PROVE  \/ Upper(p, last) <= Lower(q, last)
         \/ /\ Lower(p, last) = Lower(q, last) /\ Upper(p, last) = Upper(q, last)
            /\ Weight(p, last) <= Weight(q, last)
<1>1. p * last <= q * last /\ p * last \in Nat /\ q * last \in Nat
  OBVIOUS
<1>2. ASSUME NEW r \in Nat, NEW s \in Nat, r <= s
      PROVE  \/ (r + 99) \div 100 <= s \div 100
             \/ /\ r \div 100 = s \div 100 /\ (r + 99) \div 100 = (s + 99) \div 100
                /\ r - 100 * (r \div 100) <= s - 100 * (s \div 100)
  BY <1>2
<1> QED BY ZenonT(30), <1>1, <1>2 DEF Lower, Upper, Weight

\* A larger percentage gives no smaller a percentile.
LEMMA PercentileMonotone ==
  ASSUME NEW last \in Nat, NEW sorted \in [1 .. last + 1 -> Nat], Len(sorted) = last + 1,
         \A i, j \in 1 .. last + 1 : i <= j => sorted[i] <= sorted[j],
         NEW p \in 0 .. 100, NEW q \in 0 .. 100, p <= q
  PROVE  Percentile(sorted, p) <= Percentile(sorted, q)
<1>1. /\ Percentile(sorted, p) \in Nat /\ Percentile(sorted, q) \in Nat
      /\ 100 * sorted[Lower(p, last) + 1] <= Percentile(sorted, p)
      /\ Percentile(sorted, p) <= 100 * sorted[Upper(p, last) + 1]
      /\ 100 * sorted[Lower(q, last) + 1] <= Percentile(sorted, q)
  BY ZenonT(30), PercentileBounds
<1>2. /\ sorted[Lower(p, last) + 1] \in Nat /\ sorted[Upper(p, last) + 1] \in Nat
      /\ Percentile(sorted, p)
           = Mean(sorted[Lower(p, last) + 1], sorted[Upper(p, last) + 1], Weight(p, last))
  BY ZenonT(30), PercentileIsMean
<1>3. /\ sorted[Lower(q, last) + 1] \in Nat
      /\ Percentile(sorted, q)
           = Mean(sorted[Lower(q, last) + 1], sorted[Upper(q, last) + 1], Weight(q, last))
  BY ZenonT(30), PercentileIsMean
<1>4. /\ Lower(p, last) \in 0 .. last /\ Upper(p, last) \in 0 .. last
      /\ Weight(p, last) \in 0 .. 99
      /\ Upper(p, last) = IF Weight(p, last) = 0 THEN Lower(p, last) ELSE Lower(p, last) + 1
  BY ZenonT(30), RankFacts
<1>5. Lower(q, last) \in 0 .. last /\ Weight(q, last) \in 0 .. 99
  BY ZenonT(30), RankFacts
<1>6. ASSUME NEW l \in 0 .. last, NEW u \in 0 .. last, l <= u
      PROVE  l + 1 \in 1 .. last + 1 /\ u + 1 \in 1 .. last + 1 /\ l + 1 <= u + 1
  BY <1>6
<1>7. CASE Upper(p, last) <= Lower(q, last)
  <2>1. sorted[Upper(p, last) + 1] <= sorted[Lower(q, last) + 1]
    BY ZenonT(30), <1>4, <1>5, <1>6, <1>7
  <2>2. ASSUME NEW x \in Nat, NEW y \in Nat, x <= y, NEW P \in Nat, NEW Q \in Nat,
               P <= 100 * x, 100 * y <= Q
        PROVE  P <= Q
    BY <2>2
  <2> QED BY ZenonT(30), <1>1, <1>2, <1>3, <2>1, <2>2
<1>8. CASE /\ Lower(p, last) = Lower(q, last) /\ Upper(p, last) = Upper(q, last)
           /\ Weight(p, last) <= Weight(q, last)
  <2>1. ASSUME NEW l \in 0 .. last, NEW u \in 0 .. last, NEW w \in 0 .. 99,
               u = IF w = 0 THEN l ELSE l + 1
        PROVE  l <= u
    BY <2>1
  <2>2. Lower(p, last) <= Upper(p, last)
    BY ZenonT(30), <1>4, <2>1
  <2>3. sorted[Lower(p, last) + 1] <= sorted[Upper(p, last) + 1]
    BY ZenonT(30), <1>4, <1>6, <2>2
  <2>4. Mean(sorted[Lower(p, last) + 1], sorted[Upper(p, last) + 1], Weight(p, last))
          <= Mean(sorted[Lower(p, last) + 1], sorted[Upper(p, last) + 1], Weight(q, last))
    BY ZenonT(30), <1>2, <1>4, <1>5, <1>8, <2>3, MeanFacts
  <2> QED BY ZenonT(30), <1>2, <1>3, <1>8, <2>4
<1> QED BY ZenonT(30), <1>7, <1>8, RankMonotone

\* What compute_latency_stats() reports of a sample: its percentiles, each
\* between the smallest and the largest value, and in order.
THEOREM LatencyStatsExact ==
  ASSUME NEW sample, IsSample(sample), DOMAIN sample # {}
  PROVE  LET stats == LatencyStats(sample)
         IN /\ stats.p50 = ReferencePercentile(sample, 50)
            /\ stats.p90 = ReferencePercentile(sample, 90)
            /\ stats.p99 = ReferencePercentile(sample, 99)
            /\ 100 * stats.min <= stats.p50 /\ stats.p50 <= stats.p90
            /\ stats.p90 <= stats.p99 /\ stats.p99 <= 100 * stats.max
<1> DEFINE sorted == Sorted(sample)
           stats == LatencyStats(sample)
           n == Cardinality(DOMAIN sample)
           last == n - 1
<1>1. n \in Nat /\ n # 0
  BY ZenonT(30), FS_CardinalityType, FS_EmptySet DEF IsSample
<1>2. last \in Nat /\ n = last + 1
  BY <1>1
<1>3. /\ sorted \in [1 .. n -> Nat] /\ Len(sorted) = n
      /\ \A i, j \in 1 .. n : i <= j => sorted[i] <= sorted[j]
  BY ZenonT(30), SortedFacts
<1>4. /\ stats.p50 = Percentile(sorted, 50) /\ stats.p90 = Percentile(sorted, 90)
      /\ stats.p99 = Percentile(sorted, 99) /\ stats.max = sorted[Len(sorted)]
      /\ stats.min = Head(sorted)
  BY DEF LatencyStats
<1>5. Head(sorted) = sorted[1]
  <2>1. sorted \in Seq(Nat) /\ sorted # <<>>
    BY <1>1, <1>3
  <2> HIDE DEF sorted
  <2> QED BY <2>1
<1>6. 50 \in 0 .. 100 /\ 90 \in 0 .. 100 /\ 99 \in 0 .. 100 /\ 50 <= 90 /\ 90 <= 99
  OBVIOUS
<1>7. /\ Percentile(sorted, 50) = ReferencePercentile(sample, 50)
      /\ Percentile(sorted, 90) = ReferencePercentile(sample, 90)
      /\ Percentile(sorted, 99) = ReferencePercentile(sample, 99)
  BY ZenonT(30), <1>6, PercentileExact
<1> HIDE DEF sorted, n, last, stats
<1>8. /\ sorted \in [1 .. last + 1 -> Nat] /\ Len(sorted) = last + 1
      /\ \A i, j \in 1 .. last + 1 : i <= j => sorted[i] <= sorted[j]
  BY ZenonT(30), <1>2, <1>3
<1>9. /\ Percentile(sorted, 50) <= Percentile(sorted, 90)
      /\ Percentile(sorted, 90) <= Percentile(sorted, 99)
  BY ZenonT(30), <1>2, <1>6, <1>8, PercentileMonotone
<1>10. /\ Percentile(sorted, 50) \in Nat /\ Percentile(sorted, 99) \in Nat
       /\ 100 * sorted[Lower(50, last) + 1] <= Percentile(sorted, 50)
       /\ Percentile(sorted, 99) <= 100 * sorted[Upper(99, last) + 1]
  BY ZenonT(30), <1>2, <1>6, <1>8, PercentileBounds
<1>11. Lower(50, last) \in 0 .. last /\ Upper(99, last) \in 0 .. last
  BY ZenonT(30), <1>2, <1>6, RankFacts
<1>12. /\ \A k \in 0 .. last : sorted[k + 1] \in Nat
       /\ \A k \in 0 .. last : sorted[1] <= sorted[k + 1]
       /\ \A k \in 0 .. last : sorted[k + 1] <= sorted[n]
       /\ sorted[1] \in Nat /\ sorted[n] \in Nat
  BY <1>1, <1>2, <1>3
<1>13. 100 * sorted[1] <= Percentile(sorted, 50) /\ Percentile(sorted, 99) <= 100 * sorted[n]
  <2>1. /\ sorted[Lower(50, last) + 1] \in Nat /\ sorted[1] <= sorted[Lower(50, last) + 1]
        /\ sorted[Upper(99, last) + 1] \in Nat /\ sorted[Upper(99, last) + 1] <= sorted[n]
        /\ sorted[1] \in Nat /\ sorted[n] \in Nat
    BY ZenonT(30), <1>11, <1>12
  <2>2. 100 * sorted[1] <= Percentile(sorted, 50)
    BY <1>10, <2>1
  <2>3. Percentile(sorted, 99) <= 100 * sorted[n]
    BY <1>10, <2>1
  <2> QED BY <2>2, <2>3
<1>14. stats.min = sorted[1] /\ stats.max = sorted[n]
  BY ZenonT(30), <1>3, <1>4, <1>5
<1>15. /\ 100 * stats.min <= stats.p50 /\ stats.p50 <= stats.p90
       /\ stats.p90 <= stats.p99 /\ stats.p99 <= 100 * stats.max
  BY ZenonT(30), <1>4, <1>9, <1>13, <1>14
<1>16. /\ stats.p50 = ReferencePercentile(sample, 50)
       /\ stats.p90 = ReferencePercentile(sample, 90)
       /\ stats.p99 = ReferencePercentile(sample, 99)
  BY ZenonT(30), <1>4, <1>7
<1> QED BY ZenonT(30), <1>15, <1>16 DEF stats

=============================================================================
