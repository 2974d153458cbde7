----------------------------- MODULE FoldLemmas -----------------------------
(***************************************************************************)
(* Sums over finite sets, as the modules write them (FoldFunctionOnSet of  *)
(* the community module Functions): that a sum can be taken apart at any   *)
(* of its elements, and what follows by induction on the set.              *)
(*                                                                         *)
(* Induction is by a least counterexample: the library's theorem on        *)
(* well-founded relations, WFMin, has only sets for parameters.            *)
(***************************************************************************)
EXTENDS Integers, FiniteSets, Functions, FiniteSetTheorems,
        WellFoundedInduction, TLAPS

Sum(f, S) == FoldFunctionOnSet(+, 0, f, S)

-----------------------------------------------------------------------------
(* Induction *)

(* A set of naturals that is not empty has a least element.                *)
LEMMA LeastNumber ==
  ASSUME NEW T, T \subseteq Nat, T # {}
  PROVE  \E n \in T : \A m \in T : n <= m
<1>1. PICK n \in T : \A m \in T : <<m, n>> \notin OpToRel(<, Nat)
  BY NatLessThanWellFounded, WFMin
<1>2. ASSUME NEW m \in T PROVE n <= m
  <2>1. <<m, n>> \notin OpToRel(<, Nat)
    BY <1>1
  <2> QED BY <2>1 DEF OpToRel
<1> QED BY <1>2

(* Among subsets of a finite set, one that has no proper subset among them. *)
LEMMA SmallestSubset ==
  ASSUME NEW S, IsFiniteSet(S), NEW C, C \subseteq SUBSET S, C # {}
  PROVE  \E m \in C : \A s \in C : s \subseteq m => s = m
<1> DEFINE N == {Cardinality(s) : s \in C}
<1>1. ASSUME NEW s \in C PROVE IsFiniteSet(s) /\ Cardinality(s) \in Nat
  <2>1. IsFiniteSet(s)
    BY FS_Subset
  <2> QED BY <2>1, FS_CardinalityType
<1>2. PICK n \in N : \A k \in N : n <= k
  <2>1. N \subseteq Nat /\ N # {}
    BY <1>1
  <2> HIDE DEF N
  <2> QED BY <2>1, LeastNumber
<1>3. PICK m \in C : n = Cardinality(m)
  OBVIOUS
<1>4. ASSUME NEW s \in C, s \subseteq m PROVE s = m
  <2>1. Cardinality(m) <= Cardinality(s)
    BY <1>2, <1>3
  <2>2. Cardinality(s) <= Cardinality(m) /\ (Cardinality(m) = Cardinality(s) => m = s)
    BY <1>1, <1>4, FS_Subset
  <2> QED BY <2>1, <2>2, <1>1
<1> QED BY <1>4

-----------------------------------------------------------------------------
(* The recursion behind a sum *)

Pick(s) == CHOOSE x \in s : TRUE

Sums(g, f, S) ==
  g = [s \in SUBSET S |-> IF s = {} THEN 0 ELSE f[Pick(s)] + g[s \ {Pick(s)}]]

LEMMA PickIn ==
  ASSUME NEW s, s # {}
  PROVE  Pick(s) \in s
BY DEF Pick

LEMMA SumsAt ==
  ASSUME NEW f, NEW S, NEW g, Sums(g, f, S), NEW s, s \subseteq S
  PROVE  g[s] = IF s = {} THEN 0 ELSE f[Pick(s)] + g[s \ {Pick(s)}]
BY DEF Sums

(* Two functions that satisfy the recursion, each on a set of its own,     *)
(* agree wherever both are defined.                                        *)
LEMMA SumsAgree ==
  ASSUME NEW f, NEW S, NEW T, NEW g, NEW h, Sums(g, f, S), Sums(h, f, T),
         NEW s, s \subseteq S, s \subseteq T, IsFiniteSet(s)
  PROVE  g[s] = h[s]
<1> SUFFICES ASSUME g[s] # h[s] PROVE FALSE
  OBVIOUS
<1> DEFINE C == {t \in SUBSET s : g[t] # h[t]}
<1>1. PICK m \in C : \A t \in C : t \subseteq m => t = m
  <2>1. C \subseteq SUBSET s /\ C # {}
    OBVIOUS
  <2> HIDE DEF C
  <2> QED BY <2>1, SmallestSubset
<1>2. g[m] = IF m = {} THEN 0 ELSE f[Pick(m)] + g[m \ {Pick(m)}]
  BY SumsAt
<1>3. h[m] = IF m = {} THEN 0 ELSE f[Pick(m)] + h[m \ {Pick(m)}]
  BY SumsAt
<1>4. m # {}
  BY <1>2, <1>3
<1>5. Pick(m) \in m
  BY <1>4, PickIn
<1>6. m \ {Pick(m)} \notin C
  BY <1>1, <1>5
<1>7. g[m \ {Pick(m)}] = h[m \ {Pick(m)}]
  BY <1>6
<1> QED BY <1>2, <1>3, <1>4, <1>7

LEMMA SumsUnique ==
  ASSUME NEW f, NEW S, IsFiniteSet(S), NEW g, NEW h, Sums(g, f, S), Sums(h, f, S)
  PROVE  g = h
<1>1. ASSUME NEW s \in SUBSET S PROVE g[s] = h[s]
  <2>1. IsFiniteSet(s)
    BY FS_Subset
  <2> QED BY <2>1, SumsAgree
<1>2. g = [s \in SUBSET S |-> g[s]] /\ h = [s \in SUBSET S |-> h[s]]
  BY DEF Sums
<1> QED BY <1>1, <1>2

LEMMA SumsExist ==
  ASSUME NEW f, NEW S, IsFiniteSet(S)
  PROVE  \E g : Sums(g, f, S)
<1> SUFFICES ASSUME ~ \E g : Sums(g, f, S) PROVE FALSE
  OBVIOUS
<1> DEFINE C == {t \in SUBSET S : ~ \E g : Sums(g, f, t)}
<1>1. PICK m \in C : \A t \in C : t \subseteq m => t = m
  <2>1. C \subseteq SUBSET S /\ C # {}
    OBVIOUS
  <2> HIDE DEF C
  <2> QED BY <2>1, SmallestSubset
<1> DEFINE H(t) == CHOOSE g : Sums(g, f, t)
           G == [s \in SUBSET m |-> IF s = {} THEN 0 ELSE f[Pick(s)] + H(s \ {Pick(s)})[s \ {Pick(s)}]]
<1>2. ASSUME NEW t \in SUBSET m, t # m PROVE Sums(H(t), f, t)
  <2>1. t \notin C
    BY <1>1, <1>2
  <2> QED BY <2>1
<1>3. ASSUME NEW t \in SUBSET m, t # m PROVE G[t] = H(t)[t]
  <2>1. Sums(H(t), f, t)
    BY <1>2, <1>3
  <2>2. H(t)[t] = IF t = {} THEN 0 ELSE f[Pick(t)] + H(t)[t \ {Pick(t)}]
    <3> HIDE DEF H
    <3> QED BY <2>1, SumsAt
  <2>3. CASE t = {}
    BY <2>2, <2>3
  <2>4. CASE t # {}
    <3> DEFINE u == t \ {Pick(t)}
    <3>1. Pick(t) \in t
      BY <2>4, PickIn
    <3>2. u \in SUBSET m /\ u # m /\ u \subseteq t /\ IsFiniteSet(u)
      BY <3>1, FS_Subset
    <3>3. Sums(H(u), f, u)
      BY <3>2, <1>2
    <3>4. H(t)[u] = H(u)[u]
      <4> HIDE DEF H, u
      <4> QED BY <3>2, <3>3, <2>1, SumsAgree
    <3>5. G[t] = f[Pick(t)] + H(u)[u]
      <4> HIDE DEF H
      <4> QED BY <2>4
    <3> QED BY <2>2, <2>4, <3>4, <3>5
  <2> QED BY <2>3, <2>4
<1>4. Sums(G, f, m)
  <2> SUFFICES ASSUME NEW s \in SUBSET m
               PROVE  G[s] = IF s = {} THEN 0 ELSE f[Pick(s)] + G[s \ {Pick(s)}]
    <3> HIDE DEF H
    <3> QED BY DEF Sums
  <2>1. CASE s = {}
    <3> HIDE DEF H
    <3> QED BY <2>1
  <2>2. CASE s # {}
    <3>1. Pick(s) \in s
      BY <2>2, PickIn
    <3>2. G[s \ {Pick(s)}] = H(s \ {Pick(s)})[s \ {Pick(s)}]
      <4> HIDE DEF H, G
      <4> QED BY <3>1, <1>3
    <3> HIDE DEF H
    <3> QED BY <2>2, <3>2
  <2> QED BY <2>1, <2>2
<1> HIDE DEF G, H
<1> QED BY <1>1, <1>4

LEMMA SumIsSums ==
  ASSUME NEW f, NEW S, IsFiniteSet(S), NEW g, Sums(g, f, S)
  PROVE  Sum(f, S) = g[S]
<1>1. \A h : Sums(h, f, S) => h = g
  BY SumsUnique
<1> QED BY <1>1 DEF Sum, FoldFunctionOnSet, MapThenFoldSet, Sums, Pick

(* The recursion itself.                                                   *)
LEMMA SumEmpty ==
  ASSUME NEW f
  PROVE  Sum(f, {}) = 0
<1>1. IsFiniteSet({})
  BY FS_EmptySet
<1>2. PICK g : Sums(g, f, {})
  BY <1>1, SumsExist
<1>3. g[{}] = 0
  BY <1>2, SumsAt
<1> QED BY <1>1, <1>2, <1>3, SumIsSums

LEMMA SumPick ==
  ASSUME NEW f, NEW S, IsFiniteSet(S), S # {}
  PROVE  Sum(f, S) = f[Pick(S)] + Sum(f, S \ {Pick(S)})
<1> DEFINE R == S \ {Pick(S)}
<1>1. R \subseteq S /\ IsFiniteSet(R)
  BY FS_Subset
<1>2. PICK g : Sums(g, f, S)
  BY SumsExist
<1>3. PICK h : Sums(h, f, R)
  BY <1>1, SumsExist
<1>4. g[S] = f[Pick(S)] + g[R]
  BY <1>2, SumsAt
<1>5. g[R] = h[R]
  <2> HIDE DEF R
  <2> QED BY <1>1, <1>2, <1>3, SumsAgree
<1>6. Sum(f, S) = g[S]
  BY <1>2, SumIsSums
<1>7. Sum(f, R) = h[R]
  BY <1>1, <1>3, SumIsSums
<1> QED BY <1>4, <1>5, <1>6, <1>7

-----------------------------------------------------------------------------
(* Sums of integers                                                        *)

Ints(f, S) == \A x \in S : f[x] \in Int

LEMMA SumInt ==
  ASSUME NEW f, NEW S, IsFiniteSet(S), Ints(f, S)
  PROVE  Sum(f, S) \in Int
<1> SUFFICES ASSUME Sum(f, S) \notin Int PROVE FALSE
  OBVIOUS
<1> DEFINE C == {t \in SUBSET S : Sum(f, t) \notin Int}
<1>1. PICK m \in C : \A t \in C : t \subseteq m => t = m
  <2>1. C \subseteq SUBSET S /\ C # {}
    OBVIOUS
  <2> HIDE DEF C
  <2> QED BY <2>1, SmallestSubset
<1>2. m # {}
  BY SumEmpty
<1>3. Pick(m) \in m /\ f[Pick(m)] \in Int
  BY <1>2, PickIn DEF Ints
<1>4. Sum(f, m) = f[Pick(m)] + Sum(f, m \ {Pick(m)})
  <2>1. IsFiniteSet(m)
    BY FS_Subset
  <2> QED BY <1>2, <2>1, SumPick
<1>5. Sum(f, m \ {Pick(m)}) \in Int
  BY <1>1, <1>3
<1> QED BY <1>3, <1>4, <1>5

(* A sum can be taken apart at any element.                                *)
LEMMA SumRemove ==
  ASSUME NEW f, NEW S, IsFiniteSet(S), Ints(f, S), NEW e \in S
  PROVE  Sum(f, S) = f[e] + Sum(f, S \ {e})
<1> SUFFICES ASSUME Sum(f, S) # f[e] + Sum(f, S \ {e}) PROVE FALSE
  OBVIOUS
<1> DEFINE C == {t \in SUBSET S : \E x \in t : Sum(f, t) # f[x] + Sum(f, t \ {x})}
<1>1. PICK m \in C : \A t \in C : t \subseteq m => t = m
  <2>1. C \subseteq SUBSET S /\ C # {}
    OBVIOUS
  <2> HIDE DEF C
  <2> QED BY <2>1, SmallestSubset
<1>2. PICK x \in m : Sum(f, m) # f[x] + Sum(f, m \ {x})
  OBVIOUS
<1> DEFINE p == Pick(m)
           R == m \ {p, x}
<1>3. m \subseteq S /\ p \in m
  BY <1>2, PickIn
<1>4. f[p] \in Int /\ f[x] \in Int /\ Sum(f, R) \in Int
  <2>1. IsFiniteSet(R) /\ Ints(f, R)
    BY <1>3, FS_Subset DEF Ints
  <2>2. Sum(f, R) \in Int
    BY <2>1, SumInt
  <2> QED BY <1>3, <2>2 DEF Ints
<1>5. Sum(f, m) = f[p] + Sum(f, m \ {p})
  <2>1. IsFiniteSet(m)
    BY FS_Subset
  <2> QED BY <1>2, <2>1, SumPick
<1>6. p # x
  BY <1>2, <1>5
<1>7. Sum(f, m \ {p}) = f[x] + Sum(f, R)
  <2>1. m \ {p} \notin C
    BY <1>1, <1>3
  <2>2. Sum(f, m \ {p}) = f[x] + Sum(f, (m \ {p}) \ {x})
    BY <2>1, <1>3, <1>6
  <2>3. (m \ {p}) \ {x} = R
    OBVIOUS
  <2> QED BY <2>2, <2>3
<1>8. Sum(f, m \ {x}) = f[p] + Sum(f, R)
  <2>1. m \ {x} \notin C
    BY <1>1, <1>2
  <2>2. Sum(f, m \ {x}) = f[p] + Sum(f, (m \ {x}) \ {p})
    BY <2>1, <1>3, <1>6
  <2>3. (m \ {x}) \ {p} = R
    OBVIOUS
  <2> QED BY <2>2, <2>3
<1> HIDE DEF R, p
<1> QED BY <1>2, <1>4, <1>5, <1>7, <1>8

LEMMA SumAdd ==
  ASSUME NEW f, NEW S, IsFiniteSet(S), Ints(f, S), NEW e, e \notin S, f[e] \in Int
  PROVE  Sum(f, S \union {e}) = f[e] + Sum(f, S)
<1> DEFINE T == S \union {e}
<1>1. IsFiniteSet(T) /\ Ints(f, T)
  BY FS_AddElement DEF Ints
<1>2. Sum(f, T) = f[e] + Sum(f, T \ {e})
  <2> HIDE DEF T
  <2> QED BY <1>1, SumRemove DEF T
<1>3. T \ {e} = S
  OBVIOUS
<1> QED BY <1>2, <1>3

(* Functions that agree on a set have the same sum over it.                *)
LEMMA SumSame ==
  ASSUME NEW f, NEW g, NEW S, IsFiniteSet(S), Ints(f, S), \A x \in S : f[x] = g[x]
  PROVE  Sum(f, S) = Sum(g, S)
<1> SUFFICES ASSUME Sum(f, S) # Sum(g, S) PROVE FALSE
  OBVIOUS
<1> DEFINE C == {t \in SUBSET S : Sum(f, t) # Sum(g, t)}
<1>1. PICK m \in C : \A t \in C : t \subseteq m => t = m
  <2>1. C \subseteq SUBSET S /\ C # {}
    OBVIOUS
  <2> HIDE DEF C
  <2> QED BY <2>1, SmallestSubset
<1> DEFINE p == Pick(m)
<1>2. m # {} /\ IsFiniteSet(m)
  BY SumEmpty, FS_Subset
<1>3. p \in m /\ f[p] = g[p]
  BY <1>2, PickIn
<1>4. Sum(f, m) = f[p] + Sum(f, m \ {p}) /\ Sum(g, m) = g[p] + Sum(g, m \ {p})
  BY <1>2, SumPick
<1>5. Sum(f, m \ {p}) = Sum(g, m \ {p})
  BY <1>1, <1>3
<1> QED BY <1>3, <1>4, <1>5

(* A sum that is negative has a negative term.                             *)
LEMMA NegativeSum ==
  ASSUME NEW f, NEW S, IsFiniteSet(S), Ints(f, S), Sum(f, S) < 0
  PROVE  \E x \in S : f[x] < 0
<1> DEFINE C == {t \in SUBSET S : Sum(f, t) < 0}
<1>1. PICK m \in C : \A t \in C : t \subseteq m => t = m
  <2>1. C \subseteq SUBSET S /\ C # {}
    OBVIOUS
  <2> HIDE DEF C
  <2> QED BY <2>1, SmallestSubset
<1> DEFINE p == Pick(m)
<1>2. m # {} /\ IsFiniteSet(m)
  <2>1. ~ (Sum(f, {}) < 0)
    BY SumEmpty
  <2> QED BY <2>1, FS_Subset
<1>3. p \in m /\ f[p] \in Int
  BY <1>2, PickIn DEF Ints
<1>4. Sum(f, m) = f[p] + Sum(f, m \ {p})
  BY <1>2, SumPick
<1>5. ~ (Sum(f, m \ {p}) < 0)
  BY <1>1, <1>3
<1>6. Sum(f, m \ {p}) \in Int
  <2>1. IsFiniteSet(m \ {p}) /\ Ints(f, m \ {p})
    BY FS_Subset DEF Ints
  <2> QED BY <2>1, SumInt
<1>7. f[p] < 0
  <2> HIDE DEF p
  <2> QED BY <1>3, <1>4, <1>5, <1>6
<1> QED BY <1>3, <1>7

(* A sum of greater terms is no smaller.                                   *)
LEMMA SumMonotone ==
  ASSUME NEW f, NEW g, NEW S, IsFiniteSet(S), Ints(f, S), Ints(g, S), \A x \in S : f[x] <= g[x]
  PROVE  Sum(f, S) <= Sum(g, S)
<1> SUFFICES ASSUME ~(Sum(f, S) <= Sum(g, S)) PROVE FALSE
  OBVIOUS
<1> DEFINE C == {t \in SUBSET S : ~(Sum(f, t) <= Sum(g, t))}
<1>1. PICK m \in C : \A t \in C : t \subseteq m => t = m
  <2>1. C \subseteq SUBSET S /\ C # {}
    OBVIOUS
  <2> HIDE DEF C
  <2> QED BY <2>1, SmallestSubset
<1> DEFINE p == Pick(m)
<1>2. m # {} /\ IsFiniteSet(m)
  <2>1. Sum(f, {}) <= Sum(g, {})
    BY SumEmpty
  <2> QED BY <2>1, FS_Subset
<1>3. p \in m /\ f[p] \in Int /\ g[p] \in Int /\ f[p] <= g[p]
  BY <1>2, PickIn DEF Ints
<1>4. Sum(f, m) = f[p] + Sum(f, m \ {p}) /\ Sum(g, m) = g[p] + Sum(g, m \ {p})
  BY <1>2, SumPick
<1>5. Sum(f, m \ {p}) <= Sum(g, m \ {p})
  BY <1>1, <1>3
<1>6. Sum(f, m \ {p}) \in Int /\ Sum(g, m \ {p}) \in Int
  <2>1. IsFiniteSet(m \ {p}) /\ Ints(f, m \ {p}) /\ Ints(g, m \ {p})
    BY FS_Subset DEF Ints
  <2> QED BY <2>1, SumInt
<1>7. Sum(f, m) <= Sum(g, m)
  <2> HIDE DEF p
  <2> QED BY <1>3, <1>4, <1>5, <1>6
<1> QED
  BY <1>7

-----------------------------------------------------------------------------
(* Recursion on a number                                                   *)

\* A recursion of n steps, the step being a function of a number and a value.
Recursion(f, V, base, step, n) ==
  /\ f \in [0 .. n -> V]
  /\ \A i \in 0 .. n : f[i] = IF i = 0 THEN base ELSE step[<<i, f[i - 1]>>]

LEMMA RecursionExists ==
  ASSUME NEW V, NEW base \in V, NEW step \in [Nat \X V -> V], NEW n \in Nat
  PROVE  \E f : Recursion(f, V, base, step, n)
<1> DEFINE C == {k \in Nat : ~ \E f : Recursion(f, V, base, step, k)}
<1> SUFFICES ASSUME n \in C PROVE FALSE
  OBVIOUS
<1>1. PICK k \in C : \A m \in C : k <= m
  <2>1. C \subseteq Nat /\ C # {}
    OBVIOUS
  <2> HIDE DEF C
  <2> QED BY <2>1, LeastNumber
<1>2. k \in Nat
  OBVIOUS
<1>3. ASSUME k = 0 PROVE FALSE
  <2> DEFINE f == [i \in 0 .. 0 |-> base]
  <2>1. Recursion(f, V, base, step, k)
    BY <1>3 DEF Recursion
  <2> QED BY <2>1
<1>4. ASSUME k # 0 PROVE FALSE
  <2>1. k - 1 \in Nat /\ k - 1 \notin C
    BY <1>1, <1>2, <1>4
  <2>2. PICK g : Recursion(g, V, base, step, k - 1)
    BY <2>1
  <2> DEFINE f == [i \in 0 .. k |-> IF i = k THEN step[<<k, g[k - 1]>>] ELSE g[i]]
  <2>3. g[k - 1] \in V
    BY <1>2, <1>4, <2>2 DEF Recursion
  <2>4. step[<<k, g[k - 1]>>] \in V
    BY <1>2, <2>3
  <2>5. f \in [0 .. k -> V]
    <3>1. ASSUME NEW i \in 0 .. k, i # k PROVE g[i] \in V
      BY <1>2, <2>2, <3>1 DEF Recursion
    <3> QED BY <2>4, <3>1
  <2>6. ASSUME NEW i \in 0 .. k PROVE f[i] = IF i = 0 THEN base ELSE step[<<i, f[i - 1]>>]
    <3>1. CASE i = k
      <4>1. k # 0 /\ k - 1 \in 0 .. k /\ k - 1 # k /\ k \in 0 .. k
        BY <1>2, <1>4
      <4>2. f[k] = step[<<k, g[k - 1]>>] /\ f[k - 1] = g[k - 1]
        BY <4>1
      <4> HIDE DEF f
      <4> QED BY <3>1, <4>1, <4>2
    <3>2. CASE i # k
      <4>1. i \in 0 .. k - 1 /\ (i # 0 => i - 1 \in 0 .. k - 1 /\ i - 1 # k)
        BY <1>2, <3>2
      <4>2. g[i] = IF i = 0 THEN base ELSE step[<<i, g[i - 1]>>]
        BY <2>2, <4>1 DEF Recursion
      <4>3. f[i] = g[i] /\ (i # 0 => f[i - 1] = g[i - 1])
        BY <1>2, <3>2, <4>1
      <4> HIDE DEF f
      <4> QED BY <4>2, <4>3
    <3> QED BY <3>1, <3>2
  <2>7. Recursion(f, V, base, step, k)
    <3> HIDE DEF f
    <3> QED BY <2>5, <2>6 DEF Recursion
  <2> QED BY <2>7
<1> QED BY <1>3, <1>4
=============================================================================
