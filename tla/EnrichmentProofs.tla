-------------------------- MODULE EnrichmentProofs --------------------------
(***************************************************************************)
(* Machine-checked proofs about Enrichment, for any markets, sources,      *)
(* models and lengths of a history, and about the operators of Fimathe,    *)
(* Synthesis and ShadowModel it is built from.                             *)
(***************************************************************************)
EXTENDS Enrichment, SequenceTheorems, FoldLemmas

-----------------------------------------------------------------------------
(* Selection                                                               *)

\* r is a selection from the first n elements of s, all of it from T.
Selected(r, s, n, T) ==
  /\ r \in Seq(T)
  /\ \E at \in [1 .. Len(r) -> 1 .. n] :
       /\ \A i \in 1 .. Len(r) : r[i] = s[at[i]]
       /\ \A i, j \in 1 .. Len(r) : i < j => at[i] < at[j]

Keeps(kept, s, T) ==
  kept = [n \in 0 .. Len(s) |->
            IF n = 0 THEN <<>>
            ELSE IF s[n] \in T THEN Append(kept[n - 1], s[n]) ELSE kept[n - 1]]

LEMMA KeepsExists ==
  ASSUME NEW S, NEW s \in Seq(S), NEW T
  PROVE  \E kept : Keeps(kept, s, T)
<1> DEFINE step == [p \in Nat \X Seq(S) |->
                      IF p[1] \in 1 .. Len(s) /\ s[p[1]] \in T THEN Append(p[2], s[p[1]]) ELSE p[2]]
<1>1. step \in [Nat \X Seq(S) -> Seq(S)]
  <2>1. ASSUME NEW p \in Nat \X Seq(S)
        PROVE  (IF p[1] \in 1 .. Len(s) /\ s[p[1]] \in T THEN Append(p[2], s[p[1]]) ELSE p[2]) \in Seq(S)
    <3>1. p[1] \in Nat /\ p[2] \in Seq(S)
      OBVIOUS
    <3>2. CASE p[1] \in 1 .. Len(s) /\ s[p[1]] \in T
      <4>1. s[p[1]] \in S
        BY <3>2
      <4> QED BY <3>1, <3>2, <4>1
    <3>3. CASE ~(p[1] \in 1 .. Len(s) /\ s[p[1]] \in T)
      BY <3>1, <3>3
    <3> QED BY <3>2, <3>3
  <2> QED BY <2>1
<1>2. ASSUME NEW n \in 1 .. Len(s), NEW r \in Seq(S)
      PROVE  step[<<n, r>>] = IF s[n] \in T THEN Append(r, s[n]) ELSE r
  OBVIOUS
<1>3. <<>> \in Seq(S) /\ Len(s) \in Nat
  OBVIOUS
<1> HIDE DEF step
<1>4. PICK f : Recursion(f, Seq(S), <<>>, step, Len(s))
  BY <1>1, <1>3, RecursionExists
<1>5. ASSUME NEW n \in 0 .. Len(s)
      PROVE  f[n] = IF n = 0 THEN <<>>
                    ELSE IF s[n] \in T THEN Append(f[n - 1], s[n]) ELSE f[n - 1]
  <2>1. f[n] = IF n = 0 THEN <<>> ELSE step[<<n, f[n - 1]>>]
    BY <1>4 DEF Recursion
  <2>2. ASSUME n # 0 PROVE n \in 1 .. Len(s) /\ f[n - 1] \in Seq(S)
    <3>1. n \in 1 .. Len(s) /\ n - 1 \in 0 .. Len(s)
      BY <1>3, <2>2
    <3> QED BY <1>4, <3>1 DEF Recursion
  <2> QED BY <1>2, <2>1, <2>2
<1>6. f = [n \in 0 .. Len(s) |-> f[n]]
  BY <1>4 DEF Recursion
<1> QED BY <1>5, <1>6 DEF Keeps

LEMMA KeepsSelects ==
  ASSUME NEW S, NEW s \in Seq(S), NEW T, NEW kept, Keeps(kept, s, T), NEW n \in 0 .. Len(s)
  PROVE  Selected(kept[n], s, n, T)
<1> DEFINE C == {k \in 0 .. Len(s) : ~Selected(kept[k], s, k, T)}
<1> SUFFICES ASSUME n \in C PROVE FALSE
  OBVIOUS
<1>0. Len(s) \in Nat
  OBVIOUS
<1>1. PICK k \in C : \A m \in C : k <= m
  <2>1. C \subseteq Nat /\ C # {}
    BY <1>0
  <2> HIDE DEF C
  <2> QED BY <2>1, LeastNumber
<1>2. k \in 0 .. Len(s) /\ k \in Nat /\ ~Selected(kept[k], s, k, T)
  BY <1>0
<1>3. kept[k] = IF k = 0 THEN <<>>
                ELSE IF s[k] \in T THEN Append(kept[k - 1], s[k]) ELSE kept[k - 1]
  BY <1>2 DEF Keeps
<1>4. k # 0
  <2> SUFFICES ASSUME k = 0 PROVE FALSE
    OBVIOUS
  <2>1. kept[k] = <<>> /\ kept[k] \in Seq(T) /\ Len(kept[k]) = 0
    BY <1>3
  <2> DEFINE at == [i \in 1 .. Len(kept[k]) |-> 1]
  <2>2. at \in [1 .. Len(kept[k]) -> 1 .. k]
    BY <2>1
  <2>3. \A i \in 1 .. Len(kept[k]) : FALSE
    BY <2>1
  <2> QED BY <1>2, <2>1, <2>2, <2>3 DEF Selected
<1>5. k - 1 \in 0 .. Len(s) /\ k - 1 \notin C
  BY <1>0, <1>1, <1>2, <1>4
<1> DEFINE r == kept[k - 1]
<1>6. Selected(r, s, k - 1, T)
  BY <1>5
<1> HIDE DEF C, r
<1>7. r \in Seq(T) /\ Len(r) \in Nat
  BY <1>6 DEF Selected
<1>8. PICK at \in [1 .. Len(r) -> 1 .. k - 1] :
        /\ \A i \in 1 .. Len(r) : r[i] = s[at[i]]
        /\ \A i, j \in 1 .. Len(r) : i < j => at[i] < at[j]
  BY <1>6 DEF Selected
<1>9. CASE s[k] \notin T
  <2>1. kept[k] = r
    BY <1>3, <1>4, <1>9 DEF r
  <2>2. at \in [1 .. Len(r) -> 1 .. k]
    BY <1>2, <1>8
  <2> QED BY <1>2, <1>7, <1>8, <2>1, <2>2 DEF Selected
<1>10. CASE s[k] \in T
  <2> DEFINE q == Append(r, s[k])
             up == [i \in 1 .. Len(r) + 1 |-> IF i = Len(r) + 1 THEN k ELSE at[i]]
  <2>1. kept[k] = q
    BY <1>3, <1>4, <1>10 DEF r
  <2>2. q \in Seq(T) /\ Len(q) = Len(r) + 1 /\ q[Len(r) + 1] = s[k]
    BY <1>7, <1>10
  <2>3. \A i \in 1 .. Len(r) : q[i] = r[i]
    BY <1>7, <1>10
  <2>4. ASSUME NEW i \in 1 .. Len(r) + 1
        PROVE  \/ i = Len(r) + 1 /\ up[i] = k
               \/ i \in 1 .. Len(r) /\ up[i] = at[i] /\ at[i] \in 1 .. k - 1
    <3>1. i = Len(r) + 1 \/ (i \in 1 .. Len(r) /\ i # Len(r) + 1)
      BY <1>7
    <3> QED BY <1>8, <3>1
  <2>5. up \in [1 .. Len(r) + 1 -> 1 .. k]
    <3>1. \A i \in 1 .. Len(r) + 1 : up[i] \in 1 .. k
      <4> HIDE DEF up
      <4> QED BY <1>2, <1>4, <2>4
    <3>2. up = [i \in 1 .. Len(r) + 1 |-> up[i]]
      OBVIOUS
    <3> HIDE DEF up
    <3> QED BY <3>1, <3>2
  <2> HIDE DEF q, up
  <2>6. \A i \in 1 .. Len(r) + 1 : q[i] = s[up[i]]
    BY <1>8, <2>2, <2>3, <2>4
  <2>7. \A i, j \in 1 .. Len(r) + 1 : i < j => up[i] < up[j]
    <3> SUFFICES ASSUME NEW i \in 1 .. Len(r) + 1, NEW j \in 1 .. Len(r) + 1, i < j
                 PROVE  up[i] < up[j]
      OBVIOUS
    <3>1. i \in 1 .. Len(r) /\ up[i] = at[i] /\ at[i] \in 1 .. k - 1
      BY <1>7, <2>4
    <3>2. CASE j = Len(r) + 1
      <4>0. j \notin 1 .. Len(r)
        BY <1>7, <3>2
      <4>1. up[j] = k
        BY <2>4, <4>0
      <4> QED BY <1>2, <3>1, <4>1
    <3>3. CASE j # Len(r) + 1
      BY <1>8, <2>4, <3>1, <3>3
    <3> QED BY <3>2, <3>3
  <2> QED BY <1>2, <2>1, <2>2, <2>5, <2>6, <2>7 DEF Selected
<1> QED BY <1>9, <1>10

\* A selection takes elements in their order.
LEMMA FilterSelects ==
  ASSUME NEW S, NEW s \in Seq(S), NEW T
  PROVE  Selected(Filter(s, T), s, Len(s), T)
<1>1. \E kept : Keeps(kept, s, T)
  BY KeepsExists
<1> DEFINE kept == CHOOSE k : Keeps(k, s, T)
<1>2. Keeps(kept, s, T)
  BY <1>1
<1>3. Filter(s, T) = kept[Len(s)]
  BY DEF Filter, Keeps
<1>4. Len(s) \in 0 .. Len(s)
  OBVIOUS
<1> HIDE DEF kept
<1> QED BY <1>2, <1>3, <1>4, KeepsSelects
-----------------------------------------------------------------------------
(* Counting pairs                                                          *)

LEMMA SplitCount ==
  ASSUME NEW S, IsFiniteSet(S), NEW A, NEW B, S = A \union B, A \intersect B = {}
  PROVE  /\ IsFiniteSet(A) /\ IsFiniteSet(B)
         /\ Cardinality(A) \in Nat /\ Cardinality(B) \in Nat
         /\ Cardinality(S) = Cardinality(A) + Cardinality(B)
<1>1. IsFiniteSet(A) /\ IsFiniteSet(B)
  BY FS_Subset
<1>2. Cardinality(A) \in Nat /\ Cardinality(B) \in Nat
  BY <1>1, FS_CardinalityType
<1>3. Cardinality(A \union B) = Cardinality(A) + Cardinality(B) - Cardinality({})
  BY <1>1, FS_Union
<1>4. Cardinality({}) = 0
  BY FS_EmptySet
<1> QED
  BY <1>1, <1>2, <1>3, <1>4

Pairs(W, J, R) == {p \in W \X J : p \in R}
Row(i, J, R) == {j \in J : <<i, j>> \in R}

LEMMA PairsFinite ==
  ASSUME NEW W, NEW J, IsFiniteSet(W), IsFiniteSet(J), NEW R
  PROVE  IsFiniteSet(Pairs(W, J, R)) /\ Cardinality(Pairs(W, J, R)) \in Nat
<1>1. IsFiniteSet(W \X J)
  BY FS_Product
<1>2. Pairs(W, J, R) \in SUBSET (W \X J)
  BY DEF Pairs
<1> QED
  BY <1>1, <1>2, FS_Subset, FS_CardinalityType

LEMMA PairsAdd ==
  ASSUME NEW W, NEW J, IsFiniteSet(W), IsFiniteSet(J), NEW R, NEW w \in W
  PROVE  /\ Cardinality(Row(w, J, R)) \in Nat
         /\ Cardinality(Pairs(W, J, R)) = Cardinality(Row(w, J, R)) + Cardinality(Pairs(W \ {w}, J, R))
<1> DEFINE A == {w} \X Row(w, J, R)
           B == Pairs(W \ {w}, J, R)
           S == Pairs(W, J, R)
<1>1. S = A \union B /\ A \intersect B = {}
  BY DEF Pairs, Row
<1>2. IsFiniteSet(S)
  BY PairsFinite
<1>3. IsFiniteSet(Row(w, J, R)) /\ Cardinality(Row(w, J, R)) \in Nat
  <2>1. Row(w, J, R) \in SUBSET J
    BY DEF Row
  <2> QED
    BY <2>1, FS_Subset, FS_CardinalityType
<1>4. Cardinality(A) = Cardinality(Row(w, J, R))
  <2>1. IsFiniteSet({w}) /\ Cardinality({w}) = 1
    BY FS_Singleton
  <2>2. Cardinality(A) = 1 * Cardinality(Row(w, J, R))
    BY <1>3, <2>1, FS_Product
  <2> HIDE DEF A
  <2> QED
    BY <1>3, <2>2
<1> HIDE DEF A, B, S
<1>5. Cardinality(S) = Cardinality(A) + Cardinality(B)
  BY <1>1, <1>2, SplitCount
<1> QED
  BY <1>3, <1>4, <1>5 DEF S, B

\* Adding up the rows counts the pairs.
LEMMA SumOfRows ==
  ASSUME NEW W, NEW J, IsFiniteSet(W), IsFiniteSet(J), NEW R, NEW Q, NEW f,
         \A i \in W : f[i] = 2 * Cardinality(Row(i, J, R)) + Cardinality(Row(i, J, Q)) + 1
  PROVE  Sum(f, W) = 2 * Cardinality(Pairs(W, J, R)) + Cardinality(Pairs(W, J, Q)) + Cardinality(W)
<1> DEFINE Rest(t) == 2 * Cardinality(Pairs(t, J, R)) + Cardinality(Pairs(t, J, Q)) + Cardinality(t)
           C == {t \in SUBSET W : Sum(f, t) # Rest(t)}
<1> SUFFICES ASSUME Sum(f, W) # Rest(W) PROVE FALSE
  OBVIOUS
<1>1. PICK m \in C : \A t \in C : t \subseteq m => t = m
  <2>1. C \subseteq SUBSET W /\ C # {}
    OBVIOUS
  <2> HIDE DEF C
  <2> QED BY <2>1, SmallestSubset
<1>2. IsFiniteSet(m)
  BY FS_Subset
<1>3. m # {}
  <2>1. Pairs({}, J, R) = {} /\ Pairs({}, J, Q) = {}
    BY DEF Pairs
  <2>2. Cardinality({}) = 0
    BY FS_EmptySet
  <2>3. Rest({}) = 0
    BY <2>1, <2>2
  <2> QED
    BY <2>3, SumEmpty
<1> DEFINE p == Pick(m)
<1>4. p \in m /\ p \in W
  BY <1>3, PickIn
<1>5. Sum(f, m) = f[p] + Sum(f, m \ {p})
  BY <1>2, <1>3, SumPick
<1>6. Sum(f, m \ {p}) = Rest(m \ {p})
  BY <1>1, <1>4
<1> HIDE DEF p
<1>7. /\ Cardinality(Row(p, J, R)) \in Nat /\ Cardinality(Row(p, J, Q)) \in Nat
      /\ Cardinality(Pairs(m, J, R)) = Cardinality(Row(p, J, R)) + Cardinality(Pairs(m \ {p}, J, R))
      /\ Cardinality(Pairs(m, J, Q)) = Cardinality(Row(p, J, Q)) + Cardinality(Pairs(m \ {p}, J, Q))
  <2> HIDE DEF C
  <2>1. ASSUME NEW T
        PROVE  /\ Cardinality(Row(p, J, T)) \in Nat
               /\ Cardinality(Pairs(m, J, T)) = Cardinality(Row(p, J, T)) + Cardinality(Pairs(m \ {p}, J, T))
    BY <1>2, <1>4, PairsAdd
  <2> QED
    BY <2>1
<1>8. Cardinality(m \ {p}) = Cardinality(m) - 1 /\ Cardinality(m) \in Nat /\ IsFiniteSet(m \ {p})
  BY <1>2, <1>4, FS_RemoveElement, FS_CardinalityType
<1>9. Cardinality(Pairs(m \ {p}, J, R)) \in Nat /\ Cardinality(Pairs(m \ {p}, J, Q)) \in Nat
  BY <1>8, PairsFinite
<1>10. f[p] = 2 * Cardinality(Row(p, J, R)) + Cardinality(Row(p, J, Q)) + 1
  BY <1>4
<1>11. Sum(f, m) # Rest(m)
  OBVIOUS
<1> HIDE DEF C
<1> QED
  BY <1>5, <1>6, <1>7, <1>8, <1>9, <1>10, <1>11

-----------------------------------------------------------------------------
(* The area under the ROC curve                                            *)

Higher(N, scores) == {p \in N \X N : scores[p[2]] < scores[p[1]]}
Lower(N, scores) == {p \in N \X N : scores[p[1]] < scores[p[2]]}
Equal(N, scores) == {p \in N \X N : scores[p[1]] = scores[p[2]]}

LEMMA PairIn ==
  ASSUME NEW N, NEW scores \in [N -> Int], NEW A \in SUBSET N, NEW B \in SUBSET N,
         NEW a \in A, NEW b \in B
  PROVE  /\ <<a, b>> \in Pairs(A, B, Higher(N, scores)) <=> scores[b] < scores[a]
         /\ <<a, b>> \in Pairs(A, B, Lower(N, scores)) <=> scores[a] < scores[b]
         /\ <<a, b>> \in Pairs(A, B, Equal(N, scores)) <=> scores[a] = scores[b]
<1>1. /\ <<a, b>> \in A \X B /\ <<a, b>> \in N \X N
      /\ <<a, b>>[1] = a /\ <<a, b>>[2] = b
  <2>1. a \in N /\ b \in N /\ DOMAIN scores = N
    OBVIOUS
  <2>2. <<a, b>> \in A \X B
    OBVIOUS
  <2> QED
    BY <2>1, <2>2
<1> DEFINE p == <<a, b>>
<1>2. p \in A \X B /\ p \in N \X N /\ p[1] = a /\ p[2] = b
  BY <1>1
<1> HIDE DEF p
<1>3. /\ p \in Pairs(A, B, Higher(N, scores)) <=> scores[b] < scores[a]
      /\ p \in Pairs(A, B, Lower(N, scores)) <=> scores[a] < scores[b]
      /\ p \in Pairs(A, B, Equal(N, scores)) <=> scores[a] = scores[b]
  BY <1>2 DEF Pairs, Higher, Lower, Equal
<1> QED
  BY <1>3 DEF p

\* Of two scores one is higher or both are equal.
LEMMA Trichotomy ==
  ASSUME NEW N, IsFiniteSet(N), NEW scores \in [N -> Int], NEW A \in SUBSET N, NEW B \in SUBSET N
  PROVE  /\ Cardinality(Pairs(A, B, Higher(N, scores))) \in Nat
         /\ Cardinality(Pairs(A, B, Lower(N, scores))) \in Nat
         /\ Cardinality(Pairs(A, B, Equal(N, scores))) \in Nat
         /\ Cardinality(A) * Cardinality(B)
              = Cardinality(Pairs(A, B, Higher(N, scores))) + Cardinality(Pairs(A, B, Lower(N, scores)))
                + Cardinality(Pairs(A, B, Equal(N, scores)))
<1> DEFINE X == Pairs(A, B, Higher(N, scores))
           Y == Pairs(A, B, Lower(N, scores))
           Z == Pairs(A, B, Equal(N, scores))
<1>1. IsFiniteSet(A) /\ IsFiniteSet(B)
  BY FS_Subset
<1>2. /\ IsFiniteSet(X) /\ IsFiniteSet(Y) /\ IsFiniteSet(Z)
      /\ Cardinality(X) \in Nat /\ Cardinality(Y) \in Nat /\ Cardinality(Z) \in Nat
  BY <1>1, PairsFinite
<1>3. X \intersect (Y \union Z) = {} /\ Y \intersect Z = {}
  BY DEF Pairs, Higher, Lower, Equal
<1>4. A \X B = X \union (Y \union Z)
  <2>1. ASSUME NEW p \in A \X B PROVE p \in X \/ p \in Y \/ p \in Z
    <3>1. PICK a \in A, b \in B : p = <<a, b>>
      OBVIOUS
    <3>2. scores[a] \in Int /\ scores[b] \in Int
      OBVIOUS
    <3>3. scores[b] < scores[a] \/ scores[a] < scores[b] \/ scores[a] = scores[b]
      BY <3>2
    <3> QED
      BY <3>1, <3>3, PairIn
  <2>2. X \subseteq A \X B /\ Y \subseteq A \X B /\ Z \subseteq A \X B
    BY DEF Pairs
  <2> HIDE DEF X, Y, Z
  <2> QED
    BY <2>1, <2>2
<1>5. IsFiniteSet(A \X B) /\ Cardinality(A \X B) = Cardinality(A) * Cardinality(B)
  BY <1>1, FS_Product
<1> HIDE DEF X, Y, Z
<1>6. Cardinality(A \X B) = Cardinality(X) + Cardinality(Y \union Z)
  <2> DEFINE S == A \X B
  <2>1. IsFiniteSet(S) /\ S = X \union (Y \union Z)
    BY <1>4, <1>5
  <2> HIDE DEF S
  <2>2. Cardinality(S) = Cardinality(X) + Cardinality(Y \union Z)
    BY <1>3, <2>1, SplitCount
  <2> QED
    BY <2>2 DEF S
<1>7. IsFiniteSet(Y \union Z)
  BY <1>2, FS_Union
<1>8. Cardinality(Y \union Z) = Cardinality(Y) + Cardinality(Z)
  BY <1>3, <1>7, SplitCount
<1> QED
  BY <1>2, <1>5, <1>6, <1>8 DEF X, Y, Z

\* Within one set as many pairs fall as rise.
LEMMA Swapped ==
  ASSUME NEW N, IsFiniteSet(N), NEW scores \in [N -> Int], NEW A \in SUBSET N
  PROVE  Cardinality(Pairs(A, A, Higher(N, scores))) = Cardinality(Pairs(A, A, Lower(N, scores)))
<1> DEFINE X == Pairs(A, A, Higher(N, scores))
           Y == Pairs(A, A, Lower(N, scores))
           swap == [p \in X |-> <<p[2], p[1]>>]
<1>1. IsFiniteSet(X)
  <2>1. IsFiniteSet(A)
    BY FS_Subset
  <2> QED
    BY <2>1, PairsFinite
<1>2. ASSUME NEW p \in X
      PROVE  /\ p \in A \X A /\ <<p[2], p[1]>> \in Y /\ p = <<p[1], p[2]>>
  <2>1. p \in A \X A
    BY DEF Pairs
  <2>2. PICK a \in A, b \in A : p = <<a, b>>
    BY <2>1
  <2>3. scores[b] < scores[a] /\ p[1] = a /\ p[2] = b
    BY <2>2, PairIn
  <2> QED
    BY <2>1, <2>2, <2>3, PairIn
<1>3. ASSUME NEW p \in Y
      PROVE  /\ <<p[2], p[1]>> \in X /\ p = <<p[1], p[2]>>
  <2>1. p \in A \X A
    BY DEF Pairs
  <2>2. PICK a \in A, b \in A : p = <<a, b>>
    BY <2>1
  <2>3. scores[a] < scores[b] /\ p[1] = a /\ p[2] = b
    BY <2>2, PairIn
  <2> QED
    BY <2>1, <2>2, <2>3, PairIn
<1>4. swap \in Bijection(X, Y)
  <2>1. swap \in [X -> Y]
    BY <1>2
  <2>2. ASSUME NEW p \in X, NEW q \in X, swap[p] = swap[q] PROVE p = q
    <3>1. p[1] = q[1] /\ p[2] = q[2]
      <4> HIDE DEF X
      <4>1. <<p[2], p[1]>> = <<q[2], q[1]>>
        BY <2>2
      <4> QED
        BY <4>1
    <3> QED
      BY <1>2, <3>1
  <2>3. ASSUME NEW q \in Y PROVE \E p \in X : swap[p] = q
    <3> DEFINE p == <<q[2], q[1]>>
    <3>1. p \in X /\ p[1] = q[2] /\ p[2] = q[1]
      BY <1>3
    <3>2. swap[p] = <<p[2], p[1]>>
      BY <3>1
    <3>3. swap[p] = q
      <4> HIDE DEF p, X, Y
      <4> QED
        BY <1>3, <3>1, <3>2
    <3> QED
      BY <3>1, <3>3
  <2> HIDE DEF swap, X, Y
  <2> QED
    BY <2>1, <2>2, <2>3 DEF Bijection, Injection, Surjection, IsInjective
<1> HIDE DEF X, Y, swap
<1>5. ExistsBijection(X, Y)
  BY <1>4 DEF ExistsBijection
<1> QED
  BY <1>1, <1>5, FS_Bijection DEF X, Y

LEMMA RankSum ==
  ASSUME NEW N, IsFiniteSet(N), NEW scores \in [N -> Int], NEW W \in SUBSET N
  PROVE  MapThenSumSet(LAMBDA i : Rank2(scores, i), W)
           = 2 * Cardinality(Pairs(W, N, Higher(N, scores)))
             + Cardinality(Pairs(W, N, Equal(N, scores))) + Cardinality(W)
<1> DEFINE f == [i \in W |-> Rank2(scores, i)]
           Is(h) == h = [s \in SUBSET W |->
                           IF s = {} THEN 0 ELSE Rank2(scores, Pick(s)) + h[s \ {Pick(s)}]]
<1>1. IsFiniteSet(W)
  BY FS_Subset
<1>2. ASSUME NEW i \in W
      PROVE  f[i] = 2 * Cardinality(Row(i, N, Higher(N, scores)))
                    + Cardinality(Row(i, N, Equal(N, scores))) + 1
  <2>1. /\ Row(i, N, Higher(N, scores)) = {j \in DOMAIN scores : scores[j] < scores[i]}
        /\ Row(i, N, Equal(N, scores)) = {j \in DOMAIN scores : scores[j] = scores[i]}
    <3>1. ASSUME NEW j \in N
          PROVE  /\ j \in Row(i, N, Higher(N, scores)) <=> scores[j] < scores[i]
                 /\ j \in Row(i, N, Equal(N, scores)) <=> scores[j] = scores[i]
      <4>1. <<i, j>> \in N \X N /\ <<i, j>>[1] = i /\ <<i, j>>[2] = j
        OBVIOUS
      <4> QED
        BY <4>1 DEF Row, Higher, Equal
    <3>2. \A R : Row(i, N, R) \subseteq N
      BY DEF Row
    <3> QED
      BY <3>1, <3>2
  <2> QED
    BY <2>1 DEF Rank2
<1>3. Sum(f, W) = 2 * Cardinality(Pairs(W, N, Higher(N, scores)))
                  + Cardinality(Pairs(W, N, Equal(N, scores))) + Cardinality(W)
  <2> HIDE DEF f
  <2> QED
    BY <1>1, <1>2, SumOfRows
<1>4. ASSUME NEW h PROVE Is(h) <=> Sums(h, f, W)
  <2>1. ASSUME NEW s \in SUBSET W, s # {} PROVE f[Pick(s)] = Rank2(scores, Pick(s))
    BY <2>1, PickIn
  <2> HIDE DEF f
  <2>2. ASSUME NEW s \in SUBSET W
        PROVE  (IF s = {} THEN 0 ELSE Rank2(scores, Pick(s)) + h[s \ {Pick(s)}])
                 = (IF s = {} THEN 0 ELSE f[Pick(s)] + h[s \ {Pick(s)}])
    BY <2>1
  <2>3. [s \in SUBSET W |-> IF s = {} THEN 0 ELSE Rank2(scores, Pick(s)) + h[s \ {Pick(s)}]]
          = [s \in SUBSET W |-> IF s = {} THEN 0 ELSE f[Pick(s)] + h[s \ {Pick(s)}]]
    BY <2>2
  <2> QED
    BY <2>3 DEF Sums
<1> HIDE DEF f
<1>5. PICK g : Sums(g, f, W)
  BY <1>1, SumsExist
<1>6. Sum(f, W) = g[W]
  BY <1>1, <1>5, SumIsSums
<1>7. MapThenSumSet(LAMBDA i : Rank2(scores, i), W) = (CHOOSE h : Is(h))[W]
  BY DEF MapThenSumSet, MapThenFoldSet, Pick
<1>8. Is(CHOOSE h : Is(h))
  BY <1>4, <1>5
<1>9. (CHOOSE h : Is(h)) = g
  <2> HIDE DEF Is
  <2> QED
    BY <1>1, <1>4, <1>5, <1>8, SumsUnique
<1> QED
  BY <1>3, <1>6, <1>7, <1>9

\* Adding up what lies on either side of a split.
LEMMA PairsSplit ==
  ASSUME NEW N, IsFiniteSet(N), NEW W \in SUBSET N, NEW L, L = N \ W, NEW R
  PROVE  Cardinality(Pairs(W, N, R)) = Cardinality(Pairs(W, W, R)) + Cardinality(Pairs(W, L, R))
<1>1. IsFiniteSet(W)
  BY FS_Subset
<1> DEFINE S == Pairs(W, N, R)
           A == Pairs(W, W, R)
           B == Pairs(W, L, R)
<1>2. S = A \union B /\ A \intersect B = {}
  BY DEF Pairs
<1>3. IsFiniteSet(S)
  BY <1>1, PairsFinite
<1> HIDE DEF S, A, B
<1>4. Cardinality(S) = Cardinality(A) + Cardinality(B)
  BY <1>2, <1>3, SplitCount
<1> QED
  BY <1>4 DEF S, A, B

\* The identity of Mann and Whitney: the rank sum counts, for each winner, the losers
\* below it twice and those beside it once.
LEMMA MannWhitney ==
  ASSUME NEW n \in Nat, NEW rows, DOMAIN rows = 1 .. n, NEW scores \in [1 .. n -> Int]
  PROVE  LET W == Wins(rows)
             L == Losses(rows)
             over == Cardinality(Pairs(W, L, Higher(1 .. n, scores)))
             under == Cardinality(Pairs(W, L, Lower(1 .. n, scores)))
             equal == Cardinality(Pairs(W, L, Equal(1 .. n, scores)))
         IN /\ over \in Nat /\ under \in Nat /\ equal \in Nat
            /\ U(rows, scores) = 2 * over + equal
            /\ D(rows) = 2 * (over + under + equal)
<1> DEFINE N == 1 .. n
           W == Wins(rows)
           L == Losses(rows)
           over == Cardinality(Pairs(W, L, Higher(N, scores)))
           under == Cardinality(Pairs(W, L, Lower(N, scores)))
           equal == Cardinality(Pairs(W, L, Equal(N, scores)))
           overW == Cardinality(Pairs(W, W, Higher(N, scores)))
           equalW == Cardinality(Pairs(W, W, Equal(N, scores)))
<1>1. IsFiniteSet(N) /\ W \in SUBSET N /\ L \in SUBSET N /\ L = N \ W
  BY FS_Interval DEF Wins, Losses
<1>2. IsFiniteSet(W) /\ Cardinality(W) \in Nat /\ Cardinality(L) \in Nat
  BY <1>1, FS_Subset, FS_CardinalityType
<1>3. scores \in [N -> Int]
  OBVIOUS
<1> HIDE DEF N, W, L
<1>4. over \in Nat /\ under \in Nat /\ equal \in Nat
      /\ Cardinality(W) * Cardinality(L) = over + under + equal
  BY <1>1, <1>3, Trichotomy
<1>5. overW \in Nat /\ equalW \in Nat /\ Cardinality(W) * Cardinality(W) = overW + overW + equalW
  <2>1. /\ overW \in Nat /\ equalW \in Nat
        /\ Cardinality(W) * Cardinality(W)
             = overW + Cardinality(Pairs(W, W, Lower(N, scores))) + equalW
    BY <1>1, <1>3, Trichotomy
  <2>2. overW = Cardinality(Pairs(W, W, Lower(N, scores)))
    BY <1>1, <1>3, Swapped
  <2> HIDE DEF overW, equalW
  <2> QED
    BY <2>1, <2>2
<1>6. /\ Cardinality(Pairs(W, N, Higher(N, scores))) = overW + over
      /\ Cardinality(Pairs(W, N, Equal(N, scores))) = equalW + equal
  BY <1>1, PairsSplit
<1>7. MapThenSumSet(LAMBDA i : Rank2(scores, i), W) = 2 * (overW + over) + (equalW + equal) + Cardinality(W)
  <2>1. MapThenSumSet(LAMBDA i : Rank2(scores, i), W)
          = 2 * Cardinality(Pairs(W, N, Higher(N, scores)))
            + Cardinality(Pairs(W, N, Equal(N, scores))) + Cardinality(W)
    BY <1>1, <1>3, RankSum
  <2> HIDE DEF over, equal, overW, equalW
  <2> QED
    BY <1>6, <2>1, Zenon
<1>8. U(rows, scores) = 2 * (overW + over) + (equalW + equal) + Cardinality(W)
                        - Cardinality(W) * (Cardinality(W) + 1)
  <2>1. U(rows, scores) = MapThenSumSet(LAMBDA i : Rank2(scores, i), W)
                          - Cardinality(W) * (Cardinality(W) + 1)
    BY Zenon DEF U, W
  <2> DEFINE m == MapThenSumSet(LAMBDA i : Rank2(scores, i), W)
  <2>2. U(rows, scores) = m - Cardinality(W) * (Cardinality(W) + 1)
    BY <2>1
  <2>3. m = 2 * (overW + over) + (equalW + equal) + Cardinality(W)
    BY <1>7
  <2> DEFINE k == Cardinality(W) * (Cardinality(W) + 1)
  <2>4. k \in Int
    BY <1>2
  <2>5. U(rows, scores) = m - k
    BY <2>2
  <2> HIDE DEF over, equal, overW, equalW, m, k
  <2>6. U(rows, scores) = 2 * (overW + over) + (equalW + equal) + Cardinality(W) - k
    <3>1. over \in Nat /\ equal \in Nat /\ overW \in Nat /\ equalW \in Nat
      BY <1>4, <1>5
    <3>2. Cardinality(W) \in Nat
      BY <1>2
    <3> QED
      BY <2>3, <2>4, <2>5, <3>1, <3>2
  <2> QED
    BY <2>6 DEF k
<1>9. D(rows) = 2 * Cardinality(W) * Cardinality(L)
  BY DEF D, W, L
<1> DEFINE w == Cardinality(W)
           l == Cardinality(L)
<1>10. w \in Nat /\ l \in Nat
  BY <1>2
<1> HIDE DEF over, under, equal, overW, equalW, w, l
<1>11. w * l = over + under + equal /\ w * w = overW + overW + equalW
  BY <1>4, <1>5 DEF w, l
<1>12. w * (w + 1) = w * w + w
  BY <1>10
<1>13. 2 * w * l = 2 * (w * l)
  BY <1>10
<1>14. U(rows, scores) = 2 * (overW + over) + (equalW + equal) + w - w * (w + 1)
  BY <1>8 DEF w
<1>15. D(rows) = 2 * w * l
  BY <1>9 DEF w, l
<1> HIDE DEF w, l
<1>16. U(rows, scores) = 2 * over + equal
  BY <1>4, <1>5, <1>10, <1>11, <1>12, <1>14
<1>17. D(rows) = 2 * (over + under + equal)
  BY <1>4, <1>11, <1>13, <1>15
<1> QED
  BY <1>4, <1>16, <1>17 DEF over, under, equal, W, L, N

-----------------------------------------------------------------------------
(* The shape of a history                                                  *)

LogFields == {"day", "side", "setup", "views", "features", "conflict", "confidence", "qty",
              "entry", "stop", "outcome", "pnl"}

\* One decision is logged a day, on the day.
Shape ==
  /\ scenario \in Scenarios /\ pc \in {"market", "collect", "enrich"}
  /\ bars \in Seq(scenario.market) /\ Len(bars) <= MaxBars
  /\ log \in Seq(Range(log))
  /\ pc # "market" => Len(bars) > 0
  /\ Len(log) = IF pc = "market" THEN Len(bars) ELSE Len(bars) - 1
  /\ \A i \in 1 .. Len(log) : DOMAIN log[i] = LogFields /\ log[i].day = i

\* What a decision was made from and came to stays when it is closed.
LEMMA SettledKeeps ==
  ASSUME NEW d, DOMAIN d = LogFields, NEW price
  PROVE  LET e == Settled(d, price)
         IN /\ DOMAIN e = LogFields
            /\ e.day = d.day /\ e.side = d.side /\ e.setup = d.setup /\ e.views = d.views
            /\ e.features = d.features /\ e.confidence = d.confidence /\ e.qty = d.qty
            /\ e.entry = d.entry /\ e.stop = d.stop
<1>1. CASE d.outcome # "open"
  BY <1>1 DEF Settled
<1>2. CASE d.outcome = "open"
  <2> DEFINE p == PnlAt(d, price)
             o == IF PnlAt(d, price) > 0 THEN "win"
                  ELSE IF PnlAt(d, price) < 0 THEN "loss" ELSE "breakeven"
  <2>1. Settled(d, price) = [d EXCEPT !.pnl = p, !.outcome = o]
    BY <1>2 DEF Settled
  <2> HIDE DEF p, o
  <2> QED
    BY <2>1 DEF LogFields
<1> QED
  BY <1>1, <1>2

LEMMA DecisionFields ==
  ASSUME NEW setup, NEW views
  PROVE  /\ DOMAIN Decision(setup, views) = LogFields
         /\ Decision(setup, views).day = Today
BY DEF Decision, LogFields

LEMMA SameRange ==
  ASSUME NEW S, NEW s \in Seq(S)
  PROVE  s \in Seq(Range(s))
<1>1. Len(s) \in Nat /\ s = [i \in 1 .. Len(s) |-> s[i]]
  OBVIOUS
<1>2. \A i \in 1 .. Len(s) : s[i] \in Range(s)
  BY DEF Range
<1> QED
  BY <1>1, <1>2

\* How the log changes.
LEMMA NewBarLog ==
  ASSUME Shape, NewBar
  PROVE  \E b \in scenario.market :
           /\ bars' = Append(bars, b)
           /\ log' \in Seq(Range(log')) /\ Len(log') = Len(log)
           /\ \A i \in 1 .. Len(log) : log'[i] = Settled(log[i], b.c)
<1>1. PICK b \in scenario.market :
        bars' = Append(bars, b) /\ log' = [i \in DOMAIN log |-> Settled(log[i], b.c)]
  BY DEF NewBar
<1>2. Len(log) \in Nat /\ DOMAIN log = 1 .. Len(log)
  BY DEF Shape
<1>3. log' = [i \in 1 .. Len(log) |-> Settled(log[i], b.c)]
  BY <1>1, <1>2
<1> DEFINE S == {Settled(log[i], b.c) : i \in 1 .. Len(log)}
<1>4. log' \in Seq(S) /\ Len(log') = Len(log)
  BY <1>2, <1>3
<1>5. log' \in Seq(Range(log'))
  <2> HIDE DEF S
  <2> QED
    BY <1>4, SameRange
<1> QED
  BY <1>1, <1>3, <1>4, <1>5

LEMMA EnrichLog ==
  ASSUME Shape, Enrich
  PROVE  /\ log' \in Seq(Range(log')) /\ Len(log') = Len(log) + 1
         /\ \A i \in 1 .. Len(log) : log'[i] = log[i]
         /\ log'[Len(log) + 1] = Decision(Setup, Views(Setup))
         /\ Len(log) + 1 = Today
<1> DEFINE d == Decision(Setup, Views(Setup))
           S == Range(log) \union {d}
<1>1. log' = Append(log, d) /\ pc = "enrich"
  BY DEF Enrich
<1>2. log \in Seq(S) /\ d \in S /\ Len(log) \in Nat /\ Len(bars) \in Nat
  BY DEF Shape
<1> HIDE DEF d, S
<1>3. log' \in Seq(S) /\ Len(log') = Len(log) + 1 /\ log'[Len(log) + 1] = d
      /\ \A i \in 1 .. Len(log) : log'[i] = log[i]
  BY <1>1, <1>2
<1>4. log' \in Seq(Range(log'))
  BY <1>3, SameRange
<1>5. Len(log) + 1 = Today
  BY <1>1, <1>2 DEF Shape, Today
<1> QED
  BY <1>3, <1>4, <1>5 DEF d

LEMMA ShapeInit == Init => Shape
<1> SUFFICES ASSUME Init PROVE Shape
  OBVIOUS
<1>1. /\ bars = <<>> /\ log = <<>> /\ pc = "market" /\ scenario \in Scenarios
      /\ MaxBars \in Nat
  BY EnrichmentAssumption DEF Init
<1> QED
  BY <1>1, SameRange DEF Shape

LEMMA ShapeStep ==
  ASSUME Shape, [Next]_vars
  PROVE  Shape'
<1>0. Len(bars) \in Nat /\ Len(log) \in Nat /\ MaxBars \in Nat
  BY EnrichmentAssumption DEF Shape
<1>1. CASE NewBar
  <2>1. PICK b \in scenario.market :
           /\ bars' = Append(bars, b)
           /\ log' \in Seq(Range(log')) /\ Len(log') = Len(log)
           /\ \A i \in 1 .. Len(log) : log'[i] = Settled(log[i], b.c)
    BY <1>1, NewBarLog
  <2>2. UNCHANGED scenario /\ pc = "market" /\ pc' = "collect" /\ Len(bars) < MaxBars
    BY <1>1 DEF NewBar, Today
  <2>3. bars' \in Seq(scenario.market) /\ Len(bars') = Len(bars) + 1
    BY <2>1 DEF Shape
  <2>4. \A i \in 1 .. Len(log') : DOMAIN log'[i] = LogFields /\ log'[i].day = i
    BY <2>1, SettledKeeps DEF Shape
  <2> QED
    BY <1>0, <2>1, <2>2, <2>3, <2>4 DEF Shape
<1>2. CASE Collect
  BY <1>2 DEF Shape, Collect
<1>3. CASE Enrich
  <2>1. UNCHANGED <<scenario, bars>> /\ pc = "enrich" /\ pc' = "market"
    BY <1>3 DEF Enrich
  <2>2. /\ log' \in Seq(Range(log')) /\ Len(log') = Len(log) + 1
        /\ \A i \in 1 .. Len(log) : log'[i] = log[i]
        /\ log'[Len(log) + 1] = Decision(Setup, Views(Setup))
        /\ Len(log) + 1 = Today
    BY <1>3, EnrichLog
  <2>3. ASSUME NEW i \in 1 .. Len(log') PROVE DOMAIN log'[i] = LogFields /\ log'[i].day = i
    <3>1. CASE i \in 1 .. Len(log)
      BY <2>2, <3>1 DEF Shape
    <3>2. CASE i \notin 1 .. Len(log)
      <4>1. i = Len(log) + 1
        BY <1>0, <2>2, <3>2
      <4> QED
        BY <2>2, <4>1, DecisionFields
    <3> QED
      BY <3>1, <3>2
  <2> QED
    BY <1>0, <2>1, <2>2, <2>3 DEF Shape, Today
<1>4. CASE Promote
  BY <1>4 DEF Shape, Promote
<1>5. CASE UNCHANGED vars
  BY <1>5 DEF Shape, vars
<1> QED
  BY <1>1, <1>2, <1>3, <1>4, <1>5 DEF Next

\* Every decision is logged on its day, in a history of any length.
THEOREM ShapeInvariance == Spec => []Shape
BY ShapeInit, ShapeStep, PTL DEF Spec

-----------------------------------------------------------------------------
(* Promotion                                                               *)

\* At least as many decisions are fitted as are tested, so some are.
LEMMA TestSizeFact ==
  ASSUME NEW n \in Nat, n >= 2
  PROVE  RoundHalfEven(n * TestPercent, 100) \in 0 .. n - 1
<1> DEFINE num == n * TestPercent
           low == num \div 100
           rest == num % 100
<1>1. TestPercent \in Nat /\ TestPercent <= 50
  BY ShadowAssumption
<1>2. num \in Nat /\ num <= 50 * n
  BY <1>1
<1> HIDE DEF num
<1>3. low \in Nat /\ rest \in 0 .. 99 /\ num = 100 * low + rest
  BY <1>2
<1>4. RoundHalfEven(num, 100) = low \/ (RoundHalfEven(num, 100) = low + 1 /\ 2 * rest >= 100)
  <2>1. 2 * rest > 100 \/ 2 * rest = 100 => 2 * rest >= 100
    BY <1>3
  <2> QED
    BY <2>1, <1>3 DEF RoundHalfEven
<1> HIDE DEF low, rest
<1>5. ASSUME RoundHalfEven(num, 100) = low PROVE RoundHalfEven(num, 100) \in 0 .. n - 1
  BY <1>2, <1>3, <1>5
<1>6. ASSUME RoundHalfEven(num, 100) = low + 1, 2 * rest >= 100
      PROVE  RoundHalfEven(num, 100) \in 0 .. n - 1
  BY <1>2, <1>3, <1>6
<1> QED
  BY <1>4, <1>5, <1>6 DEF num

Outcomes == {"win", "loss"}

\* Probabilities and confidences, in thousandths.
Promille == 0 .. 1000

LEMMA PromilleFact == \A x \in Promille : x \in Int /\ 0 <= x /\ x <= 1000
BY DEF Promille

LEMMA ModelFact ==
  ASSUME NEW m \in Models
  PROVE  m.above \in Promille /\ m.below \in Promille /\ m.above \in Int /\ m.below \in Int
<1>1. m.above \in Promille /\ m.below \in Promille
  BY EnrichmentAssumption DEF Promille
<1> QED
  BY <1>1, PromilleFact

\* The training set in the order of the log.
LEMMA TrainingRows ==
  ASSUME Shape
  PROVE  /\ Len(TrainingSet(log)) \in Nat
         /\ DOMAIN TrainingSet(log) = 1 .. Len(TrainingSet(log))
         /\ TrainingSet(log) \in Seq(Range(log))
         /\ \A i \in 1 .. Len(TrainingSet(log)) :
              TrainingSet(log)[i].outcome \in Outcomes /\ TrainingSet(log)[i].day \in Nat
         /\ \A i, j \in 1 .. Len(TrainingSet(log)) :
              i < j => TrainingSet(log)[i].day < TrainingSet(log)[j].day
<1> DEFINE T == {r \in Range(log) : r.outcome \in Outcomes}
           rows == TrainingSet(log)
<1>1. rows = Filter(log, T)
  BY DEF TrainingSet, Outcomes
<1>2. log \in Seq(Range(log)) /\ Len(log) \in Nat
  BY DEF Shape
<1>3. \A r \in T : r \in Range(log) /\ r.outcome \in Outcomes
  OBVIOUS
<1> HIDE DEF T, rows
<1>4. Selected(rows, log, Len(log), T)
  BY <1>1, <1>2, FilterSelects
<1>5. rows \in Seq(T) /\ Len(rows) \in Nat /\ DOMAIN rows = 1 .. Len(rows)
  BY <1>4 DEF Selected
<1>6. PICK at \in [1 .. Len(rows) -> 1 .. Len(log)] :
        /\ \A i \in 1 .. Len(rows) : rows[i] = log[at[i]]
        /\ \A i, j \in 1 .. Len(rows) : i < j => at[i] < at[j]
  BY <1>4 DEF Selected
<1>7. \A i \in 1 .. Len(rows) : rows[i].day = at[i] /\ at[i] \in Nat
  BY <1>2, <1>6 DEF Shape
<1>8. ASSUME NEW i \in 1 .. Len(rows) PROVE rows[i] \in T
  BY <1>5
<1>9. rows \in Seq(Range(log))
  <2>1. \A i \in 1 .. Len(rows) : rows[i] \in Range(log)
    BY <1>3, <1>8
  <2>2. rows = [i \in 1 .. Len(rows) |-> rows[i]]
    BY <1>5
  <2> QED
    BY <1>5, <2>1, <2>2
<1>10. \A i \in 1 .. Len(rows) : rows[i].outcome \in Outcomes /\ rows[i].day \in Nat
  BY <1>3, <1>7, <1>8
<1>11. \A i, j \in 1 .. Len(rows) : i < j => rows[i].day < rows[j].day
  BY <1>6, <1>7
<1> QED
  BY <1>5, <1>9, <1>10, <1>11 DEF rows

\* What PromotionMeansSkill says of a promoted model.
Skilled(model, rows, fitted) ==
  LET score(i) == Proba(model, rows[i].features)
      pairs == Wins(rows) \X Losses(rows)
      taken == {i \in DOMAIN rows : score(i) >= Threshold}
      earned(which) == MapThenSumSet(LAMBDA i : rows[i].pnl, which)
  IN /\ \A i \in DOMAIN rows : rows[i].day > fitted /\ rows[i].outcome \in {"win", "loss"}
     /\ Cardinality({p \in pairs : score(p[1]) > score(p[2])})
          > Cardinality({p \in pairs : score(p[1]) < score(p[2])})
     /\ earned(taken) * Len(rows) > earned(DOMAIN rows) * Cardinality(taken)
        \/ (taken = {} /\ earned(DOMAIN rows) < 0)

LEMMA PromoteSkilled ==
  ASSUME Shape, NEW model \in Models, Recommends(TrainingSet(log), model)
  PROVE  LET rows == TrainingSet(log)
         IN Skilled(model, Unseen(rows), rows[Len(rows) - TestSize(rows)].day)
<1> DEFINE rows == TrainingSet(log)
           n == Len(rows)
           t == TestSize(rows)
           test == Unseen(rows)
           scores == [i \in DOMAIN test |-> Proba(model, test[i].features)]
           fitted == rows[n - t].day
<1>1. /\ n \in Nat /\ rows \in Seq(Range(log))
      /\ \A i \in 1 .. n : rows[i].outcome \in Outcomes /\ rows[i].day \in Nat
      /\ \A i, j \in 1 .. n : i < j => rows[i].day < rows[j].day
  BY TrainingRows
<1>2. /\ Enough(rows)
      /\ SurelySkilled(U(test, scores), D(test), Cardinality(Wins(test)), Cardinality(Losses(test)))
      /\ BetterPnl(test, scores)
  BY DEF Recommends
<1> HIDE DEF rows
<1>3. n >= 2
  <2>1. MinTest \in Nat \ {0} /\ n >= 2 * MinTest
    BY <1>2, ShadowAssumption DEF Enough
  <2> QED
    BY <1>1, <2>1
<1>4. t \in 0 .. n - 1
  BY <1>1, <1>3, TestSizeFact DEF TestSize
<1> HIDE DEF n, t
<1>5. /\ n - t + 1 \in 1 .. n + 1 /\ n - t \in 1 .. n
      /\ n - (n - t + 1) + 1 = t
  BY <1>1, <1>4 DEF n
<1>6. /\ test \in Seq(Range(log)) /\ Len(test) = t /\ DOMAIN test = 1 .. t
      /\ \A i \in 1 .. t : test[i] = rows[n - t + i] /\ n - t + i \in 1 .. n /\ n - t < n - t + i
  <2>1. test = SubSeq(rows, n - t + 1, n)
    BY DEF Unseen, n, t
  <2>2. \A i \in 1 .. t : n - t + i \in 1 .. n /\ n - t < n - t + i /\ n - t + 1 + i - 1 = n - t + i
    BY <1>1, <1>4 DEF n
  <2>3. n \in Nat /\ n = Len(rows) /\ t \in Nat
    BY <1>1, <1>4 DEF n
  <2> HIDE DEF test
  <2>4. /\ test \in Seq(Range(log))
        /\ Len(test) = t
        /\ \A i \in 1 .. t : test[i] = rows[n - t + i]
    <3> DEFINE a == n - t + 1
    <3>1. a \in 1 .. Len(rows) + 1 /\ n \in a - 1 .. Len(rows) /\ n - a + 1 = t
      BY <1>5, <2>3, <1>4
    <3>2. a \in Nat \ {0} /\ rows \in Seq(Range(log))
      BY <1>1, <2>3, <3>1
    <3> HIDE DEF a
    <3>3. /\ SubSeq(rows, a, n) \in Seq(Range(log))
          /\ Len(SubSeq(rows, a, n)) = t
          /\ \A i \in 1 .. t : SubSeq(rows, a, n)[i] = rows[a + i - 1]
      BY <2>3, <3>1, <3>2, SubSeqProperties
    <3>4. \A i \in 1 .. t : a + i - 1 = n - t + i
      BY <2>2 DEF a
    <3> QED
      BY <2>1, <3>3, <3>4 DEF a
  <2> QED
    BY <2>2, <2>4
<1> HIDE DEF test
<1>7. ASSUME NEW i \in DOMAIN test
      PROVE  test[i].day > fitted /\ test[i].outcome \in {"win", "loss"}
  <2>1. /\ i \in 1 .. t /\ test[i] = rows[n - t + i] /\ n - t + i \in 1 .. n
        /\ n - t < n - t + i /\ n - t \in 1 .. n
    BY <1>5, <1>6
  <2>2. rows[n - t].day < rows[n - t + i].day /\ rows[n - t].day \in Nat /\ rows[n - t + i].day \in Nat
    BY <1>1, <2>1 DEF n
  <2>3. rows[n - t + i].outcome \in Outcomes
    BY <1>1, <2>1 DEF n
  <2> QED
    BY <2>1, <2>2, <2>3 DEF Outcomes
<1>8. scores \in [1 .. t -> Int] /\ t \in Nat
  <2>1. model.above \in Int /\ model.below \in Int
    BY ModelFact
  <2>2. \A x : Proba(model, x) \in Int
    BY <2>1 DEF Proba
  <2> QED
    BY <1>4, <1>6, <2>2
<1> DEFINE W == Wins(test)
           L == Losses(test)
           over == Cardinality(Pairs(W, L, Higher(1 .. t, scores)))
           under == Cardinality(Pairs(W, L, Lower(1 .. t, scores)))
           equal == Cardinality(Pairs(W, L, Equal(1 .. t, scores)))
<1>9. over > under
  <2>1. /\ over \in Nat /\ under \in Nat /\ equal \in Nat
        /\ U(test, scores) = 2 * over + equal
        /\ D(test) = 2 * (over + under + equal)
    <3> HIDE DEF scores
    <3> QED
      BY <1>6, <1>8, MannWhitney
  <2>2. 2 * U(test, scores) > D(test)
    BY <1>2 DEF SurelySkilled
  <2> HIDE DEF over, under, equal, scores
  <2> QED
    BY <2>1, <2>2
<1>10. W \subseteq 1 .. t /\ L \subseteq 1 .. t
  BY <1>6 DEF Wins, Losses
<1>11. \A i \in 1 .. t : scores[i] = Proba(model, test[i].features)
  BY <1>6
<1>12. /\ Pairs(W, L, Higher(1 .. t, scores))
            = {q \in W \X L : Proba(model, test[q[1]].features) > Proba(model, test[q[2]].features)}
       /\ Pairs(W, L, Lower(1 .. t, scores))
            = {q \in W \X L : Proba(model, test[q[1]].features) < Proba(model, test[q[2]].features)}
  <2> DEFINE N == 1 .. t
  <2>1. W \subseteq N /\ L \subseteq N /\ DOMAIN scores = N
    BY <1>6, <1>10
  <2> HIDE DEF scores, W, L, N
  <2>2. ASSUME NEW q \in W \X L
        PROVE  /\ scores[q[1]] = Proba(model, test[q[1]].features)
               /\ scores[q[2]] = Proba(model, test[q[2]].features)
               /\ q \in N \X N
    BY <1>11, <2>1 DEF N
  <2>3. ASSUME NEW q \in W \X L
        PROVE  /\ q \in Higher(N, scores) <=> Proba(model, test[q[2]].features) < Proba(model, test[q[1]].features)
               /\ q \in Lower(N, scores) <=> Proba(model, test[q[1]].features) < Proba(model, test[q[2]].features)
    BY <2>2 DEF Higher, Lower
  <2>4. ASSUME NEW q \in W \X L
        PROVE  Proba(model, test[q[2]].features) < Proba(model, test[q[1]].features)
                 <=> Proba(model, test[q[1]].features) > Proba(model, test[q[2]].features)
    BY <2>2
  <2> QED
    BY <2>3, <2>4 DEF Pairs, N
<1>13. Cardinality({q \in W \X L : Proba(model, test[q[1]].features) > Proba(model, test[q[2]].features)})
         > Cardinality({q \in W \X L : Proba(model, test[q[1]].features) < Proba(model, test[q[2]].features)})
  BY <1>9, <1>12
<1> DEFINE taken == {i \in DOMAIN test : Proba(model, test[i].features) >= Threshold}
           earned(which) == MapThenSumSet(LAMBDA i : test[i].pnl, which)
<1>14. earned(taken) * Len(test) > earned(DOMAIN test) * Cardinality(taken)
       \/ (taken = {} /\ earned(DOMAIN test) < 0)
  <2>1. taken = {i \in DOMAIN test : scores[i] >= Threshold}
    OBVIOUS
  <2>2. IF taken = {} THEN earned(DOMAIN test) < 0
        ELSE earned(taken) * Len(test) > earned(DOMAIN test) * Cardinality(taken)
    BY <1>2, <2>1, Zenon DEF BetterPnl
  <2> HIDE DEF taken, earned
  <2> QED
    BY <2>2
<1>15. Skilled(model, test, fitted)
  BY <1>7, <1>13, <1>14, Zenon DEF Skilled, W, L, taken, earned
<1> QED
  BY <1>15 DEF test, fitted, rows, n, t

PromotedSkilled == Skilled(promoted.model, promoted.rows, promoted.fitted)

LEMMA SkillStated == PromotionMeansSkill <=> (Trained => PromotedSkilled)
BY Zenon DEF PromotionMeansSkill, PromotedSkilled, Skilled

LEMMA PromotionStep ==
  ASSUME Shape, PromotionMeansSkill, [Next]_vars
  PROVE  PromotionMeansSkill'
<1>1. PromotionMeansSkill <=> (Trained => PromotedSkilled)
  BY SkillStated
<1>2. PromotionMeansSkill' <=> (Trained' => PromotedSkilled')
  BY SkillStated, PTL
<1>3. CASE Promote
  <2>1. PICK model \in Models :
          /\ Recommends(TrainingSet(log), model)
          /\ promoted' = [model |-> model, rows |-> Unseen(TrainingSet(log)),
                          fitted |-> TrainingSet(log)[Len(TrainingSet(log)) - TestSize(TrainingSet(log))].day]
    BY <1>3 DEF Promote
  <2>2. Skilled(model, Unseen(TrainingSet(log)),
                TrainingSet(log)[Len(TrainingSet(log)) - TestSize(TrainingSet(log))].day)
    BY <2>1, PromoteSkilled
  <2>3. PromotedSkilled'
    BY <2>1, <2>2 DEF PromotedSkilled
  <2> QED
    BY <1>2, <2>3
<1>4. CASE UNCHANGED promoted
  <2>1. (Trained' <=> Trained) /\ (PromotedSkilled' <=> PromotedSkilled)
    BY <1>4 DEF Trained, Shadow, PromotedSkilled
  <2> QED
    BY <1>1, <1>2, <1>4, <2>1
<1>5. NewBar \/ Collect \/ Enrich \/ UNCHANGED vars => UNCHANGED promoted
  BY DEF NewBar, Collect, Enrich, vars
<1> QED
  BY <1>3, <1>4, <1>5 DEF Next

\* A model is promoted for skill it showed on later decisions than it was fitted on, for
\* any log and any model a fit may return (champion_challenger.evaluate): that the lower
\* bound of its AUC is above one half means that it ranks more winners above losers than
\* below, by the identity of Mann and Whitney.
THEOREM PromotionMeansSkillHolds == Spec => []PromotionMeansSkill
<1>1. Init => PromotionMeansSkill
  BY DEF Init, PromotionMeansSkill, Trained
<1>2. Shape /\ PromotionMeansSkill /\ [Next]_vars => PromotionMeansSkill'
  BY PromotionStep
<1> QED
  BY ShapeInvariance, <1>1, <1>2, PTL DEF Spec


-----------------------------------------------------------------------------
(* Numbers: the greatest and the least, powers and means                   *)

LEMMA Extremes ==
  ASSUME NEW S, \A x \in S : x \in Int, IsFiniteSet(S), S # {}
  PROVE  /\ Max(S) \in S /\ \A y \in S : Max(S) >= y
         /\ Min(S) \in S /\ \A y \in S : Min(S) <= y
<1> DEFINE Both(t) == (\E x \in t : \A y \in t : x >= y) /\ (\E x \in t : \A y \in t : x <= y)
           C == {t \in SUBSET S : t # {} /\ ~Both(t)}
<1>1. ASSUME C # {} PROVE FALSE
  <2>1. PICK m \in C : \A t \in C : t \subseteq m => t = m
    <3>1. C \subseteq SUBSET S
      OBVIOUS
    <3> HIDE DEF C
    <3> QED BY <1>1, <3>1, SmallestSubset
  <2>2. m # {} /\ m \subseteq Int /\ m \subseteq S /\ ~Both(m)
    OBVIOUS
  <2>3. PICK p \in m : TRUE
    BY <2>2
  <2>4. m \ {p} \notin C /\ m \ {p} \subseteq S
    BY <2>1, <2>2
  <2>5. CASE m \ {p} = {}
    <3>1. m = {p} /\ p \in Int
      BY <2>2, <2>5
    <3>2. Both(m)
      BY <3>1
    <3> QED
      BY <2>2, <3>2
  <2>6. CASE m \ {p} # {}
    <3>1. Both(m \ {p})
      BY <2>4, <2>6
    <3>2. PICK hi \in m \ {p}, lo \in m \ {p} : \A y \in m \ {p} : hi >= y /\ lo <= y
      BY <3>1
    <3>3. p \in Int /\ hi \in Int /\ lo \in Int /\ hi \in m /\ lo \in m
      BY <2>2
    <3>4. \A y \in m : y \in Int /\ (y = p \/ (hi >= y /\ lo <= y))
      BY <2>2, <3>2
    <3>5. \E x \in m : \A y \in m : x >= y
      <4>1. CASE p >= hi
        BY <3>3, <3>4, <4>1
      <4>2. CASE ~(p >= hi)
        BY <3>3, <3>4, <4>2
      <4> QED BY <4>1, <4>2
    <3>6. \E x \in m : \A y \in m : x <= y
      <4>1. CASE p <= lo
        BY <3>3, <3>4, <4>1
      <4>2. CASE ~(p <= lo)
        BY <3>3, <3>4, <4>2
      <4> QED BY <4>1, <4>2
    <3> QED
      BY <2>2, <3>5, <3>6
  <2> QED
    BY <2>5, <2>6
<1>2. Both(S)
  BY <1>1
<1> QED
  BY <1>2 DEF Max, Min

\* What a recursive function is, and how it is reasoned about: its least counterexample.
LEMMA ScaleFact ==
  ASSUME NEW n \in Nat \ {0}
  PROVE  /\ Scale(n) \in Nat \ {0}
         /\ n = 1 => Scale(n) = 1
<1> DEFINE Is(f) == f = [m \in 0 .. n - 1 |-> IF m = 0 THEN 1 ELSE Smoothing * f[m - 1]]
           V == Nat \ {0}
           step == [p \in Nat \X V |-> Smoothing * p[2]]
           power == CHOOSE f : Is(f)
<1>1. step \in [Nat \X V -> V]
  <2>1. ASSUME NEW p \in Nat \X V PROVE Smoothing * p[2] \in V
    <3>1. p[2] \in Nat \ {0} /\ Smoothing \in Nat \ {0}
      BY FimatheAssumption
    <3>2. \A a, b \in Nat \ {0} : a * b \in Nat \ {0}
      OBVIOUS
    <3> QED
      BY <3>1, <3>2
  <2> QED
    BY <2>1
<1>2. 1 \in V /\ n - 1 \in Nat
  OBVIOUS
<1>3. \A m \in Nat, v \in V : step[<<m, v>>] = Smoothing * v
  OBVIOUS
<1> HIDE DEF step
<1>4. PICK f : Recursion(f, V, 1, step, n - 1)
  BY <1>1, <1>2, RecursionExists
<1>5. Is(f)
  <2>1. ASSUME NEW m \in 0 .. n - 1 PROVE f[m] = IF m = 0 THEN 1 ELSE Smoothing * f[m - 1]
    <3>1. f[m] = IF m = 0 THEN 1 ELSE step[<<m, f[m - 1]>>]
      BY <1>4 DEF Recursion
    <3>2. m # 0 => m \in Nat /\ f[m - 1] \in V
      <4>1. m # 0 => m \in Nat /\ m - 1 \in 0 .. n - 1
        BY <1>2
      <4> QED
        BY <1>4, <4>1 DEF Recursion
    <3> HIDE DEF V
    <3> QED
      BY <1>3, <3>1, <3>2
  <2>2. f = [m \in 0 .. n - 1 |-> f[m]]
    BY <1>4 DEF Recursion
  <2> QED
    BY <2>1, <2>2
<1>6. Is(power)
  BY <1>5
<1>7. Scale(n) = power[n - 1]
  BY DEF Scale
<1> HIDE DEF power
<1>8. \A m \in 0 .. n - 1 : power[m] = IF m = 0 THEN 1 ELSE Smoothing * power[m - 1]
  BY <1>6
<1> DEFINE C == {m \in 0 .. n - 1 : power[m] \notin V}
<1>9. ASSUME C # {} PROVE FALSE
  <2>1. PICK m \in C : \A k \in C : m <= k
    <3>1. C \subseteq Nat
      OBVIOUS
    <3> HIDE DEF C
    <3> QED BY <1>9, <3>1, LeastNumber
  <2>2. m # 0 /\ power[m] = Smoothing * power[m - 1]
    BY <1>8
  <2>3. power[m - 1] \in V
    <3>1. m - 1 \in 0 .. n - 1 /\ ~(m <= m - 1)
      BY <2>2
    <3> QED
      BY <2>1, <3>1
  <2>4. \A a, b \in Nat \ {0} : a * b \in Nat \ {0}
    OBVIOUS
  <2> QED
    BY <2>2, <2>3, <2>4, FimatheAssumption
<1>10. n - 1 \in 0 .. n - 1 /\ (n = 1 => n - 1 = 0)
  BY <1>2
<1> QED
  BY <1>7, <1>8, <1>9, <1>10

LEMMA Products == \A a, b \in Nat : a * b \in Nat
OBVIOUS

LEMMA Quotients == \A a \in Nat, b \in Nat \ {0} : a \div b \in Nat
OBVIOUS

\* The term of an exponential mean after the n-th.
Term(mean, x, n) == (Smoothing - 1) * mean + (Scale(n) \div Smoothing) * x[n]

Means(mean, x) ==
  mean = [n \in 1 .. Len(x) |-> IF n = 1 THEN x[1] ELSE Term(mean[n - 1], x, n)]

LEMMA TermFact ==
  ASSUME NEW n \in Nat \ {0}, NEW v \in Nat, NEW x, x[n] \in Nat
  PROVE  Term(v, x, n) \in Nat
<1>1. Smoothing - 1 \in Nat /\ Smoothing \in Nat \ {0} /\ Scale(n) \in Nat
  BY ScaleFact, FimatheAssumption
<1>2. Scale(n) \div Smoothing \in Nat
  BY <1>1, Quotients
<1>3. (Smoothing - 1) * v \in Nat /\ (Scale(n) \div Smoothing) * x[n] \in Nat
  BY <1>1, <1>2, Products
<1> QED
  BY <1>3 DEF Term

\* The mean of natural numbers is one.
LEMMA EwmFact ==
  ASSUME NEW n \in Nat, NEW x \in [1 .. n -> Nat]
  PROVE  \A i \in 1 .. n : Ewm(x)[i] \in Nat
<1>1. Len(x) = n
  OBVIOUS
<1> DEFINE step == [p \in Nat \X Nat |->
                      IF p[1] \notin 1 .. n THEN 0
                      ELSE IF p[1] = 1 THEN x[1] ELSE Term(p[2], x, p[1])]
<1>2. step \in [Nat \X Nat -> Nat]
  <2>1. ASSUME NEW p \in Nat \X Nat
        PROVE  (IF p[1] \notin 1 .. n THEN 0
                ELSE IF p[1] = 1 THEN x[1] ELSE Term(p[2], x, p[1])) \in Nat
    <3>1. p[1] \in Nat /\ p[2] \in Nat
      OBVIOUS
    <3>2. ASSUME p[1] \in 1 .. n PROVE p[1] \in Nat \ {0} /\ x[p[1]] \in Nat /\ 1 \in 1 .. n /\ x[1] \in Nat
      <4>1. 1 \in 1 .. n
        BY <3>2
      <4> QED
        BY <3>2, <4>1
    <3>3. ASSUME p[1] \in 1 .. n PROVE Term(p[2], x, p[1]) \in Nat
      BY <3>1, <3>2, <3>3, TermFact
    <3> QED
      BY <3>2, <3>3
  <2> QED
    BY <2>1
<1>3. ASSUME NEW i \in 1 .. n, NEW v \in Nat
      PROVE  step[<<i, v>>] = IF i = 1 THEN x[1] ELSE Term(v, x, i)
  <2>1. <<i, v>> \in Nat \X Nat
    OBVIOUS
  <2> QED
    BY <2>1
<1> HIDE DEF step
<1>4. PICK g : Recursion(g, Nat, 0, step, n)
  BY <1>2, RecursionExists
<1> DEFINE f == [i \in 1 .. n |-> g[i]]
<1>5. Means(f, x)
  <2>1. ASSUME NEW i \in 1 .. n
        PROVE  f[i] = IF i = 1 THEN x[1] ELSE Term(f[i - 1], x, i)
    <3>1. i \in 0 .. n /\ i - 1 \in 0 .. n /\ i # 0 /\ (i # 1 => i - 1 \in 1 .. n)
      OBVIOUS
    <3>2. g[i] = step[<<i, g[i - 1]>>] /\ g[i - 1] \in Nat
      BY <1>4, <3>1 DEF Recursion
    <3>3. f[i] = g[i] /\ (i # 1 => f[i - 1] = g[i - 1])
      BY <3>1
    <3> HIDE DEF f
    <3> QED
      BY <1>3, <3>2, <3>3
  <2>2. f = [i \in 1 .. n |-> f[i]]
    OBVIOUS
  <2> HIDE DEF f
  <2>3. [i \in 1 .. n |-> f[i]] = [i \in 1 .. n |-> IF i = 1 THEN x[1] ELSE Term(f[i - 1], x, i)]
    BY <2>1
  <2> QED
    BY <1>1, <2>2, <2>3 DEF Means
<1> DEFINE mean == CHOOSE h : Means(h, x)
<1>6. Means(mean, x)
  <2> HIDE DEF f
  <2> QED
    BY <1>5
<1>7. Ewm(x) = mean
  BY Zenon DEF Ewm, Means, Term
<1> HIDE DEF mean
<1>8. \A i \in 1 .. n : mean[i] = IF i = 1 THEN x[1] ELSE Term(mean[i - 1], x, i)
  BY <1>1, <1>6 DEF Means
<1> DEFINE C == {i \in 1 .. n : mean[i] \notin Nat}
<1>9. ASSUME C # {} PROVE FALSE
  <2>1. PICK m \in C : \A k \in C : m <= k
    <3>1. C \subseteq Nat
      OBVIOUS
    <3> HIDE DEF C
    <3> QED BY <1>9, <3>1, LeastNumber
  <2>2. m \in 1 .. n /\ mean[m] \notin Nat /\ x[m] \in Nat /\ m \in Nat \ {0}
    OBVIOUS
  <2>3. m # 1 /\ mean[m] = Term(mean[m - 1], x, m)
    BY <1>8, <2>2
  <2>4. mean[m - 1] \in Nat
    <3>1. m - 1 \in 1 .. n /\ ~(m <= m - 1)
      BY <2>2, <2>3
    <3> QED
      BY <2>1, <3>1
  <2> QED
    BY <2>2, <2>3, <2>4, TermFact
<1> QED
  BY <1>7, <1>9

-----------------------------------------------------------------------------
(* What the engine says of a bar                                           *)

\* The frames agree up to bar k.
Agree(f, g, k) ==
  /\ k \in Nat \ {0}
  /\ Len(f) \in Nat /\ Len(g) \in Nat /\ k <= Len(f) /\ k <= Len(g)
  /\ \A i \in 1 .. k : f[i] = g[i]

LEMMA PivotsLocal ==
  ASSUME NEW f, NEW g, NEW k, Agree(f, g, k)
  PROVE  /\ Confirmed(Peaks(f), k) = Confirmed(Peaks(g), k)
         /\ Confirmed(Troughs(f), k) = Confirmed(Troughs(g), k)
<1>1. SwingPeriod \in Nat
  BY FimatheAssumption
<1>2. ASSUME NEW u, NEW v, Agree(u, v, k), NEW i \in Inner(u), i + SwingPeriod <= k
      PROVE  /\ i \in Inner(v) /\ i \in 1 .. k /\ Around(i) \subseteq 1 .. k
             /\ \A j \in 1 .. k : u[j] = v[j]
  <2>1. /\ i \in Int /\ 1 + SwingPeriod <= i /\ i <= Len(u) - SwingPeriod
        /\ k \in Nat /\ Len(u) \in Nat /\ Len(v) \in Nat /\ k <= Len(v)
    BY <1>1, <1>2 DEF Inner, Agree
  <2>2. i \in Inner(v) /\ i \in 1 .. k
    BY <1>1, <1>2, <2>1 DEF Inner
  <2>3. Around(i) \subseteq 1 .. k
    BY <1>1, <1>2, <2>1 DEF Around
  <2> QED
    BY <1>2, <2>2, <2>3 DEF Agree
<1>3. Agree(g, f, k)
  BY DEF Agree
<1>4. ASSUME NEW u, NEW v, Agree(u, v, k)
      PROVE  /\ Confirmed(Peaks(u), k) \subseteq Confirmed(Peaks(v), k)
             /\ Confirmed(Troughs(u), k) \subseteq Confirmed(Troughs(v), k)
  <2>1. ASSUME NEW i \in Inner(u), i + SwingPeriod <= k
        PROVE  /\ i \in Inner(v) /\ u[i] = v[i] /\ \A j \in Around(i) : u[j] = v[j]
    BY <1>2, <1>4, <2>1
  <2> QED
    BY <2>1 DEF Confirmed, Peaks, Troughs
<1> QED
  BY <1>3, <1>4

\* The last confirmed pivot has happened.
LEMMA PivotIn ==
  ASSUME NEW f, NEW k \in Nat, Len(f) \in Nat, NEW P, P \subseteq Inner(f), Confirmed(P, k) # {}
  PROVE  Max(Confirmed(P, k)) \in 1 .. k
<1> DEFINE S == Confirmed(P, k)
<1>1. SwingPeriod \in Nat
  BY FimatheAssumption
<1>2. ASSUME NEW i \in S PROVE i \in 1 .. k
  <2>1. i \in Inner(f) /\ i + SwingPeriod <= k
    BY DEF Confirmed
  <2>2. i \in Int /\ 1 + SwingPeriod <= i
    BY <1>1, <2>1 DEF Inner
  <2> QED
    BY <1>1, <2>1, <2>2
<1>3. IsFiniteSet(S)
  <2>1. IsFiniteSet(1 .. k)
    BY FS_Interval
  <2> HIDE DEF S
  <2> QED
    BY <1>2, <2>1, FS_Subset
<1>4. \A x \in S : x \in Int
  BY <1>2
<1> HIDE DEF S
<1>5. Max(S) \in S
  BY <1>3, <1>4, Extremes DEF S
<1> QED
  BY <1>2, <1>5 DEF S

LEMMA ChannelLocal ==
  ASSUME NEW f, NEW g, NEW k, Agree(f, g, k), NEW method
  PROVE  Channel(method, f, k) = Channel(method, g, k)
<1>1. SwingPeriod \in Nat \ {0} /\ k \in Nat \ {0} /\ Len(f) \in Nat
  BY FimatheAssumption DEF Agree
<1>2. CASE method = "pivots"
  <2>1. Peaks(f) \subseteq Inner(f) /\ Troughs(f) \subseteq Inner(f)
    BY DEF Peaks, Troughs
  <2>2. \A x \in 1 .. k : f[x] = g[x]
    BY DEF Agree
  <2>3. SwingHigh(method, f, k) = SwingHigh(method, g, k)
    <3>1. Confirmed(Peaks(f), k) # {} => f[Max(Confirmed(Peaks(f), k))] = g[Max(Confirmed(Peaks(f), k))]
      BY <1>1, <2>1, <2>2, PivotIn
    <3> QED
      BY <1>2, <3>1, PivotsLocal DEF SwingHigh
  <2>4. SwingLow(method, f, k) = SwingLow(method, g, k)
    <3>1. Confirmed(Troughs(f), k) # {} => f[Max(Confirmed(Troughs(f), k))] = g[Max(Confirmed(Troughs(f), k))]
      BY <1>1, <2>1, <2>2, PivotIn
    <3> QED
      BY <1>2, <3>1, PivotsLocal DEF SwingLow
  <2> QED
    BY <2>3, <2>4 DEF Channel
<1>3. CASE method # "pivots"
  <2>1. ASSUME k > SwingPeriod
        PROVE  /\ {f[i].h : i \in k - SwingPeriod .. k - 1} = {g[i].h : i \in k - SwingPeriod .. k - 1}
               /\ {f[i].l : i \in k - SwingPeriod .. k - 1} = {g[i].l : i \in k - SwingPeriod .. k - 1}
    <3>1. ASSUME NEW i \in k - SwingPeriod .. k - 1 PROVE f[i] = g[i]
      <4>1. i \in 1 .. k
        BY <1>1, <2>1
      <4> QED
        BY <4>1 DEF Agree
    <3> QED
      BY <3>1
  <2>2. SwingHigh(method, f, k) = SwingHigh(method, g, k) /\ SwingLow(method, f, k) = SwingLow(method, g, k)
    <3>1. k <= SwingPeriod \/ k > SwingPeriod
      BY <1>1
    <3> QED
      BY <1>3, <2>1, <3>1 DEF SwingHigh, SwingLow
  <2> QED
    BY <2>2 DEF Channel
<1> QED
  BY <1>2, <1>3

LEMMA IndicatorsLocal ==
  ASSUME NEW f, NEW g, NEW k, Agree(f, g, k)
  PROVE  /\ Atr(f, k) = Atr(g, k) /\ Rsi(f, k) = Rsi(g, k)
<1>1. k \in Nat \ {0} /\ \A i \in 1 .. k : f[i] = g[i]
  BY DEF Agree
<1>2. ASSUME NEW i \in 1 .. k PROVE TrueRange(f, i) = TrueRange(g, i)
  <2>1. f[i] = g[i] /\ (i # 1 => f[i - 1] = g[i - 1])
    BY <1>1
  <2> QED
    BY <2>1 DEF TrueRange
<1>3. [i \in 1 .. k |-> TrueRange(f, i)] = [i \in 1 .. k |-> TrueRange(g, i)]
  BY <1>2
<1>4. ASSUME NEW i \in 1 .. k - 1 PROVE f[i + 1].c - f[i].c = g[i + 1].c - g[i].c
  <2>1. i \in 1 .. k /\ i + 1 \in 1 .. k
    BY <1>1
  <2> QED
    BY <1>1, <2>1
<1>5. [i \in 1 .. k - 1 |-> f[i + 1].c - f[i].c] = [i \in 1 .. k - 1 |-> g[i + 1].c - g[i].c]
  BY <1>4
<1>6. Atr(f, k) = Atr(g, k)
  BY <1>3 DEF Atr
<1>7. Rsi(f, k) = Rsi(g, k)
  BY <1>5, Zenon DEF Rsi
<1> QED
  BY <1>6, <1>7

\* The same, of what it looks at.
Verdict(ch, bar, atr, rsi, k) ==
  LET c == bar.c
      scale == Scale(k)
      strength == Strength(Beyond(ch, c), atr, scale)
      pcm == PcmScore(bar, strength)
      signal == Signal(ch, c, pcm)
      stop == IF signal = 0 THEN 0 ELSE StopLoss(ch, signal, atr, scale)
      risk == signal * (2 * scale * c - stop)
  IN [signal |-> signal, pcm |-> pcm, rsi |-> rsi, strength |-> strength,
      zone |-> IF ch.ready THEN 2 * c - ch.zone2 ELSE 0,
      close |-> 2 * scale * c, stop |-> stop,
      tp1 |-> 2 * scale * c + signal * risk, tp2 |-> 2 * scale * c + 2 * signal * risk,
      valid |-> /\ signal # 0
                /\ ch.upper > ch.lower
                /\ StrongEnough(Beyond(ch, c), atr, scale)
                /\ risk # 0 /\ RiskReward <= 2]

LEMMA ProcessVerdict ==
  ASSUME NEW method, NEW f, NEW k
  PROVE  Process(method, f, k) = Verdict(Channel(method, f, k), f[k], Atr(f, k), Rsi(f, k), k)
BY Zenon DEF Process, Verdict

\* What the engine says of a bar does not depend on the bars after it.
LEMMA ProcessLocal ==
  ASSUME NEW f, NEW g, NEW k, Agree(f, g, k), NEW method
  PROVE  Process(method, f, k) = Process(method, g, k)
<1>1. f[k] = g[k]
  <2>1. k \in 1 .. k
    BY DEF Agree
  <2> QED
    BY <2>1 DEF Agree
<1> QED
  BY <1>1, ChannelLocal, IndicatorsLocal, ProcessVerdict


-----------------------------------------------------------------------------
(* What is known on a day                                                  *)

\* A disclosure behind what a source says was public and not too old on the day.
Disclosed(sc, symbol, sign, today) ==
  \E e \in Range(sc.disclosures) :
     e.sign = sign /\ e.symbol = symbol /\ e.day <= today /\ today <= e.day + MaxAge

Known(today) ==
  {s \in [source : {"congress", "smart_money"}, symbol : STRING, sign : Sides, confidence : Int] :
     s.source = "congress" => Disclosed(scenario, s.symbol, s.sign, today)}

LEMMA ScenarioFact ==
  ASSUME scenario \in Scenarios
  PROVE  /\ scenario.side \in Sides /\ scenario.regime \in {-1, 0, 1}
         /\ scenario.payoff \in Nat /\ scenario.held \in Nat /\ scenario.distance \in Nat
         /\ IsFiniteSet(scenario.market) /\ \A b \in scenario.market : BarOK(b)
         /\ scenario.disclosures \in Seq([symbol : STRING, sign : Sides, day : Int])
         /\ scenario.changes \in Seq([symbol : STRING, sign : Sides, ratio : Int])
<1>1. ScenarioOK(scenario)
  BY EnrichmentAssumption
<1> QED
  BY <1>1, Zenon DEF ScenarioOK

LEMMA InRange ==
  ASSUME NEW S, NEW s \in Seq(S), NEW x \in Range(s)
  PROVE  x \in S
BY DEF Range

\* A sequence of what f makes of the elements of another one.
LEMMA Mapped ==
  ASSUME NEW T, NEW s \in Seq(T), NEW S, NEW F, DOMAIN F = DOMAIN s, F = [i \in DOMAIN s |-> F[i]],
         \A i \in 1 .. Len(s) : F[i] \in S
  PROVE  F \in Seq(S)
<1>1. Len(s) \in Nat /\ DOMAIN s = 1 .. Len(s)
  OBVIOUS
<1>2. F \in [1 .. Len(s) -> S]
  BY <1>1
<1> QED
  BY <1>1, <1>2

LEMMA CongressKnown ==
  ASSUME scenario \in Scenarios, NEW today \in Nat
  PROVE  Congress(scenario.disclosures, today) \in Seq(Known(today))
<1> DEFINE ds == scenario.disclosures
           T == {d \in Range(ds) : Fresh(d, today)}
           fresh == Filter(ds, T)
           said(d) == [source |-> "congress", symbol |-> d.symbol, sign |-> d.sign,
                       confidence |-> AtLeast(0, 1000 - (2000 * Age(d, today) + MaxAge) \div (2 * MaxAge))]
<1>1. MaxAge \in Nat \ {0}
  BY SynthesisAssumption
<1>2. ds \in Seq([symbol : STRING, sign : Sides, day : Int])
  BY ScenarioFact
<1>3. ASSUME NEW d \in T PROVE said(d) \in Known(today)
  <2>1. d \in Range(ds) /\ Fresh(d, today)
    OBVIOUS
  <2>2. d \in [symbol : STRING, sign : Sides, day : Int]
    BY <1>2, <2>1, InRange
  <2>3. d.day <= today /\ today <= d.day + MaxAge /\ Age(d, today) \in Nat
    BY <1>1, <2>1, <2>2 DEF Fresh, Age
  <2>4. (2000 * Age(d, today) + MaxAge) \div (2 * MaxAge) \in Nat
    <3>1. 2000 * Age(d, today) + MaxAge \in Nat /\ 2 * MaxAge \in Nat \ {0}
      BY <1>1, <2>3
    <3> QED
      BY <3>1, Quotients
  <2>5. AtLeast(0, 1000 - (2000 * Age(d, today) + MaxAge) \div (2 * MaxAge)) \in Int
    BY <2>4 DEF AtLeast
  <2>6. Disclosed(scenario, d.symbol, d.sign, today)
    BY <2>1, <2>3 DEF Disclosed
  <2> QED
    BY <2>2, <2>5, <2>6 DEF Known
<1>4. fresh \in Seq(T)
  <2> HIDE DEF T
  <2> QED
    BY <1>2, FilterSelects DEF Selected
<1>5. Congress(ds, today) = [i \in DOMAIN fresh |-> said(fresh[i])]
  BY DEF Congress
<1> HIDE DEF T, fresh, said
<1>6. \A i \in 1 .. Len(fresh) : fresh[i] \in T
  BY <1>4
<1>7. \A i \in 1 .. Len(fresh) : Congress(ds, today)[i] \in Known(today)
  BY <1>3, <1>4, <1>5, <1>6
<1> QED
  BY <1>4, <1>5, <1>7, Mapped

LEMMA SmartMoneyKnown ==
  ASSUME scenario \in Scenarios, NEW today \in Nat
  PROVE  SmartMoney(scenario.changes) \in Seq(Known(today))
<1> DEFINE cs == scenario.changes
           T == {c \in Range(cs) : c.ratio >= MinChange}
           big == Filter(cs, T)
           said(c) == [source |-> "smart_money", symbol |-> c.symbol, sign |-> c.sign,
                       confidence |-> AtMost(c.ratio, 1000)]
<1>1. cs \in Seq([symbol : STRING, sign : Sides, ratio : Int])
  BY ScenarioFact
<1>2. ASSUME NEW c \in T PROVE said(c) \in Known(today)
  <2>1. c \in [symbol : STRING, sign : Sides, ratio : Int]
    BY <1>1, InRange
  <2> QED
    BY <2>1 DEF Known, AtMost
<1>3. big \in Seq(T)
  <2> HIDE DEF T
  <2> QED
    BY <1>1, FilterSelects DEF Selected
<1>4. SmartMoney(cs) = [i \in DOMAIN big |-> said(big[i])]
  BY DEF SmartMoney
<1> HIDE DEF T, big, said
<1>5. \A i \in 1 .. Len(big) : big[i] \in T
  BY <1>3
<1>6. \A i \in 1 .. Len(big) : SmartMoney(cs)[i] \in Known(today)
  BY <1>2, <1>3, <1>4, <1>5
<1> QED
  BY <1>3, <1>4, <1>6, Mapped

Flattens(f, seqs) ==
  f = [i \in 1 .. Len(seqs) |-> IF i = 1 THEN seqs[i] ELSE f[i - 1] \o seqs[i]]

LEMMA FlattenTwo ==
  ASSUME NEW S, NEW a \in Seq(S), NEW b \in Seq(S), NEW seqs, seqs = <<a, b>>
  PROVE  FlattenSeq(seqs) = a \o b
<1> DEFINE flat == CHOOSE f : Flattens(f, seqs)
           g == <<a, a \o b>>
<1>1. Len(seqs) = 2 /\ seqs[1] = a /\ seqs[2] = b
  OBVIOUS
<1>2. Flattens(g, seqs)
  <2>1. g[1] = a /\ g[2] = a \o b /\ g = [i \in 1 .. 2 |-> g[i]]
    OBVIOUS
  <2>2. \A i \in 1 .. 2 : g[i] = IF i = 1 THEN seqs[i] ELSE g[i - 1] \o seqs[i]
    <3>1. \A i \in 1 .. 2 : i = 1 \/ i = 2
      OBVIOUS
    <3>2. 2 - 1 = 1 /\ 2 # 1
      OBVIOUS
    <3> HIDE DEF g
    <3> QED
      BY <1>1, <2>1, <3>1, <3>2, Zenon
  <2> HIDE DEF g
  <2> QED
    BY <1>1, <2>1, <2>2, Zenon DEF Flattens
<1>3. Flattens(flat, seqs)
  <2> HIDE DEF g
  <2> QED
    BY <1>2
<1>4. FlattenSeq(seqs) = flat[2]
  <2>1. FlattenSeq(seqs) = IF Len(seqs) = 0 THEN seqs ELSE flat[Len(seqs)]
    BY Zenon DEF FlattenSeq, Flattens
  <2> HIDE DEF flat
  <2> QED
    BY <1>1, <2>1
<1> HIDE DEF flat
<1>5. flat[1] = a /\ flat[2] = flat[1] \o b
  <2>1. \A i \in 1 .. Len(seqs) : flat[i] = IF i = 1 THEN seqs[i] ELSE flat[i - 1] \o seqs[i]
    BY <1>3 DEF Flattens
  <2>2. 1 \in 1 .. Len(seqs) /\ 2 \in 1 .. Len(seqs) /\ 2 - 1 = 1 /\ 2 # 1
    BY <1>1
  <2>3. flat[1] = seqs[1]
    BY <2>1, <2>2
  <2>4. flat[2] = flat[2 - 1] \o seqs[2]
    BY <2>1, <2>2, Zenon
  <2> QED
    BY <1>1, <2>2, <2>3, <2>4
<1> QED
  BY <1>4, <1>5

\* Whatever providers raise, nothing is collected that was not known.
LEMMA CollectKnown ==
  ASSUME scenario \in Scenarios, NEW today \in Nat, NEW down
  PROVE  CollectSignals(<<Congress(scenario.disclosures, today), SmartMoney(scenario.changes)>>, down)
           \in Seq(Known(today))
<1> DEFINE A == Congress(scenario.disclosures, today)
           B == SmartMoney(scenario.changes)
           K == Known(today)
<1>1. A \in Seq(K) /\ B \in Seq(K)
  BY CongressKnown, SmartMoneyKnown
<1> HIDE DEF A, B, K
<1> DEFINE a == IF 1 \in down THEN <<>> ELSE A
           b == IF 2 \in down THEN <<>> ELSE B
           seqs == [i \in DOMAIN <<A, B>> |-> IF i \in down THEN <<>> ELSE <<A, B>>[i]]
<1>2. a \in Seq(K) /\ b \in Seq(K)
  BY <1>1
<1>3. seqs = <<a, b>>
  <2>1. DOMAIN <<A, B>> = 1 .. 2 /\ <<A, B>>[1] = A /\ <<A, B>>[2] = B
    OBVIOUS
  <2>2. \A i \in 1 .. 2 : i = 1 \/ i = 2
    OBVIOUS
  <2> QED
    BY <2>1, <2>2
<1>4. CollectSignals(<<A, B>>, down) = FlattenSeq(seqs)
  BY DEF CollectSignals
<1> HIDE DEF a, b, seqs
<1>5. a \o b \in Seq(K)
  BY <1>2
<1> QED
  BY <1>2, <1>3, <1>4, <1>5, FlattenTwo DEF A, B, K


-----------------------------------------------------------------------------
(* What the engine says, and the views made of it and of the signals       *)

FrameOK(f) == Len(f) \in Nat /\ \A i \in 1 .. Len(f) : BarOK(f[i])

LEMMA BarFact ==
  ASSUME NEW f, FrameOK(f), NEW i \in 1 .. Len(f)
  PROVE  /\ f[i].o \in Int /\ f[i].h \in Int /\ f[i].l \in Int /\ f[i].c \in Int
         /\ 0 <= f[i].l /\ f[i].l <= f[i].h /\ 0 < f[i].c
<1>1. BarOK(f[i])
  BY DEF FrameOK
<1>2. f[i].o \in Nat /\ f[i].h \in Nat /\ f[i].l \in Nat /\ f[i].c \in Nat
      /\ f[i].c > 0 /\ f[i].l <= f[i].h
  BY <1>1, Zenon DEF BarOK
<1> QED
  BY <1>2

\* The highs and the lows of a window of the frame.
LEMMA WindowFact ==
  ASSUME NEW f, FrameOK(f), NEW k \in 1 .. Len(f), NEW a \in 1 .. k - 1
  PROVE  LET H == {f[i].h : i \in a .. k - 1}
             L == {f[i].l : i \in a .. k - 1}
         IN /\ IsFiniteSet(H) /\ H # {} /\ \A x \in H : x \in Int /\ x >= 0
            /\ IsFiniteSet(L) /\ L # {} /\ \A x \in L : x \in Int /\ x >= 0
<1> DEFINE W == a .. k - 1
           H == {f[i].h : i \in W}
           L == {f[i].l : i \in W}
           high == [i \in W |-> f[i].h]
           low == [i \in W |-> f[i].l]
<1>1. Len(f) \in Nat /\ k \in Nat /\ a \in Nat
  BY DEF FrameOK
<1>2. IsFiniteSet(W) /\ a \in W /\ \A i \in W : i \in 1 .. Len(f)
  <2>1. IsFiniteSet(W)
    BY <1>1, FS_Interval
  <2>2. a \in W /\ \A i \in W : i \in 1 .. Len(f)
    BY <1>1
  <2> QED
    BY <2>1, <2>2
<1>3. \A i \in W : f[i].h \in Int /\ f[i].h >= 0 /\ f[i].l \in Int /\ f[i].l >= 0
  BY <1>2, BarFact
<1> HIDE DEF W
<1>4. high \in Surjection(W, H) /\ low \in Surjection(W, L)
  BY DEF Surjection
<1>5. IsFiniteSet(H) /\ IsFiniteSet(L)
  <2> HIDE DEF high, low, H, L
  <2> QED
    BY <1>2, <1>4, FS_Surjection
<1> QED
  BY <1>2, <1>3, <1>5 DEF W

LEMMA SwingTyped ==
  ASSUME NEW f, FrameOK(f), NEW k \in 1 .. Len(f), NEW method
  PROVE  /\ SwingHigh(method, f, k) \in Int /\ SwingHigh(method, f, k) >= NaN
         /\ SwingLow(method, f, k) \in Int /\ SwingLow(method, f, k) >= NaN
<1>1. k \in Nat /\ Len(f) \in Nat /\ SwingPeriod \in Nat \ {0} /\ NaN = -1
  BY FimatheAssumption DEF FrameOK, NaN
<1>2. \A i \in 1 .. k : f[i].h \in Int /\ f[i].h >= NaN /\ f[i].l \in Int /\ f[i].l >= NaN
  BY <1>1, BarFact
<1>3. CASE method = "pivots"
  <2>1. Peaks(f) \subseteq Inner(f) /\ Troughs(f) \subseteq Inner(f)
    BY DEF Peaks, Troughs
  <2>2. Confirmed(Peaks(f), k) # {} => Max(Confirmed(Peaks(f), k)) \in 1 .. k
    BY <1>1, <2>1, PivotIn
  <2>3. Confirmed(Troughs(f), k) # {} => Max(Confirmed(Troughs(f), k)) \in 1 .. k
    BY <1>1, <2>1, PivotIn
  <2> QED
    BY <1>1, <1>2, <1>3, <2>2, <2>3 DEF SwingHigh, SwingLow
<1>4. CASE method # "pivots" /\ k <= SwingPeriod
  BY <1>1, <1>4 DEF SwingHigh, SwingLow
<1>5. CASE method # "pivots" /\ k > SwingPeriod
  <2> DEFINE H == {f[i].h : i \in k - SwingPeriod .. k - 1}
             L == {f[i].l : i \in k - SwingPeriod .. k - 1}
  <2>1. k - SwingPeriod \in 1 .. k - 1
    BY <1>1, <1>5
  <2>2. /\ IsFiniteSet(H) /\ H # {} /\ \A x \in H : x \in Int /\ x >= 0
        /\ IsFiniteSet(L) /\ L # {} /\ \A x \in L : x \in Int /\ x >= 0
    BY <2>1, WindowFact
  <2>3. ~(k <= SwingPeriod)
    BY <1>1, <1>5
  <2>4. SwingHigh(method, f, k) = Max(H) /\ SwingLow(method, f, k) = Min(L)
    BY <1>5, <2>3 DEF SwingHigh, SwingLow
  <2> HIDE DEF H, L
  <2>5. Max(H) \in H /\ Min(L) \in L
    BY <2>2, Extremes
  <2>6. Max(H) \in Int /\ Max(H) >= 0 /\ Min(L) \in Int /\ Min(L) >= 0
    BY <2>2, <2>5
  <2> QED
    BY <1>1, <2>4, <2>6
<1> QED
  BY <1>1, <1>3, <1>4, <1>5

LEMMA MaxOfThree ==
  ASSUME NEW a \in Int, NEW b \in Int, NEW c \in Int
  PROVE  Max({a, b, c}) \in {a, b, c} /\ \A y \in {a, b, c} : Max({a, b, c}) >= y
<1>1. IsFiniteSet({a, b, c})
  <2>1. IsFiniteSet({a}) /\ {a} \union {b} = {a, b} /\ {a, b} \union {c} = {a, b, c}
    BY FS_Singleton
  <2>2. IsFiniteSet({a} \union {b})
    BY <2>1, FS_AddElement
  <2>3. IsFiniteSet({a, b} \union {c})
    BY <2>1, <2>2, FS_AddElement
  <2> QED
    BY <2>1, <2>3
<1>2. \A x \in {a, b, c} : x \in Int
  OBVIOUS
<1> DEFINE S == {a, b, c}
<1>3. S # {}
  OBVIOUS
<1> HIDE DEF S
<1>4. Max(S) \in S /\ \A y \in S : Max(S) >= y
  BY <1>1, <1>2, <1>3, Extremes DEF S
<1> QED
  BY <1>4 DEF S

LEMMA TrueRangeTyped ==
  ASSUME NEW f, FrameOK(f), NEW k \in 1 .. Len(f)
  PROVE  TrueRange(f, k) \in Nat
<1>1. Len(f) \in Nat /\ k \in Nat
  BY DEF FrameOK
<1>2. f[k].h \in Int /\ f[k].l \in Int /\ f[k].h - f[k].l \in Nat
  BY BarFact
<1>3. CASE k = 1
  BY <1>2, <1>3 DEF TrueRange
<1>4. CASE k # 1
  <2> DEFINE a == f[k].h - f[k].l
             b == Abs(f[k].h - f[k - 1].c)
             c == Abs(f[k].l - f[k - 1].c)
  <2>1. k - 1 \in 1 .. Len(f)
    BY <1>1, <1>4
  <2>2. f[k - 1].c \in Int
    BY <2>1, BarFact
  <2>3. a \in Nat /\ b \in Nat /\ c \in Nat
    <3>1. \A x, y \in Int : Abs(x - y) \in Nat
      BY DEF Abs
    <3> QED
      BY <1>2, <2>2, <3>1
  <2>4. TrueRange(f, k) = Max({a, b, c})
    BY <1>4 DEF TrueRange
  <2> HIDE DEF a, b, c
  <2>5. a \in Int /\ b \in Int /\ c \in Int
    BY <2>3
  <2>6. Max({a, b, c}) \in {a, b, c}
    BY <2>5, MaxOfThree
  <2> QED
    BY <2>3, <2>4, <2>6
<1> QED
  BY <1>3, <1>4

LEMMA AtrTyped ==
  ASSUME NEW f, FrameOK(f), NEW k \in 1 .. Len(f)
  PROVE  Atr(f, k) \in Nat
<1> DEFINE x == [i \in 1 .. k |-> TrueRange(f, i)]
<1>1. Len(f) \in Nat /\ k \in Nat /\ k \in 1 .. k
  BY DEF FrameOK
<1>2. x \in [1 .. k -> Nat]
  BY <1>1, TrueRangeTyped
<1>3. Atr(f, k) = Ewm(x)[k]
  BY DEF Atr
<1> HIDE DEF x
<1> QED
  BY <1>1, <1>2, <1>3, EwmFact

\* The score of a bar, from what it depends on.
LEMMA PcmTyped ==
  ASSUME NEW bar, BarOK(bar), NEW beyond \in Nat, NEW atr \in Nat, NEW scale \in Nat \ {0}
  PROVE  PcmScore(bar, Strength(beyond, atr, scale)) \in Nat
<1> DEFINE s == Strength(beyond, atr, scale)
<1>1. s \in Nat
  <2>1. 8 * beyond * scale \in Nat
    BY Products
  <2>2. CASE atr = 0
    BY <2>2 DEF Strength
  <2>3. CASE atr # 0
    BY <2>1, <2>3, Quotients DEF Strength
  <2> QED
    BY <2>2, <2>3
<1>2. Tanh(s) \in Nat
  <2> HIDE DEF s
  <2>1. Len(Tanh8) = 16 /\ \A i \in 1 .. 16 : Tanh8[i] \in Nat
    BY DEF Tanh8
  <2>2. s = 0 \/ s > 16 \/ s \in 1 .. 16
    BY <1>1
  <2> QED
    BY <2>1, <2>2 DEF Tanh
<1>3. BodyRatio(bar) \in Nat
  <2>1. bar.o \in Int /\ bar.h \in Int /\ bar.l \in Int /\ bar.c \in Int /\ bar.l <= bar.h
    BY DEF BarOK
  <2>2. CASE bar.h = bar.l
    BY <2>2 DEF BodyRatio
  <2>3. CASE bar.h # bar.l
    <3>1. 1000 * Abs(bar.c - bar.o) \in Nat /\ bar.h - bar.l \in Nat \ {0}
      BY <2>1, <2>3 DEF Abs
    <3>2. (1000 * Abs(bar.c - bar.o)) \div (bar.h - bar.l) \in Nat
      BY <3>1, Quotients
    <3> QED
      BY <2>3, <3>2 DEF BodyRatio, Smaller
  <2> QED
    BY <2>2, <2>3
<1> HIDE DEF s
<1>4. 3 * (BodyRatio(bar) + Tanh(s)) \in Nat
  BY <1>2, <1>3
<1> QED
  BY <1>4, Quotients DEF PcmScore, s


\* A frame's verdict has a direction and a score.
LEMMA ProcessTyped ==
  ASSUME NEW f, FrameOK(f), NEW k \in 1 .. Len(f), NEW method
  PROVE  /\ Process(method, f, k).signal \in {-1, 0, 1}
         /\ Process(method, f, k).pcm \in Nat
<1> DEFINE ch == Channel(method, f, k)
           c == f[k].c
           b == Beyond(ch, c)
           pcm == PcmScore(f[k], Strength(b, Atr(f, k), Scale(k)))
<1>1. ch.upper \in Int /\ ch.lower \in Int
  BY SwingTyped DEF Channel
<1>2. BarOK(f[k]) /\ c \in Int
  BY BarFact DEF FrameOK
<1>3. b \in Nat
  <2> HIDE DEF ch, c
  <2>1. CASE ch.upper # NaN /\ c > ch.upper
    <3>1. b = c - ch.upper
      BY <2>1 DEF Beyond
    <3> QED
      BY <1>1, <1>2, <2>1, <3>1
  <2>2. CASE ~(ch.upper # NaN /\ c > ch.upper)
    <3>1. b = IF ch.lower # NaN THEN Larger(ch.lower - c, 0) ELSE 0
      BY <2>2 DEF Beyond
    <3>2. Larger(ch.lower - c, 0) \in Nat
      BY <1>1, <1>2 DEF Larger
    <3> QED
      BY <3>1, <3>2
  <2> QED
    BY <2>1, <2>2
<1>4. Atr(f, k) \in Nat
  BY AtrTyped
<1>5. Scale(k) \in Nat \ {0}
  <2>1. k \in Nat \ {0}
    BY DEF FrameOK
  <2> QED
    BY <2>1, ScaleFact
<1>6. pcm \in Nat
  <2> HIDE DEF b
  <2> QED
    BY <1>2, <1>3, <1>4, <1>5, PcmTyped
<1>7. Process(method, f, k).pcm = pcm /\ Process(method, f, k).signal = Signal(ch, c, pcm)
  BY DEF Process
<1> HIDE DEF ch, c, pcm
<1>8. Signal(ch, c, pcm) \in {-1, 0, 1}
  BY DEF Signal
<1> QED
  BY <1>6, <1>7, <1>8

LEMMA BarsOK ==
  ASSUME Shape
  PROVE  FrameOK(bars)
<1>1. scenario \in Scenarios /\ bars \in Seq(scenario.market)
  BY DEF Shape
<1>2. \A b \in scenario.market : BarOK(b)
  BY <1>1, ScenarioFact
<1> QED
  BY <1>1, <1>2 DEF FrameOK

LEMMA SetupTyped ==
  ASSUME Shape, Today > 0
  PROVE  Setup.signal \in {-1, 0, 1} /\ Setup.pcm \in Nat
<1>1. FrameOK(bars) /\ Today \in 1 .. Len(bars)
  BY BarsOK DEF FrameOK, Today
<1>2. NoSetup.signal = 0 /\ NoSetup.pcm = 0
  BY DEF NoSetup
<1> QED
  BY <1>1, <1>2, ProcessTyped DEF Setup

\* A trained model is one a fit may return.
Taught == Trained => promoted.model \in Models

LEMMA PWinTyped ==
  ASSUME Taught, Trained, NEW setup
  PROVE  PWin(setup) \in Promille /\ PWin(setup) \in Int
<1>1. promoted.model \in Models
  BY DEF Taught
<1> QED
  BY <1>1, ModelFact DEF PWin, Proba

\* What a view may be: its weight follows from its source, a congress view has a
\* disclosure behind it, and the classifier speaks for the side of the intent.
Sources == {"congress", "smart_money", "fimathe", "regime", "ml"}
GroundedBy(sc, today) ==
  {v \in [source : Sources, sign : Sides, confidence : Promille, weight : {1, 2}] :
     /\ v.weight = IF v.source = "regime" THEN 1 ELSE 2
     /\ v.source = "congress" => Disclosed(sc, sc.symbol, v.sign, today)
     /\ v.source = "ml" => v.sign = sc.side}
Grounded(today) == GroundedBy(scenario, today)

LEMMA ViewGrounded ==
  ASSUME NEW source \in Sources, NEW sign \in Sides, NEW confidence \in Int, NEW today,
         NEW weight, weight = IF source = "regime" THEN 1 ELSE 2,
         source = "congress" => Disclosed(scenario, scenario.symbol, sign, today),
         source = "ml" => sign = scenario.side
  PROVE  View(source, sign, confidence, weight) \in Grounded(today)
<1>1. AtMost(AtLeast(confidence, 0), 1000) \in Promille
  BY DEF AtMost, AtLeast, Promille
<1>2. weight \in {1, 2}
  OBVIOUS
<1> DEFINE c == AtMost(AtLeast(confidence, 0), 1000)
<1>3. View(source, sign, confidence, weight)
        = [source |-> source, sign |-> sign, confidence |-> c, weight |-> weight]
  BY DEF View
<1> HIDE DEF c
<1> QED
  BY <1>1, <1>2, <1>3 DEF Grounded, GroundedBy, c

LEMMA SignalsGrounded ==
  ASSUME NEW today, NEW sigs \in Seq(Known(today))
  PROVE  SignalViews(sigs, scenario.symbol) \in Seq(Grounded(today))
<1> DEFINE T == {s \in Range(sigs) : s.symbol = scenario.symbol}
           own == Filter(sigs, T)
           seen(s) == View(s.source, s.sign, s.confidence, 2)
<1>1. ASSUME NEW s \in T PROVE seen(s) \in Grounded(today)
  <2>1. s \in Known(today) /\ s.symbol = scenario.symbol
    BY InRange
  <2>2. /\ s.source \in {"congress", "smart_money"} /\ s.sign \in Sides /\ s.confidence \in Int
        /\ s.source = "congress" => Disclosed(scenario, scenario.symbol, s.sign, today)
    BY <2>1 DEF Known
  <2>3. s.source \in Sources /\ s.source # "regime" /\ s.source # "ml"
    BY <2>2 DEF Sources
  <2> QED
    BY <2>2, <2>3, ViewGrounded
<1>2. own \in Seq(T)
  <2> HIDE DEF T
  <2> QED
    BY FilterSelects DEF Selected
<1>3. SignalViews(sigs, scenario.symbol) = [i \in DOMAIN own |-> seen(own[i])]
  BY DEF SignalViews
<1> HIDE DEF T, own, seen
<1>4. \A i \in 1 .. Len(own) : own[i] \in T
  BY <1>2
<1>5. \A i \in 1 .. Len(own) : SignalViews(sigs, scenario.symbol)[i] \in Grounded(today)
  BY <1>1, <1>2, <1>3, <1>4
<1> QED
  BY <1>2, <1>3, <1>5, Mapped

\* The views of the day are grounded, and when a model takes part its view is the last.
LEMMA ViewsGrounded ==
  ASSUME scenario \in Scenarios, Taught, NEW today, signals \in Seq(Known(today)),
         NEW setup, setup.signal \in {-1, 0, 1}, setup.pcm \in Nat
  PROVE  /\ Views(setup) \in Seq(Grounded(today))
         /\ IF Trained
            THEN /\ Len(Views(setup)) > 0
                 /\ Views(setup)[Len(Views(setup))] = View("ml", scenario.side, PWin(setup), 2)
            ELSE \A i \in 1 .. Len(Views(setup)) : Views(setup)[i].source # "ml"
<1> DEFINE G == Grounded(today)
           NoMl == {v \in G : v.source # "ml"}
           a == SignalViews(signals, scenario.symbol)
           fimathe == View("fimathe", setup.signal, setup.pcm, 2)
           b == IF setup.signal # 0 THEN <<fimathe>> ELSE <<>>
           regime == View("regime", scenario.regime, RegimeConfidence, 1)
           c == IF scenario.regime # 0 THEN <<regime>> ELSE <<>>
           ml == View("ml", scenario.side, PWin(setup), 2)
           d == IF Trained THEN <<ml>> ELSE <<>>
<1>1. /\ scenario.side \in Sides /\ scenario.regime \in {-1, 0, 1}
      /\ RegimeConfidence \in Int /\ setup.pcm \in Int
  <2>1. scenario.side \in Sides /\ scenario.regime \in {-1, 0, 1}
    BY ScenarioFact
  <2>2. RegimeConfidence \in 0 .. 1000 /\ \A x \in 0 .. 1000 : x \in Int
    BY EnrichmentAssumption
  <2> QED
    BY <2>1, <2>2
<1>2. a \in Seq(NoMl)
  <2>1. a \in Seq(G) /\ DOMAIN a = 1 .. Len(a)
    BY SignalsGrounded
  <2>2. ASSUME NEW i \in 1 .. Len(a) PROVE a[i].source # "ml"
    <3> DEFINE T == {s \in Range(signals) : s.symbol = scenario.symbol}
               own == Filter(signals, T)
    <3>1. own \in Seq(T)
      <4> HIDE DEF T
      <4> QED
        BY FilterSelects DEF Selected
    <3>2. a = [j \in DOMAIN own |-> View(own[j].source, own[j].sign, own[j].confidence, 2)]
      BY DEF SignalViews
    <3> HIDE DEF a
    <3>3. i \in DOMAIN own /\ a[i].source = own[i].source
      <4> HIDE DEF own
      <4> QED
        BY <2>1, <3>2 DEF View
    <3>4. own[i] \in T
      <4> HIDE DEF T, own
      <4> QED
        BY <3>1, <3>3
    <3>5. own[i] \in Known(today)
      BY <3>4, InRange
    <3> HIDE DEF own
    <3> QED
      BY <3>3, <3>5 DEF Known
  <2>3. a = [i \in 1 .. Len(a) |-> a[i]] /\ Len(a) \in Nat /\ \A i \in 1 .. Len(a) : a[i] \in G
    <3> HIDE DEF a, G
    <3> QED
      BY <2>1
  <2> HIDE DEF a, G
  <2>4. \A i \in 1 .. Len(a) : a[i] \in NoMl
    BY <2>2, <2>3
  <2> HIDE DEF NoMl
  <2> QED
    BY <2>3, <2>4
<1>3. setup.signal # 0 => fimathe \in NoMl
  <2>1. setup.signal # 0 => setup.signal \in Sides
    BY DEF Sides
  <2>2. fimathe.source = "fimathe"
    BY DEF View
  <2> HIDE DEF fimathe
  <2>3. setup.signal # 0 => fimathe \in G
    BY <1>1, <2>1, ViewGrounded DEF Sources, fimathe
  <2> QED
    BY <2>2, <2>3
<1>4. scenario.regime # 0 => regime \in NoMl
  <2>1. scenario.regime # 0 => scenario.regime \in Sides
    BY <1>1 DEF Sides
  <2>2. regime.source = "regime"
    BY DEF View
  <2> HIDE DEF regime
  <2>3. scenario.regime # 0 => regime \in G
    BY <1>1, <2>1, ViewGrounded DEF Sources, regime
  <2> QED
    BY <2>2, <2>3
<1>5. Trained => ml \in G
  <2>1. Trained => PWin(setup) \in Int
    BY PWinTyped
  <2> HIDE DEF ml
  <2> QED
    BY <1>1, <2>1, ViewGrounded DEF Sources, ml
<1>6. Views(setup) = ((a \o b) \o c) \o d
  BY DEF Views
<1> HIDE DEF G, a, fimathe, regime, ml
<1>7. NoMl \subseteq G
  OBVIOUS
<1> DEFINE rest == (a \o b) \o c
<1>8. rest \in Seq(NoMl) /\ Len(rest) \in Nat
  <2> HIDE DEF NoMl
  <2>1. b \in Seq(NoMl) /\ c \in Seq(NoMl)
    BY <1>3, <1>4
  <2> HIDE DEF b, c
  <2>2. a \o b \in Seq(NoMl)
    BY <1>2, <2>1
  <2> QED
    BY <2>1, <2>2
<1>9. rest \in Seq(G)
  <2> HIDE DEF rest, NoMl
  <2> QED
    BY <1>7, <1>8
<1>10. \A i \in 1 .. Len(rest) : rest[i].source # "ml"
  <2>1. \A i \in 1 .. Len(rest) : rest[i] \in NoMl
    <3> HIDE DEF rest, NoMl
    <3> QED
      BY <1>8
  <2> QED
    BY <2>1
<1> HIDE DEF rest
<1>11. CASE Trained
  <2>1. Views(setup) = rest \o <<ml>> /\ ml \in G
    BY <1>5, <1>6, <1>11 DEF rest
  <2>2. /\ rest \o <<ml>> \in Seq(G) /\ Len(rest \o <<ml>>) = Len(rest) + 1
        /\ (rest \o <<ml>>)[Len(rest) + 1] = ml
    BY <1>9, <2>1
  <2>3. Len(rest) + 1 > 0
    BY <1>8
  <2> QED
    BY <1>11, <2>1, <2>2, <2>3 DEF G, ml
<1>12. CASE ~Trained
  <2>1. Views(setup) = rest \o <<>>
    BY <1>6, <1>12 DEF rest
  <2>2. rest \o <<>> = rest
    BY <1>9
  <2> QED
    BY <1>9, <1>10, <1>12, <2>1, <2>2 DEF G
<1> QED
  BY <1>11, <1>12


-----------------------------------------------------------------------------
(* Evidence and confidence                                                 *)

ViewSet == [source : Sources, sign : Sides, confidence : Promille, weight : {1, 2}]

\* What the views say together, and how much they weigh.
Net(views) == Total([i \in DOMAIN views |-> Mass(views[i]) * views[i].sign])
Weight(views) == Total([i \in DOMAIN views |-> views[i].weight])

Conviction(x, w) == AtMost((10 * Abs(x)) \div w, 10000)

\* The confidence for a side from what is said for it.
Lean(x, w) ==
  IF x > NeutralBand * w THEN 5000 + Conviction(x, w) \div 2
  ELSE IF x < -(NeutralBand * w) THEN 5000 - Conviction(x, w) \div 2
  ELSE 5000

LEMMA TotalIsSum ==
  ASSUME NEW x
  PROVE  Total(x) = Sum(x, DOMAIN x)
BY DEF Total, FoldSeq, FoldFunction, Sum, FoldFunctionOnSet, MapThenFoldSet

LEMMA NetWeight ==
  ASSUME NEW views \in Seq(ViewSet)
  PROVE  /\ Net(views) \in Int /\ Weight(views) \in Nat
         /\ Len(views) > 0 => Weight(views) > 0
         /\ Len(views) = 0 => Net(views) = 0 /\ Weight(views) = 0
<1> DEFINE n == 1 .. Len(views)
           said == [i \in n |-> Mass(views[i]) * views[i].sign]
           weight == [i \in n |-> views[i].weight]
<1>1. Len(views) \in Nat /\ DOMAIN views = n
  OBVIOUS
<1>2. ASSUME NEW i \in n
      PROVE  said[i] \in Int /\ weight[i] \in Int /\ weight[i] > 0
  <2>1. views[i] \in ViewSet
    OBVIOUS
  <2>2. /\ views[i].weight \in Int /\ views[i].weight > 0
        /\ views[i].confidence \in Int /\ views[i].sign \in Int
    <3>1. views[i].weight \in {1, 2} /\ views[i].confidence \in Promille /\ views[i].sign \in {1, -1}
      BY <2>1 DEF ViewSet, Sides
    <3>3. views[i].confidence \in Int
      BY <3>1, PromilleFact
    <3>4. \A x \in {1, 2} : x \in Int /\ x > 0
      OBVIOUS
    <3>5. \A x \in {1, -1} : x \in Int
      OBVIOUS
    <3> QED
      BY <3>1, <3>3, <3>4, <3>5, Zenon
  <2> QED
    BY <2>2 DEF Mass
<1>3. Net(views) = Sum(said, n) /\ Weight(views) = Sum(weight, n)
  <2>1. Net(views) = Total(said) /\ Weight(views) = Total(weight)
    BY <1>1 DEF Net, Weight
  <2>2. DOMAIN said = n /\ DOMAIN weight = n
    OBVIOUS
  <2> HIDE DEF said, weight, n
  <2> QED
    BY <2>1, <2>2, TotalIsSum
<1>4. IsFiniteSet(n)
  BY <1>1, FS_Interval
<1> HIDE DEF said, weight
<1>5. Ints(said, n) /\ Ints(weight, n)
  BY <1>2 DEF Ints
<1>6. Sum(said, n) \in Int /\ Sum(weight, n) \in Int
  <2> HIDE DEF n
  <2> QED
    BY <1>4, <1>5, SumInt
<1>7. CASE Len(views) = 0
  <2>1. n = {}
    BY <1>7
  <2> HIDE DEF n
  <2> QED
    BY <1>3, <1>7, <2>1, SumEmpty
<1>8. CASE Len(views) # 0
  <2>1. 1 \in n
    BY <1>1, <1>8
  <2> HIDE DEF n
  <2>2. IsFiniteSet(n \ {1}) /\ Ints(weight, n \ {1})
    BY <1>4, <1>5, FS_Subset DEF Ints
  <2>3. ~(Sum(weight, n \ {1}) < 0) /\ Sum(weight, n \ {1}) \in Int
    <3>1. ~ \E x \in n \ {1} : weight[x] < 0
      BY <1>2
    <3> QED
      BY <2>2, <3>1, NegativeSum, SumInt
  <2>4. Sum(weight, n) = weight[1] + Sum(weight, n \ {1})
    BY <1>4, <1>5, <2>1, SumRemove
  <2>5. weight[1] \in Int /\ weight[1] > 0
    BY <1>2, <2>1
  <2>6. Sum(weight, n) > 0
    BY <2>3, <2>4, <2>5
  <2> QED
    BY <1>3, <1>6, <1>8, <2>6
<1> QED
  BY <1>7, <1>8

LEMMA ConvictionTyped ==
  ASSUME NEW x \in Int, NEW w \in Nat, w > 0
  PROVE  Conviction(x, w) \in Nat /\ Conviction(x, w) \div 2 \in Nat
<1>1. 10 * Abs(x) \in Nat /\ w \in Nat \ {0}
  BY DEF Abs
<1>2. (10 * Abs(x)) \div w \in Nat
  BY <1>1, Quotients
<1>3. Conviction(x, w) \in Nat
  BY <1>2 DEF Conviction, AtMost
<1> QED
  BY <1>3, Quotients

\* What is synthesized from no view, and from some.
LEMMA SynthesizeNone == Synthesize(<<>>) = [direction |-> 0, conviction |-> 0, conflict |-> FALSE]
BY DEF Synthesize

LEMMA SynthesizeSome ==
  ASSUME NEW views, views # <<>>
  PROVE  /\ Synthesize(views).direction =
              IF Net(views) > NeutralBand * Weight(views) THEN 1
              ELSE IF Net(views) < -(NeutralBand * Weight(views)) THEN -1 ELSE 0
         /\ Synthesize(views).conviction = Conviction(Net(views), Weight(views))
<1> DEFINE n == DOMAIN views
           mass == [i \in n |-> Mass(views[i])]
           weight == Total([i \in n |-> views[i].weight])
           net == Total([i \in n |-> mass[i] * views[i].sign])
           direction == IF net > NeutralBand * weight THEN 1
                        ELSE IF net < -(NeutralBand * weight) THEN -1 ELSE 0
           agree == Total([i \in n |-> IF views[i].sign = direction THEN mass[i] ELSE 0])
           conflict == /\ direction # 0
                       /\ 1000 * agree < Agreement * AtLeast(Total(mass), 1)
<1>1. Synthesize(views) = IF views = <<>> THEN [direction |-> 0, conviction |-> 0, conflict |-> FALSE]
                          ELSE [direction |-> direction, conviction |-> Conviction(net, weight),
                                conflict |-> conflict]
  BY DEF Synthesize, Conviction, Abs
<1>2. net = Net(views)
  <2>1. [i \in n |-> mass[i] * views[i].sign] = [i \in n |-> Mass(views[i]) * views[i].sign]
    OBVIOUS
  <2> QED
    BY <2>1 DEF Net
<1>3. weight = Weight(views)
  BY DEF Weight
<1> DEFINE strength == Conviction(net, weight)
<1> HIDE DEF conflict, strength, direction
<1>4. Synthesize(views).direction = direction /\ Synthesize(views).conviction = strength
  BY <1>1 DEF strength
<1> QED
  BY <1>2, <1>3, <1>4 DEF strength, direction

\* The confidence for a side depends on what the views say for it and how much they weigh.
LEMMA AlignedLean ==
  ASSUME NEW views \in Seq(ViewSet), NEW side \in Sides
  PROVE  Aligned(Synthesize(views), side) = Lean(side * Net(views), Weight(views))
<1> DEFINE net == Net(views)
           w == Weight(views)
           band == NeutralBand * w
           dir == IF net > band THEN 1 ELSE IF net < -band THEN -1 ELSE 0
<1>1. net \in Int /\ w \in Nat /\ (Len(views) > 0 => w > 0) /\ (Len(views) = 0 => net = 0 /\ w = 0)
  BY NetWeight
<1>2. band \in Nat
  BY <1>1, Products, SynthesisAssumption
<1>3. side = 1 \/ side = -1
  BY DEF Sides
<1>4. CASE views = <<>>
  <2>1. Synthesize(views) = [direction |-> 0, conviction |-> 0, conflict |-> FALSE]
    BY <1>4, SynthesizeNone
  <2>2. net = 0 /\ w = 0 /\ side * net = 0 /\ band = 0
    <3>1. net = 0 /\ w = 0
      BY <1>1, <1>4
    <3> HIDE DEF net, w
    <3>2. NeutralBand \in Nat
      BY SynthesisAssumption
    <3> QED
      BY <1>3, <3>1, <3>2
  <2> HIDE DEF net, w
  <2>3. Lean(side * net, w) = 5000
    BY <2>2 DEF Lean
  <2>4. Aligned(Synthesize(views), side) = 5000
    BY <1>3, <2>1 DEF Aligned
  <2> QED
    BY <2>3, <2>4 DEF net, w
<1>5. CASE views # <<>>
  <2>1. Synthesize(views).direction = dir
    BY <1>5, SynthesizeSome
  <2>2. Synthesize(views).conviction = Conviction(net, w)
    BY <1>5, SynthesizeSome
  <2>3. w > 0
    BY <1>1, <1>5
  <2> DEFINE conv == Synthesize(views).conviction
  <2> HIDE DEF net, w
  <2>4. Synthesize(views).conviction = Conviction(net, w)
    BY <2>2
  <2>5. Abs(side * net) = Abs(net)
    BY <1>1, <1>3 DEF Abs
  <2>6. Conviction(side * net, w) = conv
    BY <2>4, <2>5 DEF Conviction
  <2>7. conv \div 2 \in Nat
    BY <1>1, <2>3, <2>4, ConvictionTyped
  <2> DEFINE half == conv \div 2
  <2>8. Lean(side * net, w) = IF side * net > band THEN 5000 + half
                              ELSE IF side * net < -band THEN 5000 - half ELSE 5000
    BY <2>6 DEF Lean
  <2>9. Aligned(Synthesize(views), side) = IF dir = side THEN 5000 + half
                                           ELSE IF dir = 0 THEN 5000 ELSE 5000 - half
    BY <2>1 DEF Aligned
  <2> HIDE DEF half, band, conv
  <2>10. half \in Nat /\ band \in Nat /\ net \in Int
    BY <1>1, <1>2, <2>7 DEF half
  <2>11. ASSUME side = 1
         PROVE  Aligned(Synthesize(views), side) = Lean(side * net, w)
    <3>1. side * net = net
      BY <2>10, <2>11
    <3> DEFINE x == side * net
    <3> HIDE DEF x
    <3>2. (x > band <=> dir = side) /\ (~(x > band) /\ ~(x < -band) <=> dir = 0)
      BY <2>10, <2>11, <3>1 DEF x
    <3> HIDE DEF dir
    <3>3. x > band => ~(x < -band)
      BY <2>10, <3>1 DEF x
    <3>4. Lean(side * net, w) = IF x > band THEN 5000 + half ELSE IF x < -band THEN 5000 - half ELSE 5000
      BY <2>8 DEF x
    <3>5. CASE x > band
      BY <2>9, <3>2, <3>4, <3>5
    <3>6. CASE ~(x > band) /\ x < -band
      BY <2>9, <3>2, <3>4, <3>6
    <3>7. CASE ~(x > band) /\ ~(x < -band)
      BY <2>9, <2>11, <3>2, <3>4, <3>7
    <3> QED
      BY <3>5, <3>6, <3>7
  <2>12. ASSUME side = -1
         PROVE  Aligned(Synthesize(views), side) = Lean(side * net, w)
    <3>1. side * net = -net
      BY <2>10, <2>12
    <3> DEFINE x == side * net
    <3> HIDE DEF x
    <3>2. (x > band <=> dir = side) /\ (~(x > band) /\ ~(x < -band) <=> dir = 0)
      BY <2>10, <2>12, <3>1 DEF x
    <3> HIDE DEF dir
    <3>3. x > band => ~(x < -band)
      BY <2>10, <3>1 DEF x
    <3>4. Lean(side * net, w) = IF x > band THEN 5000 + half ELSE IF x < -band THEN 5000 - half ELSE 5000
      BY <2>8 DEF x
    <3>5. CASE x > band
      BY <2>9, <3>2, <3>4, <3>5
    <3>6. CASE ~(x > band) /\ x < -band
      BY <2>9, <3>2, <3>4, <3>6
    <3>7. CASE ~(x > band) /\ ~(x < -band)
      BY <2>9, <2>12, <3>2, <3>4, <3>7
    <3> QED
      BY <3>5, <3>6, <3>7
  <2>13. Aligned(Synthesize(views), side) = Lean(side * net, w)
    BY <1>3, <2>11, <2>12
  <2> QED
    BY <2>13 DEF net, w
<1> QED
  BY <1>4, <1>5

LEMMA DivMonotone ==
  ASSUME NEW a \in Int, NEW b \in Int, a <= b, NEW w \in Nat, w > 0
  PROVE  a \div w <= b \div w
OBVIOUS

LEMMA ConvictionMonotone ==
  ASSUME NEW x \in Int, NEW y \in Int, Abs(x) <= Abs(y), NEW w \in Nat, w > 0
  PROVE  Conviction(x, w) \div 2 <= Conviction(y, w) \div 2
<1> DEFINE a == (10 * Abs(x)) \div w
           b == (10 * Abs(y)) \div w
<1>1. Abs(x) \in Int /\ Abs(y) \in Int
  BY DEF Abs
<1>2. 10 * Abs(x) \in Int /\ 10 * Abs(y) \in Int /\ 10 * Abs(x) <= 10 * Abs(y)
  BY <1>1
<1>3. a <= b
  BY <1>2, DivMonotone
<1>4. a \in Int /\ b \in Int
  BY <1>2
<1>5. Conviction(x, w) = AtMost(a, 10000) /\ Conviction(y, w) = AtMost(b, 10000)
  BY DEF Conviction
<1> HIDE DEF a, b
<1>6. AtMost(a, 10000) <= AtMost(b, 10000) /\ AtMost(a, 10000) \in Int /\ AtMost(b, 10000) \in Int
  BY <1>3, <1>4 DEF AtMost
<1> QED
  BY <1>5, <1>6, DivMonotone

\* The more is said for a side, the greater is the confidence for it.
LEMMA LeanMonotone ==
  ASSUME NEW x \in Int, NEW y \in Int, x <= y, NEW w \in Nat, w > 0
  PROVE  Lean(x, w) \in Int /\ Lean(y, w) \in Int /\ Lean(x, w) <= Lean(y, w)
<1> DEFINE cx == Conviction(x, w) \div 2
           cy == Conviction(y, w) \div 2
           band == NeutralBand * w
<1>1. cx \in Nat /\ cy \in Nat
  BY ConvictionTyped
<1>2. band \in Nat
  BY Products, SynthesisAssumption
<1>3. Lean(x, w) = IF x > band THEN 5000 + cx ELSE IF x < -band THEN 5000 - cx ELSE 5000
  BY DEF Lean
<1>4. Lean(y, w) = IF y > band THEN 5000 + cy ELSE IF y < -band THEN 5000 - cy ELSE 5000
  BY DEF Lean
<1>5. x > band => cx <= cy
  <2>1. x > band => Abs(x) <= Abs(y)
    <3> HIDE DEF band
    <3> QED
      BY <1>2 DEF Abs
  <2> QED
    BY <2>1, ConvictionMonotone
<1>6. y < -band => cy <= cx
  <2>1. y < -band => Abs(y) <= Abs(x)
    <3> HIDE DEF band
    <3> QED
      BY <1>2 DEF Abs
  <2> QED
    BY <2>1, ConvictionMonotone
<1> HIDE DEF cx, cy, band
<1> QED
  BY <1>1, <1>2, <1>3, <1>4, <1>5, <1>6


-----------------------------------------------------------------------------
(* The size of a decision                                                  *)

LEMMA DivBound ==
  ASSUME NEW a \in Nat, NEW w \in Nat, w > 0, NEW q \in Nat, q <= a \div w
  PROVE  q * w <= a
OBVIOUS

LEMMA FractionBound ==
  ASSUME NEW confidence \in Int, NEW b \in Nat
  PROVE  RiskFraction(confidence, b) \in Nat /\ RiskFraction(confidence, b) <= MaxRisk
<1> DEFINE kelly == Kelly(confidence, b)
<1>1. MinRisk \in Nat /\ MaxRisk \in Nat /\ MinRisk <= MaxRisk /\ KellyCap \in Nat \ {0}
  BY SynthesisAssumption
<1>2. kelly \in Nat
  <2> DEFINE k == (confidence * b - (10000 - confidence)) \div b
  <2>1. CASE b <= 0
    BY <2>1 DEF Kelly
  <2>2. CASE ~(b <= 0)
    <3>1. confidence * b \in Int
      OBVIOUS
    <3>2. confidence * b - (10000 - confidence) \in Int
      BY <3>1
    <3>3. k \in Int
      BY <2>2, <3>2
    <3>4. Kelly(confidence, b) = AtLeast(AtMost(k, 10000), 0)
      BY <2>2 DEF Kelly
    <3> HIDE DEF k
    <3> QED
      BY <3>3, <3>4 DEF AtLeast, AtMost
  <2> QED
    BY <2>1, <2>2
<1> HIDE DEF kelly
<1>3. kelly \div KellyCap \in Nat
  BY <1>1, <1>2, Quotients
<1> DEFINE share == kelly \div KellyCap
<1>4. RiskFraction(confidence, b)
        = IF confidence < Floor \/ kelly <= 0 THEN 0 ELSE AtLeast(AtMost(share, MaxRisk), MinRisk)
  BY DEF RiskFraction, kelly
<1> HIDE DEF share
<1>5. AtLeast(AtMost(share, MaxRisk), MinRisk) \in Nat
      /\ AtLeast(AtMost(share, MaxRisk), MinRisk) <= MaxRisk
  BY <1>1, <1>3 DEF AtLeast, AtMost, share
<1> QED
  BY <1>1, <1>4, <1>5

LEMMA DivReached ==
  ASSUME NEW a \in Nat, NEW w \in Nat, w > 0, NEW q \in Int, q * w <= a
  PROVE  q <= a \div w
OBVIOUS

\* The surer of a win, the greater the Kelly fraction.
LEMMA KellyMonotone ==
  ASSUME NEW p \in Int, NEW q \in Int, p <= q, NEW b \in Nat
  PROVE  Kelly(p, b) \in Nat /\ Kelly(q, b) \in Nat /\ Kelly(p, b) <= Kelly(q, b)
<1>1. CASE b <= 0
  BY <1>1 DEF Kelly
<1>2. CASE b > 0
  <2> DEFINE x == p * b - (10000 - p)
             y == q * b - (10000 - q)
  <2>1. p * b \in Int /\ q * b \in Int /\ p * b <= q * b
    OBVIOUS
  <2>2. x \in Int /\ y \in Int /\ x <= y
    BY <2>1
  <2>3. Kelly(p, b) = AtLeast(AtMost(x \div b, 10000), 0) /\ Kelly(q, b) = AtLeast(AtMost(y \div b, 10000), 0)
    BY <1>2 DEF Kelly
  <2> HIDE DEF x, y
  <2> DEFINE k == x \div b
             l == y \div b
  <2>4. k \in Int /\ l \in Int /\ k <= l
    BY <1>2, <2>2, DivMonotone
  <2>5. Kelly(p, b) = AtLeast(AtMost(k, 10000), 0) /\ Kelly(q, b) = AtLeast(AtMost(l, 10000), 0)
    BY <2>3
  <2> HIDE DEF k, l
  <2> QED
    BY <2>4, <2>5 DEF AtLeast, AtMost
<1> QED
  BY <1>1, <1>2

\* The more confident, the greater the share of the equity at risk.
LEMMA FractionMonotone ==
  ASSUME NEW p \in Int, NEW q \in Int, p <= q, NEW b \in Nat
  PROVE  RiskFraction(p, b) <= RiskFraction(q, b)
<1> DEFINE x == Kelly(p, b)
           y == Kelly(q, b)
<1>1. x \in Nat /\ y \in Nat /\ x <= y
  BY KellyMonotone
<1>2. /\ MinRisk \in Nat /\ MaxRisk \in Nat /\ MinRisk <= MaxRisk
      /\ KellyCap \in Nat /\ KellyCap > 0 /\ Floor \in Nat
  BY SynthesisAssumption
<1> HIDE DEF x, y
<1> DEFINE u == x \div KellyCap
           v == y \div KellyCap
<1>3. u \in Int /\ v \in Int /\ u <= v
  BY <1>1, <1>2, DivMonotone
<1>4. /\ RiskFraction(p, b) = IF p < Floor \/ x <= 0 THEN 0 ELSE AtLeast(AtMost(u, MaxRisk), MinRisk)
      /\ RiskFraction(q, b) = IF q < Floor \/ y <= 0 THEN 0 ELSE AtLeast(AtMost(v, MaxRisk), MinRisk)
  BY DEF RiskFraction, x, y
<1> HIDE DEF u, v
<1>5. AtLeast(AtMost(u, MaxRisk), MinRisk) <= AtLeast(AtMost(v, MaxRisk), MinRisk)
      /\ 0 <= AtLeast(AtMost(v, MaxRisk), MinRisk)
  BY <1>2, <1>3 DEF AtLeast, AtMost
<1>6. q < Floor \/ y <= 0 => p < Floor \/ x <= 0
  BY <1>1, <1>2
<1> QED
  BY <1>4, <1>5, <1>6

PerShare(entry, stop) == IF entry > stop THEN entry - stop ELSE stop - entry

\* No more is put at risk, or left held, than the limits allow.
WithinLimits(qty, entry, stop, held) ==
  /\ 10000 * (qty * PerShare(entry, stop)) <= MaxRisk * Equity
  /\ qty > 0 => 100 * (qty + held) * entry <= SymbolPercent * Equity

LEMMA QtyBounds ==
  ASSUME NEW confidence \in Int, NEW b \in Nat, NEW entry \in Nat \ {0}, NEW stop \in Int,
         NEW held \in Nat
  PROVE  WithinLimits(DynamicQty(confidence, b, Equity, entry, stop, SymbolPercent, held),
                      entry, stop, held)
<1> DEFINE q == DynamicQty(confidence, b, Equity, entry, stop, SymbolPercent, held)
           per == PerShare(entry, stop)
           fraction == RiskFraction(confidence, b)
           risky == FixedFractional(Equity, fraction, entry, stop)
           more == MaxAdditional(Equity, SymbolPercent, entry, held)
           top == (Equity * SymbolPercent) \div (100 * entry)
<1>1. Equity \in Nat /\ SymbolPercent \in Nat /\ MaxRisk \in Nat
  BY EnrichmentAssumption, SynthesisAssumption
<1>2. fraction \in Nat /\ fraction <= MaxRisk
  BY FractionBound
<1>3. per \in Nat
  BY DEF PerShare
<1>4. q = AtMost(risky, more)
  BY DEF DynamicQty
<1>5. risky = IF per = 0 THEN 0 ELSE (Equity * fraction) \div (10000 * per)
  BY DEF FixedFractional, PerShare
<1>6. more = AtLeast(top - held, 0)
  BY DEF MaxAdditional
<1> HIDE DEF q, per, fraction, risky, more, top
<1>7. Equity * fraction \in Nat /\ Equity * fraction <= Equity * MaxRisk
      /\ Equity * SymbolPercent \in Nat /\ Equity * MaxRisk \in Nat
  BY <1>1, <1>2
<1>8. top \in Nat /\ 100 * entry \in Nat \ {0}
  <2>1. 100 * entry \in Nat \ {0}
    OBVIOUS
  <2> QED
    BY <1>7, <2>1, Quotients DEF top
<1>9. more \in Nat /\ (more > 0 => more + held <= top)
  BY <1>6, <1>8 DEF AtLeast
<1>10. risky \in Nat
  <2>1. per # 0 => 10000 * per \in Nat \ {0}
    BY <1>3
  <2>2. per # 0 => (Equity * fraction) \div (10000 * per) \in Nat
    BY <1>7, <2>1, Quotients
  <2> QED
    BY <1>5, <2>2
<1>11. q \in Nat /\ q <= risky /\ q <= more
  BY <1>4, <1>9, <1>10 DEF AtMost
<1>12. 10000 * (q * per) <= MaxRisk * Equity
  <2>1. MaxRisk * Equity = Equity * MaxRisk
    BY <1>1
  <2>2. CASE per = 0
    <3>1. q * per = 0
      BY <1>11, <2>2
    <3> QED
      BY <1>7, <2>1, <3>1
  <2>3. CASE per # 0
    <3>1. 10000 * per \in Nat /\ 10000 * per > 0
      BY <1>3, <2>3
    <3>2. q <= (Equity * fraction) \div (10000 * per)
      BY <1>5, <1>11, <2>3
    <3>3. q * (10000 * per) <= Equity * fraction
      BY <1>7, <1>11, <3>1, <3>2, DivBound
    <3>4. q * (10000 * per) = 10000 * (q * per) /\ 10000 * (q * per) \in Int
      BY <1>3, <1>11
    <3> QED
      BY <1>7, <2>1, <3>3, <3>4
  <2> QED
    BY <2>2, <2>3
<1>13. ASSUME q > 0 PROVE 100 * (q + held) * entry <= SymbolPercent * Equity
  <2>1. q + held \in Nat /\ q + held <= top
    BY <1>8, <1>9, <1>11, <1>13
  <2>2. q + held <= (Equity * SymbolPercent) \div (100 * entry)
    BY <2>1 DEF top
  <2>3. (q + held) * (100 * entry) <= Equity * SymbolPercent
    BY <1>7, <1>8, <2>1, <2>2, DivBound
  <2> DEFINE p == q + held
  <2>4. p \in Nat
    BY <2>1
  <2> HIDE DEF p
  <2>5. p * (100 * entry) = 100 * p * entry /\ Equity * SymbolPercent = SymbolPercent * Equity
    BY <1>1, <2>4
  <2> QED
    BY <2>3, <2>5 DEF p
<1>14. WithinLimits(q, entry, stop, held)
  <2>1. q > 0 => 100 * (q + held) * entry <= SymbolPercent * Equity
    BY <1>13
  <2>2. per = PerShare(entry, stop)
    BY DEF per
  <2>3. 10000 * (q * PerShare(entry, stop)) <= MaxRisk * Equity
    BY <1>12, <2>2
  <2> QED
    BY <2>1, <2>3 DEF WithinLimits
<1> QED
  BY <1>14 DEF q

\* There is room for the quantity beside what is held.
Room(qty, held, entry) == 100 * (qty + held) * entry <= SymbolPercent * Equity

\* The more confident of two intents with the same loss per share does not buy the fewer
\* shares, unless one more would exceed the exposure.
LEMMA QtyMonotone ==
  ASSUME NEW p \in Int, NEW q \in Int, p <= q, NEW b \in Nat, NEW held \in Nat,
         NEW entry \in Nat \ {0}, NEW stop \in Int, NEW other \in Nat \ {0}, NEW bottom \in Int,
         PerShare(entry, stop) = PerShare(other, bottom),
         NEW more, more = DynamicQty(q, b, Equity, entry, stop, SymbolPercent, held),
         NEW less, less = DynamicQty(p, b, Equity, other, bottom, SymbolPercent, held)
  PROVE  more >= less \/ ~Room(more + 1, held, entry)
<1> DEFINE per == PerShare(entry, stop)
           f == RiskFraction(p, b)
           g == RiskFraction(q, b)
           risky == FixedFractional(Equity, g, entry, stop)
           timid == FixedFractional(Equity, f, other, bottom)
           room == MaxAdditional(Equity, SymbolPercent, entry, held)
           spare == MaxAdditional(Equity, SymbolPercent, other, held)
           top == (Equity * SymbolPercent) \div (100 * entry)
           high == (Equity * SymbolPercent) \div (100 * other)
<1>1. Equity \in Nat /\ SymbolPercent \in Nat
  BY EnrichmentAssumption
<1>2. f \in Nat /\ g \in Nat /\ f <= g
  BY FractionBound, FractionMonotone
<1>3. per \in Nat
  BY DEF PerShare
<1>4. more = AtMost(risky, room) /\ less = AtMost(timid, spare)
  BY DEF DynamicQty
<1>5. /\ risky = IF per = 0 THEN 0 ELSE (Equity * g) \div (10000 * per)
      /\ timid = IF per = 0 THEN 0 ELSE (Equity * f) \div (10000 * per)
  <2>1. risky = IF per = 0 THEN 0 ELSE (Equity * g) \div (10000 * per)
    BY DEF FixedFractional, PerShare
  <2>2. timid = IF PerShare(other, bottom) = 0 THEN 0 ELSE (Equity * f) \div (10000 * PerShare(other, bottom))
    BY DEF FixedFractional, PerShare
  <2> HIDE DEF risky, timid, f, g
  <2> QED
    BY <2>1, <2>2
<1>6. room = AtLeast(top - held, 0) /\ spare = AtLeast(high - held, 0)
  BY DEF MaxAdditional
<1> HIDE DEF per, f, g, risky, timid, room, spare
<1>7. Equity * f \in Nat /\ Equity * g \in Nat /\ Equity * f <= Equity * g /\ Equity * SymbolPercent \in Nat
  BY <1>1, <1>2
<1>8. /\ 100 * entry \in Nat /\ 100 * entry > 0 /\ 100 * entry \in Nat \ {0}
      /\ 100 * other \in Nat \ {0}
  OBVIOUS
<1>9. top \in Nat /\ high \in Nat
  BY <1>7, <1>8, Quotients
<1>10. risky \in Int /\ timid \in Int /\ timid <= risky
  <2>1. CASE per = 0
    BY <1>5, <2>1
  <2>2. CASE per # 0
    <3>1. 10000 * per \in Nat /\ 10000 * per > 0
      BY <1>3, <2>2
    <3> QED
      BY <1>5, <1>7, <2>2, <3>1, DivMonotone
  <2> QED
    BY <2>1, <2>2
<1> HIDE DEF top, high
<1>11. room \in Int /\ spare \in Int
  BY <1>6, <1>9 DEF AtLeast
<1>12. CASE risky <= room
  BY <1>4, <1>10, <1>11, <1>12 DEF AtMost
<1>13. CASE ~(risky <= room)
  <2> DEFINE n == more + 1 + held
  <2>1. n \in Int /\ n > top
    BY <1>4, <1>6, <1>9, <1>10, <1>11, <1>13 DEF AtMost, AtLeast
  <2> HIDE DEF n
  <2>2. ~(n * (100 * entry) <= Equity * SymbolPercent)
    <3>1. n * (100 * entry) <= Equity * SymbolPercent => n <= (Equity * SymbolPercent) \div (100 * entry)
      BY <1>7, <1>8, <2>1, DivReached
    <3> QED
      BY <1>9, <2>1, <3>1 DEF top
  <2>3. n * (100 * entry) = 100 * n * entry /\ Equity * SymbolPercent = SymbolPercent * Equity
    BY <1>1, <2>1
  <2>4. ~(100 * n * entry <= SymbolPercent * Equity)
    BY <2>2, <2>3
  <2> QED
    BY <2>4 DEF n, Room
<1> QED
  BY <1>12, <1>13

-----------------------------------------------------------------------------
(* What a decision was made from                                           *)

\* The confidence that follows from the views.
Conf(views, side) ==
  LET own == Aligned(Synthesize(views), side)
  IN IF Len(views) > 0 /\ views[Len(views)].source = "ml"
     THEN (own + 10 * views[Len(views)].confidence) \div 2 ELSE own

LEMMA GroundedViews ==
  ASSUME NEW today, NEW views \in Seq(Grounded(today))
  PROVE  views \in Seq(ViewSet)
<1>1. Grounded(today) \subseteq ViewSet
  BY DEF Grounded, GroundedBy, ViewSet
<1> QED
  BY <1>1

LEMMA ViewFields ==
  ASSUME NEW v \in ViewSet
  PROVE  v.sign \in Sides /\ v.weight \in {1, 2} /\ v.confidence \in Int /\ v.confidence \in Promille
<1>1. v.sign \in Sides /\ v.weight \in {1, 2} /\ v.confidence \in Promille
  BY DEF ViewSet
<1> QED
  BY <1>1, PromilleFact

LEMMA GroundedFields ==
  ASSUME NEW today, NEW v \in Grounded(today)
  PROVE  /\ v.weight = IF v.source = "regime" THEN 1 ELSE 2
         /\ v.source = "congress" => Disclosed(scenario, scenario.symbol, v.sign, today)
         /\ v.source = "ml" => v.sign = scenario.side
BY DEF Grounded, GroundedBy

LEMMA ConfTyped ==
  ASSUME NEW views \in Seq(ViewSet), NEW side \in Sides
  PROVE  Aligned(Synthesize(views), side) \in Int /\ Conf(views, side) \in Int
<1> DEFINE x == side * Net(views)
           w == Weight(views)
           own == Aligned(Synthesize(views), side)
<1>1. Net(views) \in Int /\ w \in Nat /\ (Len(views) > 0 => w > 0)
      /\ (Len(views) = 0 => Net(views) = 0 /\ w = 0) /\ Len(views) \in Nat
  BY NetWeight
<1>2. x \in Int
  BY <1>1 DEF Sides
<1>3. own = Lean(x, w)
  BY AlignedLean
<1>4. own \in Int
  <2>1. CASE Len(views) > 0
    <3> HIDE DEF x, w, own
    <3> QED
      BY <1>1, <1>2, <1>3, <2>1, LeanMonotone
  <2>2. CASE Len(views) = 0
    <3>1. views = <<>>
      BY <2>2
    <3>2. Synthesize(views) = [direction |-> 0, conviction |-> 0, conflict |-> FALSE]
      BY <3>1, SynthesizeNone
    <3>3. own = 5000
      BY <3>2 DEF Aligned, Sides
    <3> QED
      BY <3>3
  <2> QED
    BY <1>1, <2>1, <2>2
<1>5. Len(views) > 0 => views[Len(views)].confidence \in Int
  <2>1. Len(views) > 0 => views[Len(views)] \in ViewSet
    BY <1>1
  <2> QED
    BY <2>1, ViewFields
<1> HIDE DEF own
<1>6. \A p, q \in Int : (p + 10 * q) \div 2 \in Int
  OBVIOUS
<1> QED
  BY <1>4, <1>5, <1>6 DEF Conf, own

\* Of two decisions on the same sources, the one better supported is at least as confident.
LEMMA ConfMonotone ==
  ASSUME NEW n \in Nat, NEW vs \in Seq(ViewSet), NEW ws \in Seq(ViewSet), NEW side \in Sides,
         Len(vs) = n, Len(ws) = n,
         \A j \in 1 .. n : /\ vs[j].source = ws[j].source /\ vs[j].weight = ws[j].weight
                           /\ side * ws[j].sign * ws[j].confidence <= side * vs[j].sign * vs[j].confidence
                           /\ vs[j].source = "ml" => vs[j].sign = side /\ ws[j].sign = side
  PROVE  Conf(ws, side) <= Conf(vs, side)
<1> DEFINE N == 1 .. n
           sv == [j \in N |-> Mass(vs[j]) * vs[j].sign]
           sw == [j \in N |-> Mass(ws[j]) * ws[j].sign]
           wv == [j \in N |-> vs[j].weight]
           ww == [j \in N |-> ws[j].weight]
           v == side * Net(vs)
           w == side * Net(ws)
<1>1. DOMAIN vs = N /\ DOMAIN ws = N /\ IsFiniteSet(N)
  BY FS_Interval
<1>2. side = 1 \/ side = -1
  BY DEF Sides
<1>3. ASSUME NEW j \in N
      PROVE  /\ vs[j].sign \in Sides /\ ws[j].sign \in Sides
             /\ vs[j].weight \in {1, 2} /\ ws[j].weight = vs[j].weight
             /\ vs[j].confidence \in Int /\ ws[j].confidence \in Int
  <2>1. vs[j] \in ViewSet /\ ws[j] \in ViewSet
    OBVIOUS
  <2> QED
    BY <2>1, ViewFields
<1>4. ASSUME NEW j \in N
      PROVE  sv[j] \in Int /\ sw[j] \in Int /\ wv[j] \in Int /\ wv[j] = ww[j]
             /\ (side = 1 => sw[j] <= sv[j]) /\ (side = -1 => sv[j] <= sw[j])
  <2> DEFINE a == vs[j].sign
             b == ws[j].sign
             p == vs[j].confidence
             q == ws[j].confidence
             k == vs[j].weight
  <2>1. a \in Sides /\ b \in Sides /\ k \in {1, 2} /\ ws[j].weight = k /\ p \in Int /\ q \in Int
    BY <1>3
  <2>2. side * b * q <= side * a * p
    OBVIOUS
  <2>3. sv[j] = (k * p) * a /\ sw[j] = (k * q) * b /\ wv[j] = k /\ ww[j] = k
    BY <2>1 DEF Mass
  <2> HIDE DEF a, b, p, q, k, sv, sw, wv, ww
  <2>4. a \in {1, -1} /\ b \in {1, -1}
    BY <2>1 DEF Sides
  <2>5. a * p \in Int /\ b * q \in Int /\ k * (a * p) \in Int /\ k * (b * q) \in Int
    BY <2>1, <2>4
  <2>6. sv[j] = k * (a * p) /\ sw[j] = k * (b * q)
    BY <2>1, <2>3, <2>4
  <2>7. side = 1 => b * q <= a * p
    BY <2>1, <2>2, <2>4
  <2>8. side = -1 => a * p <= b * q
    BY <2>1, <2>2, <2>4
  <2>9. /\ side = 1 => k * (b * q) <= k * (a * p)
        /\ side = -1 => k * (a * p) <= k * (b * q)
    <3>1. \A x, y \in Int : x <= y => k * x <= k * y
      BY <2>1
    <3> QED
      BY <2>5, <2>7, <2>8, <3>1
  <2>10. wv[j] \in Int /\ wv[j] = ww[j]
    BY <2>1, <2>3
  <2> QED
    BY <2>5, <2>6, <2>9, <2>10
<1>5. /\ Net(vs) = Sum(sv, N) /\ Net(ws) = Sum(sw, N)
      /\ Weight(vs) = Sum(wv, N) /\ Weight(ws) = Sum(ww, N)
  <2>1. /\ Net(vs) = Total(sv) /\ Net(ws) = Total(sw)
        /\ Weight(vs) = Total(wv) /\ Weight(ws) = Total(ww)
    BY <1>1, Zenon DEF Net, Weight
  <2>2. DOMAIN sv = N /\ DOMAIN sw = N /\ DOMAIN wv = N /\ DOMAIN ww = N
    OBVIOUS
  <2> HIDE DEF sv, sw, wv, ww, N
  <2> QED
    BY <2>1, <2>2, TotalIsSum
<1> HIDE DEF sv, sw, wv, ww
<1>6. Ints(sv, N) /\ Ints(sw, N) /\ Ints(wv, N)
  BY <1>4 DEF Ints
<1>7. Weight(vs) = Weight(ws)
  <2>1. \A j \in N : wv[j] = ww[j]
    BY <1>4
  <2> HIDE DEF N
  <2> QED
    BY <1>1, <1>5, <1>6, <2>1, SumSame
<1>8. /\ Net(vs) \in Int /\ Net(ws) \in Int /\ Weight(vs) \in Nat /\ (n > 0 => Weight(vs) > 0)
  BY NetWeight
<1>9. w <= v /\ w \in Int /\ v \in Int
  <2>1. ASSUME side = 1 PROVE Net(ws) <= Net(vs)
    <3>1. \A j \in N : sw[j] <= sv[j]
      BY <1>4, <2>1
    <3> HIDE DEF N
    <3> QED
      BY <1>1, <1>5, <1>6, <3>1, SumMonotone
  <2>2. ASSUME side = -1 PROVE Net(vs) <= Net(ws)
    <3>1. \A j \in N : sv[j] <= sw[j]
      BY <1>4, <2>2
    <3> HIDE DEF N
    <3> QED
      BY <1>1, <1>5, <1>6, <3>1, SumMonotone
  <2> QED
    BY <1>2, <1>8, <2>1, <2>2
<1> DEFINE ov == Aligned(Synthesize(vs), side)
           ow == Aligned(Synthesize(ws), side)
<1>10. ov \in Int /\ ow \in Int
  BY ConfTyped
<1>11. ow <= ov
  <2>1. ov = Lean(v, Weight(vs)) /\ ow = Lean(w, Weight(vs))
    BY <1>7, AlignedLean
  <2>2. CASE n > 0
    <3> HIDE DEF v, w, ov, ow
    <3> QED
      BY <1>8, <1>9, <2>1, <2>2, LeanMonotone
  <2>3. CASE n = 0
    <3>1. vs = <<>> /\ ws = <<>>
      BY <2>3
    <3> QED
      BY <1>10, <3>1
  <2> QED
    BY <2>2, <2>3
<1> HIDE DEF ov, ow
<1>12. CASE n > 0 /\ vs[n].source = "ml"
  <2>1. n \in N /\ ws[n].source = "ml" /\ vs[n].sign = side /\ ws[n].sign = side
    BY <1>12
  <2> DEFINE p == vs[n].confidence
             q == ws[n].confidence
  <2>2. p \in Int /\ q \in Int
    BY <1>3, <2>1
  <2>3. side * side * q <= side * side * p
    <3>1. side * ws[n].sign * q <= side * vs[n].sign * p
      BY <2>1
    <3> QED
      BY <2>1, <3>1
  <2>4. Conf(vs, side) = (ov + 10 * p) \div 2 /\ Conf(ws, side) = (ow + 10 * q) \div 2
    BY <1>12, <2>1 DEF Conf, ov, ow
  <2> HIDE DEF p, q, N
  <2>5. q <= p
    <3>1. side * side = 1
      BY <1>2
    <3> DEFINE one == side * side
    <3>2. one * q <= one * p /\ one = 1
      BY <2>3, <3>1
    <3> HIDE DEF one
    <3> QED
      BY <2>2, <3>2
  <2>6. ow + 10 * q \in Int /\ ov + 10 * p \in Int /\ ow + 10 * q <= ov + 10 * p
    BY <1>10, <1>11, <2>2, <2>5
  <2> QED
    BY <2>4, <2>6, DivMonotone
<1>13. CASE ~(n > 0 /\ vs[n].source = "ml")
  <2>1. ~(n > 0 /\ ws[n].source = "ml")
    <3>1. n > 0 => n \in N
      OBVIOUS
    <3> QED
      BY <1>13, <3>1
  <2>2. Conf(vs, side) = ov /\ Conf(ws, side) = ow
    BY <1>13, <2>1 DEF Conf, ov, ow
  <2> QED
    BY <1>11, <2>2
<1> QED
  BY <1>12, <1>13


Limited(d) == WithinLimits(d.qty, d.entry, d.stop, scenario.held)

\* The quantity follows from the confidence, for a stop at the distance of the intent.
Sized(d) ==
  /\ d.entry \in Nat \ {0} /\ d.stop = d.entry - scenario.side * scenario.distance
  /\ d.qty = DynamicQty(d.confidence, scenario.payoff, Equity, d.entry, d.stop,
                        SymbolPercent, scenario.held)

\* A decision is made for the side of the intent from what the engine says of its day and
\* from grounded views, with the confidence that follows from them and within the limits.
Made(d) ==
  /\ d.side = scenario.side
  /\ d.setup = IF d.day < MinBars THEN NoSetup ELSE Process(scenario.method, bars, d.day)
  /\ d.views \in Seq(Grounded(d.day))
  /\ d.confidence = Conf(d.views, d.side)
  /\ Limited(d) /\ Sized(d)

LEMMA SizedMonotone ==
  ASSUME scenario \in Scenarios, NEW d, NEW e, Sized(d), Sized(e),
         d.confidence \in Int, e.confidence \in Int, e.confidence <= d.confidence
  PROVE  d.qty >= e.qty \/ ~Allowed(d, d.qty + 1)
<1> DEFINE shift == scenario.side * scenario.distance
<1>1. scenario.payoff \in Nat /\ scenario.held \in Nat /\ shift \in Int
  <2>1. /\ scenario.distance \in Nat /\ scenario.payoff \in Nat /\ scenario.held \in Nat
        /\ scenario.side \in {1, -1}
    BY ScenarioFact DEF Sides
  <2> QED
    BY <2>1
<1>2. PICK p, q, b, held, entry, stop, other, bottom, more, less :
        /\ p = e.confidence /\ q = d.confidence /\ b = scenario.payoff /\ held = scenario.held
        /\ entry = d.entry /\ stop = d.stop /\ other = e.entry /\ bottom = e.stop
        /\ more = d.qty /\ less = e.qty
  OBVIOUS
<1>3. /\ entry \in Nat \ {0} /\ stop = entry - shift
      /\ other \in Nat \ {0} /\ bottom = other - shift
      /\ more = DynamicQty(q, b, Equity, entry, stop, SymbolPercent, held)
      /\ less = DynamicQty(p, b, Equity, other, bottom, SymbolPercent, held)
  BY <1>2 DEF Sized
<1>4. p \in Int /\ q \in Int /\ p <= q /\ b \in Nat /\ held \in Nat
  BY <1>1, <1>2
<1> HIDE DEF shift
<1>5. stop \in Int /\ bottom \in Int /\ PerShare(entry, stop) = PerShare(other, bottom)
  BY <1>1, <1>3 DEF PerShare
<1>6. more >= less \/ ~Room(more + 1, held, entry)
  BY <1>3, <1>4, <1>5, QtyMonotone
<1> QED
  BY <1>2, <1>6 DEF Allowed, Room

Provenance ==
  /\ Taught
  /\ pc = "enrich" => signals \in Seq(Known(Today))
  /\ \A i \in 1 .. Len(log) : Made(log[i])

LEMMA ConfidenceIsConf ==
  ASSUME scenario \in Scenarios, Taught, NEW today, signals \in Seq(Known(today)),
         NEW setup, setup.signal \in {-1, 0, 1}, setup.pcm \in Nat
  PROVE  Confidence(Views(setup), setup) = Conf(Views(setup), scenario.side)
<1> DEFINE views == Views(setup)
           own == Aligned(Synthesize(views), scenario.side)
<1>1. views \in Seq(Grounded(today)) /\ Len(views) \in Nat
  BY ViewsGrounded
<1>2. CASE Trained
  <2>1. Len(views) > 0 /\ views[Len(views)] = View("ml", scenario.side, PWin(setup), 2)
    BY <1>2, ViewsGrounded
  <2> DEFINE last == views[Len(views)]
             p == PWin(setup)
  <2>2. p \in Int /\ 0 <= p /\ p <= 1000
    BY <1>2, PWinTyped, PromilleFact
  <2>3. last.source = "ml" /\ last.confidence = AtMost(AtLeast(p, 0), 1000)
    BY <2>1 DEF View
  <2>4. Confidence(views, setup) = (own + 10 * p) \div 2
    BY <1>2 DEF Confidence
  <2>5. Len(views) > 0 /\ Conf(views, scenario.side) = IF last.source = "ml" THEN (own + 10 * last.confidence) \div 2 ELSE own
    BY <2>1 DEF Conf
  <2> HIDE DEF own, p, last, views
  <2>6. last.confidence = p
    BY <2>2, <2>3 DEF AtMost, AtLeast
  <2>7. Conf(views, scenario.side) = (own + 10 * last.confidence) \div 2
    BY <2>3, <2>5
  <2> QED
    BY <2>4, <2>6, <2>7 DEF views
<1>3. CASE ~Trained
  <2>1. \A i \in 1 .. Len(views) : views[i].source # "ml"
    BY <1>3, ViewsGrounded
  <2>2. Confidence(views, setup) = own
    BY <1>3 DEF Confidence
  <2> HIDE DEF views, own
  <2>3. Len(views) > 0 => Len(views) \in 1 .. Len(views)
    BY <1>1
  <2>4. Conf(views, scenario.side) = own
    BY <2>1, <2>3 DEF Conf, own
  <2> QED
    BY <2>2, <2>4 DEF views
<1> QED
  BY <1>2, <1>3

LEMMA NewlyMade ==
  ASSUME Shape, Taught, signals \in Seq(Known(Today)), Today > 0
  PROVE  Made(Decision(Setup, Views(Setup)))
<1> DEFINE views == Views(Setup)
           d == Decision(Setup, views)
           confidence == Confidence(views, Setup)
           qty == DynamicQty(confidence, scenario.payoff, Equity, Close, StopPrice,
                             SymbolPercent, scenario.held)
<1>1. /\ d.day = Today /\ d.side = scenario.side /\ d.setup = Setup /\ d.views = views
      /\ d.confidence = confidence /\ d.qty = qty /\ d.entry = Close /\ d.stop = StopPrice
  BY DEF Decision
<1>2. scenario \in Scenarios /\ FrameOK(bars) /\ Today \in 1 .. Len(bars)
  BY BarsOK DEF FrameOK, Today, Shape
<1>3. Setup.signal \in {-1, 0, 1} /\ Setup.pcm \in Nat
  BY SetupTyped
<1>4. views \in Seq(Grounded(Today)) /\ confidence = Conf(views, scenario.side)
  BY <1>2, <1>3, ViewsGrounded, ConfidenceIsConf
<1>5. confidence \in Int
  <2>1. scenario.side \in Sides
    BY <1>2, ScenarioFact
  <2> HIDE DEF views, confidence
  <2> QED
    BY <1>4, <2>1, GroundedViews, ConfTyped
<1>6. Close \in Nat \ {0} /\ StopPrice \in Int
  <2>1. Close \in Int /\ Close > 0
    BY <1>2, BarFact DEF Close
  <2>2. scenario.distance \in Nat /\ scenario.side \in {1, -1}
    BY <1>2, ScenarioFact DEF Sides
  <2> HIDE DEF d, views, confidence, qty
  <2> QED
    BY <2>1, <2>2 DEF StopPrice
<1>7. scenario.payoff \in Nat /\ scenario.held \in Nat
  BY <1>2, ScenarioFact
<1>8. WithinLimits(qty, Close, StopPrice, scenario.held)
  <2> HIDE DEF d, views, confidence
  <2> QED
    BY <1>5, <1>6, <1>7, QtyBounds
<1> HIDE DEF d, views, confidence
<1>9. Limited(d) /\ Sized(d)
  BY <1>1, <1>6, <1>8 DEF Limited, Sized, StopPrice
<1> HIDE DEF qty
<1>10. d.setup = IF d.day < MinBars THEN NoSetup ELSE Process(scenario.method, bars, d.day)
  BY <1>1 DEF Setup
<1>11. Made(d)
  BY <1>1, <1>4, <1>9, <1>10, Zenon DEF Made
<1> QED
  BY <1>11 DEF d, views

\* A later bar does not change what an earlier decision was made from.
LEMMA StillMade ==
  ASSUME NEW d, Made(d), NEW e, e.day = d.day, e.side = d.side, e.setup = d.setup,
         e.views = d.views, e.confidence = d.confidence, e.qty = d.qty, e.entry = d.entry,
         e.stop = d.stop, scenario' = scenario,
         d.day >= MinBars => Agree(bars, bars', d.day),
         d.day \in Nat
  PROVE  Made(e)'
<1>1. Limited(e)' = Limited(d) /\ Sized(e)' = Sized(d)
  BY DEF Limited, Sized
<1>2. Grounded(d.day)' = Grounded(d.day)
  BY DEF Grounded
<1>3. MinBars \in Nat
  BY EnrichmentAssumption
<1>4. e.setup = IF e.day < MinBars THEN NoSetup ELSE Process(scenario'.method, bars', e.day)
  <2>1. CASE d.day < MinBars
    BY <2>1 DEF Made
  <2>2. CASE ~(d.day < MinBars)
    <3>1. d.day >= MinBars
      BY <1>3, <2>2
    <3>2. Process(scenario.method, bars, d.day) = Process(scenario.method, bars', d.day)
      BY <3>1, ProcessLocal
    <3>3. d.setup = Process(scenario.method, bars, d.day)
      BY <2>2 DEF Made
    <3> QED
      BY <2>2, <3>2, <3>3
  <2> QED
    BY <2>1, <2>2
<1>5. NoSetup' = NoSetup
  BY DEF NoSetup
<1>6. /\ e.side = scenario'.side /\ e.views \in Seq(Grounded(d.day)) /\ e.confidence = Conf(e.views, e.side)
      /\ Limited(d) /\ Sized(d)
  BY Zenon DEF Made
<1>7. e.views \in Seq(Grounded(e.day)')
  BY <1>2, <1>6
<1> QED
  BY <1>1, <1>4, <1>6, <1>7, Zenon DEF Made

LEMMA TaughtStep ==
  ASSUME Shape, Taught, [Next]_vars
  PROVE  Taught'
<1>1. CASE Promote
  BY <1>1 DEF Promote, Taught, Trained
<1>2. CASE UNCHANGED promoted
  BY <1>2 DEF Taught, Trained
<1>3. NewBar \/ Collect \/ Enrich \/ UNCHANGED vars => UNCHANGED promoted
  BY DEF NewBar, Collect, Enrich, vars
<1> QED
  BY <1>1, <1>2, <1>3 DEF Next

LEMMA SignalsStep ==
  ASSUME Shape, Provenance, [Next]_vars
  PROVE  (pc = "enrich" => signals \in Seq(Known(Today)))'
<1>1. CASE NewBar
  BY <1>1 DEF NewBar
<1>2. CASE Collect
  <2>1. scenario \in Scenarios /\ Today \in Nat
    BY DEF Shape, Today
  <2>2. signals' \in Seq(Known(Today)) /\ UNCHANGED <<scenario, bars>>
    BY <1>2, <2>1, CollectKnown DEF Collect
  <2>3. Today' = Today
    BY <2>2 DEF Today
  <2>4. Known(Today)' = Known(Today)
    BY <2>2, <2>3, Zenon DEF Known, Disclosed, Today
  <2> QED
    BY <2>2, <2>4
<1>3. CASE Enrich
  BY <1>3 DEF Enrich
<1>4. CASE Promote \/ UNCHANGED vars
  <2>1. UNCHANGED <<scenario, bars, signals, pc>>
    BY <1>4 DEF Promote, vars
  <2>2. Known(Today)' = Known(Today)
    BY <2>1, Zenon DEF Known, Disclosed, Today
  <2> QED
    BY <2>1, <2>2 DEF Provenance
<1> QED
  BY <1>1, <1>2, <1>3, <1>4 DEF Next

LEMMA MadeStep ==
  ASSUME Shape, Provenance, [Next]_vars
  PROVE  (\A i \in 1 .. Len(log) : Made(log[i]))'
<1>0. Len(bars) \in Nat /\ Len(log) \in Nat /\ MinBars \in Nat \ {0}
  BY EnrichmentAssumption DEF Shape
<1>1. CASE NewBar
  <2>1. PICK b \in scenario.market :
           /\ bars' = Append(bars, b)
           /\ log' \in Seq(Range(log')) /\ Len(log') = Len(log)
           /\ \A i \in 1 .. Len(log) : log'[i] = Settled(log[i], b.c)
    BY <1>1, NewBarLog
  <2>2. scenario' = scenario /\ Len(log) = Len(bars)
    BY <1>1 DEF NewBar, Shape
  <2>3. Len(bars') = Len(bars) + 1 /\ \A j \in 1 .. Len(bars) : bars'[j] = bars[j]
    BY <2>1 DEF Shape
  <2>4. ASSUME NEW i \in 1 .. Len(log') PROVE Made(log[i])'
    <3>1. PICK e : e = log'[i]
      OBVIOUS
    <3>2. PICK d : d = log[i]
      OBVIOUS
    <3>3. Made(d) /\ DOMAIN d = LogFields /\ d.day = i /\ e = Settled(d, b.c) /\ i \in Nat
      BY <2>1, <3>1, <3>2 DEF Provenance, Shape
    <3>4. /\ e.day = d.day /\ e.side = d.side /\ e.setup = d.setup /\ e.views = d.views
          /\ e.confidence = d.confidence /\ e.qty = d.qty /\ e.entry = d.entry /\ e.stop = d.stop
      BY <3>3, SettledKeeps
    <3>5. d.day >= MinBars => Agree(bars, bars', d.day)
      BY <1>0, <2>1, <2>2, <2>3, <3>3 DEF Agree
    <3>6. Made(e)'
      BY <2>2, <3>3, <3>4, <3>5, StillMade
    <3> QED
      BY <3>1, <3>6, Zenon DEF Made, Limited, Sized
  <2> QED
    BY <2>4
<1>2. CASE Enrich
  <2>1. /\ log' \in Seq(Range(log')) /\ Len(log') = Len(log) + 1
        /\ \A i \in 1 .. Len(log) : log'[i] = log[i]
        /\ log'[Len(log) + 1] = Decision(Setup, Views(Setup))
        /\ Len(log) + 1 = Today
    BY <1>2, EnrichLog
  <2>2. scenario' = scenario /\ bars' = bars /\ pc = "enrich"
    BY <1>2 DEF Enrich
  <2>3. PICK new : new = Decision(Setup, Views(Setup))
    OBVIOUS
  <2>4. Made(new)
    <3>1. Today > 0
      BY <1>0, <2>1
    <3>2. Taught /\ signals \in Seq(Known(Today))
      BY <2>2 DEF Provenance
    <3> QED
      BY <2>3, <3>1, <3>2, NewlyMade
  <2>5. ASSUME NEW i \in 1 .. Len(log') PROVE Made(log[i])'
    <3>1. PICK e : e = log'[i]
      OBVIOUS
    <3>2. Made(e)
      <4>1. CASE i \in 1 .. Len(log)
        BY <2>1, <3>1, <4>1 DEF Provenance
      <4>2. CASE i \notin 1 .. Len(log)
        <5>1. i = Len(log) + 1
          BY <1>0, <2>1, <4>2
        <5> QED
          BY <2>1, <2>3, <2>4, <3>1, <5>1
      <4> QED
        BY <4>1, <4>2
    <3>3. Made(e)'
      BY <2>2, <3>2, Zenon DEF Made, Limited, Sized, Grounded
    <3> QED
      BY <3>1, <3>3, Zenon DEF Made, Limited, Sized
  <2> QED
    BY <2>5
<1>3. CASE Collect \/ Promote \/ UNCHANGED vars
  <2>1. scenario' = scenario /\ bars' = bars /\ log' = log
    BY <1>3 DEF Collect, Promote, vars
  <2>2. ASSUME NEW i \in 1 .. Len(log') PROVE Made(log[i])'
    <3>1. Made(log[i])
      BY <2>1 DEF Provenance
    <3> QED
      BY <2>1, <3>1, Zenon DEF Made, Limited, Sized, Grounded
  <2> QED
    BY <2>2
<1> QED
  BY <1>1, <1>2, <1>3 DEF Next

LEMMA ProvenanceStep ==
  ASSUME Shape, Provenance, [Next]_vars
  PROVE  Provenance'
<1>1. Taught'
  BY TaughtStep DEF Provenance
<1>2. (pc = "enrich" => signals \in Seq(Known(Today)))'
  BY SignalsStep
<1>3. (\A i \in 1 .. Len(log) : Made(log[i]))'
  BY MadeStep
<1> QED
  BY <1>1, <1>2, <1>3 DEF Provenance

\* What every decision of a history was made from.
THEOREM ProvenanceInvariance == Spec => []Provenance
<1>1. Init => Provenance
  BY DEF Init, Provenance, Taught, Trained
<1>2. Shape /\ Provenance /\ [Next]_vars => Provenance'
  BY ProvenanceStep
<1> QED
  BY ShapeInvariance, <1>1, <1>2, PTL DEF Spec

(* No decision is made from what was not known that day: a setup is what the engine    *)
(* says of the bars up to the day whatever bars follow, and a congress view has a      *)
(* disclosure of the symbol behind it that was public and not too old.                 *)
THEOREM NoHindsightHolds == Spec => []NoHindsight
<1>1. Shape /\ Provenance => NoHindsight
  <2> SUFFICES ASSUME Shape, Provenance, NEW i \in DOMAIN log PROVE KnownThen(log[i])
    BY DEF NoHindsight
  <2> DEFINE d == log[i]
  <2>1. Made(d) /\ d.day \in Nat /\ MinBars \in Nat
    BY EnrichmentAssumption DEF Provenance, Shape
  <2> HIDE DEF d
  <2>2. d.day >= MinBars => d.setup = Process(scenario.method, bars, d.day)
    <3>1. d.day >= MinBars => ~(d.day < MinBars)
      BY <2>1
    <3> QED
      BY <2>1, <3>1 DEF Made
  <2>3. ASSUME NEW j \in DOMAIN d.views, d.views[j].source = "congress"
        PROVE  Disclosed(scenario, scenario.symbol, d.views[j].sign, d.day)
    <3>1. d.views \in Seq(Grounded(d.day))
      BY <2>1 DEF Made
    <3>2. d.views[j] \in Grounded(d.day)
      BY <3>1
    <3> QED
      BY <2>3, <3>2, GroundedFields
  <2>4. KnownThen(d)
    BY <2>2, <2>3, Zenon DEF KnownThen, Disclosed
  <2> QED
    BY <2>4 DEF d
<1> QED
  BY ShapeInvariance, ProvenanceInvariance, <1>1, PTL

LEMMA SizeStated ==
  SizeFollowsEvidence
    <=> \A i \in DOMAIN log :
          /\ Limited(log[i])
          /\ \A j \in DOMAIN log :
               NoWeaker(log[i], log[j]) =>
                 /\ log[i].confidence >= log[j].confidence
                 /\ log[i].qty >= log[j].qty \/ ~Allowed(log[i], log[i].qty + 1)
BY DEF SizeFollowsEvidence, Limited, WithinLimits, PerShare, Allowed

(* Of two decisions from the same sources, the one whose every source favours the side *)
(* more is at least as confident and buys at least as many shares, each with the same  *)
(* loss at the stop, unless one more would exceed what may be held of the symbol; and  *)
(* no decision puts more at risk, or leaves more held, than the limits allow           *)
(* (DecisionEnricher.enrich, DynamicSizer.risk_pct and qty).                           *)
THEOREM SizeFollowsEvidenceHolds == Spec => []SizeFollowsEvidence
<1>1. ASSUME Shape, Provenance, NEW i \in DOMAIN log, NEW j \in DOMAIN log, NoWeaker(log[i], log[j])
      PROVE  /\ log[i].confidence >= log[j].confidence
             /\ log[i].qty >= log[j].qty \/ ~Allowed(log[i], log[i].qty + 1)
  <2> DEFINE side == scenario.side
  <2>0. PICK d, e : d = log[i] /\ e = log[j]
    OBVIOUS
  <2> DEFINE n == Len(d.views)
  <2>1. Made(d) /\ Made(e)
    BY <1>1, <2>0 DEF Provenance, Shape
  <2>2. side \in Sides
    BY <1>1, ScenarioFact DEF Shape
  <2>3. d.side = side /\ e.side = side /\ d.confidence = Conf(d.views, side) /\ e.confidence = Conf(e.views, side)
    BY <2>1 DEF Made
  <2>4. d.views \in Seq(Grounded(d.day)) /\ e.views \in Seq(Grounded(e.day))
    BY <2>1 DEF Made
  <2>5. d.views \in Seq(ViewSet) /\ e.views \in Seq(ViewSet)
    BY <2>4, GroundedViews
  <2>6. NoWeaker(d, e)
    BY <1>1, <2>0
  <2>7. n \in Nat /\ Len(e.views) = n /\ DOMAIN d.views = 1 .. n
    BY <2>5, <2>6 DEF NoWeaker
  <2>8. ASSUME NEW k \in 1 .. n
        PROVE  /\ d.views[k].source = e.views[k].source /\ d.views[k].weight = e.views[k].weight
               /\ side * e.views[k].sign * e.views[k].confidence <= side * d.views[k].sign * d.views[k].confidence
               /\ d.views[k].source = "ml" => d.views[k].sign = side /\ e.views[k].sign = side
    <3>1. d.views[k] \in Grounded(d.day) /\ e.views[k] \in Grounded(e.day)
      BY <2>4, <2>7
    <3>2. /\ d.views[k].source = e.views[k].source
          /\ side * d.views[k].sign * d.views[k].confidence >= side * e.views[k].sign * e.views[k].confidence
      BY <2>3, <2>6, <2>7 DEF NoWeaker
    <3>3. d.views[k].weight = e.views[k].weight
      BY <3>1, <3>2, GroundedFields
    <3>4. d.views[k].source = "ml" => d.views[k].sign = side /\ e.views[k].sign = side
      BY <3>1, <3>2, GroundedFields
    <3>5. side * d.views[k].sign * d.views[k].confidence \in Int
          /\ side * e.views[k].sign * e.views[k].confidence \in Int
      <4>1. d.views[k] \in ViewSet /\ e.views[k] \in ViewSet
        BY <2>5, <2>7
      <4>2. /\ d.views[k].sign \in Sides /\ e.views[k].sign \in Sides
            /\ d.views[k].confidence \in Int /\ e.views[k].confidence \in Int
        BY <4>1, ViewFields
      <4> HIDE DEF side
      <4>3. \A a, b \in {1, -1}, c \in Int : a * b * c \in Int
        OBVIOUS
      <4> QED
        BY <2>2, <4>2, <4>3, Zenon DEF Sides
    <3> QED
      BY <3>2, <3>3, <3>4, <3>5
  <2> HIDE DEF n, side
  <2>9. Conf(e.views, side) <= Conf(d.views, side)
    BY <2>2, <2>5, <2>7, <2>8, ConfMonotone DEF n
  <2>10. Conf(e.views, side) \in Int /\ Conf(d.views, side) \in Int
    BY <2>2, <2>5, ConfTyped
  <2>11. d.confidence \in Int /\ e.confidence \in Int /\ e.confidence <= d.confidence
    BY <2>3, <2>9, <2>10
  <2>12. d.qty >= e.qty \/ ~Allowed(d, d.qty + 1)
    BY <1>1, <2>1, <2>11, SizedMonotone DEF Shape, Made
  <2> QED
    BY <2>0, <2>11, <2>12
<1>2. ASSUME Shape, Provenance, NEW i \in DOMAIN log PROVE Limited(log[i])
  BY <1>2 DEF Provenance, Shape, Made
<1>3. Shape /\ Provenance => SizeFollowsEvidence
  <2>1. ASSUME Shape, Provenance PROVE SizeFollowsEvidence
    <3>1. \A i \in DOMAIN log : Limited(log[i])
      BY <1>2, <2>1
    <3>2. \A i, j \in DOMAIN log :
             NoWeaker(log[i], log[j]) =>
               /\ log[i].confidence >= log[j].confidence
               /\ log[i].qty >= log[j].qty \/ ~Allowed(log[i], log[i].qty + 1)
      BY <1>1, <2>1
    <3> QED
      BY <3>1, <3>2, SizeStated
  <2> QED
    BY <2>1
<1> QED
  BY ShapeInvariance, ProvenanceInvariance, <1>3, PTL


-----------------------------------------------------------------------------
(* The technique upside down                                               *)

\* g is the frame f of k bars with every price counted down from the top.
MirrorOf(f, g, k, top) ==
  /\ k \in Nat \ {0} /\ top \in Int /\ Len(f) = k /\ Len(g) = k
  /\ \A i \in 1 .. k :
       /\ f[i].o \in Int /\ f[i].h \in Int /\ f[i].l \in Int /\ f[i].c \in Int
       /\ 0 <= f[i].l /\ f[i].l <= f[i].h /\ f[i].h <= top
       /\ g[i].o = top - f[i].o /\ g[i].h = top - f[i].l
       /\ g[i].l = top - f[i].h /\ g[i].c = top - f[i].c

\* A peak of the one is a trough of the other.
LEMMA PivotsMirror ==
  ASSUME NEW f, NEW g, NEW k, NEW top, MirrorOf(f, g, k, top)
  PROVE  Peaks(g) = Troughs(f) /\ Troughs(g) = Peaks(f)
<1>1. SwingPeriod \in Nat
  BY FimatheAssumption
<1>2. Inner(f) = Inner(g)
  BY DEF Inner, MirrorOf
<1>3. ASSUME NEW i \in Inner(f), NEW j \in Around(i)
      PROVE  (g[i].h > g[j].h <=> f[i].l < f[j].l) /\ (g[i].l < g[j].l <=> f[i].h > f[j].h)
  <2>1. i \in Int /\ 1 + SwingPeriod <= i /\ i <= k - SwingPeriod /\ k \in Nat
    BY <1>1 DEF Inner, MirrorOf
  <2>2. i \in 1 .. k /\ j \in 1 .. k
    BY <1>1, <2>1 DEF Around
  <2>3. /\ f[i].h \in Int /\ f[i].l \in Int /\ f[j].h \in Int /\ f[j].l \in Int /\ top \in Int
        /\ g[i].h = top - f[i].l /\ g[i].l = top - f[i].h
        /\ g[j].h = top - f[j].l /\ g[j].l = top - f[j].h
    BY <2>2 DEF MirrorOf
  <2> QED
    BY <2>3
<1> QED
  BY <1>2, <1>3 DEF Peaks, Troughs

\* The highest of the one is the lowest of the other.
LEMMA ExtremesMirror ==
  ASSUME NEW P, NEW Q, IsFiniteSet(P), IsFiniteSet(Q), P # {},
         \A x \in P : x \in Int, \A x \in Q : x \in Int, NEW top \in Int,
         \A x \in P : top - x \in Q, \A x \in Q : top - x \in P
  PROVE  Max(Q) = top - Min(P) /\ Min(Q) = top - Max(P) /\ Max(P) \in P /\ Min(P) \in P
<1>1. Q # {}
  OBVIOUS
<1>2. /\ Max(P) \in P /\ Min(P) \in P /\ \A y \in P : Max(P) >= y /\ Min(P) <= y
      /\ Max(Q) \in Q /\ Min(Q) \in Q /\ \A y \in Q : Max(Q) >= y /\ Min(Q) <= y
  BY <1>1, Extremes
<1> DEFINE a == Max(P)
           b == Min(P)
           c == Max(Q)
           d == Min(Q)
<1>3. a \in Int /\ b \in Int /\ c \in Int /\ d \in Int
  BY <1>2
<1>4. c >= top - b /\ d <= top - a /\ a >= top - d /\ b <= top - c
  BY <1>2
<1> HIDE DEF a, b, c, d
<1>5. c = top - b /\ d = top - a
  BY <1>3, <1>4
<1> QED
  BY <1>2, <1>5 DEF a, b, c, d

\* The value upside down, when there is one.
Flip(x, top) == IF x = NaN THEN NaN ELSE top - x

LEMMA SwingMirror ==
  ASSUME NEW f, NEW g, NEW k, NEW top, MirrorOf(f, g, k, top), NEW method
  PROVE  /\ SwingHigh(method, g, k) = Flip(SwingLow(method, f, k), top)
         /\ SwingLow(method, g, k) = Flip(SwingHigh(method, f, k), top)
         /\ SwingHigh(method, f, k) = NaN \/ SwingHigh(method, f, k) \in 0 .. top
         /\ SwingLow(method, f, k) = NaN \/ SwingLow(method, f, k) \in 0 .. top
<1>1. k \in Nat \ {0} /\ top \in Int /\ SwingPeriod \in Nat \ {0} /\ Len(f) = k /\ Len(g) = k /\ NaN = -1
  BY FimatheAssumption DEF MirrorOf, NaN
<1>2. \A i \in 1 .. k : /\ f[i].h \in Int /\ f[i].l \in Int
                        /\ 0 <= f[i].l /\ f[i].l <= f[i].h /\ f[i].h <= top
                        /\ g[i].h = top - f[i].l /\ g[i].l = top - f[i].h
  BY DEF MirrorOf
<1>3. CASE method = "pivots"
  <2> DEFINE A == Confirmed(Peaks(f), k)
             B == Confirmed(Troughs(f), k)
  <2>1. Peaks(f) \subseteq Inner(f) /\ Troughs(f) \subseteq Inner(f)
    BY DEF Peaks, Troughs
  <2>2. (A # {} => Max(A) \in 1 .. k) /\ (B # {} => Max(B) \in 1 .. k)
    BY <1>1, <2>1, PivotIn
  <2>3. Confirmed(Peaks(g), k) = B /\ Confirmed(Troughs(g), k) = A
    BY PivotsMirror
  <2> HIDE DEF A, B
  <2>4. /\ SwingHigh(method, f, k) = IF A = {} THEN NaN ELSE f[Max(A)].h
        /\ SwingLow(method, f, k) = IF B = {} THEN NaN ELSE f[Max(B)].l
    BY <1>3 DEF SwingHigh, SwingLow, A, B
  <2>5. /\ SwingHigh(method, g, k) = IF B = {} THEN NaN ELSE g[Max(B)].h
        /\ SwingLow(method, g, k) = IF A = {} THEN NaN ELSE g[Max(A)].l
    BY <1>3, <2>3 DEF SwingHigh, SwingLow
  <2>6. \A i \in 1 .. k : /\ g[i].l = top - f[i].h /\ f[i].h \in 0 .. top /\ f[i].h # NaN
                          /\ g[i].h = top - f[i].l /\ f[i].l \in 0 .. top /\ f[i].l # NaN
    <3> SUFFICES ASSUME NEW i \in 1 .. k
                 PROVE  /\ g[i].l = top - f[i].h /\ f[i].h \in 0 .. top /\ f[i].h # NaN
                        /\ g[i].h = top - f[i].l /\ f[i].l \in 0 .. top /\ f[i].l # NaN
      BY Zenon
    <3>1. /\ f[i].h \in Int /\ f[i].l \in Int /\ 0 <= f[i].l /\ f[i].l <= f[i].h /\ f[i].h <= top
          /\ g[i].h = top - f[i].l /\ g[i].l = top - f[i].h
      BY <1>2, Zenon
    <3> DEFINE h == f[i].h
               l == f[i].l
    <3>2. h \in Int /\ l \in Int /\ 0 <= l /\ l <= h /\ h <= top
      BY <3>1
    <3> HIDE DEF h, l
    <3>3. h \in 0 .. top /\ l \in 0 .. top /\ h # NaN /\ l # NaN
      BY <1>1, <3>2
    <3> QED
      BY <3>1, <3>3, Zenon DEF h, l
  <2>7. /\ A # {} => /\ g[Max(A)].l = top - f[Max(A)].h
                     /\ f[Max(A)].h \in 0 .. top /\ f[Max(A)].h # NaN
        /\ B # {} => /\ g[Max(B)].h = top - f[Max(B)].l
                     /\ f[Max(B)].l \in 0 .. top /\ f[Max(B)].l # NaN
    BY <2>2, <2>6, Zenon
  <2> QED
    BY <2>4, <2>5, <2>7, Zenon DEF Flip
<1>4. CASE method # "pivots" /\ k <= SwingPeriod
  BY <1>4 DEF SwingHigh, SwingLow, Flip
<1>5. CASE method # "pivots" /\ k > SwingPeriod
  <2> DEFINE W == k - SwingPeriod .. k - 1
             FH == {f[i].h : i \in W}
             FL == {f[i].l : i \in W}
             GH == {g[i].h : i \in W}
             GL == {g[i].l : i \in W}
             fh == [i \in W |-> f[i].h]
             fl == [i \in W |-> f[i].l]
             gh == [i \in W |-> g[i].h]
             gl == [i \in W |-> g[i].l]
  <2>1. IsFiniteSet(W)
    BY <1>1, FS_Interval
  <2>2. W # {} /\ \A i \in W : i \in 1 .. k
    <3>1. k - 1 \in W /\ k - SwingPeriod >= 1 /\ k - 1 <= k
      BY <1>1, <1>5
    <3>2. \A i \in W : i \in 1 .. k
      BY <1>1, <3>1
    <3> QED
      BY <3>1, <3>2
  <2>3. ~(k <= SwingPeriod)
    BY <1>1, <1>5
  <2>4. /\ SwingHigh(method, f, k) = Max(FH) /\ SwingLow(method, f, k) = Min(FL)
        /\ SwingHigh(method, g, k) = Max(GH) /\ SwingLow(method, g, k) = Min(GL)
    BY <1>5, <2>3 DEF SwingHigh, SwingLow
  <2> HIDE DEF W
  <2>5. \A i \in W : /\ f[i].h \in Int /\ f[i].l \in Int
                     /\ 0 <= f[i].l /\ f[i].l <= f[i].h /\ f[i].h <= top
                     /\ g[i].h = top - f[i].l /\ g[i].l = top - f[i].h
    BY <1>2, <2>2
  <2>6. IsFiniteSet(FH) /\ IsFiniteSet(FL) /\ IsFiniteSet(GH) /\ IsFiniteSet(GL)
    <3>1. fh \in Surjection(W, FH) /\ fl \in Surjection(W, FL)
          /\ gh \in Surjection(W, GH) /\ gl \in Surjection(W, GL)
      BY DEF Surjection
    <3> HIDE DEF fh, fl, gh, gl, FH, FL, GH, GL
    <3> QED
      BY <2>1, <3>1, FS_Surjection
  <2>7. FH # {} /\ FL # {} /\ \A x \in FH : x \in 0 .. top
    BY <1>1, <2>2, <2>5
  <2>8. \A x \in FL : x \in 0 .. top
    BY <1>1, <2>5
  <2>9. (\A x \in GH : x \in Int) /\ (\A x \in GL : x \in Int)
    BY <1>1, <2>5
  <2>10. (\A x \in FH : top - x \in GL) /\ (\A x \in FL : top - x \in GH)
    BY <2>5
  <2>11. (\A x \in GL : top - x \in FH) /\ (\A x \in GH : top - x \in FL)
    <3>1. ASSUME NEW i \in W PROVE top - g[i].l = f[i].h /\ top - g[i].h = f[i].l
      BY <1>1, <2>5
    <3> QED
      BY <3>1
  <2> HIDE DEF FH, FL, GH, GL
  <2>12. \A x \in 0 .. top : x \in Int
    OBVIOUS
  <2>13. Min(GL) = top - Max(FH) /\ Max(FH) \in FH
    BY <1>1, <2>6, <2>7, <2>9, <2>10, <2>11, <2>12, ExtremesMirror
  <2>14. Max(GH) = top - Min(FL) /\ Min(FL) \in FL
    BY <1>1, <2>6, <2>7, <2>8, <2>9, <2>10, <2>11, <2>12, ExtremesMirror
  <2>15. Max(FH) \in 0 .. top /\ Min(FL) \in 0 .. top
    BY <2>7, <2>8, <2>13, <2>14
  <2>16. Max(FH) # NaN /\ Min(FL) # NaN
    BY <1>1, <2>15
  <2> QED
    BY <2>4, <2>13, <2>14, <2>15, <2>16, Zenon DEF Flip
<1> QED
  BY <1>1, <1>3, <1>4, <1>5

\* The true ranges, and so their mean, are the same.
LEMMA AtrMirror ==
  ASSUME NEW f, NEW g, NEW k, NEW top, MirrorOf(f, g, k, top)
  PROVE  Atr(g, k) = Atr(f, k)
<1>1. ASSUME NEW i \in 1 .. k PROVE TrueRange(g, i) = TrueRange(f, i)
  <2>1. /\ f[i].h \in Int /\ f[i].l \in Int /\ g[i].h = top - f[i].l /\ g[i].l = top - f[i].h
        /\ top \in Int /\ k \in Nat
    BY DEF MirrorOf
  <2>2. g[i].h - g[i].l = f[i].h - f[i].l
    BY <2>1
  <2>3. CASE i = 1
    BY <2>2, <2>3 DEF TrueRange
  <2>4. CASE i # 1
    <3>1. i - 1 \in 1 .. k
      BY <2>1, <2>4
    <3>2. f[i - 1].c \in Int /\ g[i - 1].c = top - f[i - 1].c
      BY <3>1 DEF MirrorOf
    <3> DEFINE h == f[i].h
               l == f[i].l
               c == f[i - 1].c
    <3>3. g[i].h - g[i - 1].c = c - l /\ g[i].l - g[i - 1].c = c - h
      BY <2>1, <3>2
    <3>4. Abs(c - l) = Abs(l - c) /\ Abs(c - h) = Abs(h - c)
      <4>1. h \in Int /\ l \in Int /\ c \in Int
        BY <2>1, <3>2
      <4>2. \A x, y \in Int : Abs(x - y) = Abs(y - x)
        BY DEF Abs
      <4> QED
        BY <4>1, <4>2
    <3>5. {g[i].h - g[i].l, Abs(g[i].h - g[i - 1].c), Abs(g[i].l - g[i - 1].c)}
            = {h - l, Abs(h - c), Abs(l - c)}
      BY <2>2, <3>3, <3>4
    <3> QED
      BY <2>4, <3>5, Zenon DEF TrueRange
  <2> QED
    BY <2>3, <2>4
<1> QED
  BY <1>1 DEF Atr

\* The verdict on a bar, in its parts.
ScoreOf(ch, bar, atr, k) == PcmScore(bar, Strength(Beyond(ch, bar.c), atr, Scale(k)))
SignalOf(ch, bar, atr, k) == Signal(ch, bar.c, ScoreOf(ch, bar, atr, k))
RiskOf(ch, bar, atr, k, signal) ==
  signal * (2 * Scale(k) * bar.c - StopLoss(ch, signal, atr, Scale(k)))

LEMMA VerdictParts ==
  ASSUME NEW ch, NEW bar, NEW atr, NEW rsi, NEW k, NEW signal \in {1, -1},
         SignalOf(ch, bar, atr, k) = signal
  PROVE  LET v == Verdict(ch, bar, atr, rsi, k)
             risk == RiskOf(ch, bar, atr, k, signal)
         IN /\ v.signal = signal /\ v.pcm = ScoreOf(ch, bar, atr, k)
            /\ v.close = 2 * Scale(k) * bar.c
            /\ v.stop = StopLoss(ch, signal, atr, Scale(k))
            /\ v.tp1 = v.close + signal * risk /\ v.tp2 = v.close + 2 * signal * risk
            /\ v.valid <=> /\ ch.upper > ch.lower
                           /\ StrongEnough(Beyond(ch, bar.c), atr, Scale(k))
                           /\ risk # 0 /\ RiskReward <= 2
<1>1. signal # 0
  OBVIOUS
<1> DEFINE c == bar.c
           scale == Scale(k)
           strength == Strength(Beyond(ch, c), atr, scale)
           pcm == PcmScore(bar, strength)
           sg == Signal(ch, c, pcm)
           stop == IF sg = 0 THEN 0 ELSE StopLoss(ch, sg, atr, scale)
           risk == sg * (2 * scale * c - stop)
<1>2. sg = signal /\ pcm = ScoreOf(ch, bar, atr, k)
  BY DEF SignalOf, ScoreOf
<1>3. stop = StopLoss(ch, signal, atr, Scale(k))
  BY <1>1, <1>2
<1>4. risk = RiskOf(ch, bar, atr, k, signal)
  BY <1>2, <1>3 DEF RiskOf
<1>5. Verdict(ch, bar, atr, rsi, k) =
        [signal |-> sg, pcm |-> pcm, rsi |-> rsi, strength |-> strength,
         zone |-> IF ch.ready THEN 2 * c - ch.zone2 ELSE 0,
         close |-> 2 * scale * c, stop |-> stop,
         tp1 |-> 2 * scale * c + sg * risk, tp2 |-> 2 * scale * c + 2 * sg * risk,
         valid |-> /\ sg # 0
                   /\ ch.upper > ch.lower
                   /\ StrongEnough(Beyond(ch, c), atr, scale)
                   /\ risk # 0 /\ RiskReward <= 2]
  BY Zenon DEF Verdict
<1> HIDE DEF sg, pcm, strength, stop, risk
<1> QED
  BY <1>1, <1>2, <1>3, <1>4, <1>5

\* There is no valid verdict without a direction.
LEMMA NoDirection ==
  ASSUME NEW ch, NEW bar, NEW atr, NEW rsi, NEW k, Verdict(ch, bar, atr, rsi, k).valid
  PROVE  SignalOf(ch, bar, atr, k) # 0
BY DEF Verdict, SignalOf, ScoreOf

\* A channel, and the channel upside down.
ChannelOK(ch) ==
  ch.ready = (ch.upper # NaN /\ ch.lower # NaN) /\ ch.zone2 = ch.upper + ch.lower
ChannelMirrorOf(ch, dh, top) ==
  /\ ChannelOK(ch) /\ ChannelOK(dh) /\ top \in Int
  /\ dh.upper = Flip(ch.lower, top) /\ dh.lower = Flip(ch.upper, top)
  /\ ch.upper = NaN \/ ch.upper \in 0 .. top
  /\ ch.lower = NaN \/ ch.lower \in 0 .. top

LEMMA ChannelMirror ==
  ASSUME NEW f, NEW g, NEW k, NEW top, MirrorOf(f, g, k, top), NEW method
  PROVE  ChannelMirrorOf(Channel(method, f, k), Channel(method, g, k), top)
<1>1. top \in Int
  BY DEF MirrorOf
<1>2. /\ SwingHigh(method, g, k) = Flip(SwingLow(method, f, k), top)
      /\ SwingLow(method, g, k) = Flip(SwingHigh(method, f, k), top)
      /\ SwingHigh(method, f, k) = NaN \/ SwingHigh(method, f, k) \in 0 .. top
      /\ SwingLow(method, f, k) = NaN \/ SwingLow(method, f, k) \in 0 .. top
  BY SwingMirror
<1> QED
  BY <1>1, <1>2, Zenon DEF Channel, ChannelMirrorOf, ChannelOK

\* What a direction is taken for.
LEMMA SignalMeans ==
  ASSUME NEW ch, NEW c, NEW pcm
  PROVE  LET taken == ch.ready /\ ~(PcmConfirmation /\ pcm < 500)
             above == c > ch.upper /\ 2 * c > ch.zone2
             below == c < ch.lower /\ 2 * c < ch.zone2
         IN /\ Signal(ch, c, pcm) \in {-1, 0, 1}
            /\ Signal(ch, c, pcm) = 1 <=> taken /\ above
            /\ Signal(ch, c, pcm) = -1 <=> taken /\ ~above /\ below
BY DEF Signal

LEMMA Scaled ==
  ASSUME NEW s \in Nat \ {0}
  PROVE  \A t, a \in Int : /\ 2 * s * a \in Int
                           /\ 2 * s * (t - a) = 2 * s * t - 2 * s * a
<1>1. ASSUME NEW t \in Int, NEW a \in Int
      PROVE  2 * s * a \in Int /\ 2 * s * (t - a) = 2 * s * t - 2 * s * a
  OBVIOUS
<1> QED
  BY <1>1

LEMMA ScaledMore ==
  ASSUME NEW s \in Nat \ {0}, NEW a \in Int, NEW b \in Int, a > b
  PROVE  2 * s * a > 2 * s * b
<1> DEFINE d == a - b
<1>1. d \in Nat \ {0}
  OBVIOUS
<1>2. s * d \in Nat \ {0}
  <2> HIDE DEF d
  <2> QED
    BY <1>1
<1>3. s * d = s * a - s * b
  OBVIOUS
<1> QED
  BY <1>2, <1>3

LEMMA BodyMirror ==
  ASSUME NEW bar, NEW cab, NEW top \in Int,
         bar.o \in Int, bar.h \in Int, bar.l \in Int, bar.c \in Int,
         cab.o = top - bar.o, cab.h = top - bar.l, cab.l = top - bar.h, cab.c = top - bar.c
  PROVE  BodyRatio(cab) = BodyRatio(bar)
<1>1. cab.h - cab.l = bar.h - bar.l /\ (cab.h = cab.l <=> bar.h = bar.l)
  OBVIOUS
<1>2. cab.c - cab.o = bar.o - bar.c
  OBVIOUS
<1>3. Abs(bar.o - bar.c) = Abs(bar.c - bar.o)
  BY DEF Abs
<1>4. Abs(cab.c - cab.o) = Abs(bar.c - bar.o)
  BY <1>2, <1>3
<1> DEFINE Ratio(x, y) == Smaller(1000, (1000 * x) \div y)
<1>5. BodyRatio(cab) = (IF cab.h = cab.l THEN 0 ELSE Ratio(Abs(cab.c - cab.o), cab.h - cab.l))
  BY Zenon DEF BodyRatio
<1>6. BodyRatio(bar) = (IF bar.h = bar.l THEN 0 ELSE Ratio(Abs(bar.c - bar.o), bar.h - bar.l))
  BY Zenon DEF BodyRatio
<1> HIDE DEF Ratio
<1>7. Ratio(Abs(cab.c - cab.o), cab.h - cab.l) = Ratio(Abs(bar.c - bar.o), bar.h - bar.l)
  BY <1>1, <1>4, Zenon
<1> QED
  BY <1>1, <1>5, <1>6, <1>7

LEMMA Opposite == -(-1) = 1 /\ ~(-1 = 1)
<1>1. \A x \in Int : x + (-x) = 0
  OBVIOUS
<1>2. \A y \in Int : -1 + y = 0 => y = 1
  OBVIOUS
<1>3. -1 \in Int /\ ~(-1 = 1) /\ \A x \in Int : -x \in Int
  OBVIOUS
<1> QED
  BY <1>1, <1>2, <1>3, Zenon

LEMMA VerdictMirror ==
  ASSUME NEW ch, NEW dh, NEW top, ChannelMirrorOf(ch, dh, top),
         NEW bar, NEW cab, NEW atr \in Nat, NEW k \in Nat \ {0}, NEW rsi, NEW rsj,
         bar.o \in Int, bar.h \in Int, bar.l \in Int, bar.c \in Int,
         cab.o = top - bar.o, cab.h = top - bar.l, cab.l = top - bar.h, cab.c = top - bar.c,
         Verdict(ch, bar, atr, rsi, k).valid
  PROVE  LET v == Verdict(ch, bar, atr, rsi, k)
             w == Verdict(dh, cab, atr, rsj, k)
         IN /\ v.signal * (v.close - v.stop) > 0
            /\ v.signal * (v.tp1 - v.close) > 0 /\ v.signal * (v.tp2 - v.tp1) > 0
            /\ w.valid /\ w.signal = -v.signal /\ w.pcm = v.pcm
            /\ w.close - w.stop = v.stop - v.close
<1> DEFINE pcm == ScoreOf(ch, bar, atr, k)
           sg == SignalOf(ch, bar, atr, k)
           c == bar.c
           d == cab.c
           S == Scale(k)
           up == ch.upper
           low == ch.lower
<1>0. S \in Nat \ {0} /\ c \in Int /\ d = top - c /\ top \in Int /\ NaN = -1
  BY ScaleFact DEF ChannelMirrorOf, NaN
<1>1. sg # 0
  BY NoDirection
<1>2. sg = Signal(ch, c, pcm)
  BY DEF SignalOf
<1> HIDE DEF pcm, c, d, S
<1>3. /\ sg \in {1, -1} /\ ch.ready /\ ~(PcmConfirmation /\ pcm < 500)
      /\ sg = 1 => c > up /\ 2 * c > ch.zone2
      /\ sg = -1 => c < low /\ 2 * c < ch.zone2
  <2> HIDE DEF up, low, sg
  <2> QED
    BY <1>1, <1>2, SignalMeans DEF up, low
<1> HIDE DEF sg
<1>4. up \in 0 .. top /\ low \in 0 .. top /\ ch.zone2 = up + low
      /\ dh.upper = top - low /\ dh.lower = top - up
  BY <1>3 DEF ChannelMirrorOf, ChannelOK, Flip
<1>5. up \in Int /\ low \in Int /\ 0 <= up /\ up <= top /\ 0 <= low /\ low <= top
  BY <1>0, <1>4
<1>6. /\ up # NaN /\ low # NaN /\ dh.upper \in Int /\ dh.lower \in Int
      /\ dh.upper # NaN /\ dh.lower # NaN
  BY <1>0, <1>4, <1>5
<1>7. dh.ready /\ dh.zone2 = 2 * top - ch.zone2
  <2>1. dh.ready /\ dh.zone2 = dh.upper + dh.lower
    BY <1>6 DEF ChannelMirrorOf, ChannelOK
  <2> QED
    BY <1>0, <1>4, <1>5, <2>1
<1> DEFINE v == Verdict(ch, bar, atr, rsi, k)
           risk == RiskOf(ch, bar, atr, k, sg)
<1>8. /\ v.signal = sg /\ v.pcm = pcm /\ v.close = 2 * S * c
      /\ v.stop = StopLoss(ch, sg, atr, S)
      /\ v.tp1 = v.close + sg * risk /\ v.tp2 = v.close + 2 * sg * risk
      /\ v.valid <=> /\ up > low
                     /\ StrongEnough(Beyond(ch, c), atr, S)
                     /\ risk # 0 /\ RiskReward <= 2
  BY <1>3, VerdictParts DEF sg, pcm, c, S
<1>9. up > low /\ StrongEnough(Beyond(ch, c), atr, S) /\ RiskReward <= 2
  BY <1>8
<1> HIDE DEF v, risk
\* The distance beyond the channel is the same, and so is the score.
<1>10. Beyond(dh, d) = Beyond(ch, c)
  <2>1. CASE sg = 1
    <3>1. c > up /\ c > low
      BY <1>0, <1>3, <1>5, <1>9, <2>1
    <3>2. Beyond(ch, c) = c - up
      BY <1>6, <3>1 DEF Beyond
    <3>3. ~(d > dh.upper) /\ dh.lower - d = c - up /\ dh.lower - d > 0
      BY <1>0, <1>4, <1>5, <3>1
    <3>4. Beyond(dh, d) = Larger(dh.lower - d, 0)
      BY <1>6, <3>3 DEF Beyond
    <3> QED
      BY <3>2, <3>3, <3>4 DEF Larger
  <2>2. CASE sg = -1
    <3>1. c < low /\ ~(c > up)
      BY <1>0, <1>3, <1>5, <1>9, <2>2
    <3>2. Beyond(ch, c) = Larger(low - c, 0)
      BY <1>6, <3>1 DEF Beyond
    <3>3. d > dh.upper /\ d - dh.upper = low - c /\ low - c > 0
      BY <1>0, <1>4, <1>5, <3>1
    <3>4. Beyond(dh, d) = d - dh.upper
      BY <1>6, <3>3 DEF Beyond
    <3> QED
      BY <3>2, <3>3, <3>4 DEF Larger
  <2> QED
    BY <1>3, <2>1, <2>2
<1>11. BodyRatio(cab) = BodyRatio(bar)
  BY <1>0, BodyMirror
<1>12. ScoreOf(dh, cab, atr, k) = pcm
  BY <1>10, <1>11, Zenon DEF ScoreOf, PcmScore, pcm, c, d
<1>13. SignalOf(dh, cab, atr, k) = -sg
  <2>1. SignalOf(dh, cab, atr, k) = Signal(dh, d, pcm)
    BY <1>12 DEF SignalOf, d
  <2>2. CASE sg = 1
    <3>1. d < dh.lower /\ 2 * d < dh.zone2
      BY <1>0, <1>3, <1>4, <1>5, <1>7, <2>2
    <3>2. ~(d > dh.upper)
      BY <1>0, <1>3, <1>4, <1>5, <1>9, <2>2
    <3>3. Signal(dh, d, pcm) = -1
      BY <1>3, <1>7, <3>1, <3>2, SignalMeans
    <3> QED
      BY <2>1, <2>2, <3>3
  <2>3. CASE sg = -1
    <3>1. d > dh.upper /\ 2 * d > dh.zone2
      BY <1>0, <1>3, <1>4, <1>5, <1>7, <2>3
    <3>2. Signal(dh, d, pcm) = 1
      BY <1>3, <1>7, <3>1, SignalMeans
    <3> QED
      BY <2>1, <2>3, <3>2, Opposite, Zenon
  <2> QED
    BY <1>3, <2>2, <2>3
<1> DEFINE w == Verdict(dh, cab, atr, rsj, k)
           risq == RiskOf(dh, cab, atr, k, -sg)
<1>14. -sg \in {1, -1}
  BY <1>3
<1>15. /\ w.signal = -sg /\ w.pcm = pcm /\ w.close = 2 * S * d
       /\ w.stop = StopLoss(dh, -sg, atr, S)
       /\ w.valid <=> /\ dh.upper > dh.lower
                      /\ StrongEnough(Beyond(dh, d), atr, S)
                      /\ risq # 0 /\ RiskReward <= 2
  BY <1>12, <1>13, <1>14, VerdictParts DEF S, d
<1> HIDE DEF w
\* Distances, in halves of a price over the scale.
<1> DEFINE C == 2 * S * c
           T == 2 * S * top
           H == 2 * S * up
           L == 2 * S * low
           m == MinAtrHalves * atr
<1>16. /\ C \in Int /\ T \in Int /\ H \in Int /\ L \in Int
       /\ 2 * S * d = T - C /\ 2 * S * dh.upper = T - L /\ 2 * S * dh.lower = T - H
  BY <1>0, <1>4, <1>5, Scaled
<1>17. m \in Nat
  BY FimatheAssumption, Products
<1>18. H > L /\ (sg = 1 => C > H) /\ (sg = -1 => C < L)
  BY <1>0, <1>3, <1>5, <1>9, ScaledMore
<1>19. StopLoss(ch, sg, atr, S) = (IF sg = 1 THEN L - m ELSE H + m)
  BY DEF StopLoss
<1>20. StopLoss(dh, -sg, atr, S) = (IF -sg = 1 THEN 2 * S * dh.lower - m ELSE 2 * S * dh.upper + m)
  BY DEF StopLoss
<1>21. risk = sg * (C - StopLoss(ch, sg, atr, S))
  BY DEF risk, RiskOf, C, S, c
<1>22. risq = (-sg) * (2 * S * d - StopLoss(dh, -sg, atr, S))
  BY DEF risq, RiskOf, S, d
<1> HIDE DEF C, T, H, L, m, risq
<1>23. CASE sg = 1
  <2>1. StopLoss(ch, sg, atr, S) = L - m /\ StopLoss(dh, -sg, atr, S) = T - L + m
    BY <1>16, <1>19, <1>20, <1>23
  <2>2. risk = C - (L - m) /\ risk > 0 /\ risk \in Int
    BY <1>16, <1>17, <1>18, <1>21, <1>23, <2>1
  <2>3. risq = (T - L + m) - (T - C)
    BY <1>16, <1>17, <1>22, <1>23, <2>1
  <2>4. risq # 0
    BY <1>16, <1>17, <1>18, <1>23, <2>3
  <2>5. v.close = C /\ v.stop = L - m /\ v.tp1 = C + risk /\ v.tp2 = C + 2 * risk
    BY <1>8, <1>16, <1>23, <2>1, <2>2 DEF C
  <2>6. w.close = T - C /\ w.stop = T - L + m
    BY <1>15, <1>16, <2>1
  <2>7. dh.upper > dh.lower
    BY <1>0, <1>4, <1>5, <1>9
  <2>8. w.valid
    BY <1>9, <1>10, <1>15, <2>4, <2>7
  <2> QED
    BY <1>8, <1>15, <1>16, <1>17, <1>18, <1>23, <2>2, <2>5, <2>6, <2>8 DEF v, w
<1>24. CASE sg = -1
  <2>0. -sg = 1 /\ ~(sg = 1)
    BY <1>24, Opposite, Zenon
  <2>1. StopLoss(ch, sg, atr, S) = H + m /\ StopLoss(dh, -sg, atr, S) = T - H - m
    <3>1. StopLoss(ch, sg, atr, S) = H + m
      BY <1>19, <2>0, Zenon
    <3>2. StopLoss(dh, -sg, atr, S) = 2 * S * dh.lower - m
      BY <1>20, <2>0, Zenon
    <3>3. 2 * S * dh.lower - m = T - H - m
      BY <1>16, <1>17
    <3> QED
      BY <3>1, <3>2, <3>3, Zenon
  <2>2. risk = (H + m) - C /\ risk > 0 /\ risk \in Int
    BY <1>16, <1>17, <1>18, <1>21, <1>24, <2>1
  <2>3. risq = (T - C) - (T - H - m)
    BY <1>16, <1>17, <1>22, <1>24, <2>1
  <2>4. risq # 0
    BY <1>16, <1>17, <1>18, <1>24, <2>3
  <2>5. v.close = C /\ v.stop = H + m /\ v.tp1 = C - risk /\ v.tp2 = C - 2 * risk
    BY <1>8, <1>16, <1>24, <2>1, <2>2 DEF C
  <2>6. w.close = T - C /\ w.stop = T - H - m
    BY <1>15, <1>16, <2>1
  <2>7. dh.upper > dh.lower
    BY <1>0, <1>4, <1>5, <1>9
  <2>8. w.valid
    BY <1>9, <1>10, <1>15, <2>4, <2>7
  <2> QED
    BY <1>8, <1>15, <1>16, <1>17, <1>18, <1>24, <2>2, <2>5, <2>6, <2>8 DEF v, w
<1> QED
  BY <1>3, <1>23, <1>24

\* A valid setup has its stop and its targets on the right sides of the close, and the
\* frame upside down has the same setup on the other side.
LEMMA ProcessMirror ==
  ASSUME NEW f, NEW g, NEW k, NEW top, MirrorOf(f, g, k, top), FrameOK(f), NEW method,
         Process(method, f, k).valid
  PROVE  LET v == Process(method, f, k)
             w == Process(method, g, k)
         IN /\ v.signal * (v.close - v.stop) > 0
            /\ v.signal * (v.tp1 - v.close) > 0 /\ v.signal * (v.tp2 - v.tp1) > 0
            /\ w.valid /\ w.signal = -v.signal /\ w.pcm = v.pcm
            /\ w.close - w.stop = v.stop - v.close
<1>1. k \in Nat \ {0} /\ k \in 1 .. Len(f) /\ k \in 1 .. k
  BY DEF MirrorOf
<1>2. PICK bar, cab : bar = f[k] /\ cab = g[k]
  OBVIOUS
<1>3. /\ bar.o \in Int /\ bar.h \in Int /\ bar.l \in Int /\ bar.c \in Int
      /\ cab.o = top - bar.o /\ cab.h = top - bar.l /\ cab.l = top - bar.h /\ cab.c = top - bar.c
  BY <1>1, <1>2 DEF MirrorOf
<1>4. Atr(f, k) \in Nat /\ Atr(g, k) = Atr(f, k)
  BY <1>1, AtrTyped, AtrMirror
<1>5. PICK ch, dh : ch = Channel(method, f, k) /\ dh = Channel(method, g, k)
  OBVIOUS
<1>6. ChannelMirrorOf(ch, dh, top)
  BY <1>5, ChannelMirror
<1>7. /\ Process(method, f, k) = Verdict(ch, bar, Atr(f, k), Rsi(f, k), k)
      /\ Process(method, g, k) = Verdict(dh, cab, Atr(f, k), Rsi(g, k), k)
  BY <1>2, <1>4, <1>5, ProcessVerdict
<1>8. Verdict(ch, bar, Atr(f, k), Rsi(f, k), k).valid
  BY <1>7
<1> QED
  BY <1>1, <1>3, <1>4, <1>6, <1>7, <1>8, VerdictMirror

\* The bars of a history are between zero and twice its highest price.
LEMMA BarsMirror ==
  ASSUME Shape, NEW k \in 1 .. Len(bars)
  PROVE  /\ MirrorOf(SubSeq(bars, 1, k), SubSeq(Mirrored, 1, k), k, Top)
         /\ FrameOK(SubSeq(bars, 1, k)) /\ Agree(bars, SubSeq(bars, 1, k), k)
<1>1. scenario \in Scenarios /\ bars \in Seq(scenario.market)
  BY DEF Shape
<1>2. IsFiniteSet(scenario.market) /\ \A b \in scenario.market : BarOK(b)
  BY <1>1, ScenarioFact
<1>3. Len(bars) \in Nat /\ k \in Nat \ {0} /\ k <= Len(bars) /\ bars[k] \in scenario.market
      /\ DOMAIN bars = 1 .. Len(bars)
  BY <1>1
<1> DEFINE H == {b.h : b \in scenario.market}
           high == [b \in scenario.market |-> b.h]
<1>4. IsFiniteSet(H)
  <2>1. high \in Surjection(scenario.market, H)
    BY DEF Surjection
  <2> HIDE DEF high, H
  <2> QED
    BY <1>2, <2>1, FS_Surjection
<1>5. \A b \in scenario.market : b.h \in H /\ b.h \in Nat
  BY <1>2, Zenon DEF BarOK
<1>6. H # {} /\ \A x \in H : x \in Int
  BY <1>3, <1>5
<1>7. Top = 2 * Max(H)
  BY DEF Top
<1> HIDE DEF H
<1>8. Max(H) \in H /\ \A x \in H : Max(H) >= x
  BY <1>4, <1>6, Extremes
<1>9. Top \in Int /\ \A b \in scenario.market : b.h <= Top
  BY <1>5, <1>6, <1>7, <1>8
<1>10. FrameOK(bars)
  BY BarsOK
<1> DEFINE f == SubSeq(bars, 1, k)
           g == SubSeq(Mirrored, 1, k)
<1>11. Len(f) = k /\ \A i \in 1 .. k : f[i] = bars[i]
  <2>1. 1 \in 1 .. Len(bars) + 1 /\ k \in 1 - 1 .. Len(bars) /\ k - 1 + 1 = k
    BY <1>3
  <2> QED
    BY <1>1, <1>3, <2>1, SubSeqProperties
<1>12. Mirrored \in Seq(Range(Mirrored)) /\ Len(Mirrored) = Len(bars)
  BY <1>3 DEF Mirrored, Range
<1>13. Len(g) = k /\ \A i \in 1 .. k : g[i] = Mirrored[i]
  <2>1. 1 \in 1 .. Len(Mirrored) + 1 /\ k \in 1 - 1 .. Len(Mirrored) /\ k - 1 + 1 = k
    BY <1>3, <1>12
  <2> QED
    BY <1>3, <1>12, <2>1, SubSeqProperties
<1>14. \A i \in 1 .. k : i \in 1 .. Len(bars) /\ bars[i] \in scenario.market
  BY <1>1, <1>3
<1> HIDE DEF f, g
<1>15. \A i \in 1 .. k :
         Mirrored[i] = [o |-> Top - bars[i].o, h |-> Top - bars[i].l, l |-> Top - bars[i].h, c |-> Top - bars[i].c]
  BY <1>3, <1>14 DEF Mirrored
<1>16. ASSUME NEW i \in 1 .. k
       PROVE  /\ f[i].o \in Int /\ f[i].h \in Int /\ f[i].l \in Int /\ f[i].c \in Int
              /\ 0 <= f[i].l /\ f[i].l <= f[i].h /\ f[i].h <= Top
              /\ g[i].o = Top - f[i].o /\ g[i].h = Top - f[i].l
              /\ g[i].l = Top - f[i].h /\ g[i].c = Top - f[i].c
              /\ BarOK(f[i])
  <2>1. PICK b \in scenario.market : b = bars[i]
    BY <1>14
  <2>2. f[i] = b /\ g[i] = [o |-> Top - b.o, h |-> Top - b.l, l |-> Top - b.h, c |-> Top - b.c]
    BY <1>11, <1>13, <1>15, <2>1
  <2>3. /\ b.o \in Int /\ b.h \in Int /\ b.l \in Int /\ b.c \in Int
        /\ 0 <= b.l /\ b.l <= b.h /\ b.h <= Top /\ BarOK(b)
    <3>1. BarOK(b) /\ b.h <= Top
      BY <1>2, <1>9
    <3>2. b.o \in Nat /\ b.h \in Nat /\ b.l \in Nat /\ b.c \in Nat /\ b.l <= b.h
      BY <3>1, Zenon DEF BarOK
    <3> QED
      BY <3>1, <3>2
  <2> QED
    BY <2>2, <2>3
<1>17. MirrorOf(f, g, k, Top)
  BY <1>3, <1>9, <1>11, <1>13, <1>16 DEF MirrorOf
<1>18. FrameOK(f)
  BY <1>3, <1>11, <1>16 DEF FrameOK
<1>19. Agree(bars, f, k)
  BY <1>3, <1>11 DEF Agree
<1> QED
  BY <1>17, <1>18, <1>19 DEF f, g

(* A valid setup has its stop on the losing side of the close and its targets beyond   *)
(* it, and the same prices upside down are the same setup on the other side, for any   *)
(* market, periods and factors: the two directions are treated alike.                  *)
THEOREM SetupsMirrorHolds == Spec => []SetupsMirror
<1>1. ASSUME Shape, Provenance, NEW i \in DOMAIN log, log[i].setup.valid
      PROVE  LET s == log[i].setup
                 upsideDown == Process(scenario.method, SubSeq(Mirrored, 1, log[i].day), log[i].day)
             IN /\ s.signal * (s.close - s.stop) > 0
                /\ s.signal * (s.tp1 - s.close) > 0 /\ s.signal * (s.tp2 - s.tp1) > 0
                /\ upsideDown.valid /\ upsideDown.signal = -s.signal /\ upsideDown.pcm = s.pcm
                /\ upsideDown.close - upsideDown.stop = s.stop - s.close
  <2>1. PICK d, k : d = log[i] /\ k = d.day
    OBVIOUS
  <2>2. Made(d) /\ k \in 1 .. Len(bars)
    BY <1>1, <2>1 DEF Provenance, Shape
  <2>3. ~(k < MinBars)
    BY <1>1, <2>1, <2>2 DEF Made, NoSetup
  <2> DEFINE f == SubSeq(bars, 1, k)
             g == SubSeq(Mirrored, 1, k)
  <2>4. d.setup = Process(scenario.method, bars, k)
    BY <2>1, <2>2, <2>3 DEF Made
  <2>5. MirrorOf(f, g, k, Top) /\ FrameOK(f) /\ Agree(bars, f, k)
    BY <1>1, <2>2, BarsMirror
  <2> HIDE DEF f, g
  <2>6. d.setup = Process(scenario.method, f, k)
    BY <2>4, <2>5, ProcessLocal
  <2>7. Process(scenario.method, f, k).valid
    BY <1>1, <2>1, <2>6
  <2> QED
    BY <2>1, <2>5, <2>6, <2>7, ProcessMirror DEF g
<1>2. Shape /\ Provenance => SetupsMirror
  BY <1>1 DEF SetupsMirror
<1> QED
  BY ShapeInvariance, ProvenanceInvariance, <1>2, PTL
=============================================================================
