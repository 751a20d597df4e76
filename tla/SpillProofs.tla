----------------------------- MODULE SpillProofs -----------------------------
(***************************************************************************)
(* Proofs about Backend: spill() leaves registers enough for rega().       *)
(*                                                                         *)
(* Room(p, code, E, H, first) says of the code that was emitted so far,    *)
(* from the end of a block, that a walk over it from E at the end needs no *)
(* more registers than there are, and has no more than H live before it;   *)
(* first says that the group of copies at its beginning, if any, follows a *)
(* call, whose registers cannot be used either.  Each step of spill()      *)
(* preserves it, and doblk() and dopm() find room in code that has it.     *)
(***************************************************************************)
EXTENDS BackendProofs, WellFoundedInduction, SequenceTheorems

\* A set of naturals has a least element.
LEMMA LeastNat ==
  ASSUME NEW T \in SUBSET Nat, T # {}
  PROVE  \E m \in T : \A k \in T : m <= k
<1>. DEFINE less == OpToRel(<, Nat)
<1>1. \E m \in T : \A k \in T : ~ (<<k, m>> \in less)
  BY NatLessThanWellFounded, WFMin, Zenon
<1>2. \A k, m \in T : k < m => <<k, m>> \in less
  BY DEF OpToRel
<1>. HIDE DEF less
<1>3. PICK m \in T : \A k \in T : ~ (<<k, m>> \in less)
  BY <1>1
<1>4. \A k \in T : ~ (k < m)
  BY <1>2, <1>3
<1>5. \A k \in T : m <= k
  BY <1>4
<1>. QED  BY <1>5

\* From the end of a sequence to its beginning.
LEMMA Descend ==
  ASSUME NEW L \in Nat, NEW T, L + 1 \in T, \A n \in 1 .. L : n + 1 \in T => n \in T
  PROVE  \A n \in 1 .. L + 1 : n \in T
<1>. SUFFICES ASSUME NEW w \in 1 .. L + 1, w \notin T PROVE FALSE
  OBVIOUS
<1>. DEFINE U == {k \in Nat : k <= L /\ L + 1 - k \notin T}
<1>1. L + 1 - w \in U
  <2>1. L + 1 - (L + 1 - w) = w /\ w # L + 1
    OBVIOUS
  <2>. QED  BY <2>1
<1>2. PICK k \in U : \A j \in U : k <= j
  BY <1>1, LeastNat
<1>3. k # 0
  <2>1. L + 1 - 0 = L + 1
    OBVIOUS
  <2>. QED  BY <2>1
<1>4. k - 1 \in Nat /\ k - 1 <= L /\ ~ (k <= k - 1) /\ L + 1 - k \in 1 .. L
      /\ (L + 1 - k) + 1 = L + 1 - (k - 1)
  BY <1>3
<1>5. L + 1 - (k - 1) \in T
  BY <1>2, <1>4
<1>. QED  BY <1>4, <1>5

\* Over the subsets of a finite set, from the smaller to the larger ones.
LEMMA Subsets ==
  ASSUME NEW I, IsFiniteSet(I), NEW T,
         \A s \in SUBSET I : (\A e \in s : s \ {e} \in T) => s \in T
  PROVE  \A s \in SUBSET I : s \in T
<1>. SUFFICES ASSUME NEW w \in SUBSET I, w \notin T PROVE FALSE
  OBVIOUS
<1>1. \A s \in SUBSET I : IsFiniteSet(s) /\ Cardinality(s) \in Nat
  BY FS_Subset, FS_CardinalityType
<1>. DEFINE U == {k \in Nat : \E s \in SUBSET I : s \notin T /\ Cardinality(s) = k}
<1>2. Cardinality(w) \in U
  BY <1>1
<1>3. PICK k \in U : \A j \in U : k <= j
  BY <1>2, LeastNat
<1>4. PICK s \in SUBSET I : s \notin T /\ Cardinality(s) = k
  BY <1>3
<1>5. PICK e \in s : s \ {e} \notin T
  BY <1>4
<1>6. Cardinality(s \ {e}) = k - 1
  BY <1>1, <1>4, <1>5, FS_RemoveElement
<1>7. s \ {e} \in SUBSET I
  OBVIOUS
<1>8. Cardinality(s \ {e}) \in U
  BY <1>1, <1>5, <1>7
<1>9. k \in Nat /\ k <= Cardinality(s \ {e})
  BY <1>3, <1>8
<1>. QED  BY <1>6, <1>9

-----------------------------------------------------------------------------
(***************************************************************************)
(* Folds.  G is the operator, in the form of a function on the values D    *)
(* that it takes, and ch how the next element is chosen.                   *)
(***************************************************************************)
FoldGiven(I, D, base, G, ch) ==
  /\ IsFiniteSet(I) /\ base \in D /\ G \in [I \X D -> D]
  /\ \A s \in SUBSET I : s # {} => ch[s] \in s
IsFold(h, I, base, G, ch) ==
  \A s \in SUBSET I : h[s] = IF s = {} THEN base ELSE G[<<ch[s], h[s \ {ch[s]}]>>]
\* The same of an h that is not known to be in [SUBSET I -> D].
FoldsIn(h, I, D, base, G, ch) ==
  /\ h[{}] = base
  /\ \A s \in SUBSET I : s # {} /\ h[s \ {ch[s]}] \in D => h[s] = G[<<ch[s], h[s \ {ch[s]}]>>]

LEMMA FoldExists ==
  ASSUME NEW I, NEW D, NEW base, NEW G, NEW ch, FoldGiven(I, D, base, G, ch)
  PROVE  \E h \in [SUBSET I -> D] : IsFold(h, I, base, G, ch)
<1>. USE DEF FoldGiven
<1>. DEFINE next(h, s) == IF s = {} THEN base ELSE G[<<ch[s], h[s \ {ch[s]}]>>]
            upto(h, n) == \A s \in SUBSET I : Cardinality(s) <= n => h[s] = next(h, s)
            Q(n) == \E h \in [SUBSET I -> D] : upto(h, n)
<1>1. \A s \in SUBSET I : IsFiniteSet(s) /\ Cardinality(s) \in Nat
  BY FS_Subset, FS_CardinalityType
<1>2. ASSUME NEW h \in [SUBSET I -> D], NEW s \in SUBSET I PROVE next(h, s) \in D
  <2>1. CASE s = {}
    BY <2>1
  <2>2. CASE s # {}
    <3>1. ch[s] \in I /\ s \ {ch[s]} \in SUBSET I
      BY <2>2
    <3>. QED  BY <2>2, <3>1
  <2>. QED  BY <2>1, <2>2
<1>3. Q(0)
  <2>. DEFINE h == [s \in SUBSET I |-> base]
  <2>1. h \in [SUBSET I -> D]
    OBVIOUS
  <2>2. ASSUME NEW s \in SUBSET I, Cardinality(s) <= 0 PROVE h[s] = next(h, s)
    <3>1. s = {}
      BY <1>1, <2>2, FS_EmptySet
    <3>. QED  BY <3>1
  <2>. HIDE DEF next, h
  <2>. QED  BY <2>1, <2>2
<1>4. ASSUME NEW n \in Nat, Q(n) PROVE Q(n + 1)
  <2>. PICK h \in [SUBSET I -> D] : upto(h, n)
    BY <1>4
  <2>. DEFINE g == [s \in SUBSET I |-> IF Cardinality(s) <= n THEN h[s] ELSE next(h, s)]
  <2>1. g \in [SUBSET I -> D]
    BY <1>2
  <2>2. ASSUME NEW s \in SUBSET I, Cardinality(s) <= n + 1 PROVE g[s] = next(g, s)
    <3>1. CASE s = {}
      <4>1. g[s] = base
        BY <3>1
      <4>. QED  BY <3>1, <4>1
    <3>2. CASE s # {}
      <4>. PICK e : e = ch[s]
        OBVIOUS
      <4>1. e \in s /\ s \ {e} \in SUBSET I
        BY <3>2
      <4>2. Cardinality(s \ {e}) = Cardinality(s) - 1
        BY <1>1, <4>1, FS_RemoveElement
      <4>3. Cardinality(s \ {e}) <= n
        BY <1>1, <2>2, <4>1, <4>2
      <4>4. g[s \ {e}] = h[s \ {e}]
        BY <4>1, <4>3
      <4>5. next(g, s) = next(h, s)
        BY <3>2, <4>4
      <4>6. g[s] = next(h, s)
        <5>1. CASE Cardinality(s) <= n
          BY <5>1
        <5>2. CASE ~ (Cardinality(s) <= n)
          BY <5>2
        <5>. QED  BY <5>1, <5>2
      <4>. QED  BY <4>5, <4>6
    <3>. QED  BY <3>1, <3>2
  <2>. HIDE DEF next, g
  <2>. QED  BY <2>1, <2>2
<1>. HIDE DEF Q
<1>5. \A n \in Nat : Q(n)
  <2>. SUFFICES ASSUME NEW w \in Nat, ~ Q(w) PROVE FALSE
    OBVIOUS
  <2>1. PICK n \in {k \in Nat : ~ Q(k)} : \A j \in {k \in Nat : ~ Q(k)} : n <= j
    BY LeastNat
  <2>2. n # 0 /\ n - 1 \in Nat /\ (n - 1) + 1 = n
    BY <1>3, <2>1
  <2>3. Q(n - 1)
    BY <2>1, <2>2
  <2>. QED  BY <1>4, <2>1, <2>2, <2>3
<1>6. PICK h \in [SUBSET I -> D] : upto(h, Cardinality(I))
  BY <1>1, <1>5 DEF Q
<1>7. \A s \in SUBSET I : Cardinality(s) <= Cardinality(I)
  BY FS_Subset
<1>. QED  BY <1>6, <1>7 DEF IsFold

\* Whatever satisfies the equation takes its values in D.
LEMMA FoldIs ==
  ASSUME NEW I, NEW D, NEW base, NEW G, NEW ch, FoldGiven(I, D, base, G, ch),
         NEW it, FoldsIn(it, I, D, base, G, ch)
  PROVE  (\A s \in SUBSET I : it[s] \in D) /\ IsFold(it, I, base, G, ch)
<1>. USE DEF FoldGiven, FoldsIn
<1>. DEFINE T == {s \in SUBSET I : it[s] \in D}
<1>1. ASSUME NEW s \in SUBSET I, \A e \in s : s \ {e} \in T PROVE s \in T
  <2>1. CASE s = {}
    BY <2>1
  <2>2. CASE s # {}
    <3>. PICK e : e = ch[s]
      OBVIOUS
    <3>1. e \in s /\ e \in I /\ it[s \ {e}] \in D
      BY <1>1, <2>2
    <3>. QED  BY <2>2, <3>1
  <2>. QED  BY <2>1, <2>2
<1>2. \A s \in SUBSET I : s \in T
  <2>. HIDE DEF T
  <2>. QED  BY <1>1, Subsets
<1>3. \A s \in SUBSET I : it[s] \in D
  BY <1>2
<1>. QED  BY <1>3 DEF IsFold

-----------------------------------------------------------------------------
(***************************************************************************)
(* Sums and products, of the costs.                                        *)
(***************************************************************************)
SumEq(it, g, I) ==
  it = [s \in SUBSET I |->
        IF s = {} THEN 0 ELSE g[CHOOSE e \in s : TRUE] + it[s \ {CHOOSE e \in s : TRUE}]]
ProductEq(it, g, I) ==
  it = [s \in SUBSET I |->
        IF s = {} THEN 1 ELSE g[CHOOSE e \in s : TRUE] * it[s \ {CHOOSE e \in s : TRUE}]]

LEMMA SumIs ==
  ASSUME NEW I, IsFiniteSet(I), NEW g \in [I -> Int]
  PROVE  SumFunction(g) \in Int
<1>. DEFINE it == CHOOSE h : SumEq(h, g, I)
            ch == [s \in SUBSET I |-> CHOOSE e \in s : TRUE]
            G == [e \in I \X Int |-> g[e[1]] + e[2]]
<1>1. SumFunction(g) = it[I]
  <2>1. DOMAIN g = I
    OBVIOUS
  <2>2. SumFunction(g) = FoldFunctionOnSet(+, 0, g, I)
    BY <2>1, Zenon DEF SumFunction, SumFunctionOnSet
  <2>. QED  BY <2>2, Zenon DEF FoldFunctionOnSet, MapThenFoldSet, SumEq
<1>2. FoldGiven(I, Int, 0, G, ch)
  BY DEF FoldGiven
<1>3. PICK h \in [SUBSET I -> Int] : IsFold(h, I, 0, G, ch)
  BY <1>2, FoldExists
<1>4. \A s \in SUBSET I : s # {} => ch[s] \in s
  OBVIOUS
<1>5. \A e \in I, v \in Int : G[<<e, v>>] = g[e] + v
  OBVIOUS
<1>6. SumEq(h, g, I)
  <2>1. ASSUME NEW s \in SUBSET I, s # {}
        PROVE  h[s] = g[ch[s]] + h[s \ {ch[s]}]
    <3>1. ch[s] \in I /\ s \ {ch[s]} \in SUBSET I
      BY <1>4, <2>1
    <3>2. h[s] = G[<<ch[s], h[s \ {ch[s]}]>>]
      BY <1>3, <2>1 DEF IsFold
    <3>. HIDE DEF G, ch
    <3>. QED  BY <1>5, <3>1, <3>2
  <2>2. h[{}] = 0
    BY <1>3 DEF IsFold
  <2>. QED  BY <2>1, <2>2 DEF SumEq
<1>7. SumEq(it, g, I)
  BY <1>6, Zenon
<1>. HIDE DEF it
<1>8. FoldsIn(it, I, Int, 0, G, ch)
  <2>1. it[{}] = 0 /\ \A s \in SUBSET I : s # {} => it[s] = g[ch[s]] + it[s \ {ch[s]}]
    BY <1>7 DEF SumEq
  <2>. HIDE DEF G, ch
  <2>. QED  BY <1>4, <1>5, <2>1 DEF FoldsIn
<1>9. it[I] \in Int
  <2>. HIDE DEF G, ch
  <2>. QED  BY <1>2, <1>8, FoldIs
<1>. QED  BY <1>1, <1>9

LEMMA ProductIs ==
  ASSUME NEW I, IsFiniteSet(I), NEW g \in [I -> Int]
  PROVE  Product(g) \in Int
<1>. DEFINE it == CHOOSE h : ProductEq(h, g, I)
            ch == [s \in SUBSET I |-> CHOOSE e \in s : TRUE]
            G == [e \in I \X Int |-> g[e[1]] * e[2]]
<1>1. Product(g) = it[I]
  <2>1. DOMAIN g = I
    OBVIOUS
  <2>2. Product(g) = FoldFunctionOnSet(LAMBDA m, n : m * n, 1, g, I)
    BY <2>1, Zenon DEF Product, FoldFunction
  <2>. QED  BY <2>2, Zenon DEF FoldFunctionOnSet, MapThenFoldSet, ProductEq
<1>2. FoldGiven(I, Int, 1, G, ch)
  BY DEF FoldGiven
<1>3. PICK h \in [SUBSET I -> Int] : IsFold(h, I, 1, G, ch)
  BY <1>2, FoldExists
<1>4. \A s \in SUBSET I : s # {} => ch[s] \in s
  OBVIOUS
<1>5. \A e \in I, v \in Int : G[<<e, v>>] = g[e] * v
  OBVIOUS
<1>6. ProductEq(h, g, I)
  <2>1. ASSUME NEW s \in SUBSET I, s # {}
        PROVE  h[s] = g[ch[s]] * h[s \ {ch[s]}]
    <3>1. ch[s] \in I /\ s \ {ch[s]} \in SUBSET I
      BY <1>4, <2>1
    <3>2. h[s] = G[<<ch[s], h[s \ {ch[s]}]>>]
      BY <1>3, <2>1 DEF IsFold
    <3>. HIDE DEF G, ch
    <3>. QED  BY <1>5, <3>1, <3>2
  <2>2. h[{}] = 1
    BY <1>3 DEF IsFold
  <2>. QED  BY <2>1, <2>2 DEF ProductEq
<1>7. ProductEq(it, g, I)
  BY <1>6, Zenon
<1>. HIDE DEF it
<1>8. FoldsIn(it, I, Int, 1, G, ch)
  <2>1. it[{}] = 1 /\ \A s \in SUBSET I : s # {} => it[s] = g[ch[s]] * it[s \ {ch[s]}]
    BY <1>7 DEF ProductEq
  <2>. HIDE DEF G, ch
  <2>. QED  BY <1>4, <1>5, <2>1 DEF FoldsIn
<1>9. it[I] \in Int
  <2>. HIDE DEF G, ch
  <2>. QED  BY <1>2, <1>8, FoldIs
<1>. QED  BY <1>1, <1>9

-----------------------------------------------------------------------------
(***************************************************************************)
(* FoldRight over 1 .. L, from the last to the first, and FoldLeft.        *)
(***************************************************************************)
LEMMA MinIs ==
  ASSUME NEW L \in Nat
  PROVE  /\ \A s \in SUBSET (1 .. L) : s # {} => Min(s) \in s
         /\ \A n \in 1 .. L : Min(n .. L) = n /\ (n .. L) \ {n} = (n + 1) .. L
<1>1. ASSUME NEW s \in SUBSET (1 .. L), s # {} PROVE Min(s) \in s
  <2>1. s \in SUBSET Nat
    OBVIOUS
  <2>2. \E m \in s : \A k \in s : m <= k
    BY <1>1, <2>1, LeastNat
  <2>. QED  BY <2>2 DEF Min
<1>2. ASSUME NEW n \in 1 .. L PROVE Min(n .. L) = n /\ (n .. L) \ {n} = (n + 1) .. L
  <2>1. n \in n .. L /\ \A k \in n .. L : n <= k
    OBVIOUS
  <2>2. \A m \in n .. L : (\A k \in n .. L : m <= k) => m = n
    <3>. SUFFICES ASSUME NEW m \in n .. L, \A k \in n .. L : m <= k PROVE m = n
      OBVIOUS
    <3>1. m <= n /\ n <= m /\ m \in Int /\ n \in Int
      OBVIOUS
    <3>. QED  BY <3>1
  <2>. QED  BY <2>1, <2>2 DEF Min
<1>. QED  BY <1>1, <1>2

LEMMA RightRun ==
  ASSUME NEW L \in Nat, NEW D, NEW base, NEW G, NEW ch, FoldGiven(1 .. L, D, base, G, ch),
         \A n \in 1 .. L : ch[n .. L] = n,
         NEW it, FoldsIn(it, 1 .. L, D, base, G, ch)
  PROVE  \E y \in [1 .. L + 1 -> D] :
           /\ y[L + 1] = base /\ y[1] = it[1 .. L]
           /\ \A n \in 1 .. L : y[n] = G[<<n, y[n + 1]>>]
<1>. DEFINE y == [n \in 1 .. L + 1 |-> it[n .. L]]
<1>1. (\A s \in SUBSET (1 .. L) : it[s] \in D) /\ IsFold(it, 1 .. L, base, G, ch)
  BY FoldIs
<1>2. \A n \in 1 .. L + 1 : n .. L \in SUBSET (1 .. L)
  OBVIOUS
<1>3. y \in [1 .. L + 1 -> D]
  BY <1>1, <1>2
<1>4. (L + 1) .. L = {}
  OBVIOUS
<1>5. y[L + 1] = base
  BY <1>4 DEF FoldsIn
<1>6. ASSUME NEW n \in 1 .. L PROVE y[n] = G[<<n, y[n + 1]>>]
  <2>1. ch[n .. L] = n /\ (n .. L) \ {n} = (n + 1) .. L
    BY MinIs
  <2>2. n \in n .. L /\ n .. L \in SUBSET (1 .. L)
    OBVIOUS
  <2>3. it[n .. L] = G[<<n, it[(n + 1) .. L]>>]
    BY <1>1, <2>1, <2>2 DEF IsFold
  <2>4. n \in 1 .. L + 1 /\ n + 1 \in 1 .. L + 1
    OBVIOUS
  <2>. QED  BY <2>3, <2>4
<1>7. y[1] = it[1 .. L]
  OBVIOUS
<1>. HIDE DEF y
<1>. QED  BY <1>3, <1>5, <1>6, <1>7

-----------------------------------------------------------------------------
(***************************************************************************)
(* limit() keeps no more than it is told to, and what is to go first.      *)
(***************************************************************************)
Ranked(d, s) == \A t \in s : t \in Int /\ d.cost[t] \in Int
Before(d, s, fst, t) == {u \in s \ {t} : First(d, fst, u, t)}

LEMMA FirstOrders ==
  ASSUME NEW d, NEW s, Ranked(d, s), NEW fst
  PROVE  /\ \A t, u \in s : t # u => First(d, fst, t, u) \/ First(d, fst, u, t)
         /\ \A t, u \in s : ~ (First(d, fst, t, u) /\ First(d, fst, u, t))
         /\ \A t, u, v \in s : First(d, fst, t, u) /\ First(d, fst, u, v) => First(d, fst, t, v)
<1>1. \A t, u \in s : t # u => First(d, fst, t, u) \/ First(d, fst, u, t)
  BY DEF First, Ranked
<1>2. \A t, u \in s : ~ (First(d, fst, t, u) /\ First(d, fst, u, t))
  BY DEF First, Ranked
<1>3. \A t, u, v \in s : First(d, fst, t, u) /\ First(d, fst, u, v) => First(d, fst, t, v)
  BY DEF First, Ranked
<1>. QED  BY <1>1, <1>2, <1>3

LEMMA BeforeLess ==
  ASSUME NEW d, NEW s, Ranked(d, s), IsFiniteSet(s), NEW fst,
         NEW t \in s, NEW u \in s, First(d, fst, t, u)
  PROVE  Cardinality(Before(d, s, fst, t)) < Cardinality(Before(d, s, fst, u))
<1>1. t # u
  BY FirstOrders
<1>2. t \in Before(d, s, fst, u) /\ t \notin Before(d, s, fst, t)
  BY <1>1 DEF Before
<1>3. Before(d, s, fst, t) \subseteq Before(d, s, fst, u)
  BY FirstOrders DEF Before
<1>4. Before(d, s, fst, t) \subseteq s /\ Before(d, s, fst, u) \subseteq s
  BY DEF Before
<1>5. IsFiniteSet(Before(d, s, fst, t)) /\ IsFiniteSet(Before(d, s, fst, u))
  BY <1>4, FS_Subset
<1>6. /\ Cardinality(Before(d, s, fst, t)) <= Cardinality(Before(d, s, fst, u))
      /\ Cardinality(Before(d, s, fst, t)) # Cardinality(Before(d, s, fst, u))
  BY <1>2, <1>3, <1>5, FS_Subset
<1>7. Cardinality(Before(d, s, fst, t)) \in Nat /\ Cardinality(Before(d, s, fst, u)) \in Nat
  BY <1>5, FS_CardinalityType
<1>. QED  BY <1>6, <1>7

LEMMA LimitIs ==
  ASSUME NEW d, NEW s, NEW k, NEW fst
  PROVE  Limit(d, s, k, fst) = {t \in s : Cardinality(Before(d, s, fst, t)) < k}
BY DEF Limit, Before

LEMMA LimitFits ==
  ASSUME NEW d, NEW s, Ranked(d, s), IsFiniteSet(s), NEW fst, NEW k \in Int
  PROVE  /\ Limit(d, s, k, fst) \subseteq s
         /\ k < 0 => Limit(d, s, k, fst) = {}
         /\ k >= 0 => Cardinality(Limit(d, s, k, fst)) <= k
<1>. DEFINE l == Limit(d, s, k, fst)
            rank == [t \in l |-> Cardinality(Before(d, s, fst, t))]
<1>1. l = {t \in s : Cardinality(Before(d, s, fst, t)) < k}
  BY LimitIs
<1>. HIDE DEF l
<1>2. IsFiniteSet(l) /\ Cardinality(l) \in Nat
  BY <1>1, FS_Subset, FS_CardinalityType
<1>3. \A t \in l : Cardinality(Before(d, s, fst, t)) \in Nat
  <2>1. \A t \in l : Before(d, s, fst, t) \subseteq s
    BY DEF Before
  <2>. QED  BY <2>1, FS_Subset, FS_CardinalityType
<1>4. rank \in [l -> 0 .. k - 1]
  BY <1>1, <1>3
<1>5. \A t, u \in l : t # u => rank[t] # rank[u]
  <2>. SUFFICES ASSUME NEW t \in l, NEW u \in l, t # u PROVE rank[t] # rank[u]
    OBVIOUS
  <2>1. t \in s /\ u \in s
    BY <1>1
  <2>2. First(d, fst, t, u) \/ First(d, fst, u, t)
    BY <2>1, FirstOrders
  <2>3. \/ Cardinality(Before(d, s, fst, t)) < Cardinality(Before(d, s, fst, u))
        \/ Cardinality(Before(d, s, fst, u)) < Cardinality(Before(d, s, fst, t))
    BY <2>1, <2>2, BeforeLess
  <2>. QED  BY <1>3, <2>3
<1>6. k < 0 => l = {}
  BY <1>1, <1>3
<1>7. ASSUME k >= 0 PROVE Cardinality(l) <= k
  <2>1. IsFiniteSet(0 .. k - 1) /\ Cardinality(0 .. k - 1) = k
    BY <1>7, FS_Interval
  <2>2. ~ (Cardinality(0 .. k - 1) < Cardinality(l))
    <3>. HIDE DEF rank
    <3>. QED  BY <1>2, <1>4, <1>5, <2>1, FS_PigeonHole
  <2>. QED  BY <1>2, <2>1, <2>2
<1>8. l \subseteq s
  BY <1>1
<1>. QED  BY <1>6, <1>7, <1>8 DEF l

LEMMA LimitFirst ==
  ASSUME NEW d, NEW s, Ranked(d, s), IsFiniteSet(s), NEW fst, NEW k \in Int,
         Cardinality(s \cap fst) <= k
  PROVE  s \cap fst \subseteq Limit(d, s, k, fst)
<1>. SUFFICES ASSUME NEW t \in s \cap fst PROVE Cardinality(Before(d, s, fst, t)) < k
  BY LimitIs
<1>1. Before(d, s, fst, t) \subseteq (s \cap fst) \ {t}
  BY DEF Before, First
<1>2. IsFiniteSet(s \cap fst) /\ Cardinality(s \cap fst) \in Nat
  BY FS_Intersection, FS_CardinalityType
<1>3. /\ IsFiniteSet((s \cap fst) \ {t})
      /\ Cardinality((s \cap fst) \ {t}) = Cardinality(s \cap fst) - 1
  BY <1>2, FS_RemoveElement
<1>4. Cardinality(Before(d, s, fst, t)) <= Cardinality(s \cap fst) - 1
      /\ IsFiniteSet(Before(d, s, fst, t))
  BY <1>1, <1>3, FS_Subset
<1>5. Cardinality(Before(d, s, fst, t)) \in Nat
  BY <1>4, FS_CardinalityType
<1>. QED  BY <1>2, <1>4, <1>5

-----------------------------------------------------------------------------
(***************************************************************************)
(* The two classes, and the names of a function.                           *)
(***************************************************************************)
Holds(p, names) == \A k \in 1 .. 2 : Cardinality(Mask(p, k, names)) <= Size[k]

LEMMA SizeIs ==
  \A k \in 1 .. 2 : Size[k] \in Nat /\ NSave[k] \in Nat /\ NSave[k] <= Size[k] /\ Zero[k] = 0
<1>1. Cardinality(Gpr) \in Nat /\ Cardinality(Fpr) \in Nat
  BY RegsFinite, FS_CardinalityType
<1>2. /\ IsFiniteSet(RSave \cap Gpr) /\ Cardinality(RSave \cap Gpr) <= Cardinality(Gpr)
      /\ IsFiniteSet(RSave \cap Fpr) /\ Cardinality(RSave \cap Fpr) <= Cardinality(Fpr)
  BY RegsFinite, FS_Intersection
<1>3. Cardinality(RSave \cap Gpr) \in Nat /\ Cardinality(RSave \cap Fpr) \in Nat
  BY <1>2, FS_CardinalityType
<1>. QED  BY <1>1, <1>2, <1>3 DEF Size, NSave, Zero

LEMMA MaskIs ==
  ASSUME NEW p, NEW s
  PROVE  /\ \A k : Mask(p, k, s) \subseteq s
         /\ Mask(p, 1, s) = {t \in s : ~ IsFp(p, t)}
         /\ Mask(p, 2, s) = {t \in s : IsFp(p, t)}
<1>1. \A t : IsFp(p, t) \in BOOLEAN
  BY DEF IsFp
<1>. QED  BY <1>1 DEF Mask

LEMMA MaskSame ==
  ASSUME NEW p, NEW q, p.fp = q.fp, NEW s
  PROVE  /\ \A k : Mask(p, k, s) = Mask(q, k, s)
         /\ Holds(p, s) <=> Holds(q, s)
BY DEF Mask, IsFp, Holds

LEMMA MaskLess ==
  ASSUME NEW p, NEW s, IsFiniteSet(s), NEW r \in SUBSET s, NEW k
  PROVE  /\ IsFiniteSet(Mask(p, k, r)) /\ Cardinality(Mask(p, k, r)) \in Nat
         /\ Cardinality(Mask(p, k, s)) \in Nat
         /\ Cardinality(Mask(p, k, r)) <= Cardinality(Mask(p, k, s))
<1>1. Mask(p, k, r) \subseteq Mask(p, k, s) /\ Mask(p, k, s) \subseteq s
  BY DEF Mask
<1>2. IsFiniteSet(Mask(p, k, s))
  BY <1>1, FS_Subset
<1>3. IsFiniteSet(Mask(p, k, r)) /\ Cardinality(Mask(p, k, r)) <= Cardinality(Mask(p, k, s))
  BY <1>1, <1>2, FS_Subset
<1>. QED  BY <1>2, <1>3, FS_CardinalityType

LEMMA HoldsLess ==
  ASSUME NEW p, NEW s, IsFiniteSet(s), Holds(p, s), NEW r \in SUBSET s
  PROVE  Holds(p, r)
<1>1. \A k \in 1 .. 2 : Size[k] \in Int
  BY SizeIs
<1>2. \A k \in 1 .. 2 : /\ Cardinality(Mask(p, k, r)) \in Int /\ Cardinality(Mask(p, k, s)) \in Int
                        /\ Cardinality(Mask(p, k, r)) <= Cardinality(Mask(p, k, s))
  BY MaskLess
<1>. QED  BY <1>1, <1>2 DEF Holds

InUse(used) == used \in {Zero, NSave}

LEMMA InUseAre == InUse(Zero) /\ InUse(NSave)
BY DEF InUse

\* limit2() makes room.
LEMMA Limit2Is ==
  ASSUME NEW p, NEW d, NEW s, Ranked(d, s), IsFiniteSet(s), NEW used, InUse(used), NEW fst
  PROVE  /\ Limit2(p, d, s, used, fst) \subseteq s
         /\ \A k \in 1 .. 2 :
              /\ Mask(p, k, Limit2(p, d, s, used, fst)) = Limit(d, Mask(p, k, s), Size[k] - used[k], fst)
              /\ Cardinality(Mask(p, k, Limit2(p, d, s, used, fst))) <= Size[k] - used[k]
<1>. DEFINE l(k) == Limit(d, Mask(p, k, s), Size[k] - used[k], fst)
<1>1. \A k \in 1 .. 2 : used[k] \in Nat /\ Size[k] - used[k] \in Int /\ Size[k] - used[k] >= 0
  BY SizeIs DEF InUse
<1>2. \A k \in 1 .. 2 : Ranked(d, Mask(p, k, s)) /\ IsFiniteSet(Mask(p, k, s))
  BY MaskIs, FS_Subset DEF Ranked
<1>3. \A k \in 1 .. 2 : l(k) \subseteq Mask(p, k, s) /\ Cardinality(l(k)) <= Size[k] - used[k]
  BY <1>1, <1>2, LimitFits
<1>4. Limit2(p, d, s, used, fst) = l(1) \cup l(2)
  BY DEF Limit2
<1>. HIDE DEF l
<1>5. l(1) \subseteq {t \in s : ~ IsFp(p, t)} /\ l(2) \subseteq {t \in s : IsFp(p, t)}
  BY <1>3, MaskIs
<1>6. Mask(p, 1, l(1) \cup l(2)) = l(1) /\ Mask(p, 2, l(1) \cup l(2)) = l(2)
  <2>. PICK a, b : a = l(1) /\ b = l(2)
    OBVIOUS
  <2>1. a \subseteq {t \in s : ~ IsFp(p, t)} /\ b \subseteq {t \in s : IsFp(p, t)}
    BY <1>5
  <2>2. Mask(p, 1, a \cup b) = a /\ Mask(p, 2, a \cup b) = b
    BY <2>1, MaskIs
  <2>. QED  BY <2>2
<1>7. \A k \in 1 .. 2 : Mask(p, k, Limit2(p, d, s, used, fst)) = l(k)
  BY <1>4, <1>6
<1>8. Limit2(p, d, s, used, fst) \subseteq s
  BY <1>4, <1>5
<1>. QED  BY <1>3, <1>7, <1>8 DEF l

LEMMA Limit2Holds ==
  ASSUME NEW p, NEW d, NEW s, Ranked(d, s), IsFiniteSet(s), NEW fst
  PROVE  Holds(p, Limit2(p, d, s, Zero, fst))
<1>1. \A k \in 1 .. 2 : Cardinality(Mask(p, k, Limit2(p, d, s, Zero, fst))) <= Size[k] - Zero[k]
  BY InUseAre, Limit2Is
<1>2. \A k \in 1 .. 2 : Size[k] - Zero[k] = Size[k]
  BY SizeIs
<1>. QED  BY <1>1, <1>2 DEF Holds

\* What is to go first is kept, if it fits.
LEMMA Limit2First ==
  ASSUME NEW p, NEW d, NEW s, Ranked(d, s), IsFiniteSet(s), NEW fst \in SUBSET s, Holds(p, fst)
  PROVE  fst \subseteq Limit2(p, d, s, Zero, fst)
<1>1. \A k \in 1 .. 2 : Ranked(d, Mask(p, k, s)) /\ IsFiniteSet(Mask(p, k, s))
  BY MaskIs, FS_Subset DEF Ranked
<1>2. \A k \in 1 .. 2 : Mask(p, k, s) \cap fst = Mask(p, k, fst)
  BY DEF Mask
<1>3. \A k \in 1 .. 2 : /\ Size[k] - Zero[k] \in Int
                        /\ Cardinality(Mask(p, k, s) \cap fst) <= Size[k] - Zero[k]
  <2>1. \A k \in 1 .. 2 : Size[k] - Zero[k] \in Int /\ Size[k] - Zero[k] = Size[k]
    BY SizeIs
  <2>2. \A k \in 1 .. 2 : Cardinality(Mask(p, k, fst)) <= Size[k]
    BY DEF Holds
  <2>. QED  BY <1>2, <2>1, <2>2
<1>4. \A k \in 1 .. 2 : Mask(p, k, fst) \subseteq Limit(d, Mask(p, k, s), Size[k] - Zero[k], fst)
  BY <1>1, <1>2, <1>3, LimitFirst
<1>5. fst = Mask(p, 1, fst) \cup Mask(p, 2, fst)
  BY MaskIs
<1>. QED  BY <1>4, <1>5 DEF Limit2

\* With the registers that a call overwrites, there is room for all of them.
LEMMA SaveHolds ==
  ASSUME NEW p, p.fp \cap Regs = {}, NEW d, NEW s, Ranked(d, s), IsFiniteSet(s), NEW fst
  PROVE  Holds(p, Limit2(p, d, s, NSave, fst) \cup RSave)
<1>. DEFINE kept == Limit2(p, d, s, NSave, fst)
<1>1. /\ kept \subseteq s
      /\ \A k \in 1 .. 2 : Cardinality(Mask(p, k, kept)) <= Size[k] - NSave[k]
  BY InUseAre, Limit2Is
<1>. HIDE DEF kept
<1>2. IsFiniteSet(kept)
  BY <1>1, FS_Subset
<1>3. Mask(p, 1, RSave) = RSave \cap Gpr /\ Mask(p, 2, RSave) = RSave \cap Fpr
  <2>1. RSave \subseteq Gpr \cup Fpr /\ Gpr \cap Fpr = {}
    BY RegsAssumption DEF Regs
  <2>2. \A t \in RSave : IsFp(p, t) <=> t \in Fpr
    BY <2>1 DEF IsFp, Regs
  <2>. QED  BY <2>1, <2>2, MaskIs
<1>4. \A k \in 1 .. 2 : IsFiniteSet(Mask(p, k, RSave)) /\ Cardinality(Mask(p, k, RSave)) = NSave[k]
  <2>1. IsFiniteSet(RSave \cap Gpr) /\ IsFiniteSet(RSave \cap Fpr)
    BY RegsFinite, FS_Intersection
  <2>2. NSave[1] = Cardinality(RSave \cap Gpr) /\ NSave[2] = Cardinality(RSave \cap Fpr)
    BY DEF NSave
  <2>. QED  BY <1>3, <2>1, <2>2
<1>5. ASSUME NEW k \in 1 .. 2
      PROVE  Cardinality(Mask(p, k, kept \cup RSave)) <= Size[k]
  <2>1. Mask(p, k, kept \cup RSave) = Mask(p, k, kept) \cup Mask(p, k, RSave)
    BY DEF Mask
  <2>2. IsFiniteSet(Mask(p, k, kept)) /\ Cardinality(Mask(p, k, kept)) \in Int
    BY <1>2, MaskLess
  <2>3. IsFiniteSet(Mask(p, k, kept) \cap Mask(p, k, RSave))
    BY <2>2, FS_Intersection
  <2>4. Cardinality(Mask(p, k, kept) \cap Mask(p, k, RSave)) \in Nat
    BY <2>3, FS_CardinalityType
  <2>5. Cardinality(Mask(p, k, kept) \cup Mask(p, k, RSave)) =
          Cardinality(Mask(p, k, kept)) + Cardinality(Mask(p, k, RSave))
            - Cardinality(Mask(p, k, kept) \cap Mask(p, k, RSave))
    BY <1>4, <2>2, FS_Union
  <2>6. Size[k] \in Int /\ NSave[k] \in Int
    BY SizeIs
  <2>7. Cardinality(Mask(p, k, kept)) <= Size[k] - NSave[k] /\ Cardinality(Mask(p, k, RSave)) = NSave[k]
    BY <1>1, <1>4
  <2>. PICK all, a, b, ab, n, m :
         /\ all = Cardinality(Mask(p, k, kept \cup RSave)) /\ a = Cardinality(Mask(p, k, kept))
         /\ b = Cardinality(Mask(p, k, RSave)) /\ n = Size[k] /\ m = NSave[k]
         /\ ab = Cardinality(Mask(p, k, kept) \cap Mask(p, k, RSave))
    OBVIOUS
  <2>8. all = a + b - ab /\ b = m /\ a <= n - m
    BY <2>1, <2>5, <2>7
  <2>9. a \in Int /\ ab \in Nat /\ n \in Int /\ m \in Int
    BY <2>2, <2>4, <2>6
  <2>10. all <= n
    BY <2>8, <2>9
  <2>. QED  BY <2>10
<1>. QED  BY <1>5 DEF Holds, kept

LEMMA ImageFinite ==
  ASSUME NEW I, IsFiniteSet(I), NEW h, h = [e \in I |-> h[e]]
  PROVE  IsFiniteSet({h[e] : e \in I})
<1>. DEFINE T == {h[e] : e \in I}
<1>1. h \in Surjection(I, T)
  BY DEF Surjection
<1>. HIDE DEF T
<1>2. IsFiniteSet(T)
  BY <1>1, FS_Surjection
<1>. QED  BY <1>2 DEF T

LEMMA NamedFinite ==
  ASSUME NEW r
  PROVE  IsFiniteSet(Named(r))
<1>1. IsFiniteSet({r[2], r[3]})
  <2>1. IsFiniteSet({r[2]})
    BY FS_Singleton
  <2>2. {r[2]} \cup {r[3]} = {r[2], r[3]}
    OBVIOUS
  <2>. QED  BY <2>1, <2>2, FS_AddElement
<1>2. Named(r) \subseteq {r[2], r[3]}
  BY DEF Named, Id
<1>. QED  BY <1>1, <1>2, FS_Subset

LEMMA RefIs ==
  /\ \A r \in Refs : Id(r) \in Int /\ r[3] \in Int
  /\ R \in Refs /\ R \in Dests
  /\ \A t \in Int : Tm(t) \in Refs /\ Slot(t) \in Refs /\ Tm(t) \in Dests /\ Slot(t) \in Dests
<1>1. \A r \in Refs : Id(r) \in Int /\ r[3] \in Int
  BY DEF Refs, Id
<1>2. R \in Refs /\ \A t \in Int : Tm(t) \in Refs /\ Slot(t) \in Refs
  BY DEF Refs, Kinds, R, Tm, Slot
<1>3. R[1] # "mem" /\ \A t : Tm(t)[1] # "mem" /\ Slot(t)[1] # "mem"
  BY DEF R, Tm, Slot
<1>. QED  BY <1>1, <1>2, <1>3 DEF Dests

LEMMA InstrIs ==
  ASSUME NEW i \in Instr
  PROVE  /\ i.to \in Refs /\ i.arg \in Refs \X Refs /\ i.arg[1] \in Refs /\ i.arg[2] \in Refs
         /\ i.rets \in SUBSET Regs /\ i.args \in SUBSET Regs /\ ~ IsMem(i.to)
BY DEF Instr, Dests, IsMem

LEMMA ProgramIs ==
  ASSUME NEW p \in Programs
  PROVE  /\ IsFiniteSet(Blocks(p)) /\ Blocks(p) = 0 .. Cardinality(Blocks(p)) - 1
         /\ Cardinality(Blocks(p)) \in Nat
         /\ \A b \in Blocks(p) : /\ Succs(p, b) \subseteq Blocks(p)
                                 /\ PhisGiven(p, b) /\ JmpGiven(p, b)
                                 /\ p.phi[b] \in Seq(PhiSet(p)) /\ p.ins[b] \in Seq(Instr)
                                 /\ \A n \in DOMAIN p.ins[b] : InsGiven(p, p.ins[b][n])
<1>1. /\ IsFiniteSet(Blocks(p)) /\ Blocks(p) = 0 .. Cardinality(Blocks(p)) - 1
      /\ p.ins \in [Blocks(p) -> Seq(Instr)]
      /\ p.s1 \in [Blocks(p) -> Blocks(p) \cup {None}]
      /\ p.s2 \in [Blocks(p) -> Blocks(p) \cup {None}]
      /\ \A b \in Blocks(p) : /\ PhisGiven(p, b) /\ JmpGiven(p, b)
                              /\ \A n \in DOMAIN p.ins[b] : InsGiven(p, p.ins[b][n])
  BY ProgramsAssumption
<1>2. \A b \in Blocks(p) : Succs(p, b) \subseteq Blocks(p)
  BY <1>1 DEF Succs
<1>3. \A b \in Blocks(p) : p.phi[b] \in Seq(PhiSet(p))
  BY <1>1 DEF PhisGiven
<1>4. \A b \in Blocks(p) : p.ins[b] \in Seq(Instr)
  BY <1>1
<1>. QED  BY <1>1, <1>2, <1>3, <1>4, FS_CardinalityType

LEMMA PhiIs ==
  ASSUME NEW p, NEW q \in PhiSet(p)
  PROVE  q.to \in Refs /\ q.arg \in Seq(Blocks(p) \X Refs)
BY DEF PhiSet

LEMMA PoolIs ==
  ASSUME NEW p \in Programs
  PROVE  /\ IsFiniteSet(Pool(p)) /\ Pool(p) \subseteq Int
         /\ AllTemps(p) \subseteq Pool(p) /\ Regs \subseteq Pool(p)
         /\ \A t \in Pool(p) : t >= Tmp0 <=> t \in AllTemps(p)
         /\ \A t \in Pool(p) : t < Tmp0 <=> t \in Regs
         /\ p.fp \cap Regs = {}
<1>1. ASSUME NEW b \in Blocks(p) PROVE IsFiniteSet(Defs(p, b)) /\ Defs(p, b) \subseteq Int
  <2>. DEFINE g == [n \in DOMAIN p.phi[b] |-> Id(p.phi[b][n].to)]
              h == [n \in DOMAIN p.ins[b] |-> Id(p.ins[b][n].to)]
  <2>1. p.phi[b] \in Seq(PhiSet(p)) /\ p.ins[b] \in Seq(Instr)
    BY ProgramIs
  <2>2. DOMAIN p.phi[b] = 1 .. Len(p.phi[b]) /\ DOMAIN p.ins[b] = 1 .. Len(p.ins[b])
        /\ Len(p.phi[b]) \in Nat /\ Len(p.ins[b]) \in Nat
    BY <2>1
  <2>3. IsFiniteSet(DOMAIN p.phi[b]) /\ IsFiniteSet(DOMAIN p.ins[b])
    <3>1. \A n \in Nat : IsFiniteSet(1 .. n)
      <4>1. \A n \in Nat : 1 \in Int /\ n \in Int
        OBVIOUS
      <4>. QED  BY <4>1, FS_Interval
    <3>. QED  BY <2>2, <3>1
  <2>4. (\A n \in DOMAIN p.phi[b] : Id(p.phi[b][n].to) \in Int)
        /\ (\A n \in DOMAIN p.ins[b] : Id(p.ins[b][n].to) \in Int)
    <3>1. \A n \in DOMAIN p.phi[b] : p.phi[b][n] \in PhiSet(p)
      BY <2>1
    <3>2. \A n \in DOMAIN p.ins[b] : p.ins[b][n] \in Instr
      BY <2>1
    <3>. QED  BY <3>1, <3>2, PhiIs, InstrIs, RefIs
  <2>5. IsFiniteSet({g[n] : n \in DOMAIN p.phi[b]}) /\ IsFiniteSet({h[n] : n \in DOMAIN p.ins[b]})
    <3>1. g = [n \in DOMAIN p.phi[b] |-> g[n]] /\ h = [n \in DOMAIN p.ins[b] |-> h[n]]
      OBVIOUS
    <3>. HIDE DEF g, h
    <3>. QED  BY <2>3, <3>1, ImageFinite
  <2>6. Defs(p, b) \subseteq {g[n] : n \in DOMAIN p.phi[b]} \cup {h[n] : n \in DOMAIN p.ins[b]}
    BY DEF Defs
  <2>7. IsFiniteSet(Defs(p, b))
    <3>. HIDE DEF g, h
    <3>1. IsFiniteSet({g[n] : n \in DOMAIN p.phi[b]} \cup {h[n] : n \in DOMAIN p.ins[b]})
      BY <2>5, FS_Union
    <3>. QED  BY <2>6, <3>1, FS_Subset
  <2>8. Defs(p, b) \subseteq Int
    BY <2>4 DEF Defs
  <2>. QED  BY <2>7, <2>8
<1>2. IsFiniteSet(Temps(p))
  <2>. DEFINE d == [b \in Blocks(p) |-> Defs(p, b)]
              T == {d[b] : b \in Blocks(p)}
  <2>1. d = [b \in Blocks(p) |-> d[b]] /\ IsFiniteSet(Blocks(p))
    BY ProgramIs
  <2>2. \A b \in Blocks(p) : IsFiniteSet(d[b])
    BY <1>1
  <2>3. Temps(p) = UNION T
    BY DEF Temps
  <2>. HIDE DEF d
  <2>4. IsFiniteSet(T)
    BY <2>1, ImageFinite
  <2>5. \A t \in T : IsFiniteSet(t)
    BY <2>2
  <2>. HIDE DEF T
  <2>. QED  BY <2>3, <2>4, <2>5, FS_UNION
<1>3. Temps(p) \subseteq Int
  BY <1>1 DEF Temps
<1>4. AllTemps(p) \subseteq Temps(p) /\ \A t \in AllTemps(p) : t \in Int /\ t >= Tmp0
  BY <1>3 DEF AllTemps
<1>5. IsFiniteSet(AllTemps(p))
  BY <1>2, <1>4, FS_Subset
<1>6. IsFiniteSet(Pool(p))
  BY <1>5, RegsFinite, FS_Union DEF Pool
<1>7. Tmp0 \in Int /\ p.fp \subseteq AllTemps(p)
  BY RegsAssumption, ProgramsAssumption
<1>8. \A t \in Regs : t \in Int /\ t < Tmp0
  BY RegsFinite
<1>. QED  BY <1>4, <1>6, <1>7, <1>8 DEF Pool

(***************************************************************************)
(* Walking over code from its end, with no more live than Uses says.       *)
(***************************************************************************)
Freed(i) == IF i.op = "call" THEN RSave \ i.args ELSE Results(i)
SetIn(D, g)  == UNION {Results(D[k]) : k \in g}
ReadIn(D, g) == UNION {Operands(D[k]) : k \in g}
HeldAt(D, k) == IF k > 1 /\ D[k - 1].op = "call" THEN RSave \ D[k - 1].rets ELSE {}
GroupUses(D, n, l) ==
  (l \ SetIn(D, GroupAt(D, n))) \cup ReadIn(D, GroupAt(D, n)) \cup HeldAt(D, Min(GroupAt(D, n)))
Uses(D, n, l) ==
  IF RegCpy(D[n]) THEN IF GroupEnd(D, n) THEN GroupUses(D, n, l) ELSE l
  ELSE (l \ Freed(D[n])) \cup Operands(D[n])
Walked(D, y) == \A n \in 1 .. Len(D) : y[n] \subseteq Uses(D, n, y[n + 1])

\* Code that stands at the end of D, after k instructions.  What is before it
\* is in the group of copies that it begins with only if first says so.
EndsWith(D, k, code) ==
  /\ D \in Seq(Instr) /\ k \in Nat /\ Len(D) = k + Len(code)
  /\ \A j \in 1 .. Len(code) : D[k + j] = code[j]
Joint(D, k, first) ==
  k \in 1 .. Len(D) - 1 /\ RegCpy(D[k + 1]) =>
    ~ RegCpy(D[k]) /\ (D[k].op = "call" => first)

\* With no more than E live at the end, code has room everywhere, and no more
\* than H is live before it.
RoomIn(p, code, E, H, first, D, k, y) ==
  EndsWith(D, k, code) /\ Joint(D, k, first) /\ Walked(D, y) /\ y[Len(D) + 1] \subseteq E =>
    /\ y[k + 1] \subseteq H
    /\ \A j \in k + 1 .. Len(D) + 1 : Holds(p, y[j])
Room(p, code, E, H, first) ==
  \A D, k, y : RoomIn(p, code, E, H, first, D, k, y)

LEMMA RoomEmpty ==
  ASSUME NEW p, NEW E, IsFiniteSet(E), Holds(p, E), NEW first
  PROVE  Room(p, << >>, E, E, first)
<1>. SUFFICES ASSUME NEW D, NEW k, NEW y, EndsWith(D, k, << >>), y[Len(D) + 1] \subseteq E
              PROVE  /\ y[k + 1] \subseteq E
                     /\ \A j \in k + 1 .. Len(D) + 1 : Holds(p, y[j])
  BY DEF Room, RoomIn
<1>1. Len(D) = k /\ k \in Nat
  BY DEF EndsWith
<1>2. \A j \in k + 1 .. Len(D) + 1 : j = k + 1
  BY <1>1
<1>3. y[k + 1] \in SUBSET E
  BY <1>1
<1>. QED  BY <1>2, <1>3, HoldsLess

LEMMA RoomMore ==
  ASSUME NEW p, NEW code, NEW E, NEW H, NEW H2, H \subseteq H2, NEW first, NEW first2,
         first2 => first, Room(p, code, E, H, first)
  PROVE  Room(p, code, E, H2, first2)
<1>. SUFFICES ASSUME NEW D, NEW k, NEW y PROVE RoomIn(p, code, E, H2, first2, D, k, y)
  BY DEF Room
<1>1. RoomIn(p, code, E, H, first, D, k, y)
  BY DEF Room
<1>2. Joint(D, k, first2) => Joint(D, k, first)
  BY DEF Joint
<1>. QED  BY <1>1, <1>2 DEF RoomIn

\* An instruction that is no copy from a register.
InsRoom(p, i, code, first, E, H, H2) ==
  /\ i \in Instr /\ ~ RegCpy(i) /\ code \in Seq(Instr) /\ Room(p, code, E, H, first)
  /\ i.op = "call" /\ code # << >> /\ RegCpy(code[1]) => first
  /\ IsFiniteSet(H2) /\ Holds(p, H2) /\ (H \ Freed(i)) \cup Operands(i) \subseteq H2

LEMMA RoomIns ==
  ASSUME NEW p, NEW i, NEW code, NEW first, NEW E, NEW H, NEW H2,
         InsRoom(p, i, code, first, E, H, H2), NEW first2
  PROVE  Room(p, <<i>> \o code, E, H2, first2)
<1>. USE DEF InsRoom
<1>. SUFFICES ASSUME NEW D, NEW k, NEW y, EndsWith(D, k, <<i>> \o code), Walked(D, y),
                     y[Len(D) + 1] \subseteq E
              PROVE  /\ y[k + 1] \subseteq H2
                     /\ \A j \in k + 1 .. Len(D) + 1 : Holds(p, y[j])
  BY DEF Room, RoomIn
<1>1. /\ Len(code) \in Nat /\ Len(<<i>> \o code) = 1 + Len(code) /\ (<<i>> \o code)[1] = i
      /\ \A j \in 1 .. Len(code) : 1 + j \in 1 .. Len(<<i>> \o code) /\ (<<i>> \o code)[1 + j] = code[j]
  OBVIOUS
<1>2. k \in Nat /\ Len(D) = k + 1 + Len(code) /\ D[k + 1] = i
      /\ \A j \in 1 .. Len(code) : D[k + (1 + j)] = code[j]
  <2>. PICK all : all = <<i>> \o code
    OBVIOUS
  <2>1. /\ k \in Nat /\ Len(D) = k + Len(all)
        /\ \A j \in 1 .. Len(all) : D[k + j] = all[j]
    BY DEF EndsWith
  <2>2. 1 \in 1 .. Len(all)
    BY <1>1
  <2>3. Len(all) = 1 + Len(code) /\ all[1] = i
    BY <1>1
  <2>4. \A j \in 1 .. Len(code) : 1 + j \in 1 .. Len(all) /\ all[1 + j] = code[j]
    BY <1>1
  <2>5. D[k + 1] = i /\ \A j \in 1 .. Len(code) : D[k + (1 + j)] = code[j]
    BY <2>1, <2>2, <2>3, <2>4
  <2>6. Len(D) = k + 1 + Len(code)
    BY <1>1, <2>1, <2>3
  <2>. QED  BY <2>1, <2>5, <2>6
<1>3. EndsWith(D, k + 1, code)
  <2>1. \A j \in 1 .. Len(code) : k + 1 + j = k + (1 + j)
    BY <1>1, <1>2
  <2>. QED  BY <1>1, <1>2, <2>1 DEF EndsWith
<1>4. Joint(D, k + 1, first)
  <2>. SUFFICES ASSUME k + 1 \in 1 .. Len(D) - 1, RegCpy(D[k + 1 + 1])
                PROVE  ~ RegCpy(D[k + 1]) /\ (D[k + 1].op = "call" => first)
    BY DEF Joint
  <2>1. Len(code) >= 1 /\ 1 \in 1 .. Len(code) /\ k + (1 + 1) = k + 1 + 1
    BY <1>1, <1>2
  <2>2. D[k + 1 + 1] = code[1] /\ code # << >>
    BY <1>2, <2>1
  <2>. QED  BY <1>2, <2>2
<1>5. RoomIn(p, code, E, H, first, D, k + 1, y)
  BY DEF Room
<1>6. y[k + 1 + 1] \subseteq H /\ \A j \in k + 1 + 1 .. Len(D) + 1 : Holds(p, y[j])
  BY <1>3, <1>4, <1>5 DEF RoomIn
<1>7. k + 1 \in 1 .. Len(D)
  BY <1>1, <1>2
<1>8. y[k + 1] \subseteq (y[k + 1 + 1] \ Freed(i)) \cup Operands(i)
  BY <1>2, <1>7 DEF Walked, Uses
<1>9. y[k + 1] \in SUBSET H2
  BY <1>6, <1>8
<1>10. Holds(p, y[k + 1])
  BY <1>9, HoldsLess
<1>11. \A j \in k + 1 .. Len(D) + 1 : j = k + 1 \/ j \in k + 1 + 1 .. Len(D) + 1
  BY <1>1, <1>2
<1>. QED  BY <1>6, <1>9, <1>10, <1>11

\* Instructions that are neither copies from registers nor calls, with no more
\* than q[j] live before the j-th of them.
LEMMA RoomPlain ==
  ASSUME NEW p, NEW P \in Seq(Instr), NEW code \in Seq(Instr), NEW first,
         \A j \in 1 .. Len(P) : ~ RegCpy(P[j]) /\ P[j].op # "call",
         NEW E, NEW H, Room(p, code, E, H, first),
         NEW q, q[Len(P) + 1] = H,
         \A j \in 1 .. Len(P) : /\ (q[j + 1] \ Freed(P[j])) \cup Operands(P[j]) \subseteq q[j]
                                /\ IsFiniteSet(q[j]) /\ Holds(p, q[j])
  PROVE  Room(p, P \o code, E, q[1], first)
<1>. SUFFICES ASSUME NEW D, NEW k, NEW y, EndsWith(D, k, P \o code), Joint(D, k, first),
                     Walked(D, y), y[Len(D) + 1] \subseteq E
              PROVE  /\ y[k + 1] \subseteq q[1]
                     /\ \A j \in k + 1 .. Len(D) + 1 : Holds(p, y[j])
  BY DEF Room, RoomIn
<1>. DEFINE m == Len(P)
<1>1. /\ m \in Nat /\ Len(code) \in Nat /\ Len(P \o code) = m + Len(code)
      /\ \A j \in 1 .. m : j \in 1 .. Len(P \o code) /\ (P \o code)[j] = P[j]
      /\ \A j \in 1 .. Len(code) : m + j \in 1 .. Len(P \o code) /\ (P \o code)[m + j] = code[j]
  OBVIOUS
<1>2. /\ k \in Nat /\ Len(D) = k + (m + Len(code))
      /\ \A j \in 1 .. m : D[k + j] = P[j]
      /\ \A j \in 1 .. Len(code) : D[k + (m + j)] = code[j]
  BY <1>1 DEF EndsWith
<1>. HIDE DEF m
<1>3. EndsWith(D, k + m, code)
  <2>1. (\A j \in 1 .. Len(code) : k + m + j = k + (m + j)) /\ k + m \in Nat
        /\ Len(D) = k + m + Len(code)
    BY <1>1, <1>2
  <2>. QED  BY <1>1, <1>2, <2>1 DEF EndsWith
<1>4. Joint(D, k + m, first)
  <2>1. CASE m = 0
    BY <1>2, <2>1
  <2>2. CASE m # 0
    <3>1. m \in 1 .. m
      BY <1>1, <2>2
    <3>2. D[k + m] = P[m] /\ ~ RegCpy(P[m]) /\ P[m].op # "call"
      BY <1>2, <3>1 DEF m
    <3>. QED  BY <3>2 DEF Joint
  <2>. QED  BY <2>1, <2>2
<1>5. y[k + m + 1] \subseteq H /\ \A j \in k + m + 1 .. Len(D) + 1 : Holds(p, y[j])
  <2>1. RoomIn(p, code, E, H, first, D, k + m, y)
    BY DEF Room
  <2>. QED  BY <1>3, <1>4, <2>1 DEF RoomIn
<1>. DEFINE T == {j \in 1 .. m + 1 : y[k + j] \subseteq q[j]}
<1>6. m + 1 \in T
  <2>1. k + m + 1 = k + (m + 1) /\ m + 1 \in 1 .. m + 1
    BY <1>1, <1>2
  <2>. QED  BY <1>5, <2>1 DEF m
<1>7. ASSUME NEW j \in 1 .. m, j + 1 \in T PROVE j \in T
  <2>1. k + j \in 1 .. Len(D) /\ k + j + 1 = k + (j + 1) /\ D[k + j] = P[j] /\ j \in 1 .. m + 1
    BY <1>1, <1>2
  <2>2. y[k + j] \subseteq (y[k + (j + 1)] \ Freed(P[j])) \cup Operands(P[j])
    BY <2>1 DEF Walked, Uses, m
  <2>3. y[k + (j + 1)] \subseteq q[j + 1]
    BY <1>7
  <2>4. (q[j + 1] \ Freed(P[j])) \cup Operands(P[j]) \subseteq q[j]
    BY DEF m
  <2>. QED  BY <2>1, <2>2, <2>3, <2>4
<1>8. \A j \in 1 .. m + 1 : y[k + j] \in SUBSET q[j]
  <2>1. \A j \in 1 .. m + 1 : j \in T
    <3>. HIDE DEF T
    <3>. QED  BY <1>1, <1>6, <1>7, Descend
  <2>. QED  BY <2>1
<1>9. \A j \in 1 .. m : Holds(p, y[k + j])
  <2>1. \A j \in 1 .. m : j \in 1 .. m + 1
    BY <1>1
  <2>. QED  BY <1>8, <2>1, HoldsLess DEF m
<1>10. \A j \in k + 1 .. Len(D) + 1 : (j - k \in 1 .. m /\ k + (j - k) = j) \/ j \in k + m + 1 .. Len(D) + 1
  BY <1>1, <1>2
<1>11. 1 \in 1 .. m + 1
  BY <1>1
<1>12. \A j \in k + 1 .. Len(D) + 1 : Holds(p, y[j])
  BY <1>5, <1>9, <1>10
<1>. QED  BY <1>8, <1>11, <1>12
\* A group of copies from registers.
LEMMA GroupIs ==
  ASSUME NEW D, NEW k \in Nat, NEW m \in Nat, m # 0,
         \A j \in k + 1 .. k + m : RegCpy(D[j]), k # 0 => ~ RegCpy(D[k])
  PROVE  /\ GroupAt(D, k + m) = k + 1 .. k + m
         /\ Min(GroupAt(D, k + m)) = k + 1
<1>1. ASSUME NEW q \in 1 .. k + m, \A j \in q .. k + m : RegCpy(D[j]) PROVE q \in k + 1 .. k + m
  <2>. SUFFICES ASSUME q <= k PROVE FALSE
    OBVIOUS
  <2>1. k \in q .. k + m /\ k # 0
    OBVIOUS
  <2>. QED  BY <1>1, <2>1
<1>2. ASSUME NEW q \in k + 1 .. k + m
      PROVE  q \in 1 .. k + m /\ \A j \in q .. k + m : RegCpy(D[j])
  <2>1. \A j \in q .. k + m : j \in k + 1 .. k + m
    OBVIOUS
  <2>. QED  BY <2>1
<1>3. GroupAt(D, k + m) = k + 1 .. k + m
  BY <1>1, <1>2 DEF GroupAt
<1>4. k + m \in Nat /\ k + 1 \in 1 .. k + m
  OBVIOUS
<1>5. Min(k + 1 .. k + m) = k + 1
  BY <1>4, MinIs
<1>. QED  BY <1>3, <1>5

LEMMA HeldIs ==
  ASSUME NEW D, NEW k
  PROVE  /\ HeldAt(D, k) \subseteq RSave
         /\ HeldAt(D, k) = {} \/ (k > 1 /\ D[k - 1].op = "call")
BY DEF HeldAt

LEMMA RoomGroup ==
  ASSUME NEW p, NEW P \in Seq(Instr), P # << >>, \A j \in 1 .. Len(P) : RegCpy(P[j]),
         NEW code \in Seq(Instr), code # << >> => ~ RegCpy(code[1]),
         NEW E, NEW H, NEW first0, Room(p, code, E, H, first0),
         NEW first, NEW H2, IsFiniteSet(H2), Holds(p, H2),
         (H \ SetIn(P, DOMAIN P)) \cup ReadIn(P, DOMAIN P) \cup (IF first THEN RSave ELSE {}) \subseteq H2
  PROVE  Room(p, P \o code, E, H2, first)
<1>. SUFFICES ASSUME NEW D, NEW k, NEW y, EndsWith(D, k, P \o code), Joint(D, k, first),
                     Walked(D, y), y[Len(D) + 1] \subseteq E
              PROVE  /\ y[k + 1] \subseteq H2
                     /\ \A j \in k + 1 .. Len(D) + 1 : Holds(p, y[j])
  BY DEF Room, RoomIn
<1>. DEFINE m == Len(P)
<1>1. /\ m \in Nat /\ m # 0 /\ Len(code) \in Nat /\ Len(P \o code) = m + Len(code)
      /\ DOMAIN P = 1 .. m
      /\ \A j \in 1 .. m : j \in 1 .. Len(P \o code) /\ (P \o code)[j] = P[j]
      /\ \A j \in 1 .. Len(code) : m + j \in 1 .. Len(P \o code) /\ (P \o code)[m + j] = code[j]
  OBVIOUS
<1>2. /\ k \in Nat /\ Len(D) = k + (m + Len(code))
      /\ \A j \in 1 .. m : D[k + j] = P[j]
      /\ \A j \in 1 .. Len(code) : D[k + (m + j)] = code[j]
  BY <1>1 DEF EndsWith
<1>. HIDE DEF m
<1>3. EndsWith(D, k + m, code)
  <2>1. (\A j \in 1 .. Len(code) : k + m + j = k + (m + j)) /\ k + m \in Nat
        /\ Len(D) = k + m + Len(code)
    BY <1>1, <1>2
  <2>. QED  BY <1>1, <1>2, <2>1 DEF EndsWith
<1>4. k + m \in 1 .. Len(D) - 1 => ~ RegCpy(D[k + m + 1])
  <2>. SUFFICES ASSUME k + m \in 1 .. Len(D) - 1 PROVE ~ RegCpy(D[k + m + 1])
    OBVIOUS
  <2>1. 1 \in 1 .. Len(code) /\ k + (m + 1) = k + m + 1
    BY <1>1, <1>2
  <2>2. D[k + m + 1] = code[1] /\ code # << >>
    BY <1>2, <2>1
  <2>. QED  BY <2>2
<1>5. y[k + m + 1] \subseteq H /\ \A j \in k + m + 1 .. Len(D) + 1 : Holds(p, y[j])
  <2>1. RoomIn(p, code, E, H, first0, D, k + m, y)
    BY DEF Room
  <2>2. Joint(D, k + m, first0)
    BY <1>4 DEF Joint
  <2>. QED  BY <1>3, <2>1, <2>2 DEF RoomIn
<1>6. /\ \A j \in k + 1 .. k + m : RegCpy(D[j])
      /\ k # 0 => ~ RegCpy(D[k]) /\ (D[k].op = "call" => first)
  <2>1. \A j \in k + 1 .. k + m : j - k \in 1 .. m /\ k + (j - k) = j
    BY <1>1, <1>2
  <2>2. \A j \in k + 1 .. k + m : RegCpy(D[j])
    BY <1>2, <2>1 DEF m
  <2>3. k + 1 \in k + 1 .. k + m /\ (k # 0 => k \in 1 .. Len(D) - 1)
    BY <1>1, <1>2
  <2>. QED  BY <2>2, <2>3 DEF Joint
<1>7. GroupAt(D, k + m) = k + 1 .. k + m /\ Min(GroupAt(D, k + m)) = k + 1
  <2>1. k # 0 => ~ RegCpy(D[k])
    BY <1>6
  <2>2. \A j \in k + 1 .. k + m : RegCpy(D[j])
    BY <1>6
  <2>3. k \in Nat /\ m \in Nat /\ m # 0
    BY <1>1, <1>2
  <2>. QED  BY <2>1, <2>2, <2>3, GroupIs
<1>8. /\ SetIn(D, k + 1 .. k + m) = SetIn(P, DOMAIN P)
      /\ ReadIn(D, k + 1 .. k + m) = ReadIn(P, DOMAIN P)
  <2>1. (\A j \in k + 1 .. k + m : j - k \in 1 .. m /\ D[j] = P[j - k])
        /\ \A j \in 1 .. m : k + j \in k + 1 .. k + m /\ D[k + j] = P[j]
    <3>1. \A j \in k + 1 .. k + m : j - k \in 1 .. m /\ k + (j - k) = j
      BY <1>1, <1>2
    <3>2. \A j \in 1 .. m : k + j \in k + 1 .. k + m
      BY <1>1, <1>2
    <3>. QED  BY <1>2, <3>1, <3>2
  <2>2. DOMAIN P = 1 .. m
    BY <1>1
  <2>3. UNION {Results(D[j]) : j \in k + 1 .. k + m} = UNION {Results(P[j]) : j \in 1 .. m}
    BY <2>1
  <2>4. UNION {Operands(D[j]) : j \in k + 1 .. k + m} = UNION {Operands(P[j]) : j \in 1 .. m}
    BY <2>1
  <2>. QED  BY <2>2, <2>3, <2>4 DEF SetIn, ReadIn
<1>9. GroupUses(D, k + m, y[k + m + 1]) \subseteq H2
  <2>1. GroupUses(D, k + m, y[k + m + 1]) =
          (y[k + m + 1] \ SetIn(P, DOMAIN P)) \cup ReadIn(P, DOMAIN P) \cup HeldAt(D, k + 1)
    BY <1>7, <1>8 DEF GroupUses
  <2>2. HeldAt(D, k + 1) \subseteq (IF first THEN RSave ELSE {})
    <3>1. k + 1 - 1 = k /\ (k + 1 > 1 => k # 0)
      BY <1>2
    <3>2. ASSUME k + 1 > 1, D[k + 1 - 1].op = "call" PROVE first
      BY <1>6, <3>1, <3>2
    <3>3. HeldAt(D, k + 1) \subseteq RSave
      BY HeldIs
    <3>4. CASE first
      BY <3>3, <3>4
    <3>5. CASE ~ first
      <4>. PICK h : h = k + 1
        OBVIOUS
      <4>1. h \in Int /\ ~ (h > 1 /\ D[h - 1].op = "call")
        BY <1>2, <3>2, <3>5
      <4>2. HeldAt(D, h) = {}
        BY <4>1, HeldIs
      <4>. QED  BY <4>2
    <3>. QED  BY <3>4, <3>5
  <2>. QED  BY <1>5, <2>1, <2>2
<1>. DEFINE T == {j \in 1 .. m : y[k + j] \subseteq H2}
<1>10. m \in T
  <2>1. GroupEnd(D, k + m)
    <3>1. k + m = Len(D) \/ k + m \in 1 .. Len(D) - 1
      BY <1>1, <1>2
    <3>2. k + m \in k + 1 .. k + m
      BY <1>1, <1>2
    <3>. QED  BY <1>4, <1>6, <3>1, <3>2 DEF GroupEnd
  <2>2. k + m \in 1 .. Len(D) /\ m \in 1 .. m /\ k + m \in k + 1 .. k + m
    BY <1>1, <1>2
  <2>3. y[k + m] \subseteq GroupUses(D, k + m, y[k + m + 1])
    BY <1>6, <2>1, <2>2 DEF Walked, Uses
  <2>. QED  BY <1>9, <2>2, <2>3
<1>11. ASSUME NEW j \in 1 .. m - 1, j + 1 \in T PROVE j \in T
  <2>1. /\ k + j \in 1 .. Len(D) /\ k + j # Len(D) /\ k + j + 1 = k + (j + 1) /\ j \in 1 .. m
        /\ k + j \in k + 1 .. k + m /\ k + (j + 1) \in k + 1 .. k + m
    BY <1>1, <1>2
  <2>2. RegCpy(D[k + j]) /\ ~ GroupEnd(D, k + j)
    BY <1>6, <2>1 DEF GroupEnd
  <2>3. y[k + j] \subseteq y[k + (j + 1)]
    BY <2>1, <2>2 DEF Walked, Uses
  <2>. QED  BY <1>11, <2>1, <2>3
<1>12. \A j \in 1 .. m : y[k + j] \in SUBSET H2
  <2>. HIDE DEF T
  <2>1. m - 1 \in Nat /\ (m - 1) + 1 = m
    BY <1>1
  <2>2. \A j \in 1 .. m - 1 + 1 : j \in T
    BY <1>10, <1>11, <2>1, Descend
  <2>3. \A j \in 1 .. m : j \in T
    BY <2>1, <2>2
  <2>. QED  BY <2>3 DEF T
<1>13. \A j \in 1 .. m : Holds(p, y[k + j])
  BY <1>12, HoldsLess
<1>14. \A j \in k + 1 .. Len(D) + 1 : (j - k \in 1 .. m /\ k + (j - k) = j) \/ j \in k + m + 1 .. Len(D) + 1
  BY <1>1, <1>2
<1>15. \A j \in k + 1 .. Len(D) + 1 : Holds(p, y[j])
  BY <1>5, <1>13, <1>14
<1>16. 1 \in 1 .. m
  BY <1>1
<1>. QED  BY <1>12, <1>15, <1>16

-----------------------------------------------------------------------------
(***************************************************************************)
(* Reloads and stores.                                                     *)
(***************************************************************************)
LEMMA SetToSeqIs ==
  ASSUME NEW ts, IsFiniteSet(ts)
  PROVE  /\ Cardinality(ts) \in Nat
         /\ SetToSeq(ts) \in [1 .. Cardinality(ts) -> ts]
         /\ \A t \in ts : \E n \in 1 .. Cardinality(ts) : SetToSeq(ts)[n] = t
<1>1. Cardinality(ts) \in Nat /\ ExistsBijection(1 .. Cardinality(ts), ts)
  BY FS_CardinalityType
<1>2. \E h \in [1 .. Cardinality(ts) -> ts] : IsInjective(h)
  <2>1. PICK h \in Bijection(1 .. Cardinality(ts), ts) : TRUE
    BY <1>1 DEF ExistsBijection
  <2>. QED  BY <2>1 DEF Bijection, Injection
<1>3. SetToSeq(ts) \in [1 .. Cardinality(ts) -> ts] /\ IsInjective(SetToSeq(ts))
  BY <1>2, Zenon DEF SetToSeq
<1>4. SetToSeq(ts) \in Injection(1 .. Cardinality(ts), ts)
  BY <1>3 DEF Injection
<1>5. IsFiniteSet(1 .. Cardinality(ts)) /\ Cardinality(1 .. Cardinality(ts)) = Cardinality(ts)
  <2>. PICK n : n = Cardinality(ts)
    OBVIOUS
  <2>1. n \in Nat /\ 1 \in Int /\ n \in Int
    BY <1>1
  <2>2. IsFiniteSet(1 .. n) /\ Cardinality(1 .. n) = IF 1 > n THEN 0 ELSE n - 1 + 1
    BY <2>1, FS_Interval
  <2>3. Cardinality(1 .. n) = n
    BY <2>1, <2>2
  <2>. QED  BY <2>2, <2>3
<1>6. SetToSeq(ts) \in Surjection(1 .. Cardinality(ts), ts)
  BY <1>4, <1>5, FS_Injection
<1>. QED  BY <1>1, <1>3, <1>6 DEF Surjection

MoveFacts(P, ts) ==
  /\ P \in Seq(Instr) /\ Len(P) = Cardinality(ts) /\ Len(P) \in Nat
  /\ ts = {} => P = << >>

LEMMA MInsIs ==
  ASSUME NEW op \in Ops, NEW a \in Dests, NEW b \in Refs
  PROVE  /\ MIns(op, a, b) \in Instr
         /\ MIns(op, a, b).op = op /\ MIns(op, a, b).to = a /\ MIns(op, a, b).arg = <<b, R>>
<1>1. R \in Refs
  BY RefIs
<1>2. NoTag \in Int \X Int
  BY DEF NoTag
<1>. QED  BY <1>1, <1>2 DEF MIns, Instr

LEMMA ReloadsAre ==
  ASSUME NEW ts \in SUBSET Int, IsFiniteSet(ts)
  PROVE  /\ MoveFacts(Reloads(ts), ts)
         /\ \A n \in 1 .. Len(Reloads(ts)) :
              /\ Reloads(ts)[n].op = "load" /\ Reloads(ts)[n].to = Tm(SetToSeq(ts)[n])
              /\ Reloads(ts)[n].arg = <<Slot(SetToSeq(ts)[n]), R>> /\ SetToSeq(ts)[n] \in ts
<1>1. Cardinality(ts) \in Nat /\ \A n \in 1 .. Cardinality(ts) : SetToSeq(ts)[n] \in ts
  BY SetToSeqIs
<1>2. "load" \in Ops
  BY DEF Ops
<1>3. ASSUME NEW n \in 1 .. Cardinality(ts)
      PROVE  /\ MIns("load", Tm(SetToSeq(ts)[n]), Slot(SetToSeq(ts)[n])) \in Instr
             /\ MIns("load", Tm(SetToSeq(ts)[n]), Slot(SetToSeq(ts)[n])).op = "load"
             /\ MIns("load", Tm(SetToSeq(ts)[n]), Slot(SetToSeq(ts)[n])).to = Tm(SetToSeq(ts)[n])
             /\ MIns("load", Tm(SetToSeq(ts)[n]), Slot(SetToSeq(ts)[n])).arg
                  = <<Slot(SetToSeq(ts)[n]), R>>
  <2>. PICK t : t = SetToSeq(ts)[n]
    OBVIOUS
  <2>1. t \in Int
    BY <1>1
  <2>2. Tm(t) \in Refs /\ Slot(t) \in Refs /\ Tm(t) \in Dests /\ Slot(t) \in Dests
    BY <2>1, RefIs
  <2>. QED  BY <1>2, <2>2, MInsIs
<1>4. Reloads(ts) = [n \in 1 .. Cardinality(ts) |->
                     MIns("load", Tm(SetToSeq(ts)[n]), Slot(SetToSeq(ts)[n]))]
  BY DEF Reloads
<1>5. /\ Reloads(ts) \in Seq(Instr) /\ Len(Reloads(ts)) = Cardinality(ts)
  BY <1>1, <1>3, <1>4
<1>6. ts = {} => Reloads(ts) = << >>
  BY <1>5, FS_EmptySet
<1>. QED  BY <1>1, <1>3, <1>4, <1>5, <1>6 DEF MoveFacts

LEMMA StoresAre ==
  ASSUME NEW ts \in SUBSET Int, IsFiniteSet(ts)
  PROVE  /\ MoveFacts(Stores(ts), ts)
         /\ \A n \in 1 .. Len(Stores(ts)) :
              /\ Stores(ts)[n].op = "store" /\ Stores(ts)[n].to = Slot(SetToSeq(ts)[n])
              /\ Stores(ts)[n].arg = <<Tm(SetToSeq(ts)[n]), R>> /\ SetToSeq(ts)[n] \in ts
<1>1. Cardinality(ts) \in Nat /\ \A n \in 1 .. Cardinality(ts) : SetToSeq(ts)[n] \in ts
  BY SetToSeqIs
<1>2. "store" \in Ops
  BY DEF Ops
<1>3. ASSUME NEW n \in 1 .. Cardinality(ts)
      PROVE  /\ MIns("store", Slot(SetToSeq(ts)[n]), Tm(SetToSeq(ts)[n])) \in Instr
             /\ MIns("store", Slot(SetToSeq(ts)[n]), Tm(SetToSeq(ts)[n])).op = "store"
             /\ MIns("store", Slot(SetToSeq(ts)[n]), Tm(SetToSeq(ts)[n])).to = Slot(SetToSeq(ts)[n])
             /\ MIns("store", Slot(SetToSeq(ts)[n]), Tm(SetToSeq(ts)[n])).arg
                  = <<Tm(SetToSeq(ts)[n]), R>>
  <2>. PICK t : t = SetToSeq(ts)[n]
    OBVIOUS
  <2>1. t \in Int
    BY <1>1
  <2>2. Tm(t) \in Refs /\ Slot(t) \in Refs /\ Tm(t) \in Dests /\ Slot(t) \in Dests
    BY <2>1, RefIs
  <2>. QED  BY <1>2, <2>2, MInsIs
<1>4. Stores(ts) = [n \in 1 .. Cardinality(ts) |->
                     MIns("store", Slot(SetToSeq(ts)[n]), Tm(SetToSeq(ts)[n]))]
  BY DEF Stores
<1>5. /\ Stores(ts) \in Seq(Instr) /\ Len(Stores(ts)) = Cardinality(ts)
  BY <1>1, <1>3, <1>4
<1>6. ts = {} => Stores(ts) = << >>
  BY <1>5, FS_EmptySet
<1>. QED  BY <1>1, <1>3, <1>4, <1>5, <1>6 DEF MoveFacts

LEMMA OperandIs ==
  /\ \A t : Named(Tm(t)) = {t} /\ Named(Slot(t)) = {} /\ IsTmp(Tm(t)) /\ ~ IsTmp(Slot(t)) /\ ~ IsMem(Slot(t))
            /\ Id(Tm(t)) = t /\ Id(Slot(t)) = t
  /\ Named(R) = {} /\ ~ IsTmp(R) /\ ~ IsMem(R)
  /\ \A r : IsTmp(r) => Named(r) = {Id(r)} /\ ~ IsMem(r)
BY DEF Tm, Slot, R, IsTmp, Id, Named, IsMem

LEMMA RoomReloads ==
  ASSUME NEW p, NEW ts \in SUBSET Int, IsFiniteSet(ts), NEW code \in Seq(Instr), NEW first,
         NEW E, NEW H, IsFiniteSet(H), Holds(p, H), Room(p, code, E, H, first)
  PROVE  Room(p, Reloads(ts) \o code, E, H \ ts, first)
<1>. PICK P : P = Reloads(ts)
  OBVIOUS
<1>. DEFINE m == Len(P)
            loaded(j) == {SetToSeq(ts)[i] : i \in j .. m}
            q == [j \in 1 .. m + 1 |-> H \ loaded(j)]
<1>1. /\ P \in Seq(Instr) /\ m = Cardinality(ts) /\ m \in Nat
      /\ \A n \in 1 .. m : /\ P[n].op = "load" /\ P[n].to = Tm(SetToSeq(ts)[n])
                           /\ P[n].arg = <<Slot(SetToSeq(ts)[n]), R>>
  BY ReloadsAre DEF MoveFacts
<1>2. \A j \in 1 .. m : /\ Freed(P[j]) = {SetToSeq(ts)[j]} /\ Operands(P[j]) = {}
                        /\ ~ RegCpy(P[j]) /\ P[j].op # "call"
  <2>. SUFFICES ASSUME NEW j \in 1 .. m
                PROVE  /\ Freed(P[j]) = {SetToSeq(ts)[j]} /\ Operands(P[j]) = {}
                       /\ ~ RegCpy(P[j]) /\ P[j].op # "call"
    OBVIOUS
  <2>. PICK t, i : t = SetToSeq(ts)[j] /\ i = P[j]
    OBVIOUS
  <2>1. i.op = "load" /\ i.to = Tm(t) /\ i.arg[1] = Slot(t) /\ i.arg[2] = R
    BY <1>1
  <2>2. Results(i) = {t} /\ Operands(i) = {}
    BY <2>1, OperandIs DEF Results, Operands
  <2>. QED  BY <2>1, <2>2 DEF Freed, RegCpy
<1>3. q[m + 1] = H
  <2>1. (m + 1) .. m = {} /\ m + 1 \in 1 .. m + 1
    BY <1>1
  <2>. QED  BY <2>1
<1>4. q[1] = H \ ts
  <2>1. 1 \in 1 .. m + 1
    BY <1>1
  <2>2. loaded(1) = ts
    <3>. PICK s, n : s = SetToSeq(ts) /\ n = Cardinality(ts)
      OBVIOUS
    <3>1. s \in [1 .. n -> ts] /\ \A t \in ts : \E i \in 1 .. n : s[i] = t
      BY SetToSeqIs
    <3>2. loaded(1) = {s[i] : i \in 1 .. n}
      BY <1>1
    <3>3. {s[i] : i \in 1 .. n} = ts
      BY <3>1
    <3>. QED  BY <3>2, <3>3
  <2>. QED  BY <2>1, <2>2
<1>5. \A j \in 1 .. m : (q[j + 1] \ Freed(P[j])) \cup Operands(P[j]) \subseteq q[j]
  <2>. SUFFICES ASSUME NEW j \in 1 .. m PROVE (q[j + 1] \ Freed(P[j])) \cup Operands(P[j]) \subseteq q[j]
    OBVIOUS
  <2>1. j \in 1 .. m + 1 /\ j + 1 \in 1 .. m + 1 /\ \A i \in j .. m : i = j \/ i \in j + 1 .. m
    BY <1>1
  <2>2. loaded(j) \subseteq loaded(j + 1) \cup {SetToSeq(ts)[j]}
    BY <2>1
  <2>3. q[j + 1] = H \ loaded(j + 1) /\ q[j] = H \ loaded(j)
    BY <2>1
  <2>. HIDE DEF q, loaded
  <2>. QED  BY <1>2, <2>2, <2>3
<1>6. \A j \in 1 .. m : q[j] \in SUBSET H
  BY <1>1
<1>7. \A j \in 1 .. m : IsFiniteSet(q[j]) /\ Holds(p, q[j])
  <2>. HIDE DEF q
  <2>. QED  BY <1>6, FS_Subset, HoldsLess
<1>. HIDE DEF q
<1>8. Room(p, P \o code, E, q[1], first)
  BY <1>1, <1>2, <1>3, <1>5, <1>7, RoomPlain
<1>. QED  BY <1>4, <1>8

LEMMA RoomStores ==
  ASSUME NEW p, NEW ts \in SUBSET Int, IsFiniteSet(ts), NEW code \in Seq(Instr), NEW first,
         NEW E, NEW H, IsFiniteSet(H), Holds(p, H \cup ts), Room(p, code, E, H, first)
  PROVE  Room(p, Stores(ts) \o code, E, H \cup ts, first)
<1>. PICK P : P = Stores(ts)
  OBVIOUS
<1>. DEFINE m == Len(P)
            q == [j \in 1 .. m + 1 |-> IF j = m + 1 THEN H ELSE H \cup ts]
<1>1. /\ P \in Seq(Instr) /\ m = Cardinality(ts) /\ m \in Nat
      /\ \A n \in 1 .. m : /\ P[n].op = "store" /\ P[n].to = Slot(SetToSeq(ts)[n])
                           /\ P[n].arg = <<Tm(SetToSeq(ts)[n]), R>> /\ SetToSeq(ts)[n] \in ts
  BY StoresAre DEF MoveFacts
<1>2. \A j \in 1 .. m : /\ Operands(P[j]) \subseteq ts
                        /\ ~ RegCpy(P[j]) /\ P[j].op # "call"
  <2>. SUFFICES ASSUME NEW j \in 1 .. m
                PROVE  Operands(P[j]) \subseteq ts /\ ~ RegCpy(P[j]) /\ P[j].op # "call"
    OBVIOUS
  <2>. PICK t, i : t = SetToSeq(ts)[j] /\ i = P[j]
    OBVIOUS
  <2>1. i.op = "store" /\ i.arg[1] = Tm(t) /\ i.arg[2] = R /\ t \in ts
    BY <1>1
  <2>2. Operands(i) = {t}
    BY <2>1, OperandIs DEF Operands
  <2>. QED  BY <2>1, <2>2 DEF RegCpy
<1>3. q[m + 1] = H
  <2>1. m + 1 \in 1 .. m + 1
    BY <1>1
  <2>. QED  BY <2>1
<1>4. \A j \in 1 .. m : q[j] = H \cup ts /\ q[j + 1] \subseteq H \cup ts
  <2>1. \A j \in 1 .. m : j \in 1 .. m + 1 /\ j + 1 \in 1 .. m + 1 /\ j # m + 1
    BY <1>1
  <2>. QED  BY <2>1
<1>5. \A j \in 1 .. m : (q[j + 1] \ Freed(P[j])) \cup Operands(P[j]) \subseteq q[j]
  <2>. HIDE DEF q
  <2>. QED  BY <1>2, <1>4
<1>6. IsFiniteSet(H \cup ts)
  BY FS_Union
<1>. HIDE DEF q
<1>7. Room(p, P \o code, E, q[1], first)
  BY <1>1, <1>2, <1>3, <1>4, <1>5, <1>6, RoomPlain
<1>8. q[1] \subseteq H \cup ts
  <2>1. m = 0 \/ 1 \in 1 .. m
    BY <1>1
  <2>2. m = 0 => m + 1 = 1
    OBVIOUS
  <2>. QED  BY <1>3, <1>4, <2>1, <2>2
<1>. QED  BY <1>7, <1>8, RoomMore

-----------------------------------------------------------------------------
(***************************************************************************)
(* doblk() finds room when the code has it.                                *)
(***************************************************************************)
WalkState == [live : SUBSET Int, code : Seq(Instr), fits : BOOLEAN, bad : BOOLEAN]

LEMMA IntervalFinite == \A n \in Nat : IsFiniteSet(1 .. n)
<1>1. \A n \in Nat : 1 \in Int /\ n \in Int
  OBVIOUS
<1>. QED  BY <1>1, FS_Interval

LEMMA NamesInt ==
  ASSUME NEW i \in Instr
  PROVE  /\ Results(i) \in SUBSET Int /\ Operands(i) \in SUBSET Int
         /\ IsFiniteSet(Results(i)) /\ IsFiniteSet(Operands(i))
         /\ ~ IsTmp(i.to) => Results(i) = {}
         /\ IsTmp(i.to) => Results(i) = {Id(i.to)}
<1>1. \A r \in Refs : Named(r) \subseteq Int
  BY RefIs DEF Refs, Named, Id
<1>2. i.to \in Refs /\ i.arg[1] \in Refs /\ i.arg[2] \in Refs /\ ~ IsMem(i.to)
  BY InstrIs
<1>3. Results(i) \in SUBSET Int /\ Operands(i) \in SUBSET Int
  BY <1>1, <1>2 DEF Results, Operands
<1>4. IsFiniteSet(Named(i.to)) /\ IsFiniteSet(Named(i.arg[1])) /\ IsFiniteSet(Named(i.arg[2]))
  BY NamedFinite
<1>5. IsFiniteSet(Results(i)) /\ IsFiniteSet(Operands(i))
  BY <1>4, FS_Union DEF Results, Operands
<1>6. /\ ~ IsTmp(i.to) => Results(i) = {}
      /\ IsTmp(i.to) => Results(i) = {Id(i.to)}
  BY <1>2 DEF Results, Named
<1>. QED  BY <1>3, <1>5, <1>6

LEMMA SetReadInt ==
  ASSUME NEW D \in Seq(Instr), NEW g \in SUBSET (1 .. Len(D))
  PROVE  /\ SetIn(D, g) \in SUBSET Int /\ ReadIn(D, g) \in SUBSET Int
         /\ IsFiniteSet(SetIn(D, g)) /\ IsFiniteSet(ReadIn(D, g))
<1>1. \A k \in g : D[k] \in Instr
  OBVIOUS
<1>2. IsFiniteSet(g)
  <2>1. Len(D) \in Nat
    OBVIOUS
  <2>2. IsFiniteSet(1 .. Len(D))
    BY <2>1, IntervalFinite
  <2>. QED  BY <2>2, FS_Subset
<1>3. SetIn(D, g) \in SUBSET Int /\ ReadIn(D, g) \in SUBSET Int
  BY <1>1, NamesInt DEF SetIn, ReadIn
<1>. DEFINE r == [k \in g |-> Results(D[k])]
            o == [k \in g |-> Operands(D[k])]
<1>4. r = [k \in g |-> r[k]] /\ o = [k \in g |-> o[k]]
  OBVIOUS
<1>5. \A k \in g : IsFiniteSet(r[k]) /\ IsFiniteSet(o[k])
  BY <1>1, NamesInt
<1>6. SetIn(D, g) = UNION {r[k] : k \in g} /\ ReadIn(D, g) = UNION {o[k] : k \in g}
  BY DEF SetIn, ReadIn
<1>. HIDE DEF r, o
<1>7. IsFiniteSet({r[k] : k \in g}) /\ IsFiniteSet({o[k] : k \in g})
  BY <1>2, <1>4, ImageFinite
<1>8. \A h : IsFiniteSet({h[k] : k \in g}) /\ (\A k \in g : IsFiniteSet(h[k])) =>
        IsFiniteSet(UNION {h[k] : k \in g})
  <2>. SUFFICES ASSUME NEW h, IsFiniteSet({h[k] : k \in g}), \A k \in g : IsFiniteSet(h[k])
                PROVE  IsFiniteSet(UNION {h[k] : k \in g})
    OBVIOUS
  <2>. PICK T : T = {h[k] : k \in g}
    OBVIOUS
  <2>1. IsFiniteSet(T) /\ \A t \in T : IsFiniteSet(t)
    OBVIOUS
  <2>2. IsFiniteSet(UNION T)
    BY <2>1, FS_UNION
  <2>. QED  BY <2>2
<1>. QED  BY <1>3, <1>5, <1>6, <1>7, <1>8

LEMMA GroupIn ==
  ASSUME NEW D \in Seq(Instr), NEW n \in 1 .. Len(D), RegCpy(D[n])
  PROVE  /\ GroupAt(D, n) \in SUBSET (1 .. Len(D)) /\ n \in GroupAt(D, n)
         /\ Min(GroupAt(D, n)) \in GroupAt(D, n) /\ Min(GroupAt(D, n)) \in 1 .. n
         /\ \A k \in GroupAt(D, n) : RegCpy(D[k])
<1>1. GroupAt(D, n) \subseteq 1 .. n /\ 1 .. n \subseteq 1 .. Len(D)
  BY DEF GroupAt
<1>2. n \in GroupAt(D, n)
  <2>1. \A m \in n .. n : m = n
    OBVIOUS
  <2>. QED  BY <2>1 DEF GroupAt
<1>3. Min(GroupAt(D, n)) \in GroupAt(D, n)
  <2>1. GroupAt(D, n) \in SUBSET (1 .. n) /\ n \in Nat
    BY <1>1
  <2>. QED  BY <1>2, <2>1, MinIs
<1>4. \A k \in GroupAt(D, n) : RegCpy(D[k])
  BY DEF GroupAt
<1>. QED  BY <1>1, <1>2, <1>3, <1>4

LEMMA StoresIn ==
  ASSUME NEW ts \in SUBSET Int, IsFiniteSet(ts)
  PROVE  Stores(ts) \in Seq(Instr) /\ Reloads(ts) \in Seq(Instr)
BY StoresAre, ReloadsAre DEF MoveFacts

LEMMA FitsAre == \A names : Fits(names) = Holds(f, names) /\ Fits(names) \in BOOLEAN
BY DEF Fits, Holds

LEMMA WalkInsIs ==
  ASSUME NEW i \in Instr, NEW w \in WalkState
  PROVE  /\ WalkIns(w, i) \in WalkState
         /\ WalkIns(w, i).live \subseteq (w.live \ Freed(i)) \cup Operands(i)
         /\ w.fits /\ Holds(f, WalkIns(w, i).live) => WalkIns(w, i).fits
<1>. DEFINE l == (w.live \ Freed(i)) \cup Operands(i)
            dead == i.op # "call" /\ ~ Results(i) \subseteq w.live
<1>1. /\ w.live \in SUBSET Int /\ w.code \in Seq(Instr) /\ w.fits \in BOOLEAN /\ w.bad \in BOOLEAN
      /\ DOMAIN w = {"live", "code", "fits", "bad"}
  BY DEF WalkState
<1>2. WalkIns(w, i) = IF dead THEN [w EXCEPT !.bad = @ \/ IsReg(i.to)]
                      ELSE [w EXCEPT !.live = l, !.code = <<i>> \o @, !.fits = @ /\ Fits(l)]
  BY Zenon DEF WalkIns, Freed
<1>3. l \in SUBSET Int
  BY <1>1, NamesInt
<1>4. CASE dead
  <2>1. WalkIns(w, i) = [w EXCEPT !.bad = @ \/ IsReg(i.to)]
    BY <1>2, <1>4
  <2>2. IsReg(i.to) \in BOOLEAN
    BY DEF IsReg, IsTmp
  <2>3. w.live \subseteq l
    <3>1. Results(i) \cap w.live = {}
      BY <1>4, NamesInt
    <3>. QED  BY <1>4, <3>1 DEF Freed
  <2>. HIDE DEF l
  <2>4. /\ WalkIns(w, i).live = w.live /\ WalkIns(w, i).fits = w.fits
        /\ WalkIns(w, i) \in WalkState
    BY <1>1, <2>1, <2>2 DEF WalkState
  <2>. QED  BY <2>3, <2>4 DEF l
<1>5. CASE ~ dead
  <2>. HIDE DEF l
  <2>1. WalkIns(w, i) = [w EXCEPT !.live = l, !.code = <<i>> \o @, !.fits = @ /\ Fits(l)]
    BY <1>2, <1>5
  <2>2. <<i>> \o w.code \in Seq(Instr)
    BY <1>1
  <2>3. /\ WalkIns(w, i).live = l /\ WalkIns(w, i).fits = (w.fits /\ Fits(l))
        /\ WalkIns(w, i) \in WalkState
    BY <1>1, <1>3, <2>1, <2>2, FitsAre DEF WalkState
  <2>. QED  BY <2>3, FitsAre DEF l
<1>. QED  BY <1>4, <1>5

LEMMA WalkGroupIs ==
  ASSUME NEW D \in Seq(Instr), NEW n \in 1 .. Len(D), RegCpy(D[n]), NEW w \in WalkState
  PROVE  /\ WalkGroup(w, D, n) \in WalkState
         /\ WalkGroup(w, D, n).live = GroupUses(D, n, w.live)
         /\ w.fits /\ Holds(f, WalkGroup(w, D, n).live) => WalkGroup(w, D, n).fits
<1>. PICK g, k : g = GroupAt(D, n) /\ k = Min(g)
  OBVIOUS
<1>. DEFINE l == GroupUses(D, n, w.live)
<1>1. /\ w.live \in SUBSET Int /\ w.code \in Seq(Instr) /\ w.fits \in BOOLEAN /\ w.bad \in BOOLEAN
      /\ DOMAIN w = {"live", "code", "fits", "bad"}
  BY DEF WalkState
<1>2. g \in SUBSET (1 .. Len(D)) /\ k \in g /\ k \in 1 .. n
  BY GroupIn
<1>3. SetIn(D, g) \in SUBSET Int /\ ReadIn(D, g) \in SUBSET Int /\ IsFiniteSet(SetIn(D, g))
  BY <1>2, SetReadInt
<1>4. HeldAt(D, k) \subseteq Int
  <2>1. RSave \subseteq Int
    BY RegsAssumption, RegsFinite
  <2>2. HeldAt(D, k) \subseteq RSave
    BY HeldIs
  <2>. QED  BY <2>1, <2>2
<1>5. l = (w.live \ SetIn(D, g)) \cup ReadIn(D, g) \cup HeldAt(D, k) /\ l \in SUBSET Int
  BY <1>1, <1>3, <1>4 DEF GroupUses
<1>. HIDE DEF l
<1>6. WalkGroup(w, D, n) = [w EXCEPT !.live = l,
                              !.code = SubSeq(D, k, n) \o Stored(w, SetIn(D, g)) \o @,
                              !.fits = @ /\ Fits(l)]
  <2>1. WalkGroup(w, D, n) =
          [w EXCEPT !.live = (w.live \ SetIn(D, g)) \cup ReadIn(D, g) \cup HeldAt(D, k),
                    !.code = SubSeq(D, k, n) \o Stored(w, SetIn(D, g)) \o @,
                    !.fits = @ /\ Fits((w.live \ SetIn(D, g)) \cup ReadIn(D, g) \cup HeldAt(D, k))]
    BY Zenon DEF WalkGroup, SetIn, ReadIn, HeldAt
  <2>. QED  BY <1>5, <2>1
<1>7. SubSeq(D, k, n) \o Stored(w, SetIn(D, g)) \o w.code \in Seq(Instr)
  <2>1. SubSeq(D, k, n) \in Seq(Instr)
    BY <1>2
  <2>2. Stored(w, SetIn(D, g)) \in Seq(Instr)
    <3>. PICK ts : ts = (SetIn(D, g) \ w.live) \cap slot
      OBVIOUS
    <3>1. ts \in SUBSET Int /\ IsFiniteSet(ts)
      BY <1>3, FS_Subset
    <3>. QED  BY <3>1, StoresIn DEF Stored
  <2>. QED  BY <1>1, <2>1, <2>2
<1>. PICK code : code = SubSeq(D, k, n) \o Stored(w, SetIn(D, g)) \o w.code
  OBVIOUS
<1>8. /\ WalkGroup(w, D, n).live = l /\ WalkGroup(w, D, n).fits = (w.fits /\ Fits(l))
      /\ WalkGroup(w, D, n) \in WalkState
  BY <1>1, <1>5, <1>6, <1>7, FitsAre DEF WalkState
<1>. QED  BY <1>8, FitsAre DEF l

LEMMA WalkAtIs ==
  ASSUME NEW D \in Seq(Instr), NEW n \in 1 .. Len(D), NEW w \in WalkState
  PROVE  /\ WalkAt(w, D, n) \in WalkState
         /\ WalkAt(w, D, n).live \subseteq Uses(D, n, w.live)
         /\ w.fits /\ Holds(f, WalkAt(w, D, n).live) => WalkAt(w, D, n).fits
<1>1. D[n] \in Instr
  OBVIOUS
<1>2. CASE ~ RegCpy(D[n])
  BY <1>1, <1>2, WalkInsIs DEF WalkAt, Uses
<1>3. CASE RegCpy(D[n]) /\ GroupEnd(D, n)
  BY <1>3, WalkGroupIs DEF WalkAt, Uses
<1>4. CASE RegCpy(D[n]) /\ ~ GroupEnd(D, n)
  BY <1>4 DEF WalkAt, Uses
<1>. QED  BY <1>2, <1>3, <1>4

\* The fold of WalkBlock, as a run over the instructions.
WalkEq(it, D, w, seq) ==
  it = [s \in SUBSET DOMAIN seq |->
        IF s = {} THEN w ELSE Once(WalkAt(it[s \ {Min(s)}], D, seq[Min(s)]))]
AtEndOf(b) ==
  [live |-> c.live.out[b] \cup Named(f.jmp[b].arg), code |-> << >>,
   fits |-> Fits(c.live.out[b] \cup Named(f.jmp[b].arg)), bad |-> FALSE]

LEMMA WalkRun ==
  ASSUME NEW b, f.ins[b] \in Seq(Instr), AtEndOf(b) \in WalkState
  PROVE  LET D == f.ins[b]
         IN  \E y \in [1 .. Len(D) + 1 -> WalkState] :
               /\ y[Len(D) + 1] = AtEndOf(b) /\ y[1] = WalkBlock(b)
               /\ \A n \in 1 .. Len(D) : y[n] = WalkAt(y[n + 1], D, n)
<1>. DEFINE D == f.ins[b]
            I == 1 .. Len(D)
            seq == [n \in I |-> n]
            it == CHOOSE h : WalkEq(h, D, AtEndOf(b), seq)
            ch == [s \in SUBSET I |-> Min(s)]
            G == [e \in I \X WalkState |-> WalkAt(e[2], D, e[1])]
<1>. Len(D) \in Nat
  OBVIOUS
<1>1. DOMAIN seq = I
  OBVIOUS
<1>2. WalkBlock(b) = it[I]
  <2>1. WalkBlock(b) = FoldRight(LAMBDA n, y : Once(WalkAt(y, D, n)), seq, AtEndOf(b))
    BY Zenon DEF WalkBlock, AtEndOf
  <2>2. WalkBlock(b) = it[DOMAIN seq]
    BY <2>1, Zenon DEF FoldRight, MapThenFoldSet, WalkEq
  <2>. QED  BY <1>1, <2>2
<1>3. \A s \in SUBSET I : s # {} => ch[s] = Min(s) /\ ch[s] \in s /\ ch[s] \in I /\ seq[ch[s]] = ch[s]
                                     /\ s \ {ch[s]} \in SUBSET I
  BY MinIs
<1>4. \A n \in I, w \in WalkState : G[<<n, w>>] = WalkAt(w, D, n) /\ WalkAt(w, D, n) \in WalkState
  BY WalkAtIs
<1>5. FoldGiven(I, WalkState, AtEndOf(b), G, ch)
  <2>1. G \in [I \X WalkState -> WalkState]
    BY WalkAtIs
  <2>. HIDE DEF G, ch
  <2>. QED  BY <1>3, <2>1, IntervalFinite DEF FoldGiven
<1>6. PICK h \in [SUBSET I -> WalkState] : IsFold(h, I, AtEndOf(b), G, ch)
  <2>. HIDE DEF G, ch
  <2>. QED  BY <1>5, FoldExists
<1>7. WalkEq(h, D, AtEndOf(b), seq)
  <2>1. ASSUME NEW s \in SUBSET I, s # {}
        PROVE  h[s] = Once(WalkAt(h[s \ {Min(s)}], D, seq[Min(s)]))
    <3>. HIDE DEF G, ch, seq
    <3>1. h[s] = G[<<ch[s], h[s \ {ch[s]}]>>]
      BY <1>6, <2>1 DEF IsFold
    <3>2. ch[s] = Min(s) /\ ch[s] \in I /\ seq[Min(s)] = ch[s] /\ h[s \ {ch[s]}] \in WalkState
      BY <1>3, <2>1
    <3>3. h[s] = WalkAt(h[s \ {Min(s)}], D, seq[Min(s)])
      BY <1>4, <3>1, <3>2
    <3>. QED  BY <3>3 DEF Once
  <2>2. h[{}] = AtEndOf(b)
    BY <1>6 DEF IsFold
  <2>. HIDE DEF seq
  <2>. QED  BY <1>1, <2>1, <2>2 DEF WalkEq
<1>8. WalkEq(it, D, AtEndOf(b), seq)
  <2>. HIDE DEF seq
  <2>. QED  BY <1>7, Zenon
<1>. HIDE DEF it
<1>9. FoldsIn(it, I, WalkState, AtEndOf(b), G, ch)
  <2>. HIDE DEF seq, G, ch
  <2>1. it[{}] = AtEndOf(b)
        /\ \A s \in SUBSET I : s # {} => it[s] = Once(WalkAt(it[s \ {Min(s)}], D, seq[Min(s)]))
    BY <1>1, <1>8 DEF WalkEq
  <2>2. ASSUME NEW s \in SUBSET I, s # {}, it[s \ {ch[s]}] \in WalkState
        PROVE  it[s] = G[<<ch[s], it[s \ {ch[s]}]>>]
    <3>1. it[s] = WalkAt(it[s \ {Min(s)}], D, seq[Min(s)])
      BY <2>1, <2>2 DEF Once
    <3>2. ch[s] = Min(s) /\ ch[s] \in I /\ seq[Min(s)] = ch[s]
      BY <1>3, <2>2
    <3>. QED  BY <1>4, <2>2, <3>1, <3>2
  <2>. QED  BY <2>1, <2>2 DEF FoldsIn
<1>10. \A n \in I : ch[n .. Len(D)] = n
  <2>1. \A n \in I : n .. Len(D) \in SUBSET I
    OBVIOUS
  <2>. QED  BY <2>1, MinIs
<1>11. PICK y \in [1 .. Len(D) + 1 -> WalkState] :
         /\ y[Len(D) + 1] = AtEndOf(b) /\ y[1] = it[I]
         /\ \A n \in I : y[n] = G[<<n, y[n + 1]>>]
  <2>. HIDE DEF G, ch
  <2>. PICK L : L = Len(D)
    OBVIOUS
  <2>1. /\ L \in Nat /\ FoldGiven(1 .. L, WalkState, AtEndOf(b), G, ch)
        /\ \A n \in 1 .. L : ch[n .. L] = n
        /\ FoldsIn(it, 1 .. L, WalkState, AtEndOf(b), G, ch)
    BY <1>5, <1>9, <1>10
  <2>2. \E y \in [1 .. L + 1 -> WalkState] :
           /\ y[L + 1] = AtEndOf(b) /\ y[1] = it[1 .. L]
           /\ \A n \in 1 .. L : y[n] = G[<<n, y[n + 1]>>]
    BY <2>1, RightRun
  <2>. QED  BY <2>2
<1>12. \A n \in I : n + 1 \in 1 .. Len(D) + 1
  OBVIOUS
<1>. HIDE DEF G
<1>13. \A n \in I : y[n] = WalkAt(y[n + 1], D, n)
  BY <1>4, <1>11, <1>12
<1>. QED  BY <1>2, <1>11, <1>13

LEMMA RoomWalk ==
  ASSUME NEW b, f.ins[b] \in Seq(Instr), NEW E \in SUBSET Int,
         c.live.out[b] \cup Named(f.jmp[b].arg) \subseteq E,
         NEW H, NEW first, Room(f, f.ins[b], E, H, first)
  PROVE  WalkBlock(b).fits
<1>. PICK D, L : D = f.ins[b] /\ L = Len(D)
  OBVIOUS
<1>1. D \in Seq(Instr) /\ L \in Nat
  OBVIOUS
<1>. PICK e : e = c.live.out[b] \cup Named(f.jmp[b].arg)
  OBVIOUS
<1>2. AtEndOf(b) \in WalkState /\ AtEndOf(b).live = e /\ AtEndOf(b).fits = Fits(e)
  <2>1. AtEndOf(b) = [live |-> e, code |-> << >>, fits |-> Fits(e), bad |-> FALSE]
    BY DEF AtEndOf
  <2>2. Fits(e) \in BOOLEAN /\ e \in SUBSET Int /\ << >> \in Seq(Instr)
    BY FitsAre
  <2>. QED  BY <2>1, <2>2 DEF WalkState
<1>3. PICK r \in [1 .. L + 1 -> WalkState] :
        /\ r[L + 1] = AtEndOf(b) /\ r[1] = WalkBlock(b)
        /\ \A n \in 1 .. L : r[n] = WalkAt(r[n + 1], D, n)
  BY <1>1, <1>2, WalkRun
<1>. DEFINE y == [j \in 1 .. L + 1 |-> r[j].live]
<1>4. \A n \in 1 .. L : n \in 1 .. L + 1 /\ n + 1 \in 1 .. L + 1 /\ r[n + 1] \in WalkState
  BY <1>1
<1>5. Walked(D, y)
  <2>. SUFFICES ASSUME NEW n \in 1 .. L PROVE y[n] \subseteq Uses(D, n, y[n + 1])
    BY DEF Walked
  <2>. PICK l : l = r[n + 1].live
    OBVIOUS
  <2>1. r[n].live \subseteq Uses(D, n, l)
    BY <1>1, <1>3, <1>4, WalkAtIs
  <2>. QED  BY <1>4, <2>1
<1>6. y[L + 1] \subseteq E
  <2>1. L + 1 \in 1 .. L + 1
    BY <1>1
  <2>. QED  BY <1>3, <2>1 DEF AtEndOf
<1>7. EndsWith(D, 0, D)
  <2>1. \A j \in 1 .. L : 0 + j = j
    BY <1>1
  <2>. QED  BY <1>1, <2>1 DEF EndsWith
<1>8. Joint(D, 0, first)
  BY DEF Joint
<1>9. \A j \in 1 .. L + 1 : Holds(f, r[j].live)
  <2>. HIDE DEF y
  <2>1. RoomIn(f, D, E, H, first, D, 0, y)
    BY DEF Room
  <2>2. \A j \in 0 + 1 .. L + 1 : Holds(f, y[j])
    BY <1>5, <1>6, <1>7, <1>8, <2>1 DEF RoomIn
  <2>3. \A j \in 1 .. L + 1 : j \in 0 + 1 .. L + 1 /\ y[j] = r[j].live
    BY <1>1 DEF y
  <2>. QED  BY <2>2, <2>3
<1>. DEFINE T == {n \in 1 .. L + 1 : r[n].fits}
<1>10. L + 1 \in T
  <2>1. L + 1 \in 1 .. L + 1
    BY <1>1
  <2>2. Holds(f, r[L + 1].live) /\ r[L + 1].live = e /\ r[L + 1].fits = Fits(e)
    BY <1>2, <1>3, <1>9, <2>1
  <2>. QED  BY <2>1, <2>2, FitsAre
<1>11. ASSUME NEW n \in 1 .. L, n + 1 \in T PROVE n \in T
  <2>. PICK w : w = r[n + 1]
    OBVIOUS
  <2>1. /\ w \in WalkState /\ w.fits /\ r[n] = WalkAt(w, D, n) /\ Holds(f, r[n].live)
        /\ n \in 1 .. Len(D) /\ n \in 1 .. L + 1
    BY <1>3, <1>4, <1>9, <1>11
  <2>2. r[n].fits
    BY <1>1, <2>1, WalkAtIs
  <2>. QED  BY <2>1, <2>2
<1>12. \A n \in 1 .. L + 1 : n \in T
  <2>. HIDE DEF T
  <2>. QED  BY <1>1, <1>10, <1>11, Descend
<1>13. 1 \in 1 .. L + 1
  BY <1>1
<1>. QED  BY <1>3, <1>12, <1>13

(***************************************************************************)
(* spill() leaves room at every instruction.                               *)
(***************************************************************************)
SpillState(p) == [v : SUBSET Pool(p), slot : SUBSET AllTemps(p), code : Seq(Instr),
                  jmp : BOOLEAN, bad : BOOLEAN]
SpillGiven(p, g, d) == p \in Programs /\ g.fp = p.fp /\ Ranked(d, Pool(p))
Starts(code) == code # << >> /\ RegCpy(code[1])

LEMMA GivenIs ==
  ASSUME NEW p, NEW g, NEW d, SpillGiven(p, g, d), NEW s \in SUBSET Pool(p)
  PROVE  /\ IsFiniteSet(s) /\ Ranked(d, s) /\ s \subseteq Int
         /\ g.fp \cap Regs = {} /\ (Holds(g, s) <=> Holds(p, s))
         /\ \A k : Mask(g, k, s) = Mask(p, k, s)
         /\ Above(s) \in SUBSET AllTemps(p) /\ Above(s) \in SUBSET Pool(p) /\ IsFiniteSet(Above(s))
         /\ \A t \in s : t \in Above(s) \/ (t < Tmp0 /\ t \in Regs)
<1>1. p \in Programs /\ g.fp = p.fp /\ Ranked(d, Pool(p))
  BY DEF SpillGiven
<1>2. /\ IsFiniteSet(Pool(p)) /\ Pool(p) \subseteq Int
      /\ \A t \in Pool(p) : t >= Tmp0 <=> t \in AllTemps(p)
      /\ \A t \in Pool(p) : t < Tmp0 <=> t \in Regs
      /\ p.fp \cap Regs = {}
  BY <1>1, PoolIs
<1>3. IsFiniteSet(s) /\ Ranked(d, s) /\ s \subseteq Int
  BY <1>1, <1>2, FS_Subset DEF Ranked
<1>4. (Holds(g, s) <=> Holds(p, s)) /\ \A k : Mask(g, k, s) = Mask(p, k, s)
  BY <1>1, MaskSame
<1>5. Tmp0 \in Int
  BY RegsAssumption
<1>6. /\ Above(s) \in SUBSET AllTemps(p) /\ Above(s) \in SUBSET Pool(p) /\ Above(s) \in SUBSET s
      /\ \A t \in s : t \in Above(s) \/ (t < Tmp0 /\ t \in Regs)
  BY <1>2, <1>5 DEF Above
<1>7. IsFiniteSet(Above(s))
  BY <1>3, <1>6, FS_Subset
<1>. QED  BY <1>1, <1>2, <1>3, <1>4, <1>6, <1>7

LEMMA PlainStarts ==
  ASSUME NEW P \in Seq(Instr), \A j \in 1 .. Len(P) : ~ RegCpy(P[j]),
         NEW code \in Seq(Instr), Starts(P \o code)
  PROVE  Starts(code)
<1>1. CASE P = << >>
  <2>1. P \o code = code
    BY <1>1
  <2>. QED  BY <2>1
<1>2. CASE P # << >>
  <2>1. 1 \in 1 .. Len(P) /\ (P \o code)[1] = P[1]
    BY <1>2
  <2>. QED  BY <2>1 DEF Starts
<1>. QED  BY <1>1, <1>2

LEMMA MovesPlain ==
  ASSUME NEW ts \in SUBSET Int, IsFiniteSet(ts), NEW code \in Seq(Instr)
  PROVE  /\ Starts(Reloads(ts) \o code) => Starts(code)
         /\ Starts(Stores(ts) \o code) => Starts(code)
<1>1. Reloads(ts) \in Seq(Instr) /\ Stores(ts) \in Seq(Instr)
  BY StoresIn
<1>2. \A j \in 1 .. Len(Reloads(ts)) : ~ RegCpy(Reloads(ts)[j])
  BY ReloadsAre DEF RegCpy
<1>3. \A j \in 1 .. Len(Stores(ts)) : ~ RegCpy(Stores(ts)[j])
  BY StoresAre DEF RegCpy
<1>4. Starts(Reloads(ts) \o code) => Starts(code)
  BY <1>1, <1>2, PlainStarts
<1>5. Starts(Stores(ts) \o code) => Starts(code)
  BY <1>1, <1>3, PlainStarts
<1>. QED  BY <1>4, <1>5

\* The operands that remain once those that are not kept are read from slots.
Replaced(kept, r) == IF IsTmp(r) /\ Id(r) \notin kept THEN Slot(Id(r)) ELSE r
Rewritten(i, kept) ==
  [i EXCEPT !.arg = <<Replaced(kept, i.arg[1]), Replaced(kept, i.arg[2])>>]

LEMMA RewrittenIs ==
  ASSUME NEW i \in Instr, ~ RegCpy(i), NEW kept, InRegs(i) \subseteq kept
  PROVE  /\ Rewritten(i, kept) \in Instr /\ ~ RegCpy(Rewritten(i, kept))
         /\ Results(Rewritten(i, kept)) = Results(i)
         /\ Operands(Rewritten(i, kept)) \subseteq kept \cap Operands(i)
         /\ Freed(Rewritten(i, kept)) = Freed(i)
         /\ Rewritten(i, kept).op = i.op
<1>. PICK j : j = Rewritten(i, kept)
  OBVIOUS
<1>. DEFINE a == Replaced(kept, i.arg[1])
            b == Replaced(kept, i.arg[2])
<1>1. /\ i.arg \in Refs \X Refs /\ i.arg[1] \in Refs /\ i.arg[2] \in Refs
  BY InstrIs
<1>2. \A r \in Refs : Id(r) \in Int
  BY RefIs
<1>3. a \in Refs /\ b \in Refs
  BY <1>1, <1>2, RefIs DEF Replaced
<1>4. /\ j.op = i.op /\ j.to = i.to /\ j.args = i.args /\ j.arg = <<a, b>> /\ j \in Instr
  <2>. HIDE DEF a, b
  <2>1. j = [i EXCEPT !.arg = <<a, b>>]
    BY DEF Rewritten, a, b
  <2>. QED  BY <1>3, <2>1 DEF Instr
<1>5. ~ RegCpy(j)
  <2>1. j.arg[1] = a
    BY <1>4
  <2>2. IsReg(a) => a = i.arg[1]
    BY OperandIs DEF Replaced, IsReg
  <2>. QED  BY <1>4, <2>1, <2>2 DEF RegCpy
<1>6. /\ \A n \in 1 .. 2 : IsMem(i.arg[n]) => Named(i.arg[n]) \subseteq kept
  <2>1. \A n \in 1 .. 2 : IsMem(i.arg[n]) => Named(i.arg[n]) \subseteq InRegs(i)
    BY DEF InRegs
  <2>. QED  BY <2>1
<1>7. ASSUME NEW r, r \in {i.arg[1], i.arg[2]}
      PROVE  Named(Replaced(kept, r)) \subseteq kept \cap Named(r)
  <2>1. CASE IsTmp(r) /\ Id(r) \notin kept
    BY <2>1, OperandIs DEF Replaced
  <2>2. CASE IsTmp(r) /\ Id(r) \in kept
    BY <2>2, OperandIs DEF Replaced
  <2>3. CASE ~ IsTmp(r) /\ IsMem(r)
    BY <1>6, <1>7, <2>3 DEF Replaced
  <2>4. CASE ~ IsTmp(r) /\ ~ IsMem(r)
    BY <2>4 DEF Replaced, Named
  <2>. QED  BY <2>1, <2>2, <2>3, <2>4
<1>8. Operands(j) \subseteq kept \cap Operands(i)
  <2>1. Operands(j) = Named(a) \cup Named(b) /\ Operands(i) = Named(i.arg[1]) \cup Named(i.arg[2])
    BY <1>4 DEF Operands
  <2>. QED  BY <1>7, <2>1
<1>9. Results(j) = Results(i) /\ Freed(j) = Freed(i)
  BY <1>4 DEF Results, Freed
<1>. QED  BY <1>4, <1>5, <1>8, <1>9

\* What spilling an instruction comes to, by parts.
AfterTo(s, to)      == SymDiff(s.v, to)
Around(s, i)      == AfterTo(s, Results(i)) \cup Operands(i)
Needed(s, i)      == (Results(i) \ s.v) \cup InRegs(i)
KeptOf(g, d, s, i) == Limit2(g, d, Around(s, i), Zero, Needed(s, i))
Dying(s, i)       == (UNION {Named(r) : r \in {r \in ToSet(i.arg) : IsTmp(r)}}) \ AfterTo(s, Results(i))
Reloaded(g, d, s, i) == Above(Around(s, i) \ (KeptOf(g, d, s, i) \cup Dying(s, i)))
SlotsOf(s, gone)  == s.slot \cup {t \in gone : t >= Tmp0}
StoredOf(g, d, s, i) == Above(Results(i)) \cap SlotsOf(s, Around(s, i) \ KeptOf(g, d, s, i))

LEMMA SpilledIs ==
  ASSUME NEW p, NEW s \in SpillState(p), NEW gone, SlotsOf(s, gone) \in SUBSET AllTemps(p)
  PROVE  /\ Spilled(s, gone) \in SpillState(p)
         /\ Spilled(s, gone).v = s.v /\ Spilled(s, gone).slot = SlotsOf(s, gone)
         /\ Spilled(s, gone).code = s.code /\ Spilled(s, gone).jmp = s.jmp
         /\ Spilled(s, gone).bad <=> s.bad \/ \E e \in gone : e < Tmp0
<1>. PICK sl, b : sl = SlotsOf(s, gone) /\ b = (s.bad \/ \E e \in gone : e < Tmp0)
  OBVIOUS
<1>. DEFINE t == [s EXCEPT !.slot = sl, !.bad = b]
<1>1. Spilled(s, gone) = t
  <2>1. Spilled(s, gone) = [s EXCEPT !.slot = SlotsOf(s, gone), !.bad = s.bad \/ \E e \in gone : e < Tmp0]
    BY Zenon DEF Spilled, SlotsOf
  <2>. QED  BY <2>1
<1>2. b \in BOOLEAN /\ (b <=> s.bad \/ \E e \in gone : e < Tmp0)
  BY DEF SpillState
<1>3. t \in SpillState(p) /\ t.v = s.v /\ t.slot = sl /\ t.code = s.code /\ t.jmp = s.jmp /\ t.bad = b
  BY <1>2 DEF SpillState
<1>. HIDE DEF t
<1>. QED  BY <1>1, <1>2, <1>3

SpillInsCode(g, d, s, i) ==
  <<Rewritten(i, KeptOf(g, d, s, i))>> \o Stores(StoredOf(g, d, s, i))
    \o Reloads(Reloaded(g, d, s, i)) \o s.code

LEMMA SpillInsParts ==
  ASSUME NEW p, NEW g, NEW d, NEW i, NEW s \in SpillState(p),
         SlotsOf(s, Around(s, i) \ KeptOf(g, d, s, i)) \in SUBSET AllTemps(p),
         KeptOf(g, d, s, i) \in SUBSET Pool(p),
         SpillInsCode(g, d, s, i) \in Seq(Instr)
  PROVE  LET kept == KeptOf(g, d, s, i)
             gone == Around(s, i) \ kept
             t    == SpillIns(g, d, s, i)
         IN  /\ t \in SpillState(p)
             /\ t.v = kept \ Above(Results(i)) /\ t.slot = SlotsOf(s, gone)
             /\ t.code = SpillInsCode(g, d, s, i)
             /\ t.bad <=> s.bad \/ (\E e \in gone : e < Tmp0) \/ \E e \in Results(i) \ s.v : e < Tmp0
<1>. PICK kept : kept = KeptOf(g, d, s, i)
  OBVIOUS
<1>. DEFINE gone == Around(s, i) \ kept
            sp == Spilled(s, gone)
<1>. PICK code : code = SpillInsCode(g, d, s, i)
  OBVIOUS
<1>1. /\ sp \in SpillState(p)
      /\ sp.v = s.v /\ sp.slot = SlotsOf(s, gone) /\ sp.code = s.code
      /\ sp.bad <=> s.bad \/ \E e \in gone : e < Tmp0
  <2>. HIDE DEF gone
  <2>1. SlotsOf(s, gone) \in SUBSET AllTemps(p)
    BY DEF gone
  <2>. QED  BY <2>1, SpilledIs
<1>2. code = <<Rewritten(i, kept)>> \o Stores(Above(Results(i)) \cap sp.slot)
               \o Reloads(Reloaded(g, d, s, i)) \o sp.code
  BY <1>1 DEF SpillInsCode, StoredOf
<1>. PICK b : b = (sp.bad \/ \E e \in Results(i) \ s.v : e < Tmp0)
  OBVIOUS
<1>3. b \in BOOLEAN /\ (b <=> sp.bad \/ \E e \in Results(i) \ s.v : e < Tmp0)
  BY <1>1 DEF SpillState
<1>. DEFINE t == [sp EXCEPT !.v = kept \ Above(Results(i)), !.bad = b, !.code = code]
<1>4. SpillIns(g, d, s, i) = t
  <2>1. SpillIns(g, d, s, i) =
          [Spilled(s, Around(s, i) \ KeptOf(g, d, s, i)) EXCEPT
             !.v = KeptOf(g, d, s, i) \ Above(Results(i)),
             !.bad = @ \/ \E e \in Results(i) \ s.v : e < Tmp0,
             !.code = <<Rewritten(i, KeptOf(g, d, s, i))>>
                        \o Stores(Above(Results(i)) \cap Spilled(s, Around(s, i) \ KeptOf(g, d, s, i)).slot)
                        \o Reloads(Reloaded(g, d, s, i)) \o @]
    BY Zenon DEF SpillIns, KeptOf, Around, Needed, AfterTo, Dying, Reloaded, Rewritten, Replaced
  <2>2. SpillIns(g, d, s, i) =
          [sp EXCEPT
             !.v = kept \ Above(Results(i)),
             !.bad = sp.bad \/ \E e \in Results(i) \ s.v : e < Tmp0,
             !.code = <<Rewritten(i, kept)>> \o Stores(Above(Results(i)) \cap sp.slot)
                        \o Reloads(Reloaded(g, d, s, i)) \o sp.code]
    BY <2>1, Zenon
  <2>. QED  BY <1>2, <2>2
<1>5. /\ t \in SpillState(p) /\ t.v = kept \ Above(Results(i)) /\ t.slot = sp.slot
      /\ t.code = code /\ t.bad = b
  BY <1>1, <1>3 DEF SpillState
<1>. HIDE DEF t
<1>. QED  BY <1>1, <1>3, <1>4, <1>5

\* The sets that the spilling of an instruction goes by.
LEMMA SpillInsSets ==
  ASSUME NEW p, NEW g, NEW d, SpillGiven(p, g, d), NEW i \in Instr, InsGiven(p, i),
         NEW s \in SpillState(p)
  PROVE  LET u    == Around(s, i)
             kept == KeptOf(g, d, s, i)
         IN  /\ u \in SUBSET Pool(p) /\ kept \in SUBSET Pool(p) /\ Holds(g, kept)
             /\ kept \subseteq u /\ Needed(s, i) \subseteq kept
             /\ Results(i) \in SUBSET Pool(p) /\ Operands(i) \in SUBSET Pool(p)
             /\ InRegs(i) \subseteq kept
<1>. PICK u, w, kept : u = Around(s, i) /\ w = Needed(s, i) /\ kept = KeptOf(g, d, s, i)
  OBVIOUS
<1>1. s.v \in SUBSET Pool(p)
  BY DEF SpillState
<1>2. Results(i) \in SUBSET Pool(p) /\ Operands(i) \in SUBSET Pool(p)
  BY DEF InsGiven
<1>3. u \in SUBSET Pool(p)
  BY <1>1, <1>2 DEF Around, AfterTo, SymDiff
<1>4. InRegs(i) \subseteq Operands(i)
  BY DEF InRegs, Operands
<1>5. w \subseteq u /\ w \in SUBSET Pool(p)
  BY <1>2, <1>3, <1>4 DEF Needed, Around, AfterTo, SymDiff
<1>6. Holds(g, w)
  <2>. PICK r : r = Results(i) \cup InRegs(i)
    OBVIOUS
  <2>1. w \in SUBSET r /\ r \in SUBSET Pool(p)
    BY <1>2, <1>4 DEF Needed
  <2>2. Holds(p, r) /\ IsFiniteSet(r)
    BY <2>1, GivenIs DEF InsGiven, Holds
  <2>3. Holds(p, w)
    BY <2>1, <2>2, HoldsLess
  <2>. QED  BY <1>5, <2>3, GivenIs
<1>7. Ranked(d, u) /\ IsFiniteSet(u)
  BY <1>3, GivenIs
<1>8. kept = Limit2(g, d, u, Zero, w)
  BY DEF KeptOf
<1>9. kept \subseteq u /\ Holds(g, kept)
  BY <1>7, <1>8, Limit2Is, Limit2Holds, InUseAre
<1>10. w \subseteq kept
  BY <1>5, <1>6, <1>7, <1>8, Limit2First
<1>11. InRegs(i) \subseteq kept
  BY <1>10 DEF Needed
<1>. QED  BY <1>2, <1>3, <1>9, <1>10, <1>11

\* Pieces of code put together from the left are put together from the right.
FromRight3(b, a, e)   == (b \o a) \o e = b \o (a \o e)
FromRight(h, b, a, e) == h \o b \o a \o e = h \o (b \o (a \o e))

LEMMA ConcatThree ==
  ASSUME NEW S, NEW b \in Seq(S), NEW a \in Seq(S), NEW e \in Seq(S)
  PROVE  FromRight3(b, a, e)
BY SMTT(60) DEF FromRight3

LEMMA ConcatFour ==
  ASSUME NEW S, NEW h \in Seq(S), NEW b \in Seq(S), NEW a \in Seq(S), NEW e \in Seq(S)
  PROVE  FromRight(h, b, a, e)
<1>. DEFINE m == h \o b
            k == a \o e
<1>1. m \in Seq(S) /\ k \in Seq(S)
  OBVIOUS
<1>. HIDE DEF m, k
<1>2. FromRight3(m, a, e) /\ FromRight3(h, b, k)
  BY <1>1, ConcatThree
<1>. QED  BY <1>2, Zenon DEF m, k, FromRight, FromRight3

LEMMA SpillInsTyped ==
  ASSUME NEW p, NEW g, NEW d, SpillGiven(p, g, d), NEW i \in Instr, InsGiven(p, i), ~ RegCpy(i),
         NEW s \in SpillState(p)
  PROVE  LET kept == KeptOf(g, d, s, i)
             gone == Around(s, i) \ kept
             rl   == Reloaded(g, d, s, i)
             st   == StoredOf(g, d, s, i)
             i2   == Rewritten(i, kept)
             t    == SpillIns(g, d, s, i)
         IN  /\ t \in SpillState(p)
             /\ t.v = kept \ Above(Results(i)) /\ t.slot = SlotsOf(s, gone)
             /\ t.code = <<i2>> \o (Stores(st) \o (Reloads(rl) \o s.code))
             /\ t.bad <=> s.bad \/ (\E e \in gone : e < Tmp0) \/ \E e \in Results(i) \ s.v : e < Tmp0
             /\ rl \in SUBSET Pool(p) /\ st \in SUBSET Pool(p) /\ rl \subseteq Int /\ st \subseteq Int
             /\ IsFiniteSet(rl) /\ IsFiniteSet(st) /\ i2 \in Instr
             /\ Reloads(rl) \o s.code \in Seq(Instr)
             /\ Stores(st) \o (Reloads(rl) \o s.code) \in Seq(Instr)
<1>. PICK u, kept : u = Around(s, i) /\ kept = KeptOf(g, d, s, i)
  OBVIOUS
<1>. PICK gone, rl, st, i2 : gone = u \ kept /\ rl = Reloaded(g, d, s, i)
                             /\ st = StoredOf(g, d, s, i) /\ i2 = Rewritten(i, kept)
  OBVIOUS
<1>1. /\ u \in SUBSET Pool(p) /\ kept \in SUBSET Pool(p) /\ kept \subseteq u
      /\ Results(i) \in SUBSET Pool(p) /\ InRegs(i) \subseteq kept
  BY SpillInsSets
<1>2. SlotsOf(s, gone) \in SUBSET AllTemps(p)
  <2>1. s.slot \in SUBSET AllTemps(p)
    BY DEF SpillState
  <2>2. Above(gone) \in SUBSET AllTemps(p)
    BY <1>1, GivenIs
  <2>. QED  BY <2>1, <2>2 DEF SlotsOf, Above
<1>3. rl \in SUBSET Pool(p) /\ rl \in SUBSET Int /\ IsFiniteSet(rl)
  <2>. PICK o : o = u \ (kept \cup Dying(s, i))
    OBVIOUS
  <2>1. o \in SUBSET Pool(p) /\ rl = Above(o)
    BY <1>1 DEF Reloaded
  <2>2. rl \in SUBSET Pool(p)
    BY <2>1, GivenIs
  <2>. QED  BY <2>2, GivenIs
<1>4. st \in SUBSET Pool(p) /\ st \in SUBSET Int /\ IsFiniteSet(st)
  <2>1. st \in SUBSET Pool(p)
    BY <1>1 DEF StoredOf, Above
  <2>. QED  BY <2>1, GivenIs
<1>5. i2 \in Instr
  BY <1>1, RewrittenIs
<1>6. Reloads(rl) \in Seq(Instr) /\ Stores(st) \in Seq(Instr) /\ s.code \in Seq(Instr) /\ <<i2>> \in Seq(Instr)
  BY <1>3, <1>4, <1>5, StoresIn DEF SpillState
<1>. DEFINE a == Reloads(rl)
            b == Stores(st)
            e == s.code
            h == <<i2>>
<1>. HIDE DEF a, b, e, h
<1>7. /\ a \o e \in Seq(Instr) /\ b \o (a \o e) \in Seq(Instr)
      /\ h \o (b \o (a \o e)) \in Seq(Instr)
      /\ h \in Seq(Instr) /\ a \in Seq(Instr) /\ b \in Seq(Instr) /\ e \in Seq(Instr)
  <2>1. h \in Seq(Instr) /\ a \in Seq(Instr) /\ b \in Seq(Instr) /\ e \in Seq(Instr)
    BY <1>6 DEF a, b, e, h
  <2>. QED  BY <2>1
<1>8. h \o b \o a \o e = h \o (b \o (a \o e))
  <2>1. FromRight(h, b, a, e)
    BY ONLY <1>7, ConcatFour
  <2>. QED  BY ONLY <2>1 DEF FromRight
<1>9. SpillInsCode(g, d, s, i) = h \o (b \o (a \o e))
  <2>1. SpillInsCode(g, d, s, i) = h \o b \o a \o e
    BY Zenon DEF SpillInsCode, a, b, e, h
  <2>. QED  BY <1>8, <2>1
<1>10. SpillInsCode(g, d, s, i) \in Seq(Instr)
  BY <1>7, <1>9
<1>. PICK t : t = SpillIns(g, d, s, i)
  OBVIOUS
<1>11. /\ t \in SpillState(p)
       /\ t.v = kept \ Above(Results(i)) /\ t.slot = SlotsOf(s, gone)
       /\ t.code = SpillInsCode(g, d, s, i)
       /\ t.bad <=> s.bad \/ (\E o \in gone : o < Tmp0) \/ \E o \in Results(i) \ s.v : o < Tmp0
  <2>1. SlotsOf(s, Around(s, i) \ KeptOf(g, d, s, i)) \in SUBSET AllTemps(p)
        /\ KeptOf(g, d, s, i) \in SUBSET Pool(p)
    BY <1>1, <1>2
  <2>2. LET k2 == KeptOf(g, d, s, i)
            g2 == Around(s, i) \ k2
            t2 == SpillIns(g, d, s, i)
        IN  /\ t2 \in SpillState(p)
            /\ t2.v = k2 \ Above(Results(i)) /\ t2.slot = SlotsOf(s, g2)
            /\ t2.code = SpillInsCode(g, d, s, i)
            /\ t2.bad <=> s.bad \/ (\E e2 \in g2 : e2 < Tmp0) \/ \E e2 \in Results(i) \ s.v : e2 < Tmp0
    BY <1>10, <2>1, SpillInsParts
  <2>. QED  BY <2>2
<1>. QED  BY <1>3, <1>4, <1>5, <1>7, <1>9, <1>11 DEF a, b, e, h

\* What lives above the code so far: a call before it overwrites registers.
AtHead(s, first) == IF first THEN s.v \cup RSave ELSE s.v
Roomy(g, s, E, first) ==
  /\ Room(g, s.code, E, AtHead(s, first), first)
  /\ Holds(g, AtHead(s, first)) /\ IsFiniteSet(AtHead(s, first))

LEMMA SpillInsRoom ==
  ASSUME NEW p, NEW g, NEW d, SpillGiven(p, g, d), NEW i \in Instr, InsGiven(p, i), ~ RegCpy(i),
         NEW s \in SpillState(p), NEW E, NEW first \in BOOLEAN, Roomy(g, s, E, first),
         first => i.op = "call" /\ i.args \subseteq s.v,
         i.op = "call" /\ Starts(s.code) => first,
         ~ SpillIns(g, d, s, i).bad
  PROVE  /\ Roomy(g, SpillIns(g, d, s, i), E, FALSE)
         /\ SpillIns(g, d, s, i).code # << >> /\ ~ RegCpy(SpillIns(g, d, s, i).code[1])
         /\ ~ s.bad
<1>. PICK t, kept, to : t = SpillIns(g, d, s, i) /\ kept = KeptOf(g, d, s, i) /\ to = Results(i)
  OBVIOUS
<1>. PICK rl, st, i2, H : /\ rl = Reloaded(g, d, s, i) /\ st = StoredOf(g, d, s, i)
                          /\ i2 = Rewritten(i, kept) /\ H = AtHead(s, first)
  OBVIOUS
<1>. PICK a, b : a = Reloads(rl) \o s.code /\ b = Stores(st) \o a
  OBVIOUS
<1>1. /\ t \in SpillState(p) /\ t.v = kept \ Above(to) /\ t.code = <<i2>> \o b
      /\ ~ s.bad /\ (\A e \in Around(s, i) \ kept : ~ (e < Tmp0)) /\ \A e \in to \ s.v : ~ (e < Tmp0)
      /\ rl \in SUBSET Int /\ st \in SUBSET Int
      /\ IsFiniteSet(rl) /\ IsFiniteSet(st) /\ i2 \in Instr
      /\ s.code \in Seq(Instr) /\ a \in Seq(Instr) /\ b \in Seq(Instr)
  <2>1. s.code \in Seq(Instr)
    BY DEF SpillState
  <2>. QED  BY <2>1, SpillInsTyped
<1>2. /\ kept \in SUBSET Pool(p) /\ Holds(g, kept) /\ Needed(s, i) \subseteq kept
      /\ to \in SUBSET Pool(p) /\ Operands(i) \in SUBSET Pool(p) /\ InRegs(i) \subseteq kept
  BY SpillInsSets
<1>3. IsFiniteSet(kept) /\ s.v \in SUBSET Pool(p) /\ \A e \in Pool(p) : e \in Int
  <2>1. s.v \in SUBSET Pool(p)
    BY DEF SpillState
  <2>2. IsFiniteSet(kept)
    BY <1>2, GivenIs
  <2>3. p \in Programs
    BY DEF SpillGiven
  <2>. QED  BY <2>1, <2>2, <2>3, PoolIs
<1>4. Tmp0 \in Int /\ \A e \in RSave : e < Tmp0 /\ e \in Int
  <2>1. RSave \subseteq Regs
    BY RegsAssumption
  <2>. QED  BY <2>1, RegsAssumption, RegsFinite
\* What was in a register is kept, reloaded or set.
<1>5. s.v \ rl \subseteq kept \cup (to \cap s.v)
  <2>. SUFFICES ASSUME NEW e \in s.v, e \notin to, e \notin kept PROVE e \in rl
    OBVIOUS
  <2>1. e \in AfterTo(s, to)
    BY DEF AfterTo, SymDiff
  <2>2. e \in Around(s, i) /\ e \notin Dying(s, i)
    BY <2>1 DEF Around, Dying
  <2>3. e \in Int /\ ~ (e < Tmp0)
    BY <1>1, <1>3, <2>2
  <2>4. e >= Tmp0
    BY <1>4, <2>3
  <2>. QED  BY <2>2, <2>4 DEF Reloaded, Above
<1>6. st \subseteq to /\ (to \subseteq s.v \/ (to \cap s.v = {} /\ to \subseteq kept))
  <2>1. st \subseteq to
    BY DEF StoredOf, Above
  <2>2. to = {} \/ \E e : to = {e}
    BY NamesInt
  <2>3. to \ s.v \subseteq kept
    BY <1>2 DEF Needed
  <2>. QED  BY <2>1, <2>2, <2>3
<1>7. i.op = "call" => to = {}
  <2>1. i.op = "call" => i.to = R
    BY DEF InsGiven
  <2>. QED  BY <2>1, NamesInt, OperandIs
<1>8. \A e \in rl : e \in Int /\ e >= Tmp0
  BY <1>1 DEF Reloaded, Above
<1>9. Holds(g, H) /\ IsFiniteSet(H) /\ Room(g, s.code, E, H, first) /\ s.v \subseteq H
      /\ H \subseteq s.v \cup RSave /\ (~ first => H = s.v)
  BY DEF Roomy, AtHead
<1>10. Room(g, a, E, H \ rl, first)
  BY <1>1, <1>9, RoomReloads
<1>11. Holds(g, (H \ rl) \cup st)
  <2>1. CASE to \subseteq s.v
    <3>1. (H \ rl) \cup st \in SUBSET H
      BY <1>6, <1>9, <2>1
    <3>. QED  BY <1>9, <3>1, HoldsLess
  <2>2. CASE to \cap s.v = {} /\ to \subseteq kept /\ to # {}
    <3>1. H = s.v
      BY <1>7, <1>9, <2>2
    <3>2. (H \ rl) \cup st \in SUBSET kept
      BY <1>5, <1>6, <2>2, <3>1
    <3>. QED  BY <1>2, <1>3, <3>2, HoldsLess
  <2>. QED  BY <1>6, <2>1, <2>2
<1>12. Room(g, b, E, (H \ rl) \cup st, first)
  <2>1. IsFiniteSet(H \ rl)
    BY <1>9, FS_Subset
  <2>. QED  BY <1>1, <1>10, <1>11, <2>1, RoomStores
<1>13. /\ i2.op = i.op /\ Freed(i2) = Freed(i) /\ ~ RegCpy(i2)
       /\ Operands(i2) \subseteq kept \cap Operands(i)
  BY <1>2, RewrittenIs
<1>14. (((H \ rl) \cup st) \ Freed(i2)) \cup Operands(i2) \subseteq t.v
  <2>1. Operands(i2) \subseteq kept \ Above(to)
    <3>1. Above(to) \cap Operands(i) = {}
      BY DEF InsGiven
    <3>. QED  BY <1>13, <3>1
  <2>2. ((H \ rl) \cup st) \ Freed(i) \subseteq kept \ Above(to)
    <3>1. CASE i.op # "call"
      <4>1. Freed(i) = to /\ H = s.v
        BY <1>9, <3>1 DEF Freed
      <4>2. Above(to) \subseteq to
        BY DEF Above
      <4>. QED  BY <1>5, <1>6, <4>1, <4>2
    <3>2. CASE i.op = "call"
      <4>1. Freed(i) = RSave \ i.args /\ to = {} /\ Above(to) = {} /\ st = {}
        BY <1>6, <1>7, <3>2 DEF Freed, Above
      <4>2. first => (i.args \cap RSave) \subseteq s.v \ rl
        BY <1>4, <1>8
      <4>. QED  BY <1>5, <1>9, <4>1, <4>2
    <3>. QED  BY <3>1, <3>2
  <2>. QED  BY <1>1, <1>13, <2>1, <2>2
<1>15. IsFiniteSet(t.v) /\ Holds(g, t.v)
  <2>1. t.v \in SUBSET kept
    BY <1>1
  <2>. QED  BY <1>2, <1>3, <2>1, FS_Subset, HoldsLess
<1>16. i2.op = "call" /\ b # << >> /\ RegCpy(b[1]) => first
  <2>1. Starts(b) => Starts(a)
    BY <1>1, MovesPlain
  <2>2. Starts(a) => Starts(s.code)
    BY <1>1, MovesPlain
  <2>. QED  BY <1>13, <2>1, <2>2 DEF Starts
<1>. PICK no : no = FALSE
  OBVIOUS
<1>17. Room(g, <<i2>> \o b, E, t.v, no)
  <2>. HIDE DEF Room
  <2>. PICK h : h = (H \ rl) \cup st
    OBVIOUS
  <2>1. InsRoom(g, i2, b, first, E, h, t.v)
    BY <1>1, <1>12, <1>13, <1>14, <1>15, <1>16 DEF InsRoom
  <2>. QED  BY <2>1, RoomIns
<1>18. Room(g, t.code, E, t.v, FALSE)
  BY <1>1, <1>17
<1>19. t.code # << >> /\ t.code[1] = i2
  BY <1>1
<1>20. AtHead(t, FALSE) = t.v
  BY DEF AtHead
<1>. QED  BY <1>1, <1>13, <1>15, <1>18, <1>19, <1>20 DEF Roomy

-----------------------------------------------------------------------------
\* What a group of copies comes to, by parts.
First1(ins, n)    == Min(GroupAt(ins, n))
AfterCall(ins, n) == First1(ins, n) - 1 > 0 /\ ins[First1(ins, n) - 1].op = "call"
CallOf(ins, n)    == ins[First1(ins, n) - 1]
PmLive(s, ins, n) == (s.v \ SetIn(ins, GroupAt(ins, n))) \cup ReadIn(ins, GroupAt(ins, n))
PmIn(s, ins, n) ==
  IF AfterCall(ins, n) THEN PmLive(s, ins, n) \ CallOf(ins, n).rets ELSE PmLive(s, ins, n)
PmKept(g, d, s, ins, n) ==
  Limit2(g, d, PmIn(s, ins, n), IF AfterCall(ins, n) THEN NSave ELSE Zero, {})
PmArgs(ins, n) == IF AfterCall(ins, n) THEN CallOf(ins, n).args ELSE {}
PmReloaded(g, d, s, ins, n) == Above(PmLive(s, ins, n) \ PmKept(g, d, s, ins, n))
PmStored(s, ins, n) == SetIn(ins, GroupAt(ins, n)) \cap s.v \cap s.slot
PmCode(g, d, s, ins, n) ==
  SubSeq(ins, First1(ins, n), n) \o Reloads(PmReloaded(g, d, s, ins, n))
    \o Stores(PmStored(s, ins, n)) \o s.code

LEMMA DoPmParts ==
  ASSUME NEW p, NEW g, NEW d, NEW ins, NEW n, NEW s \in SpillState(p),
         SlotsOf(s, PmIn(s, ins, n) \ PmKept(g, d, s, ins, n)) \in SUBSET AllTemps(p),
         PmKept(g, d, s, ins, n) \cup PmArgs(ins, n) \in SUBSET Pool(p),
         PmCode(g, d, s, ins, n) \in Seq(Instr)
  PROVE  LET gone == PmIn(s, ins, n) \ PmKept(g, d, s, ins, n)
             t    == DoPm(g, d, s, ins, n)
         IN  /\ t \in SpillState(p)
             /\ t.v = PmKept(g, d, s, ins, n) \cup PmArgs(ins, n) /\ t.slot = SlotsOf(s, gone)
             /\ t.code = PmCode(g, d, s, ins, n)
             /\ t.bad <=> s.bad \/ \E e \in gone : e < Tmp0
<1>. PICK code : code = PmCode(g, d, s, ins, n)
  OBVIOUS
<1>. DEFINE gone == PmIn(s, ins, n) \ PmKept(g, d, s, ins, n)
            v == PmKept(g, d, s, ins, n) \cup PmArgs(ins, n)
            sp == Spilled(s, gone)
<1>1. /\ sp \in SpillState(p)
      /\ sp.v = s.v /\ sp.slot = SlotsOf(s, gone) /\ sp.code = s.code
      /\ sp.bad <=> s.bad \/ \E e \in gone : e < Tmp0
  <2>. HIDE DEF gone
  <2>1. SlotsOf(s, gone) \in SUBSET AllTemps(p)
    BY DEF gone
  <2>. QED  BY <2>1, SpilledIs
<1>. DEFINE t == [sp EXCEPT !.v = v, !.code = code]
<1>2. DoPm(g, d, s, ins, n) = t
  <2>1. DoPm(g, d, s, ins, n) =
          [Spilled(s, gone) EXCEPT
             !.v = v,
             !.code = SubSeq(ins, First1(ins, n), n) \o Reloads(PmReloaded(g, d, s, ins, n))
                        \o Stores(PmStored(s, ins, n)) \o @]
    BY Zenon DEF DoPm, First1, AfterCall, CallOf, PmLive, PmIn, PmKept, PmArgs, PmReloaded, PmStored,
                 SetIn, ReadIn
  <2>2. SubSeq(ins, First1(ins, n), n) \o Reloads(PmReloaded(g, d, s, ins, n))
          \o Stores(PmStored(s, ins, n)) \o sp.code = code
    BY <1>1 DEF PmCode
  <2>. QED  BY <2>1, <2>2
<1>. HIDE DEF gone, sp, v
<1>3. /\ t \in SpillState(p) /\ t.v = v /\ t.slot = sp.slot
      /\ t.code = code /\ t.bad = sp.bad
  <2>1. v \in SUBSET Pool(p) /\ code \in Seq(Instr)
    BY DEF v
  <2>. QED  BY <1>1, <2>1 DEF SpillState
<1>. HIDE DEF t
<1>. QED  BY <1>1, <1>2, <1>3 DEF gone, v

LEMMA GroupRange ==
  ASSUME NEW ins \in Seq(Instr), NEW n \in 1 .. Len(ins), RegCpy(ins[n])
  PROVE  /\ First1(ins, n) \in 1 .. n /\ GroupAt(ins, n) = First1(ins, n) .. n
         /\ \A m \in First1(ins, n) .. n : RegCpy(ins[m])
         /\ First1(ins, n) > 1 => ~ RegCpy(ins[First1(ins, n) - 1])
<1>. PICK G : G = GroupAt(ins, n)
  OBVIOUS
<1>1. G \in SUBSET Nat /\ n \in G /\ G \in SUBSET (1 .. n) /\ n \in Nat
  BY GroupIn DEF GroupAt
<1>2. \E m \in G : \A k \in G : m <= k
  BY <1>1, LeastNat
<1>. PICK k : k = First1(ins, n)
  OBVIOUS
<1>3. k \in G /\ \A m \in G : k <= m
  <2>1. k = CHOOSE m \in G : \A j \in G : m <= j
    BY DEF First1, Min
  <2>. QED  BY <1>2, <2>1
<1>4. k \in 1 .. n /\ \A m \in k .. n : RegCpy(ins[m])
  BY <1>1, <1>3 DEF GroupAt
<1>5. G = k .. n
  <2>1. ASSUME NEW m \in k .. n PROVE m \in G
    <3>1. m \in 1 .. n /\ \A j \in m .. n : j \in k .. n
      BY <1>1, <1>4
    <3>. QED  BY <1>4, <3>1 DEF GroupAt
  <2>2. \A m \in G : m \in k .. n
    BY <1>1, <1>3, <1>4
  <2>. QED  BY <2>1, <2>2
<1>6. ASSUME k > 1, RegCpy(ins[k - 1]) PROVE FALSE
  <2>1. k - 1 \in 1 .. n /\ \A j \in k - 1 .. n : j = k - 1 \/ j \in k .. n
    BY <1>1, <1>4, <1>6
  <2>2. \A j \in k - 1 .. n : RegCpy(ins[j])
    BY <1>4, <1>6, <2>1
  <2>3. k - 1 \in G
    BY <2>1, <2>2 DEF GroupAt
  <2>4. ~ (k <= k - 1)
    BY <1>1, <1>4
  <2>. QED  BY <1>3, <2>3, <2>4
<1>. QED  BY <1>4, <1>5, <1>6

LEMMA SameIn ==
  ASSUME NEW P, NEW D, NEW I, NEW J,
         \A j \in I : \E m \in J : P[j] = D[m], \A m \in J : \E j \in I : P[j] = D[m]
  PROVE  SetIn(P, I) = SetIn(D, J) /\ ReadIn(P, I) = ReadIn(D, J)
<1>1. SetIn(P, I) \subseteq SetIn(D, J) /\ ReadIn(P, I) \subseteq ReadIn(D, J)
  BY DEF SetIn, ReadIn
<1>2. SetIn(D, J) \subseteq SetIn(P, I) /\ ReadIn(D, J) \subseteq ReadIn(P, I)
  BY DEF SetIn, ReadIn
<1>. QED  BY <1>1, <1>2

\* The instructions of the group.
LEMMA GroupSeq ==
  ASSUME NEW ins \in Seq(Instr), NEW n \in 1 .. Len(ins), RegCpy(ins[n]),
         NEW P, P = SubSeq(ins, First1(ins, n), n)
  PROVE  /\ P \in Seq(Instr) /\ P # << >> /\ \A j \in 1 .. Len(P) : RegCpy(P[j])
         /\ SetIn(P, DOMAIN P) = SetIn(ins, GroupAt(ins, n))
         /\ ReadIn(P, DOMAIN P) = ReadIn(ins, GroupAt(ins, n))
<1>. PICK k : k = First1(ins, n)
  OBVIOUS
<1>1. /\ k \in 1 .. n /\ GroupAt(ins, n) = k .. n /\ \A m \in k .. n : RegCpy(ins[m])
      /\ n \in Nat /\ Len(ins) \in Nat /\ n <= Len(ins)
  BY GroupRange
<1>2. P = SubSeq(ins, k, n) /\ P \in Seq(Instr)
  BY <1>1
<1>3. Len(P) = n - k + 1 /\ DOMAIN P = 1 .. Len(P) /\ Len(P) \in Nat /\ Len(P) # 0
      /\ \A j \in 1 .. Len(P) : P[j] = ins[k + j - 1]
  BY <1>1, <1>2
<1>4. (\A j \in 1 .. Len(P) : k + j - 1 \in k .. n)
      /\ \A m \in k .. n : m - k + 1 \in 1 .. Len(P) /\ k + (m - k + 1) - 1 = m
  <2>. PICK l : l = Len(P)
    OBVIOUS
  <2>1. k \in Int /\ n \in Int /\ l = n - k + 1
    BY <1>1, <1>3
  <2>2. \A j \in 1 .. l : k + j - 1 \in k .. n
    BY <2>1
  <2>3. \A m \in k .. n : m - k + 1 \in 1 .. l /\ k + (m - k + 1) - 1 = m
    BY <2>1
  <2>. QED  BY <2>2, <2>3
<1>5. \A j \in 1 .. Len(P) : RegCpy(P[j])
  BY <1>1, <1>3, <1>4
<1>6. (\A j \in 1 .. Len(P) : \E m \in k .. n : P[j] = ins[m])
      /\ \A m \in k .. n : \E j \in 1 .. Len(P) : P[j] = ins[m]
  BY <1>3, <1>4
<1>7. SetIn(P, 1 .. Len(P)) = SetIn(ins, k .. n) /\ ReadIn(P, 1 .. Len(P)) = ReadIn(ins, k .. n)
  <2>. PICK I, J : I = 1 .. Len(P) /\ J = k .. n
    OBVIOUS
  <2>1. (\A j \in I : \E m \in J : P[j] = ins[m]) /\ \A m \in J : \E j \in I : P[j] = ins[m]
    BY <1>6
  <2>2. SetIn(P, I) = SetIn(ins, J) /\ ReadIn(P, I) = ReadIn(ins, J)
    BY ONLY <2>1, SameIn
  <2>. QED  BY <2>2
<1>8. P # << >>
  BY <1>3
<1>. QED  BY <1>1, <1>2, <1>3, <1>5, <1>7, <1>8

\* What the copies read are registers.
LEMMA CopiesRead ==
  ASSUME NEW ins \in Seq(Instr), NEW g \in SUBSET (1 .. Len(ins)),
         \A k \in g : RegCpy(ins[k]) /\ ins[k].arg[2] = R
  PROVE  \A e \in ReadIn(ins, g) : e < Tmp0
<1>1. ASSUME NEW k \in g PROVE \A e \in Operands(ins[k]) : e < Tmp0
  <2>1. IsReg(ins[k].arg[1]) /\ ins[k].arg[2] = R
    BY DEF RegCpy
  <2>2. Operands(ins[k]) = {Id(ins[k].arg[1])}
    BY <2>1, OperandIs DEF Operands, IsReg
  <2>. QED  BY <2>1, <2>2 DEF IsReg
<1>. QED  BY <1>1 DEF ReadIn

InsAll(p, ins) == ins \in Seq(Instr) /\ \A m \in 1 .. Len(ins) : InsGiven(p, ins[m])

\* The sets that a group of copies goes by.
LEMMA PmSets ==
  ASSUME NEW p, NEW g, NEW d, SpillGiven(p, g, d), NEW ins, InsAll(p, ins),
         NEW n \in 1 .. Len(ins), RegCpy(ins[n]), NEW s \in SpillState(p)
  PROVE  LET kept == PmKept(g, d, s, ins, n)
         IN  /\ PmLive(s, ins, n) \in SUBSET Pool(p) /\ PmIn(s, ins, n) \in SUBSET PmLive(s, ins, n)
             /\ kept \in SUBSET PmIn(s, ins, n)
             /\ PmArgs(ins, n) \in SUBSET RSave /\ PmArgs(ins, n) \in SUBSET Pool(p)
             /\ PmStored(s, ins, n) \in SUBSET s.v
             /\ \A e \in PmLive(s, ins, n) \ PmIn(s, ins, n) : AfterCall(ins, n) /\ e \in RSave
             /\ IF AfterCall(ins, n) THEN Holds(g, kept \cup RSave) ELSE Holds(g, kept)
<1>. PICK G, k, u, in, kept : /\ G = GroupAt(ins, n) /\ k = First1(ins, n) /\ u = PmLive(s, ins, n)
                              /\ in = PmIn(s, ins, n) /\ kept = PmKept(g, d, s, ins, n)
  OBVIOUS
<1>1. ins \in Seq(Instr) /\ \A m \in 1 .. Len(ins) : InsGiven(p, ins[m])
  BY DEF InsAll
<1>2. G \in SUBSET (1 .. Len(ins)) /\ k \in 1 .. n
  BY <1>1, GroupIn DEF First1
<1>3. s.v \in SUBSET Pool(p)
  BY DEF SpillState
<1>4. u \in SUBSET Pool(p)
  <2>1. \A m \in G : Operands(ins[m]) \subseteq Pool(p)
    BY <1>1, <1>2 DEF InsGiven
  <2>. QED  BY <1>3, <2>1 DEF PmLive, ReadIn
<1>5. in \in SUBSET u
  BY DEF PmIn
<1>6. AfterCall(ins, n) =>
        /\ CallOf(ins, n).args \in SUBSET RSave /\ CallOf(ins, n).rets \in SUBSET RSave
  <2>. SUFFICES ASSUME AfterCall(ins, n)
                PROVE  /\ CallOf(ins, n).args \in SUBSET RSave /\ CallOf(ins, n).rets \in SUBSET RSave
    OBVIOUS
  <2>1. k - 1 \in 1 .. Len(ins) /\ ins[k - 1].op = "call"
    BY <1>2 DEF AfterCall
  <2>2. InsGiven(p, ins[k - 1])
    BY <1>1, <2>1
  <2>. QED  BY <2>1, <2>2 DEF InsGiven, CallOf
<1>7. in \in SUBSET Pool(p) /\ IsFiniteSet(in) /\ Ranked(d, in)
  <2>1. in \in SUBSET Pool(p)
    BY <1>4, <1>5
  <2>. QED  BY <2>1, GivenIs
<1>8. /\ kept \in SUBSET in
      /\ IF AfterCall(ins, n) THEN Holds(g, kept \cup RSave) ELSE Holds(g, kept)
  <2>1. CASE AfterCall(ins, n)
    <3>1. kept = Limit2(g, d, in, NSave, {})
      BY <2>1 DEF PmKept
    <3>2. g.fp \cap Regs = {}
      BY <1>7, GivenIs
    <3>. QED  BY <1>7, <2>1, <3>1, <3>2, InUseAre, Limit2Is, SaveHolds
  <2>2. CASE ~ AfterCall(ins, n)
    <3>1. kept = Limit2(g, d, in, Zero, {})
      BY <2>2 DEF PmKept
    <3>2. kept \in SUBSET in
      BY <1>7, <3>1, InUseAre, Limit2Is
    <3>3. Holds(g, kept)
      BY <1>7, <3>1, Limit2Holds
    <3>. QED  BY <2>2, <3>2, <3>3
  <2>. QED  BY <2>1, <2>2
<1>9. PmArgs(ins, n) \in SUBSET RSave /\ PmArgs(ins, n) \in SUBSET Pool(p)
  <2>1. RSave \subseteq Pool(p)
    BY RegsAssumption DEF Pool
  <2>. QED  BY <1>6, <2>1 DEF PmArgs
<1>10. \A e \in u \ in : AfterCall(ins, n) /\ e \in RSave
  BY <1>6 DEF PmIn
<1>11. PmStored(s, ins, n) \in SUBSET s.v
  BY DEF PmStored
<1>. QED  BY <1>4, <1>5, <1>8, <1>9, <1>10, <1>11

LEMMA DoPmTyped ==
  ASSUME NEW p, NEW g, NEW d, SpillGiven(p, g, d), NEW ins, InsAll(p, ins),
         NEW n \in 1 .. Len(ins), RegCpy(ins[n]), NEW s \in SpillState(p)
  PROVE  LET kept == PmKept(g, d, s, ins, n)
             gone == PmIn(s, ins, n) \ kept
             rl   == PmReloaded(g, d, s, ins, n)
             st   == PmStored(s, ins, n)
             P    == SubSeq(ins, First1(ins, n), n)
             t    == DoPm(g, d, s, ins, n)
         IN  /\ t \in SpillState(p)
             /\ t.v = kept \cup PmArgs(ins, n) /\ t.slot = SlotsOf(s, gone)
             /\ t.code = P \o (Reloads(rl) \o (Stores(st) \o s.code))
             /\ t.bad <=> s.bad \/ \E e \in gone : e < Tmp0
             /\ rl \in SUBSET Int /\ st \in SUBSET Int /\ IsFiniteSet(rl) /\ IsFiniteSet(st)
             /\ P \in Seq(Instr) /\ Stores(st) \o s.code \in Seq(Instr)
             /\ Reloads(rl) \o (Stores(st) \o s.code) \in Seq(Instr)
<1>. DEFINE kept == PmKept(g, d, s, ins, n)
            gone == PmIn(s, ins, n) \ kept
            rl == PmReloaded(g, d, s, ins, n)
            st == PmStored(s, ins, n)
            P == SubSeq(ins, First1(ins, n), n)
<1>1. /\ kept \in SUBSET Pool(p) /\ gone \in SUBSET Pool(p) /\ PmArgs(ins, n) \in SUBSET Pool(p)
      /\ PmLive(s, ins, n) \in SUBSET Pool(p) /\ st \in SUBSET s.v
  BY PmSets
<1>. HIDE DEF kept, gone, rl, st, P
<1>2. SlotsOf(s, gone) \in SUBSET AllTemps(p)
  <2>1. s.slot \in SUBSET AllTemps(p)
    BY DEF SpillState
  <2>2. Above(gone) \in SUBSET AllTemps(p)
    BY <1>1, GivenIs
  <2>. QED  BY <2>1, <2>2 DEF SlotsOf, Above
<1>3. rl \in SUBSET Int /\ IsFiniteSet(rl)
  <2>. PICK o : o = PmLive(s, ins, n) \ kept
    OBVIOUS
  <2>1. o \in SUBSET Pool(p) /\ rl = Above(o)
    BY <1>1 DEF PmReloaded, rl, kept
  <2>2. rl \in SUBSET Pool(p)
    BY <2>1, GivenIs
  <2>. QED  BY <2>2, GivenIs
<1>4. st \in SUBSET Int /\ IsFiniteSet(st)
  <2>1. st \in SUBSET Pool(p)
    BY <1>1 DEF SpillState
  <2>. QED  BY <2>1, GivenIs
<1>5. P \in Seq(Instr)
  <2>1. ins \in Seq(Instr)
    BY DEF InsAll
  <2>. QED  BY <2>1, GroupSeq DEF P
<1>. DEFINE a == Reloads(rl)
            b == Stores(st)
            e == s.code
<1>6. a \in Seq(Instr) /\ b \in Seq(Instr) /\ e \in Seq(Instr)
  BY <1>3, <1>4, StoresIn DEF SpillState
<1>. HIDE DEF a, b, e
<1>7. b \o e \in Seq(Instr) /\ a \o (b \o e) \in Seq(Instr) /\ P \o (a \o (b \o e)) \in Seq(Instr)
  BY ONLY <1>5, <1>6
<1>8. P \o a \o b \o e = P \o (a \o (b \o e))
  <2>1. FromRight(P, a, b, e)
    BY ONLY <1>5, <1>6, ConcatFour
  <2>. QED  BY ONLY <2>1 DEF FromRight
<1>9. PmCode(g, d, s, ins, n) = P \o (a \o (b \o e))
  <2>1. PmCode(g, d, s, ins, n) = P \o a \o b \o e
    BY Zenon DEF PmCode, P, a, b, e, rl, st
  <2>. QED  BY <1>8, <2>1
<1>10. /\ SlotsOf(s, PmIn(s, ins, n) \ PmKept(g, d, s, ins, n)) \in SUBSET AllTemps(p)
       /\ PmKept(g, d, s, ins, n) \cup PmArgs(ins, n) \in SUBSET Pool(p)
       /\ PmCode(g, d, s, ins, n) \in Seq(Instr)
  BY <1>1, <1>2, <1>7, <1>9 DEF kept, gone
<1>. DEFINE t == DoPm(g, d, s, ins, n)
<1>11. /\ t \in SpillState(p)
       /\ t.v = kept \cup PmArgs(ins, n) /\ t.slot = SlotsOf(s, gone)
       /\ t.code = PmCode(g, d, s, ins, n)
       /\ t.bad <=> s.bad \/ \E o \in gone : o < Tmp0
  BY <1>10, DoPmParts DEF kept, gone
<1>. QED  BY <1>3, <1>4, <1>5, <1>7, <1>9, <1>11 DEF a, b, e, kept, gone, rl, st, P

LEMMA DoPmRoom ==
  ASSUME NEW p, NEW g, NEW d, SpillGiven(p, g, d), NEW ins, InsAll(p, ins),
         \A m \in 1 .. Len(ins) : RegCpy(ins[m]) => ins[m].arg[2] = R,
         NEW n \in 1 .. Len(ins), RegCpy(ins[n]), NEW s \in SpillState(p),
         NEW E, Roomy(g, s, E, FALSE), ~ Starts(s.code), ~ DoPm(g, d, s, ins, n).bad
  PROVE  /\ Roomy(g, DoPm(g, d, s, ins, n), E, AfterCall(ins, n))
         /\ Starts(DoPm(g, d, s, ins, n).code) /\ ~ s.bad
         /\ AfterCall(ins, n) => CallOf(ins, n).args \subseteq DoPm(g, d, s, ins, n).v
<1>. PICK kept, rl, st, P, t : /\ kept = PmKept(g, d, s, ins, n) /\ rl = PmReloaded(g, d, s, ins, n)
                               /\ st = PmStored(s, ins, n) /\ P = SubSeq(ins, First1(ins, n), n)
                               /\ t = DoPm(g, d, s, ins, n)
  OBVIOUS
<1>. PICK a, b, u : a = Reloads(rl) \o b /\ b = Stores(st) \o s.code /\ u = PmLive(s, ins, n)
  <2>. DEFINE b1 == Stores(st) \o s.code
  <2>1. Reloads(rl) \o b1 = Reloads(rl) \o b1
    OBVIOUS
  <2>. QED  BY <2>1
<1>1. /\ t \in SpillState(p) /\ t.v = kept \cup PmArgs(ins, n) /\ t.code = P \o a
      /\ ~ s.bad /\ \A e \in PmIn(s, ins, n) \ kept : ~ (e < Tmp0)
      /\ rl \in SUBSET Int /\ st \in SUBSET Int /\ IsFiniteSet(rl) /\ IsFiniteSet(st)
      /\ P \in Seq(Instr) /\ b \in Seq(Instr) /\ a \in Seq(Instr) /\ s.code \in Seq(Instr)
  <2>1. s.code \in Seq(Instr)
    BY DEF SpillState
  <2>. QED  BY <2>1, DoPmTyped
<1>2. /\ u \in SUBSET Pool(p) /\ kept \in SUBSET PmIn(s, ins, n) /\ PmIn(s, ins, n) \in SUBSET u
      /\ PmArgs(ins, n) \in SUBSET RSave /\ PmArgs(ins, n) \in SUBSET Pool(p)
      /\ st \in SUBSET s.v
      /\ \A e \in u \ PmIn(s, ins, n) : AfterCall(ins, n) /\ e \in RSave
      /\ IF AfterCall(ins, n) THEN Holds(g, kept \cup RSave) ELSE Holds(g, kept)
  BY PmSets
<1>3. Tmp0 \in Int /\ \A e \in Pool(p) : e \in Int
  <2>1. p \in Programs
    BY DEF SpillGiven
  <2>. QED  BY <2>1, RegsAssumption, PoolIs
<1>. DEFINE H2 == IF AfterCall(ins, n) THEN kept \cup RSave ELSE kept
<1>4. Holds(g, H2) /\ IsFiniteSet(H2) /\ AtHead(t, AfterCall(ins, n)) = H2
  <2>1. IsFiniteSet(kept) /\ IsFiniteSet(RSave)
    <3>1. kept \in SUBSET Pool(p)
      BY <1>2
    <3>. QED  BY <3>1, GivenIs, RegsFinite
  <2>2. IsFiniteSet(kept \cup RSave)
    BY <2>1, FS_Union
  <2>3. ~ AfterCall(ins, n) => PmArgs(ins, n) = {}
    BY DEF PmArgs
  <2>. QED  BY <1>1, <1>2, <2>1, <2>2, <2>3 DEF AtHead
\* A register that is live here is kept, or is overwritten by the call.
<1>5. \A e \in u : e < Tmp0 => e \in H2
  BY <1>1, <1>2
<1>6. \A e \in u : e \in H2 \/ e \in rl
  <2>. SUFFICES ASSUME NEW e \in u, e \notin H2 PROVE e \in rl
    OBVIOUS
  <2>1. e \in Int /\ e >= Tmp0 /\ e \notin kept
    BY <1>2, <1>3, <1>5
  <2>. QED  BY <2>1 DEF PmReloaded, Above
<1>. HIDE DEF H2
<1>7. /\ P # << >> /\ (\A j \in 1 .. Len(P) : RegCpy(P[j]))
      /\ SetIn(P, DOMAIN P) = SetIn(ins, GroupAt(ins, n))
      /\ ReadIn(P, DOMAIN P) = ReadIn(ins, GroupAt(ins, n))
  <2>1. ins \in Seq(Instr)
    BY DEF InsAll
  <2>. QED  BY <2>1, GroupSeq
<1>8. \A e \in ReadIn(ins, GroupAt(ins, n)) : e < Tmp0
  <2>. PICK G : G = GroupAt(ins, n)
    OBVIOUS
  <2>1. ins \in Seq(Instr)
    BY DEF InsAll
  <2>2. G \in SUBSET (1 .. Len(ins)) /\ \A m \in G : RegCpy(ins[m])
    BY <2>1, GroupIn
  <2>3. \A m \in G : RegCpy(ins[m]) /\ ins[m].arg[2] = R
    BY <2>2
  <2>4. \A e \in ReadIn(ins, G) : e < Tmp0
    BY <2>1, <2>2, <2>3, CopiesRead
  <2>. QED  BY <2>4
<1>9. /\ Room(g, s.code, E, s.v, FALSE) /\ Holds(g, s.v) /\ IsFiniteSet(s.v)
  BY DEF Roomy, AtHead
<1>. PICK no : no = FALSE
  OBVIOUS
<1>10. Room(g, b, E, s.v, no)
  <2>. PICK v : v = s.v
    OBVIOUS
  <2>1. Holds(g, v \cup st) /\ v \cup st = v /\ Room(g, s.code, E, v, no)
    <3>1. v \cup st = v
      BY <1>2
    <3>. QED  BY <1>9, <3>1
  <2>2. Room(g, b, E, v \cup st, no)
    BY <1>1, <1>9, <2>1, RoomStores
  <2>. QED  BY <2>1, <2>2
<1>11. Room(g, a, E, s.v \ rl, no)
  BY <1>1, <1>9, <1>10, RoomReloads
<1>12. a # << >> => ~ RegCpy(a[1])
  <2>1. Starts(a) => Starts(b)
    BY <1>1, MovesPlain
  <2>2. Starts(b) => Starts(s.code)
    BY <1>1, MovesPlain
  <2>. QED  BY <2>1, <2>2 DEF Starts
<1>13. ((s.v \ rl) \ SetIn(P, DOMAIN P)) \cup ReadIn(P, DOMAIN P)
         \cup (IF AfterCall(ins, n) THEN RSave ELSE {}) \subseteq H2
  <2>1. (s.v \ SetIn(P, DOMAIN P)) \cup ReadIn(P, DOMAIN P) = u
    BY <1>7 DEF PmLive
  <2>2. \A e \in ReadIn(P, DOMAIN P) : e \in H2
    BY <1>5, <1>7, <1>8, <2>1
  <2>3. \A e \in (s.v \ rl) \ SetIn(P, DOMAIN P) : e \in H2
    BY <1>6, <2>1
  <2>4. (IF AfterCall(ins, n) THEN RSave ELSE {}) \subseteq H2
    BY DEF H2
  <2>. QED  BY <2>2, <2>3, <2>4
<1>14. Room(g, P \o a, E, H2, AfterCall(ins, n))
  <2>. PICK first, h : first = AfterCall(ins, n) /\ h = s.v \ rl
    OBVIOUS
  <2>1. /\ P \in Seq(Instr) /\ P # << >> /\ (\A j \in 1 .. Len(P) : RegCpy(P[j]))
        /\ a \in Seq(Instr) /\ (a # << >> => ~ RegCpy(a[1])) /\ Room(g, a, E, h, no)
        /\ IsFiniteSet(H2) /\ Holds(g, H2)
        /\ (h \ SetIn(P, DOMAIN P)) \cup ReadIn(P, DOMAIN P) \cup (IF first THEN RSave ELSE {}) \subseteq H2
    BY <1>1, <1>4, <1>7, <1>11, <1>12, <1>13
  <2>2. Room(g, P \o a, E, H2, first)
    BY ONLY <2>1, RoomGroup
  <2>. QED  BY <2>2
<1>15. Starts(P \o a)
  <2>0. P \in Seq(Instr) /\ P # << >>
    BY <1>1, <1>7
  <2>1. Len(P) \in Nat /\ Len(P) # 0 /\ 1 \in 1 .. Len(P)
    BY ONLY <2>0
  <2>2. (P \o a)[1] = P[1] /\ P \o a # << >>
    BY <1>1, <2>1
  <2>. QED  BY <1>7, <2>1, <2>2 DEF Starts
<1>16. AfterCall(ins, n) => CallOf(ins, n).args \subseteq t.v
  BY <1>1 DEF PmArgs
<1>. QED  BY <1>1, <1>4, <1>14, <1>15, <1>16 DEF Roomy

-----------------------------------------------------------------------------
(***************************************************************************)
(* The instructions of a block, from the last one.                         *)
(***************************************************************************)
CopyAt(ins, n)     == n <= Len(ins) /\ RegCpy(ins[n])
CallBefore(ins, n) == CopyAt(ins, n) /\ AfterCall(ins, n)
SpillInv(g, ins, n, s, E) ==
  ~ s.bad => /\ Roomy(g, s, E, CallBefore(ins, n))
             /\ CallBefore(ins, n) => CallOf(ins, n).args \subseteq s.v
             /\ Starts(s.code) <=> CopyAt(ins, n)

LEMMA SpillAtTyped ==
  ASSUME NEW p, NEW g, NEW d, SpillGiven(p, g, d), NEW ins, InsAll(p, ins),
         NEW n \in 1 .. Len(ins), NEW s \in SpillState(p)
  PROVE  SpillAt(g, d, s, ins, n) \in SpillState(p) /\ (s.bad => SpillAt(g, d, s, ins, n).bad)
<1>1. ins[n] \in Instr /\ InsGiven(p, ins[n])
  BY DEF InsAll
<1>2. CASE RegCpy(ins[n]) /\ GroupEnd(ins, n)
  <2>1. SpillAt(g, d, s, ins, n) = DoPm(g, d, s, ins, n)
    BY <1>2 DEF SpillAt
  <2>2. DoPm(g, d, s, ins, n) \in SpillState(p) /\ (s.bad => DoPm(g, d, s, ins, n).bad)
    BY <1>2, DoPmTyped
  <2>. QED  BY <2>1, <2>2
<1>3. CASE RegCpy(ins[n]) /\ ~ GroupEnd(ins, n)
  BY <1>3 DEF SpillAt
<1>4. CASE ~ RegCpy(ins[n])
  <2>. PICK i : i = ins[n]
    OBVIOUS
  <2>1. SpillAt(g, d, s, ins, n) = SpillIns(g, d, s, i)
    BY <1>4 DEF SpillAt
  <2>2. SpillIns(g, d, s, i) \in SpillState(p) /\ (s.bad => SpillIns(g, d, s, i).bad)
    BY <1>1, <1>4, SpillInsTyped
  <2>. QED  BY <2>1, <2>2
<1>. QED  BY <1>2, <1>3, <1>4

LEMMA SameGroup ==
  ASSUME NEW ins \in Seq(Instr), NEW n \in 1 .. Len(ins), RegCpy(ins[n]),
         NEW m, m = n + 1, m <= Len(ins), RegCpy(ins[m])
  PROVE  First1(ins, n) = First1(ins, m)
<1>. PICK k, j : k = First1(ins, n) /\ j = First1(ins, m)
  OBVIOUS
<1>1. m \in 1 .. Len(ins) /\ n \in Nat
  OBVIOUS
<1>2. /\ k \in 1 .. n /\ GroupAt(ins, n) = k .. n /\ k \in k .. n
      /\ \A q \in k .. n : RegCpy(ins[q])
  BY <1>1, GroupRange
<1>3. /\ j \in 1 .. m /\ GroupAt(ins, m) = j .. m /\ j \in j .. m
      /\ \A q \in j .. m : RegCpy(ins[q])
  BY <1>1, GroupRange
<1>4. k \in GroupAt(ins, m)
  <2>1. k \in 1 .. m /\ \A q \in k .. m : q \in k .. n \/ q = m
    BY <1>1, <1>2
  <2>2. \A q \in k .. m : RegCpy(ins[q])
    BY <1>2, <2>1
  <2>. QED  BY <2>1, <2>2 DEF GroupAt
<1>5. n \in GroupAt(ins, m)
  <2>1. n \in 1 .. m /\ \A q \in n .. m : q = n \/ q = m
    BY <1>1
  <2>. QED  BY <2>1 DEF GroupAt
<1>6. j \in GroupAt(ins, n)
  <2>1. j \in 1 .. n /\ \A q \in j .. n : q \in j .. m
    BY <1>1, <1>3, <1>5
  <2>2. \A q \in j .. n : RegCpy(ins[q])
    BY <1>3, <2>1
  <2>. QED  BY <2>1, <2>2 DEF GroupAt
<1>. QED  BY <1>1, <1>2, <1>3, <1>4, <1>6

LEMMA SpillAtRoom ==
  ASSUME NEW p, NEW g, NEW d, SpillGiven(p, g, d), NEW ins, InsAll(p, ins),
         NEW n \in 1 .. Len(ins), NEW s \in SpillState(p), NEW E,
         NEW m, m = n + 1, SpillInv(g, ins, m, s, E)
  PROVE  SpillInv(g, ins, n, SpillAt(g, d, s, ins, n), E)
<1>. PICK t : t = SpillAt(g, d, s, ins, n)
  OBVIOUS
<1>. SUFFICES ASSUME ~ t.bad PROVE SpillInv(g, ins, n, t, E)
  BY DEF SpillInv
<1>1. ins \in Seq(Instr) /\ ins[n] \in Instr /\ InsGiven(p, ins[n])
      /\ n \in Nat /\ Len(ins) \in Nat /\ m \in Nat /\ n <= Len(ins) /\ m - 1 = n
  BY DEF InsAll
<1>2. ~ s.bad
  BY SpillAtTyped
<1>. DEFINE first == CallBefore(ins, m)
<1>3. /\ Roomy(g, s, E, first) /\ (first => CallOf(ins, m).args \subseteq s.v)
      /\ (Starts(s.code) <=> CopyAt(ins, m)) /\ first \in BOOLEAN
  BY <1>2 DEF SpillInv, CallBefore, AfterCall
<1>4. CopyAt(ins, m) => m \in 1 .. Len(ins) /\ RegCpy(ins[m])
  BY <1>1 DEF CopyAt
<1>5. CASE RegCpy(ins[n]) /\ ~ CopyAt(ins, m)
  <2>1. GroupEnd(ins, n)
    <3>1. n = Len(ins) \/ m <= Len(ins)
      BY <1>1
    <3>. QED  BY <1>5, <3>1 DEF GroupEnd, CopyAt
  <2>2. t = DoPm(g, d, s, ins, n)
    BY <1>5, <2>1 DEF SpillAt
  <2>3. first = FALSE
    BY <1>5 DEF CallBefore
  <2>4. \A q \in 1 .. Len(ins) : RegCpy(ins[q]) => ins[q].arg[2] = R
    BY DEF InsAll, InsGiven
  <2>5. /\ Roomy(g, t, E, AfterCall(ins, n)) /\ Starts(t.code)
        /\ AfterCall(ins, n) => CallOf(ins, n).args \subseteq t.v
    BY <1>3, <1>5, <2>2, <2>3, <2>4, DoPmRoom
  <2>6. CopyAt(ins, n) /\ CallBefore(ins, n) = AfterCall(ins, n)
    BY <1>1, <1>5 DEF CopyAt, CallBefore, AfterCall
  <2>. QED  BY <2>5, <2>6 DEF SpillInv
<1>6. CASE RegCpy(ins[n]) /\ CopyAt(ins, m)
  <2>1. ~ GroupEnd(ins, n)
    <3>1. n # Len(ins)
      BY <1>1, <1>6 DEF CopyAt
    <3>. QED  BY <1>6, <3>1 DEF GroupEnd, CopyAt
  <2>2. t = s
    BY <1>6, <2>1 DEF SpillAt
  <2>3. First1(ins, n) = First1(ins, m)
    BY <1>1, <1>4, <1>6, SameGroup
  <2>4. CopyAt(ins, n) /\ CallBefore(ins, n) = first /\ CallOf(ins, n) = CallOf(ins, m)
    BY <1>1, <1>6, <2>3 DEF CopyAt, CallBefore, AfterCall, CallOf
  <2>. QED  BY <1>3, <1>6, <2>2, <2>4 DEF SpillInv
<1>7. CASE ~ RegCpy(ins[n])
  <2>. PICK i : i = ins[n]
    OBVIOUS
  <2>1. t = SpillIns(g, d, s, i)
    BY <1>7 DEF SpillAt
  <2>2. CopyAt(ins, m) => (AfterCall(ins, m) <=> i.op = "call") /\ CallOf(ins, m) = i
    <3>. SUFFICES ASSUME CopyAt(ins, m)
                  PROVE  (AfterCall(ins, m) <=> i.op = "call") /\ CallOf(ins, m) = i
      OBVIOUS
    <3>. PICK k : k = First1(ins, m)
      OBVIOUS
    <3>1. k \in 1 .. m /\ \A q \in k .. m : RegCpy(ins[q])
      BY <1>1, <1>4, GroupRange
    <3>2. ~ (k <= n)
      <4>1. k <= n => n \in k .. m
        BY <1>1, <3>1
      <4>. QED  BY <1>7, <3>1, <4>1
    <3>3. k = m /\ k - 1 = n /\ n > 0
      BY <1>1, <3>1, <3>2
    <3>. QED  BY <3>3 DEF AfterCall, CallOf
  <2>3. first => i.op = "call" /\ i.args \subseteq s.v
    BY <1>3, <2>2 DEF CallBefore
  <2>4. i.op = "call" /\ Starts(s.code) => first
    BY <1>3, <2>2 DEF CallBefore
  <2>5. Roomy(g, t, E, FALSE) /\ t.code # << >> /\ ~ RegCpy(t.code[1])
    <3>. HIDE DEF first
    <3>. QED  BY <1>1, <1>3, <1>7, <2>1, <2>3, <2>4, SpillInsRoom
  <2>6. ~ CopyAt(ins, n) /\ CallBefore(ins, n) = FALSE
    BY <1>7 DEF CopyAt, CallBefore
  <2>. QED  BY <2>5, <2>6 DEF SpillInv, Starts
<1>. QED  BY <1>5, <1>6, <1>7

\* The fold of SpillBlock, as a run over the instructions.
SpillEq(it, g, d, ins, s1, seq) ==
  it = [s \in SUBSET DOMAIN seq |->
        IF s = {} THEN s1 ELSE Once(SpillAt(g, d, it[s \ {Min(s)}], ins, seq[Min(s)]))]
SpillFold(g, d, ins, s1) ==
  FoldRight(LAMBDA n, s : Once(SpillAt(g, d, s, ins, n)), [n \in 1 .. Len(ins) |-> n], s1)

LEMMA SpillRun ==
  ASSUME NEW p, NEW g, NEW d, SpillGiven(p, g, d), NEW ins, InsAll(p, ins), NEW s1 \in SpillState(p)
  PROVE  \E y \in [1 .. Len(ins) + 1 -> SpillState(p)] :
           /\ y[Len(ins) + 1] = s1 /\ y[1] = SpillFold(g, d, ins, s1)
           /\ \A n \in 1 .. Len(ins) : y[n] = SpillAt(g, d, y[n + 1], ins, n)
<1>. DEFINE S == SpillState(p)
            I == 1 .. Len(ins)
            seq == [n \in I |-> n]
            it == CHOOSE h : SpillEq(h, g, d, ins, s1, seq)
            ch == [s \in SUBSET I |-> Min(s)]
            G == [e \in I \X S |-> SpillAt(g, d, e[2], ins, e[1])]
<1>0. Len(ins) \in Nat
  BY DEF InsAll
<1>1. DOMAIN seq = I
  OBVIOUS
<1>2. SpillFold(g, d, ins, s1) = it[I]
  <2>1. SpillFold(g, d, ins, s1) = it[DOMAIN seq]
    BY Zenon DEF SpillFold, FoldRight, MapThenFoldSet, SpillEq
  <2>. QED  BY <1>1, <2>1
<1>. HIDE DEF S
<1>3. \A s \in SUBSET I : s # {} => ch[s] = Min(s) /\ ch[s] \in s /\ ch[s] \in I /\ seq[ch[s]] = ch[s]
                                     /\ s \ {ch[s]} \in SUBSET I
  BY <1>0, MinIs
<1>4. \A n \in I, s \in S : G[<<n, s>>] = SpillAt(g, d, s, ins, n) /\ SpillAt(g, d, s, ins, n) \in S
  BY SpillAtTyped DEF S
<1>5. FoldGiven(I, S, s1, G, ch)
  <2>1. G \in [I \X S -> S]
    BY <1>4
  <2>2. s1 \in S
    BY DEF S
  <2>. HIDE DEF G, ch
  <2>. QED  BY <1>0, <1>3, <2>1, <2>2, IntervalFinite DEF FoldGiven
<1>6. PICK h \in [SUBSET I -> S] : IsFold(h, I, s1, G, ch)
  <2>. HIDE DEF G, ch
  <2>. QED  BY <1>5, FoldExists
<1>7. SpillEq(h, g, d, ins, s1, seq)
  <2>1. ASSUME NEW s \in SUBSET I, s # {}
        PROVE  h[s] = Once(SpillAt(g, d, h[s \ {Min(s)}], ins, seq[Min(s)]))
    <3>. HIDE DEF G, ch, seq
    <3>1. h[s] = G[<<ch[s], h[s \ {ch[s]}]>>]
      BY <1>6, <2>1 DEF IsFold
    <3>2. ch[s] = Min(s) /\ ch[s] \in I /\ seq[Min(s)] = ch[s] /\ h[s \ {ch[s]}] \in S
      BY <1>3, <2>1
    <3>3. h[s] = SpillAt(g, d, h[s \ {Min(s)}], ins, seq[Min(s)])
      BY <1>4, <3>1, <3>2
    <3>. QED  BY <3>3 DEF Once
  <2>2. h[{}] = s1
    BY <1>6 DEF IsFold
  <2>. HIDE DEF seq
  <2>. QED  BY <1>1, <2>1, <2>2 DEF SpillEq
<1>8. SpillEq(it, g, d, ins, s1, seq)
  <2>. HIDE DEF seq
  <2>. QED  BY <1>7, Zenon
<1>. HIDE DEF it
<1>9. FoldsIn(it, I, S, s1, G, ch)
  <2>. HIDE DEF seq, G, ch
  <2>1. it[{}] = s1
        /\ \A s \in SUBSET I : s # {} => it[s] = Once(SpillAt(g, d, it[s \ {Min(s)}], ins, seq[Min(s)]))
    BY <1>1, <1>8 DEF SpillEq
  <2>2. ASSUME NEW s \in SUBSET I, s # {}, it[s \ {ch[s]}] \in S
        PROVE  it[s] = G[<<ch[s], it[s \ {ch[s]}]>>]
    <3>1. it[s] = SpillAt(g, d, it[s \ {Min(s)}], ins, seq[Min(s)])
      BY <2>1, <2>2 DEF Once
    <3>2. ch[s] = Min(s) /\ ch[s] \in I /\ seq[Min(s)] = ch[s]
      BY <1>3, <2>2
    <3>. QED  BY <1>4, <2>2, <3>1, <3>2
  <2>. QED  BY <2>1, <2>2 DEF FoldsIn
<1>10. \A n \in I : ch[n .. Len(ins)] = n
  <2>1. \A n \in I : n .. Len(ins) \in SUBSET I
    BY <1>0
  <2>. QED  BY <1>0, <2>1, MinIs
<1>11. PICK y \in [1 .. Len(ins) + 1 -> S] :
         /\ y[Len(ins) + 1] = s1 /\ y[1] = it[I]
         /\ \A n \in I : y[n] = G[<<n, y[n + 1]>>]
  <2>. HIDE DEF G, ch
  <2>. PICK L : L = Len(ins)
    OBVIOUS
  <2>1. /\ L \in Nat /\ FoldGiven(1 .. L, S, s1, G, ch)
        /\ \A n \in 1 .. L : ch[n .. L] = n
        /\ FoldsIn(it, 1 .. L, S, s1, G, ch)
    BY <1>0, <1>5, <1>9, <1>10
  <2>2. \E y \in [1 .. L + 1 -> S] :
           /\ y[L + 1] = s1 /\ y[1] = it[1 .. L]
           /\ \A n \in 1 .. L : y[n] = G[<<n, y[n + 1]>>]
    BY <2>1, RightRun
  <2>. QED  BY <2>2
<1>12. \A n \in I : n + 1 \in 1 .. Len(ins) + 1
  BY <1>0
<1>. HIDE DEF G
<1>13. \A n \in I : y[n] = SpillAt(g, d, y[n + 1], ins, n)
  BY <1>4, <1>11, <1>12
<1>. QED  BY <1>2, <1>11, <1>13 DEF S

LEMMA SpillFoldRoom ==
  ASSUME NEW p, NEW g, NEW d, SpillGiven(p, g, d), NEW ins, InsAll(p, ins),
         NEW s1 \in SpillState(p), s1.code = << >>, NEW E, ~ s1.bad => Roomy(g, s1, E, FALSE)
  PROVE  LET t == SpillFold(g, d, ins, s1)
         IN  t \in SpillState(p) /\ (s1.bad => t.bad) /\ (~ t.bad => Roomy(g, t, E, FALSE))
<1>. PICK L : L = Len(ins)
  OBVIOUS
<1>0. L \in Nat
  BY DEF InsAll
<1>1. PICK y \in [1 .. L + 1 -> SpillState(p)] :
           /\ y[L + 1] = s1 /\ y[1] = SpillFold(g, d, ins, s1)
           /\ \A n \in 1 .. L : y[n] = SpillAt(g, d, y[n + 1], ins, n)
  BY SpillRun
<1>. DEFINE T == {n \in 1 .. L + 1 : SpillInv(g, ins, n, y[n], E) /\ (s1.bad => y[n].bad)}
<1>2. L + 1 \in T
  <2>1. L + 1 \in 1 .. L + 1 /\ ~ CopyAt(ins, L + 1)
    BY <1>0 DEF CopyAt
  <2>2. CallBefore(ins, L + 1) = FALSE
    BY <2>1 DEF CallBefore
  <2>3. ~ Starts(s1.code)
    BY DEF Starts
  <2>4. SpillInv(g, ins, L + 1, s1, E)
    BY <2>1, <2>2, <2>3 DEF SpillInv
  <2>. QED  BY <1>1, <2>1, <2>4
<1>3. ASSUME NEW n \in 1 .. L, n + 1 \in T PROVE n \in T
  <2>. PICK m, s : m = n + 1 /\ s = y[n + 1]
    OBVIOUS
  <2>1. /\ m \in 1 .. L + 1 /\ n \in 1 .. L + 1 /\ n \in 1 .. Len(ins)
        /\ s \in SpillState(p) /\ SpillInv(g, ins, m, s, E) /\ (s1.bad => s.bad)
        /\ y[n] = SpillAt(g, d, s, ins, n)
    BY <1>0, <1>1, <1>3
  <2>2. SpillInv(g, ins, n, SpillAt(g, d, s, ins, n), E)
    BY <2>1, SpillAtRoom
  <2>3. s.bad => SpillAt(g, d, s, ins, n).bad
    BY <2>1, SpillAtTyped
  <2>. QED  BY <2>1, <2>2, <2>3
<1>4. 1 \in T
  <2>. HIDE DEF T
  <2>1. 1 \in 1 .. L + 1
    BY <1>0
  <2>. QED  BY <1>0, <1>2, <1>3, <2>1, Descend
<1>. PICK t : t = SpillFold(g, d, ins, s1)
  OBVIOUS
<1>5. t \in SpillState(p) /\ SpillInv(g, ins, 1, t, E) /\ (s1.bad => t.bad)
  <2>1. 1 \in 1 .. L + 1
    BY <1>0
  <2>. QED  BY <1>1, <1>4, <2>1
<1>6. CallBefore(ins, 1) = FALSE
  <2>. SUFFICES ASSUME CopyAt(ins, 1), AfterCall(ins, 1) PROVE FALSE
    BY DEF CallBefore
  <2>1. 1 \in 1 .. Len(ins) /\ RegCpy(ins[1]) /\ ins \in Seq(Instr)
    BY <1>0 DEF CopyAt, InsAll
  <2>2. First1(ins, 1) \in 1 .. 1
    BY <2>1, GroupRange
  <2>. QED  BY <2>2 DEF AfterCall
<1>7. ~ t.bad => Roomy(g, t, E, FALSE)
  BY <1>5, <1>6 DEF SpillInv
<1>. QED  BY <1>5, <1>7

(***************************************************************************)
(* spill() of a block.                                                     *)
(***************************************************************************)
LiveState(p) == [in  : [Blocks(p) -> SUBSET Pool(p)], out   : [Blocks(p) -> SUBSET Pool(p)],
                 gen : [Blocks(p) -> SUBSET Pool(p)], nlive : [Blocks(p) -> Nat \X Nat]]
\* What spill() has not come to yet.
Ready(b) ==
  /\ f.ins[b] = orig.ins[b] /\ f.jmp[b] = orig.jmp[b]
  /\ Succs(f, b) = {} => c.live.out[b] \subseteq RGlob
  /\ \A h \in Back(f, b), k \in 1 .. 2 : Cardinality(Mask(f, k, c.live.out[b])) <= c.live.nlive[h][k]

LEMMA LiveIs ==
  ASSUME NEW p, NEW l \in LiveState(p)
  PROVE  \A b \in Blocks(p) :
           /\ l.in[b] \in SUBSET Pool(p) /\ l.out[b] \in SUBSET Pool(p) /\ l.gen[b] \in SUBSET Pool(p)
           /\ l.nlive[b] \in Nat \X Nat /\ l.nlive[b][1] \in Nat /\ l.nlive[b][2] \in Nat
<1>1. /\ l.in \in [Blocks(p) -> SUBSET Pool(p)] /\ l.out \in [Blocks(p) -> SUBSET Pool(p)]
      /\ l.gen \in [Blocks(p) -> SUBSET Pool(p)] /\ l.nlive \in [Blocks(p) -> Nat \X Nat]
  BY DEF LiveState
<1>. QED  BY <1>1

LEMMA SameSuccs ==
  ASSUME EdgesInv
  PROVE  /\ orig \in Programs /\ Blocks(f) = Blocks(orig)
         /\ \A b : Succs(f, b) = Succs(orig, b)
         /\ \A b \in Blocks(orig) : Succs(f, b) \in SUBSET Blocks(orig)
<1>1. orig \in Programs /\ Blocks(f) = Blocks(orig) /\ \A b : Succs(f, b) = Succs(orig, b)
  BY DEF EdgesInv, SamePhis, Blocks, Succs
<1>. QED  BY <1>1, ProgramIs

\* The results and the arguments of phis are temporaries of the function.
LEMMA PhiNames ==
  ASSUME EdgesInv, NEW s \in Blocks(orig)
  PROVE  \A p \in ToSet(f.phi[s]) :
           /\ Named(p.to) \subseteq AllTemps(orig) /\ Id(p.to) \in AllTemps(orig)
           /\ \A a \in ToSet(p.arg) : IsTmp(a[2]) => Id(a[2]) \in AllTemps(orig)
<1>. SUFFICES ASSUME NEW n \in DOMAIN f.phi[s]
              PROVE  LET p == f.phi[s][n]
                     IN  /\ Named(p.to) \subseteq AllTemps(orig) /\ Id(p.to) \in AllTemps(orig)
                         /\ \A a \in ToSet(p.arg) : IsTmp(a[2]) => Id(a[2]) \in AllTemps(orig)
  BY DEF ToSet
<1>. PICK p, q : p = f.phi[s][n] /\ q = orig.phi[s][n]
  OBVIOUS
<1>1. orig \in Programs /\ SamePhi(q, p) /\ n \in DOMAIN orig.phi[s]
  BY DEF EdgesInv, SamePhis
<1>2. PhisGiven(orig, s)
  BY <1>1, ProgramIs
<1>3. q.to = Tm(Id(q.to)) /\ Id(q.to) >= Tmp0
      /\ \A a \in ToSet(q.arg) : IsTmp(a[2]) => Id(a[2]) \in AllTemps(orig)
  BY <1>1, <1>2 DEF PhisGiven
<1>4. Id(q.to) \in AllTemps(orig)
  <2>1. Id(q.to) \in Defs(orig, s)
    BY <1>1 DEF Defs
  <2>2. Id(q.to) \in Temps(orig)
    BY <2>1 DEF Temps
  <2>. QED  BY <1>3, <2>2 DEF AllTemps
<1>5. p.arg = q.arg /\ (p.to = q.to \/ p.to = Slot(Id(q.to)))
  BY <1>1 DEF SamePhi
<1>6. Named(p.to) \subseteq {Id(q.to)} /\ Id(p.to) = Id(q.to)
  BY <1>3, <1>5, OperandIs
<1>. QED  BY <1>3, <1>4, <1>5, <1>6

LEMMA LiveOnIs ==
  ASSUME EdgesInv, NEW in \in [Blocks(orig) -> SUBSET Pool(orig)], NEW b, NEW s \in Blocks(orig)
  PROVE  /\ PhiArgs(f, b, s) \in SUBSET AllTemps(orig) /\ PhiArgs(f, b, s) \in SUBSET Pool(orig)
         /\ LiveOn(f, in, b, s) \in SUBSET Pool(orig)
<1>1. PhiArgs(f, b, s) \in SUBSET AllTemps(orig)
  BY PhiNames DEF PhiArgs
<1>2. PhiArgs(f, b, s) \in SUBSET Pool(orig)
  BY <1>1 DEF Pool
<1>3. in[s] \in SUBSET Pool(orig)
  OBVIOUS
<1>. QED  BY <1>1, <1>2, <1>3 DEF LiveOn

LEMMA RegsHold ==
  ASSUME NEW p, p.fp \cap Regs = {}
  PROVE  Holds(p, Regs)
<1>1. \A t \in Regs : IsFp(p, t) <=> t \in Fpr
  BY DEF IsFp, Regs
<1>2. {t \in Regs : ~ IsFp(p, t)} = Gpr /\ {t \in Regs : IsFp(p, t)} = Fpr
  BY <1>1, RegsAssumption DEF Regs
<1>5. Mask(p, 1, Regs) = Gpr /\ Mask(p, 2, Regs) = Fpr
  BY <1>2, MaskIs, Zenon
<1>3. Cardinality(Gpr) \in Nat /\ Cardinality(Fpr) \in Nat
  BY RegsFinite, FS_CardinalityType
<1>. QED  BY <1>5, <1>3 DEF Holds, Size

LEMMA MaxIs ==
  ASSUME NEW n \in Nat, NEW S \in SUBSET (0 .. n), S # {}
  PROVE  Max(S) \in S /\ \A k \in S : k <= Max(S)
<1>. DEFINE T == {n - k : k \in S}
<1>1. T \in SUBSET Nat /\ T # {}
  <2>1. \A k \in S : k \in 0 .. n
    OBVIOUS
  <2>2. \A k \in S : n - k \in Nat
    BY <2>1
  <2>. QED  BY <2>2
<1>2. PICK t \in T : \A k \in T : t <= k
  BY <1>1, LeastNat
<1>3. PICK m \in S : t = n - m
  BY <1>2
<1>4. \A k \in S : n - k \in T
  OBVIOUS
<1>5. \A k \in S : t <= n - k
  BY <1>2, <1>4
<1>6. \A k \in S : k \in Int
  OBVIOUS
<1>7. m \in Int /\ n \in Int
  BY <1>3
<1>8. \A k \in S : k <= m
  BY <1>3, <1>5, <1>6, <1>7
<1>. QED  BY <1>8 DEF Max

LEMMA MaxBack ==
  ASSUME EdgesInv, NEW b \in Blocks(orig), Back(f, b) # {}
  PROVE  Max(Back(f, b)) \in Back(f, b)
<1>. DEFINE n == Cardinality(Blocks(orig)) - 1
<1>1. Blocks(orig) = 0 .. n /\ n \in Int
  BY SameSuccs, ProgramIs
<1>. HIDE DEF n
<1>2. n \in Nat
  BY <1>1
<1>3. Back(f, b) \in SUBSET (0 .. n)
  BY <1>1, SameSuccs DEF Back
<1>. QED  BY <1>2, <1>3, MaxIs

\* What the end of a loop keeps, of one class.
BackPart(d, u, w, n, most) ==
  IF Cardinality(u) < n THEN u \cup Limit(d, w, n - (most - Cardinality(w)), {})
  ELSE Limit(d, u, n, {})
LEMMA PartIs ==
  ASSUME NEW d, NEW u, NEW w, u \cap w = {}, Ranked(d, u), Ranked(d, w),
         IsFiniteSet(u), IsFiniteSet(w), NEW n \in Nat, NEW most \in Nat,
         NEW s, s = u \cup w
  PROVE  /\ BackPart(d, u, w, n, most) \subseteq s
         /\ Cardinality(s) <= most => Cardinality(BackPart(d, u, w, n, most)) <= n
<1>. DEFINE k == n - (most - Cardinality(w))
            L == Limit(d, w, k, {})
<1>1. IsFiniteSet(u) /\ IsFiniteSet(w) /\ IsFiniteSet(s)
  BY FS_Union
<1>2. Ranked(d, u) /\ Ranked(d, w)
  OBVIOUS
<1>3. Cardinality(u) \in Nat /\ Cardinality(w) \in Nat /\ Cardinality(s) \in Nat
  BY ONLY <1>1, FS_CardinalityType
<1>4. k \in Int
  BY <1>3
<1>5. Cardinality(s) = Cardinality(u) + Cardinality(w)
  <2>1. s = u \cup w /\ u \cap w = {}
    OBVIOUS
  <2>2. Cardinality(u \cup w) = Cardinality(u) + Cardinality(w) - Cardinality(u \cap w)
    BY <1>1, FS_Union
  <2>3. Cardinality(u \cap w) = 0
    BY <2>1, FS_EmptySet
  <2>4. Cardinality(u \cup w) = Cardinality(u) + Cardinality(w)
    BY ONLY <2>2, <2>3, <1>3
  <2>. QED  BY <2>1, <2>4
<1>6. L \subseteq w /\ (k < 0 => L = {}) /\ (k >= 0 => Cardinality(L) <= k)
  BY <1>1, <1>2, <1>4, LimitFits
<1>7. Limit(d, u, n, {}) \subseteq u /\ Cardinality(Limit(d, u, n, {})) <= n
  BY <1>1, <1>2, LimitFits
<1>8. IsFiniteSet(L) /\ Cardinality(L) \in Nat
  BY <1>1, <1>6, FS_Subset, FS_CardinalityType
<1>9. Cardinality(u \cup L) <= Cardinality(u) + Cardinality(L) /\ Cardinality(u \cup L) \in Nat
  <2>1. u \cap L = {} /\ Cardinality(u \cap L) = 0
    BY <1>6, FS_EmptySet
  <2>2. Cardinality(u \cup L) = Cardinality(u) + Cardinality(L) - Cardinality(u \cap L)
    BY <1>1, <1>8, FS_Union
  <2>. QED  BY <2>1, <2>2, <1>3, <1>8
<1>10. ASSUME Cardinality(s) <= most, Cardinality(u) < n
       PROVE  Cardinality(u \cup L) <= n
  <2>1. CASE k < 0
    <3>1. u \cup L = u
      BY <2>1, <1>6
    <3>2. Cardinality(u \cup L) = Cardinality(u)
      BY <3>1
    <3>. HIDE DEF L, k
    <3>. QED  BY <3>2, <1>3, <1>10
  <2>2. CASE k >= 0
    <3>1. Cardinality(L) <= n - (most - Cardinality(w))
      BY <2>2, <1>6
    <3>. HIDE DEF L, k
    <3>. QED  BY <3>1, <1>3, <1>5, <1>8, <1>9, <1>10
  <2>. QED  BY <2>1, <2>2, <1>4
<1>. HIDE DEF L
<1>11. BackPart(d, u, w, n, most) = IF Cardinality(u) < n THEN u \cup L ELSE Limit(d, u, n, {})
  BY DEF BackPart, L
<1>12. u \cup L \subseteq s /\ Limit(d, u, n, {}) \subseteq s
  BY <1>6, <1>7
<1>. QED  BY <1>7, <1>10, <1>11, <1>12
LEMMA BackPartIs ==
  ASSUME NEW d, NEW s, Ranked(d, s), IsFiniteSet(s), NEW gen, NEW n \in Nat, NEW most \in Nat
  PROVE  /\ BackPart(d, s \cap gen, s \ gen, n, most) \subseteq s
         /\ Cardinality(s) <= most => Cardinality(BackPart(d, s \cap gen, s \ gen, n, most)) <= n
<1>1. IsFiniteSet(s \cap gen) /\ IsFiniteSet(s \ gen)
  BY FS_Subset
<1>2. Ranked(d, s \cap gen) /\ Ranked(d, s \ gen)
  BY DEF Ranked
<1>3. (s \cap gen) \cap (s \ gen) = {} /\ s = (s \cap gen) \cup (s \ gen)
  OBVIOUS
<1>. QED  BY ONLY <1>1, <1>2, <1>3, n \in Nat, most \in Nat, PartIs

\* Sets of one class each, for both classes.
LEMMA ClassesHold ==
  ASSUME NEW p, NEW s, NEW part, \A k \in 1 .. 2 : part[k] \subseteq Mask(p, k, s)
  PROVE  /\ UNION {part[k] : k \in 1 .. 2} \subseteq s
         /\ \A k \in 1 .. 2 : Mask(p, k, UNION {part[i] : i \in 1 .. 2}) = part[k]
<1>1. \A k \in 1 .. 2 : k = 1 \/ k = 2
  OBVIOUS
<1>2. \A k \in 1 .. 2 : part[k] \subseteq s /\ \A t \in part[k] : IsFp(p, t) = (k = 2)
  BY DEF Mask
<1>3. UNION {part[i] : i \in 1 .. 2} = part[1] \cup part[2]
  BY <1>1
<1>7. part[1] \subseteq Mask(p, 1, s) /\ part[2] \subseteq Mask(p, 2, s)
  OBVIOUS
<1>4. \A t \in part[1] : ~ IsFp(p, t)
  BY <1>7, MaskIs
<1>5. \A t \in part[2] : IsFp(p, t)
  BY <1>7, MaskIs
<1>8. /\ {t \in part[1] \cup part[2] : ~ IsFp(p, t)} = part[1]
      /\ {t \in part[1] \cup part[2] : IsFp(p, t)} = part[2]
  BY <1>4, <1>5
<1>. DEFINE all == part[1] \cup part[2]
<1>. HIDE DEF all
<1>9. {t \in all : ~ IsFp(p, t)} = part[1] /\ {t \in all : IsFp(p, t)} = part[2]
  BY <1>8 DEF all
<1>10. Mask(p, 1, all) = {t \in all : ~ IsFp(p, t)} /\ Mask(p, 2, all) = {t \in all : IsFp(p, t)}
  BY MaskIs
<1>6. Mask(p, 1, part[1] \cup part[2]) = part[1] /\ Mask(p, 2, part[1] \cup part[2]) = part[2]
  BY <1>9, <1>10 DEF all
<1>. QED  BY <1>1, <1>2, <1>3, <1>6

LEMMA AtBackIs ==
  ASSUME EdgesInv, c.live \in LiveState(orig), SpillGiven(orig, f, c), NEW b \in Blocks(orig),
         NEW h \in Back(f, b), Ready(b)
  PROVE  AtBackEdge(f, c, b, h) \in SUBSET Pool(orig) /\ Holds(f, AtBackEdge(f, c, b, h))
<1>. DEFINE out == c.live.out[b]
            gen == LoopGen(c, h)
            most(k) == c.live.nlive[h][k]
            part == [k \in 1 .. 2 |-> BackPart(c, Mask(f, k, out) \cap gen, Mask(f, k, out) \ gen, Size[k], most(k))]
<1>1. h \in Blocks(orig)
  BY SameSuccs DEF Back
<1>2. out \in SUBSET Pool(orig) /\ c.live.nlive[h][1] \in Nat /\ c.live.nlive[h][2] \in Nat
  BY <1>1, LiveIs
<1>3. \A k \in 1 .. 2 : Size[k] \in Nat /\ most(k) \in Nat
  BY <1>2, SizeIs
<1>4. \A k \in 1 .. 2 : Cardinality(Mask(f, k, out)) <= most(k)
  BY DEF Ready
<1>. HIDE DEF out, gen, most
<1>5. \A k \in 1 .. 2 : Mask(f, k, out) \in SUBSET Pool(orig)
  BY <1>2, MaskIs
<1>6. \A k \in 1 .. 2 : Ranked(c, Mask(f, k, out)) /\ IsFiniteSet(Mask(f, k, out))
  BY <1>5, GivenIs
<1>7. \A k \in 1 .. 2 : part[k] \subseteq Mask(f, k, out) /\ Cardinality(part[k]) <= Size[k]
  BY <1>3, <1>4, <1>6, BackPartIs
<1>8. AtBackEdge(f, c, b, h) = UNION {part[k] : k \in 1 .. 2}
  BY DEF AtBackEdge, BackPart, out, gen, most
<1>. HIDE DEF part
<1>9. /\ UNION {part[k] : k \in 1 .. 2} \subseteq out
      /\ \A k \in 1 .. 2 : Mask(f, k, UNION {part[i] : i \in 1 .. 2}) = part[k]
  BY <1>7, ClassesHold
<1>. QED  BY <1>2, <1>7, <1>8, <1>9 DEF Holds

LEMMA AtExitIs ==
  ASSUME EdgesInv, c.live \in LiveState(orig), SpillGiven(orig, f, c), NEW b \in Blocks(orig)
  PROVE  AtExit(f, c, slot, b) \in SUBSET Pool(orig) /\ Holds(f, AtExit(f, c, slot, b))
<1>. DEFINE on(x0) == LiveOn(f, c.live.in, b, x0)
            all == UNION {Merged(c, slot, b, on(x0), x0) : x0 \in Succs(f, b)}
            both == {t \in UNION {on(x0) : x0 \in Succs(f, b)} : \A x0 \in Succs(f, b) : t \in on(x0)}
<1>1. c.live.in \in [Blocks(orig) -> SUBSET Pool(orig)]
  BY DEF LiveState
<1>2. \A x0 \in Succs(f, b) : on(x0) \in SUBSET Pool(orig)
  BY <1>1, SameSuccs, LiveOnIs
<1>. HIDE DEF on
<1>3. \A x0 \in Succs(f, b) : Merged(c, slot, b, on(x0), x0) \subseteq on(x0)
  BY DEF Merged
<1>4. all \in SUBSET Pool(orig)
  BY <1>2, <1>3
<1>5. AtExit(f, c, slot, b) = Limit2(f, c, all, Zero, both)
  BY DEF AtExit, on
<1>. HIDE DEF all, both
<1>6. IsFiniteSet(all) /\ Ranked(c, all)
  BY <1>4, GivenIs
<1>7. Limit2(f, c, all, Zero, both) \subseteq all
  BY <1>6, Limit2Is, InUseAre
<1>8. Holds(f, Limit2(f, c, all, Zero, both))
  BY <1>6, Limit2Holds
<1>. QED  BY <1>4, <1>5, <1>7, <1>8

\* 1. what spill() leaves in registers at the end of a block fits into them.
LEMMA AtEndIs ==
  ASSUME EdgesInv, c.live \in LiveState(orig), SpillGiven(orig, f, c), NEW b \in Blocks(orig), Ready(b)
  PROVE  AtEnd(f, c, slot, b) \in SUBSET Pool(orig) /\ Holds(f, AtEnd(f, c, slot, b))
<1>1. CASE Back(f, b) # {}
  BY <1>1, MaxBack, AtBackIs DEF AtEnd
<1>2. CASE Back(f, b) = {} /\ Succs(f, b) # {}
  BY <1>2, AtExitIs DEF AtEnd
<1>3. CASE Back(f, b) = {} /\ Succs(f, b) = {}
  <2>1. f.jmp[b].rets \in SUBSET Regs
    BY SameSuccs, ProgramIs DEF Ready, JmpGiven
  <2>2. c.live.out[b] \subseteq Regs
    BY <1>3, RegsAssumption DEF Ready, Regs
  <2>3. AtEnd(f, c, slot, b) = c.live.out[b] \cup f.jmp[b].rets
    BY <1>3 DEF AtEnd
  <2>4. AtEnd(f, c, slot, b) \in SUBSET Regs
    BY <2>1, <2>2, <2>3
  <2>5. Holds(f, Regs)
    <3>1. Regs \in SUBSET Pool(orig)
      BY SameSuccs, PoolIs
    <3>2. f.fp \cap Regs = {}
      BY <3>1, GivenIs
    <3>. QED  BY <3>2, RegsHold
  <2>. QED  BY <2>4, <2>5, HoldsLess, RegsFinite, SameSuccs, PoolIs
<1>. QED  BY <1>1, <1>2, <1>3

JumpTo(g, b, jmp) == IF jmp THEN Slot(Id(g.jmp[b].arg)) ELSE g.jmp[b].arg
JumpKept(g, d, s, b) ==
  IF Named(g.jmp[b].arg) = {} THEN s.v ELSE Limit2(g, d, s.v \cup Named(g.jmp[b].arg), Zero, {})
JumpGone(g, d, s, b) == (s.v \cup Named(g.jmp[b].arg)) \ JumpKept(g, d, s, b)

LEMMA SpillJumpParts ==
  ASSUME NEW p, NEW g, NEW d, NEW b, NEW s \in SpillState(p),
         SlotsOf(s, JumpGone(g, d, s, b)) \in SUBSET AllTemps(p),
         JumpKept(g, d, s, b) \in SUBSET Pool(p)
  PROVE  LET a    == Named(g.jmp[b].arg)
             kept == JumpKept(g, d, s, b)
             gone == JumpGone(g, d, s, b)
             t    == SpillJump(g, d, s, b)
         IN  /\ t \in SpillState(p) /\ t.v = kept /\ t.slot = SlotsOf(s, gone) /\ t.code = s.code
             /\ t.jmp <=> a # {} /\ a \subseteq gone
             /\ t.bad <=> s.bad \/ (\E e \in gone : e < Tmp0) \/ Above(gone \ (a \ s.v)) # {}
<1>. PICK a, kept, gone, sp : /\ a = Named(g.jmp[b].arg) /\ kept = JumpKept(g, d, s, b)
                             /\ gone = JumpGone(g, d, s, b) /\ sp = Spilled(s, gone)
  OBVIOUS
<1>. PICK jm, bd : /\ jm = (a # {} /\ a \subseteq gone)
                   /\ bd = (sp.bad \/ Above(gone \ (a \ s.v)) # {})
  OBVIOUS
<1>. DEFINE t == [sp EXCEPT !.v = kept, !.jmp = jm, !.bad = bd]
<1>1. SpillJump(g, d, s, b) = t
  BY DEF SpillJump, JumpKept, JumpGone
<1>2. /\ sp \in SpillState(p) /\ sp.slot = SlotsOf(s, gone) /\ sp.code = s.code
      /\ sp.bad <=> s.bad \/ \E e \in gone : e < Tmp0
  BY SpilledIs
<1>3. jm \in BOOLEAN /\ bd \in BOOLEAN /\ kept \in SUBSET Pool(p)
  BY <1>2 DEF SpillState
<1>4. t \in SpillState(p) /\ t.v = kept /\ t.slot = sp.slot /\ t.code = sp.code /\ t.jmp = jm /\ t.bad = bd
  BY ONLY <1>2, <1>3 DEF SpillState
<1>. HIDE DEF t
<1>. QED  BY <1>1, <1>2, <1>4

\* The argument of the jump, if it has no register, is read from its slot, and
\* what is in registers after the jump is there before it too.
LEMMA SpillJumpIs ==
  ASSUME NEW p, NEW g, NEW d, SpillGiven(p, g, d), NEW b, NEW s \in SpillState(p), Holds(g, s.v),
         ~ IsMem(g.jmp[b].arg), Named(g.jmp[b].arg) \subseteq Pool(p)
  PROVE  LET t == SpillJump(g, d, s, b)
         IN  /\ t \in SpillState(p) /\ t.code = s.code /\ Holds(g, t.v)
             /\ ~ t.bad => /\ ~ s.bad /\ s.v \subseteq t.v
                           /\ Named(JumpTo(g, b, t.jmp)) \subseteq t.v
<1>. DEFINE r == g.jmp[b].arg
            kept == JumpKept(g, d, s, b)
            gone == JumpGone(g, d, s, b)
            u == s.v \cup Named(r)
<1>1. s.v \in SUBSET Pool(p) /\ s.slot \in SUBSET AllTemps(p)
  BY DEF SpillState
<1>2. u \in SUBSET Pool(p) /\ IsFiniteSet(u) /\ Ranked(d, u)
  BY <1>1, GivenIs
<1>3. kept \in SUBSET u /\ Holds(g, kept)
  <2>1. CASE Named(r) = {}
    BY <2>1 DEF JumpKept
  <2>2. CASE Named(r) # {}
    <3>1. kept = Limit2(g, d, u, Zero, {})
      BY <2>2 DEF JumpKept
    <3>. HIDE DEF u, kept
    <3>2. Limit2(g, d, u, Zero, {}) \subseteq u
      BY <1>2, Limit2Is, InUseAre
    <3>3. Holds(g, Limit2(g, d, u, Zero, {}))
      BY <1>2, Limit2Holds
    <3>. QED  BY <3>1, <3>2, <3>3
  <2>. QED  BY <2>1, <2>2
<1>4. gone = u \ kept
  BY DEF JumpGone
<1>. HIDE DEF kept, gone, u, r
<1>5. SlotsOf(s, gone) \in SUBSET AllTemps(p)
  <2>1. gone \in SUBSET Pool(p)
    BY <1>2, <1>4
  <2>2. Above(gone) \in SUBSET AllTemps(p)
    BY <2>1, GivenIs
  <2>. QED  BY <1>1, <2>2 DEF SlotsOf, Above
<1>6. kept \in SUBSET Pool(p)
  BY <1>2, <1>3
<1>. DEFINE t == SpillJump(g, d, s, b)
<1>. HIDE DEF t
<1>7. /\ t \in SpillState(p) /\ t.v = kept /\ t.slot = SlotsOf(s, gone) /\ t.code = s.code
      /\ t.jmp <=> Named(r) # {} /\ Named(r) \subseteq gone
      /\ t.bad <=> s.bad \/ (\E e \in gone : e < Tmp0) \/ Above(gone \ (Named(r) \ s.v)) # {}
  <2>1. SlotsOf(s, JumpGone(g, d, s, b)) \in SUBSET AllTemps(p) /\ JumpKept(g, d, s, b) \in SUBSET Pool(p)
    BY <1>5, <1>6 DEF gone, kept
  <2>. QED  BY <2>1, SpillJumpParts DEF kept, gone, r, t
<1>8. ASSUME ~ t.bad
      PROVE  ~ s.bad /\ s.v \subseteq kept /\ Named(JumpTo(g, b, t.jmp)) \subseteq kept
  <2>1. ~ s.bad /\ (\A e \in gone : ~ e < Tmp0) /\ Above(gone \ (Named(r) \ s.v)) = {}
    BY <1>7, <1>8
  <2>2. s.v \subseteq kept
    <3>. SUFFICES ASSUME NEW e \in s.v, e \notin kept PROVE FALSE
      OBVIOUS
    <3>1. e \in gone /\ e \in gone \ (Named(r) \ s.v)
      BY <1>4 DEF u
    <3>2. e \in Int /\ ~ e < Tmp0
      BY <1>1, <2>1, <3>1, GivenIs
    <3>3. e >= Tmp0
      BY <3>2, RegsAssumption
    <3>. QED  BY <2>1, <3>1, <3>3 DEF Above
  <2>3. CASE t.jmp
    <3>1. JumpTo(g, b, t.jmp) = Slot(Id(r))
      BY <2>3 DEF JumpTo, r
    <3>2. Named(Slot(Id(r))) = {}
      BY OperandIs
    <3>. QED  BY <2>1, <2>2, <3>1, <3>2
  <2>4. CASE ~ t.jmp
    <3>1. JumpTo(g, b, t.jmp) = r
      BY <2>4 DEF JumpTo, r
    <3>2. CASE IsTmp(r)
      <4>1. Named(r) = {Id(r)}
        BY <3>2, OperandIs
      <4>2. Id(r) \notin gone
        BY <4>1, <1>7, <2>4
      <4>. QED  BY <2>1, <2>2, <3>1, <4>1, <4>2, <1>4 DEF u
    <3>3. CASE ~ IsTmp(r)
      <4>1. Named(r) = {}
        BY <3>3 DEF Named, r
      <4>. QED  BY <2>1, <2>2, <3>1, <4>1
    <3>. QED  BY <3>2, <3>3
  <2>. QED  BY <2>1, <2>2, <2>3, <2>4
<1>. QED  BY <1>3, <1>7, <1>8 DEF t

-----------------------------------------------------------------------------
BlockStart(b) ==
  Spilled([v |-> AtEnd(f, c, slot, b), slot |-> slot, code |-> << >>, jmp |-> FALSE, bad |-> FALSE],
          c.live.out[b] \ AtEnd(f, c, slot, b))
BlockJump(b) == SpillJump(f, c, BlockStart(b), b)
BlockTop(b)  == SpillFold(f, c, f.ins[b], BlockJump(b))
BlockMem(b)  == (PhiTos(b) \cap c.live.in[b]) \ BlockTop(b).v
BlockCode(b) == Stores(PhiTos(b) \cap BlockTop(b).v \cap BlockTop(b).slot) \o BlockTop(b).code

LEMMA SpillBlockParts ==
  ASSUME NEW b
  PROVE  LET t == SpillBlock(f, c, slot, b)
         IN  /\ t.f = Changed(f, b, BlockCode(b), BlockMem(b), BlockJump(b).jmp)
             /\ t.live = [c.live EXCEPT !.out[b] = AtEnd(f, c, slot, b),
                                        !.in[b] = BlockTop(b).v \ PhiTos(b)]
             /\ t.slot = BlockTop(b).slot \cup BlockMem(b)
             /\ t.bad \in BOOLEAN /\ (BlockTop(b).bad => t.bad)
<1>1. Once(BlockJump(b)) = BlockJump(b) /\ Once(BlockTop(b)) = BlockTop(b)
  BY OnceIs
<1>2. BlockTop(b) = FoldRight(LAMBDA n, s : Once(SpillAt(f, c, s, f.ins[b], n)),
                              [n \in 1 .. Len(f.ins[b]) |-> n], BlockJump(b))
  BY Zenon DEF BlockTop, SpillFold
<1>. QED  BY <1>1, <1>2 DEF SpillBlock, BlockStart, BlockJump, BlockMem, BlockCode, PhiTos

LEMMA RoomSame ==
  ASSUME NEW p, NEW g, g.fp = p.fp, NEW code, NEW E, NEW H, NEW first
  PROVE  Room(g, code, E, H, first) <=> Room(p, code, E, H, first)
<1>1. \A D, k, y : RoomIn(g, code, E, H, first, D, k, y) <=> RoomIn(p, code, E, H, first, D, k, y)
  BY MaskSame DEF RoomIn
<1>. QED  BY <1>1 DEF Room

SpillGood ==
  EdgesInv /\ SpillGiven(orig, f, c) /\ c.live \in LiveState(orig) /\ slot \in SUBSET AllTemps(orig)

LEMMA PhiTosIs ==
  ASSUME EdgesInv, NEW b \in Blocks(orig)
  PROVE  PhiTos(b) \in SUBSET AllTemps(orig)
BY PhiNames DEF PhiTos

LEMMA BlockStartIs ==
  ASSUME SpillGood, NEW b \in Blocks(orig), Ready(b)
  PROVE  /\ BlockStart(b) \in SpillState(orig) /\ BlockStart(b).v = AtEnd(f, c, slot, b)
         /\ BlockStart(b).code = << >> /\ Holds(f, BlockStart(b).v)
<1>. DEFINE v0 == AtEnd(f, c, slot, b)
            gone == c.live.out[b] \ v0
            s == [v |-> v0, slot |-> slot, code |-> << >>, jmp |-> FALSE, bad |-> FALSE]
<1>1. v0 \in SUBSET Pool(orig) /\ Holds(f, v0)
  BY AtEndIs DEF SpillGood
<1>2. gone \in SUBSET Pool(orig)
  BY LiveIs DEF SpillGood
<1>. HIDE DEF v0, gone
<1>3. << >> \in Seq(Instr)
  OBVIOUS
<1>4. s \in SpillState(orig)
  BY <1>1, <1>3 DEF SpillState, SpillGood
<1>5. Above(gone) \in SUBSET AllTemps(orig)
  BY <1>2, GivenIs DEF SpillGood
<1>6. s.slot = slot /\ s.v = v0 /\ s.code = << >>
  OBVIOUS
<1>7. BlockStart(b) = Spilled(s, gone)
  BY DEF BlockStart, v0, gone
<1>. HIDE DEF s
<1>8. SlotsOf(s, gone) \in SUBSET AllTemps(orig)
  BY <1>5, <1>6 DEF SpillGood, SlotsOf, Above
<1>9. Spilled(s, gone) \in SpillState(orig) /\ Spilled(s, gone).v = s.v /\ Spilled(s, gone).code = s.code
  BY <1>4, <1>8, SpilledIs
<1>. QED  BY <1>1, <1>6, <1>7, <1>9 DEF v0

LEMMA BlockJumpIs ==
  ASSUME SpillGood, NEW b \in Blocks(orig), Ready(b)
  PROVE  /\ BlockJump(b) \in SpillState(orig) /\ BlockJump(b).code = << >> /\ Holds(f, BlockJump(b).v)
         /\ ~ BlockJump(b).bad => /\ AtEnd(f, c, slot, b) \subseteq BlockJump(b).v
                                  /\ Named(JumpTo(f, b, BlockJump(b).jmp)) \subseteq BlockJump(b).v
<1>1. ~ IsMem(f.jmp[b].arg) /\ Named(f.jmp[b].arg) \subseteq Pool(orig)
  BY SameSuccs, ProgramIs DEF SpillGood, Ready, JmpGiven
<1>. DEFINE s == BlockStart(b)
<1>2. s \in SpillState(orig) /\ s.v = AtEnd(f, c, slot, b) /\ s.code = << >> /\ Holds(f, s.v)
  BY BlockStartIs
<1>3. SpillGiven(orig, f, c)
  BY DEF SpillGood
<1>4. BlockJump(b) = SpillJump(f, c, s, b)
  BY DEF BlockJump
<1>. HIDE DEF s
<1>. DEFINE t == SpillJump(f, c, s, b)
<1>5. /\ t \in SpillState(orig) /\ t.code = s.code /\ Holds(f, t.v)
      /\ ~ t.bad => s.v \subseteq t.v /\ Named(JumpTo(f, b, t.jmp)) \subseteq t.v
  BY <1>1, <1>2, <1>3, SpillJumpIs
<1>. HIDE DEF t
<1>6. BlockJump(b) = t
  BY <1>4 DEF t
<1>. QED  BY <1>2, <1>5, <1>6

LEMMA BlockTopIs ==
  ASSUME SpillGood, NEW b \in Blocks(orig), Ready(b)
  PROVE  /\ BlockTop(b) \in SpillState(orig)
         /\ ~ BlockTop(b).bad => /\ ~ BlockJump(b).bad
                                 /\ Roomy(f, BlockTop(b), BlockJump(b).v, FALSE)
<1>1. InsAll(orig, f.ins[b])
  BY SameSuccs, ProgramIs DEF SpillGood, Ready, InsAll
<1>. DEFINE s == BlockJump(b)
<1>2. s \in SpillState(orig) /\ s.code = << >> /\ Holds(f, s.v)
  BY BlockJumpIs
<1>3. SpillGiven(orig, f, c)
  BY DEF SpillGood
<1>4. IsFiniteSet(s.v)
  <2>1. s.v \in SUBSET Pool(orig)
    BY <1>2 DEF SpillState
  <2>. QED  BY <1>3, <2>1, GivenIs
<1>5. BlockTop(b) = SpillFold(f, c, f.ins[b], s)
  BY DEF BlockTop
<1>. HIDE DEF s
<1>6. Roomy(f, s, s.v, FALSE)
  <2>1. Room(f, << >>, s.v, s.v, FALSE)
    BY <1>2, <1>4, RoomEmpty
  <2>. QED  BY <1>2, <1>4, <2>1 DEF Roomy, AtHead
<1>7. LET t == SpillFold(f, c, f.ins[b], s)
      IN  t \in SpillState(orig) /\ (s.bad => t.bad) /\ (~ t.bad => Roomy(f, t, s.v, FALSE))
  BY <1>1, <1>2, <1>3, <1>6, SpillFoldRoom
<1>. QED  BY <1>5, <1>7 DEF s

\* Code before an end where these names are needed.
RoomFor(p, code, names) ==
  \E E, H : E \in SUBSET Int /\ names \subseteq E /\ Room(p, code, E, H, FALSE)
Roomed(b) == RoomFor(orig, f.ins[b], c.live.out[b] \cup Named(f.jmp[b].arg))
EndNames(b) == AtEnd(f, c, slot, b) \cup Named(JumpTo(f, b, BlockJump(b).jmp))

LEMMA BlockCodeIs ==
  ASSUME SpillGood, NEW b \in Blocks(orig), Ready(b)
  PROVE  /\ BlockTop(b) \in SpillState(orig) /\ BlockJump(b) \in SpillState(orig)
         /\ BlockMem(b) \in SUBSET AllTemps(orig) /\ BlockCode(b) \in Seq(Instr)
         /\ ~ BlockTop(b).bad => RoomFor(orig, BlockCode(b), EndNames(b))
<1>. DEFINE s == BlockJump(b)
            t == BlockTop(b)
            ts == PhiTos(b) \cap t.v \cap t.slot
<1>1. s \in SpillState(orig) /\ t \in SpillState(orig)
  BY BlockJumpIs, BlockTopIs
<1>2. BlockMem(b) \in SUBSET AllTemps(orig)
  BY PhiTosIs DEF BlockMem, SpillGood
<1>3. t.v \in SUBSET Pool(orig) /\ t.code \in Seq(Instr) /\ s.v \in SUBSET Pool(orig)
  BY <1>1 DEF SpillState
<1>4. IsFiniteSet(t.v) /\ t.v \in SUBSET Int /\ s.v \in SUBSET Int
  BY <1>3, GivenIs DEF SpillGood
<1>5. BlockCode(b) = Stores(ts) \o t.code
  BY DEF BlockCode
<1>6. ~ t.bad => ~ s.bad /\ Roomy(f, t, s.v, FALSE)
  BY BlockTopIs
<1>7. ~ s.bad => AtEnd(f, c, slot, b) \cup Named(JumpTo(f, b, s.jmp)) \subseteq s.v
  BY BlockJumpIs
<1>8. ts \subseteq t.v
  OBVIOUS
<1>. HIDE DEF t, ts, s
<1>9. ts \in SUBSET Int /\ IsFiniteSet(ts)
  BY <1>4, <1>8, FS_Subset
<1>10. Stores(ts) \in Seq(Instr)
  BY <1>9, StoresIn
<1>11. BlockCode(b) \in Seq(Instr)
  BY <1>3, <1>5, <1>10
<1>12. ASSUME ~ t.bad
       PROVE  Room(orig, BlockCode(b), s.v, t.v, FALSE)
  <2>1. Room(f, t.code, s.v, t.v, FALSE) /\ Holds(f, t.v)
    BY <1>6, <1>12 DEF Roomy, AtHead
  <2>2. t.v \cup ts = t.v
    BY <1>8
  <2>3. Room(f, Stores(ts) \o t.code, s.v, t.v \cup ts, FALSE)
    BY <1>3, <1>4, <1>9, <2>1, <2>2, RoomStores
  <2>4. f.fp = orig.fp
    BY DEF SpillGood, SpillGiven
  <2>. DEFINE code == Stores(ts) \o t.code
  <2>. HIDE DEF code
  <2>5. Room(f, code, s.v, t.v, FALSE)
    BY <2>2, <2>3 DEF code
  <2>6. Room(orig, code, s.v, t.v, FALSE)
    BY <2>4, <2>5, RoomSame
  <2>. QED  BY <1>5, <2>6 DEF code
<1>13. ASSUME ~ t.bad
       PROVE  RoomFor(orig, BlockCode(b), EndNames(b))
  <2>1. EndNames(b) \subseteq s.v
    BY <1>6, <1>7, <1>13 DEF EndNames, s
  <2>. QED  BY <1>4, <1>12, <1>13, <2>1 DEF RoomFor
<1>. QED  BY <1>1, <1>2, <1>11, <1>13 DEF t, s

LEMMA ChangedCode ==
  ASSUME NEW g, NEW b, NEW code, NEW mem, NEW jmp, {"ins", "jmp", "phi", "fp"} \subseteq DOMAIN g
  PROVE  LET h == Changed(g, b, code, mem, jmp)
         IN  /\ h.fp = g.fp /\ DOMAIN h.ins = DOMAIN g.ins /\ DOMAIN h.jmp = DOMAIN g.jmp
             /\ \A a \in DOMAIN g.ins : h.ins[a] = IF a = b THEN code ELSE g.ins[a]
             /\ \A a \in DOMAIN g.jmp : a # b => h.jmp[a] = g.jmp[a]
             /\ b \in DOMAIN g.jmp /\ "arg" \in DOMAIN g.jmp[b] => h.jmp[b].arg = JumpTo(g, b, jmp)
<1>. DEFINE phis == [n \in DOMAIN g.phi[b] |-> PhiAt(mem, g.phi[b][n])]
            r == JumpTo(g, b, jmp)
<1>1. Changed(g, b, code, mem, jmp) = [g EXCEPT !.ins[b] = code, !.phi[b] = phis, !.jmp[b].arg = r]
  BY DEF Changed, JumpTo
<1>. HIDE DEF phis, r
<1>. QED  BY <1>1 DEF r

RoomInv ==
  /\ SamePhis
  /\ f.fp = orig.fp /\ DOMAIN f.jmp = Blocks(orig) /\ f.ins \in [Blocks(orig) -> Seq(Instr)]
  /\ slot \in SUBSET AllTemps(orig) /\ bad \in BOOLEAN
  /\ DOMAIN c = {"live", "cost", "loop", "up"} /\ c.live \in LiveState(orig)
SpillPart ==
  /\ at \in Int /\ at < Cardinality(Blocks(orig)) /\ SpillGiven(orig, f, c)
  /\ \A b \in Blocks(orig) : /\ b <= at => Ready(b)
                             /\ ~ bad /\ b > at => Roomed(b)

LEMMA SpillNextRoom ==
  ASSUME EdgesInv, RoomInv, SpillPart, SpillNext
  PROVE  RoomInv' /\ SpillPart'
<1>. PICK p : p = orig
  OBVIOUS
<1>1. at >= 0 /\ at \in Int /\ at \in Blocks(orig) /\ orig \in Programs
  <2>1. at >= 0 /\ at \in Int /\ at < Cardinality(Blocks(orig))
    BY DEF SpillNext, SpillPart
  <2>2. Blocks(orig) = 0 .. Cardinality(Blocks(orig)) - 1 /\ Cardinality(Blocks(orig)) \in Nat /\ orig \in Programs
    BY SameSuccs, ProgramIs
  <2>. QED  BY <2>1, <2>2
<1>. PICK b : b = at
  OBVIOUS
<1>. DEFINE t == SpillBlock(f, c, slot, b)
<1>2. b \in Blocks(orig) /\ Ready(b) /\ SpillGood /\ ~ bad
  BY <1>1 DEF SpillPart, RoomInv, SpillGood, SpillNext
<1>3. f' = t.f /\ c' = [c EXCEPT !.live = t.live] /\ slot' = t.slot /\ bad' = (bad \/ t.bad) /\ at' = at - 1
      /\ orig' = orig
  BY OnceIs DEF SpillNext
<1>4. /\ t.f = Changed(f, b, BlockCode(b), BlockMem(b), BlockJump(b).jmp)
      /\ t.live = [c.live EXCEPT !.out[b] = AtEnd(f, c, slot, b),
                                 !.in[b] = BlockTop(b).v \ PhiTos(b)]
      /\ t.slot = BlockTop(b).slot \cup BlockMem(b)
      /\ t.bad \in BOOLEAN /\ (BlockTop(b).bad => t.bad)
  BY SpillBlockParts
<1>5. /\ BlockTop(b) \in SpillState(orig) /\ BlockJump(b) \in SpillState(orig)
      /\ BlockMem(b) \in SUBSET AllTemps(orig) /\ BlockCode(b) \in Seq(Instr)
      /\ ~ BlockTop(b).bad => RoomFor(orig, BlockCode(b), EndNames(b))
  BY <1>2, BlockCodeIs
<1>6. AtEnd(f, c, slot, b) \in SUBSET Pool(orig)
  BY <1>2, AtEndIs DEF SpillGood
<1>. HIDE DEF t
<1>. DEFINE v0 == AtEnd(f, c, slot, b)
            v1 == BlockTop(b).v \ PhiTos(b)
<1>7. v0 \in SUBSET Pool(orig) /\ v1 \in SUBSET Pool(orig)
  BY <1>5, <1>6 DEF SpillState
<1>. HIDE DEF v0, v1
<1>8. /\ c'.live \in LiveState(orig) /\ c'.live.nlive = c.live.nlive /\ c'.live.out[b] = v0
      /\ \A a \in Blocks(orig) : a # b => c'.live.out[a] = c.live.out[a]
      /\ DOMAIN c' = DOMAIN c /\ c'.cost = c.cost
  <2>1. c'.live = [c.live EXCEPT !.out[b] = v0, !.in[b] = v1]
    BY <1>3, <1>4 DEF RoomInv, v0, v1
  <2>2. c.live \in LiveState(orig)
    BY DEF RoomInv
  <2>3. [c.live EXCEPT !.out[b] = v0, !.in[b] = v1] \in LiveState(orig)
    BY ONLY <2>2, <1>2, <1>7 DEF LiveState
  <2>4. DOMAIN c' = DOMAIN c /\ c'.cost = c.cost
    BY <1>3 DEF RoomInv
  <2>. QED  BY <2>1, <2>2, <2>3, <2>4, <1>2 DEF LiveState
<1>9. /\ f'.fp = f.fp /\ DOMAIN f'.ins = DOMAIN f.ins /\ DOMAIN f'.jmp = DOMAIN f.jmp
      /\ \A a \in DOMAIN f.ins : f'.ins[a] = IF a = b THEN BlockCode(b) ELSE f.ins[a]
      /\ \A a \in DOMAIN f.jmp : a # b => f'.jmp[a] = f.jmp[a]
      /\ b \in DOMAIN f.jmp /\ "arg" \in DOMAIN f.jmp[b] => f'.jmp[b].arg = JumpTo(f, b, BlockJump(b).jmp)
  <2>1. {"ins", "jmp", "phi", "fp"} \subseteq DOMAIN f
    BY <1>1, ProgramsAssumption DEF RoomInv, SamePhis
  <2>. QED  BY <1>3, <1>4, <2>1, ChangedCode
<1>10. "arg" \in DOMAIN f.jmp[b]
  BY <1>2, <1>1, ProgramIs DEF Ready, JmpGiven
<1>11. SamePhis'
  <2>1. EdgesInv'
    BY SpillEdges
  <2>. QED  BY <2>1 DEF EdgesInv
<1>12. f'.ins \in [Blocks(orig) -> Seq(Instr)]
  <2>1. DOMAIN f.ins = Blocks(orig) /\ \A a \in Blocks(orig) : f.ins[a] \in Seq(Instr)
    BY DEF RoomInv
  <2>2. DOMAIN f'.ins = Blocks(orig) /\ \A a \in Blocks(orig) : f'.ins[a] \in Seq(Instr)
    BY <2>1, <1>5, <1>9
  <2>3. f'.ins = [a \in DOMAIN f'.ins |-> f'.ins[a]]
    <3>1. f.ins = [a \in DOMAIN f.ins |-> f.ins[a]]
      BY DEF RoomInv
    <3>2. f'.ins = [f.ins EXCEPT ![b] = BlockCode(b)]
      <4>1. {"ins", "jmp", "phi", "fp"} \subseteq DOMAIN f
        BY <1>1, ProgramsAssumption DEF RoomInv, SamePhis
      <4>. QED  BY <1>3, <1>4, <4>1 DEF Changed
    <3>. QED  BY <3>2
  <2>. QED  BY <2>2, <2>3
<1>13. slot' \in SUBSET AllTemps(orig) /\ bad' \in BOOLEAN
  BY <1>3, <1>4, <1>5 DEF SpillState, RoomInv
<1>14. RoomInv'
  BY <1>3, <1>8, <1>9, <1>11, <1>12, <1>13 DEF RoomInv
<1>15. SpillGiven(orig, f', c')
  BY <1>8, <1>9 DEF SpillPart, SpillGiven, Ranked
<1>16. at' \in Int /\ at' < Cardinality(Blocks(orig)) /\ (\A a \in Blocks(orig) : a \in Int)
  <2>1. Blocks(orig) = 0 .. Cardinality(Blocks(orig)) - 1 /\ Cardinality(Blocks(orig)) \in Nat
    BY <1>1, ProgramIs
  <2>. QED  BY <2>1, <1>1, <1>3 DEF SpillPart
<1>17. ASSUME NEW a \in Blocks(orig), a <= at'
       PROVE  Ready(a)'
  <2>1. a # b /\ a <= at
    BY <1>16, <1>17, <1>3, <1>1
  <2>2. Ready(a)
    BY <2>1 DEF SpillPart
  <2>3. f'.ins[a] = f.ins[a] /\ f'.jmp[a] = f.jmp[a] /\ c'.live.out[a] = c.live.out[a]
    BY <2>1, <1>8, <1>9 DEF RoomInv
  <2>4. Succs(f', a) = Succs(f, a) /\ Back(f', a) = Back(f, a)
    BY <1>11, <1>3 DEF RoomInv, SamePhis, Succs, Back
  <2>5. \A k, s : Mask(f', k, s) = Mask(f, k, s)
    BY <1>9, MaskSame
  <2>. QED  BY <1>3, <1>8, <2>2, <2>3, <2>4, <2>5 DEF Ready
<1>18. ASSUME NEW a \in Blocks(orig), ~ bad', a > at'
       PROVE  Roomed(a)'
  <2>1. CASE a = b
    <3>1. ~ BlockTop(b).bad
      BY <1>3, <1>4, <1>18
    <3>2. RoomFor(orig, BlockCode(b), v0 \cup Named(JumpTo(f, b, BlockJump(b).jmp)))
      BY <1>5, <3>1 DEF EndNames, v0
    <3>3. f'.ins[a] = BlockCode(b) /\ f'.jmp[a].arg = JumpTo(f, b, BlockJump(b).jmp) /\ c'.live.out[a] = v0
      BY <2>1, <1>2, <1>8, <1>9, <1>10 DEF RoomInv
    <3>. QED  BY <3>2, <3>3, <1>3 DEF Roomed
  <2>2. CASE a # b
    <3>1. a > at
      BY <1>16, <1>18, <2>2, <1>3, <1>1
    <3>2. Roomed(a)
      BY <1>2, <3>1 DEF SpillPart
    <3>3. f'.ins[a] = f.ins[a] /\ f'.jmp[a] = f.jmp[a] /\ c'.live.out[a] = c.live.out[a]
      BY <2>2, <1>8, <1>9 DEF RoomInv
    <3>. QED  BY <3>2, <3>3, <1>3 DEF Roomed
  <2>. QED  BY <2>1, <2>2
<1>. QED  BY <1>3, <1>14, <1>15, <1>16, <1>17, <1>18 DEF SpillPart

\* At every point that rega() comes to there are registers enough.
LEMMA WalkFits ==
  ASSUME EdgesInv, RoomInv, SpillPart, Walk
  PROVE  FitsRega'
<1>1. walk' = [b \in Blocks(f) |-> WalkBlock(b)] /\ f' = f /\ at < 0 /\ ~ bad
  BY DEF Walk
<1>2. ASSUME NEW b \in Blocks(f)
      PROVE  WalkBlock(b).fits
  <2>1. b \in Blocks(orig) /\ orig \in Programs
    BY SameSuccs
  <2>2. b > at
    <3>1. b \in 0 .. Cardinality(Blocks(orig)) - 1 /\ Cardinality(Blocks(orig)) \in Nat
      BY <2>1, ProgramIs
    <3>. QED  BY <3>1, <1>1 DEF SpillPart
  <2>3. Roomed(b)
    BY <1>1, <2>1, <2>2 DEF SpillPart
  <2>4. PICK E, H : /\ E \in SUBSET Int /\ c.live.out[b] \cup Named(f.jmp[b].arg) \subseteq E
                    /\ Room(orig, f.ins[b], E, H, FALSE)
    BY <2>3 DEF Roomed, RoomFor
  <2>5. Room(f, f.ins[b], E, H, FALSE)
    BY <2>4, RoomSame DEF RoomInv
  <2>6. f.ins[b] \in Seq(Instr)
    BY <2>1 DEF RoomInv
  <2>. QED  BY <2>4, <2>5, <2>6, RoomWalk
<1>3. \A b \in Blocks(f') : walk'[b].fits
  BY <1>1, <1>2
<1>. QED  BY <1>3 DEF FitsRega

(***************************************************************************)
(* fillcost(): costs are numbers.                                          *)
(***************************************************************************)
LEMMA LoopOfIs ==
  ASSUME NEW p \in Programs
  PROVE  \A b \in Blocks(p) : LoopOf(p)[b] \in Int
<1>. SUFFICES ASSUME NEW b \in Blocks(p) PROVE LoopOf(p)[b] \in Int
  OBVIOUS
<1>. DEFINE g == [h \in Blocks(p) |-> IF b \in LoopBody(p, h) THEN 10 ELSE 1]
<1>1. LoopOf(p)[b] = Product(g)
  BY DEF LoopOf
<1>2. g \in [Blocks(p) -> Int]
  OBVIOUS
<1>. HIDE DEF g
<1>. QED  BY <1>1, <1>2, ProductIs, ProgramIs

LEMMA MentionsInt == \A t, r : Mentions(t, r) \in Int
BY DEF Mentions

LEMMA SeqFinite ==
  ASSUME NEW S, NEW q \in Seq(S)
  PROVE  IsFiniteSet(DOMAIN q) /\ \A n \in DOMAIN q : q[n] \in S
<1>1. DOMAIN q = 1 .. Len(q) /\ Len(q) \in Nat
  OBVIOUS
<1>. QED  BY <1>1, IntervalFinite

LEMMA PhiCostIs ==
  ASSUME NEW p, NEW loop, \A b \in Blocks(p) : loop[b] \in Int, NEW t, NEW q \in PhiSet(p)
  PROVE  PhiCost(t, loop, q) \in Int
<1>. DEFINE g == [n \in DOMAIN q.arg |->
                    loop[q.arg[n][1]] * (Mentions(t, q.to) + Mentions(t, q.arg[n][2]))]
<1>1. q.arg \in Seq(Blocks(p) \X Refs)
  BY PhiIs
<1>2. IsFiniteSet(DOMAIN q.arg) /\ \A n \in DOMAIN q.arg : q.arg[n] \in Blocks(p) \X Refs
  BY <1>1, SeqFinite
<1>3. \A n \in DOMAIN q.arg : loop[q.arg[n][1]] * (Mentions(t, q.to) + Mentions(t, q.arg[n][2])) \in Int
  <2>. SUFFICES ASSUME NEW n \in DOMAIN q.arg
                PROVE  loop[q.arg[n][1]] * (Mentions(t, q.to) + Mentions(t, q.arg[n][2])) \in Int
    OBVIOUS
  <2>1. loop[q.arg[n][1]] \in Int
    BY <1>2
  <2>2. Mentions(t, q.to) \in Int /\ Mentions(t, q.arg[n][2]) \in Int
    BY MentionsInt
  <2>. QED  BY ONLY <2>1, <2>2
<1>4. g \in [DOMAIN q.arg -> Int]
  BY <1>3
<1>5. PhiCost(t, loop, q) = SumFunction(g)
  BY DEF PhiCost
<1>. HIDE DEF g
<1>. QED  BY <1>2, <1>4, <1>5, SumIs

LEMMA BlockCostIs ==
  ASSUME NEW p \in Programs, NEW loop, \A b \in Blocks(p) : loop[b] \in Int, NEW t, NEW b \in Blocks(p)
  PROVE  BlockCost(p, t, loop, b) \in Int
<1>. DEFINE g == [n \in DOMAIN p.phi[b] |-> PhiCost(t, loop, p.phi[b][n])]
            h == [n \in DOMAIN p.ins[b] |-> InsCost(t, p.ins[b][n])]
<1>1. p.phi[b] \in Seq(PhiSet(p)) /\ p.ins[b] \in Seq(Instr)
  BY ProgramIs
<1>2. g \in [DOMAIN p.phi[b] -> Int]
  BY <1>1, SeqFinite, PhiCostIs
<1>3. h \in [DOMAIN p.ins[b] -> Int]
  <2>1. \A i : InsCost(t, i) \in Int
    BY MentionsInt DEF InsCost
  <2>. QED  BY <2>1
<1>4. IsFiniteSet(DOMAIN p.phi[b]) /\ IsFiniteSet(DOMAIN p.ins[b])
  BY <1>1, SeqFinite
<1>5. BlockCost(p, t, loop, b) = SumFunction(g) + loop[b] * (SumFunction(h) + Mentions(t, p.jmp[b].arg))
  BY DEF BlockCost
<1>. HIDE DEF g, h
<1>6. SumFunction(g) \in Int /\ SumFunction(h) \in Int
  BY <1>2, <1>3, <1>4, SumIs
<1>7. loop[b] \in Int /\ Mentions(t, p.jmp[b].arg) \in Int
  BY MentionsInt
<1>. QED  BY ONLY <1>5, <1>6, <1>7

LEMMA FillCostIs ==
  ASSUME NEW p \in Programs, NEW d, d.cost = FillCost(p)
  PROVE  Ranked(d, Pool(p))
<1>. DEFINE loop == LoopOf(p)
<1>1. \A b \in Blocks(p) : loop[b] \in Int
  BY LoopOfIs
<1>2. Once(loop) = loop
  BY OnceIs
<1>. HIDE DEF loop
<1>3. ASSUME NEW t \in Pool(p)
      PROVE  d.cost[t] \in Int
  <2>. DEFINE g == [b \in Blocks(p) |-> BlockCost(p, t, loop, b)]
  <2>1. d.cost[t] = IF t < Tmp0 THEN Dearest ELSE SumFunction(g)
    BY <1>2 DEF FillCost, Pool, loop
  <2>2. g \in [Blocks(p) -> Int]
    BY <1>1, BlockCostIs
  <2>. HIDE DEF g
  <2>3. SumFunction(g) \in Int
    BY <2>2, SumIs, ProgramIs
  <2>. QED  BY <2>1, <2>3 DEF Dearest
<1>. QED  BY <1>3, PoolIs DEF Ranked

(***************************************************************************)
(* The body of a loop.                                                     *)
(***************************************************************************)
InLoop(p, h, s) == s \cup {a \in Blocks(p) : a >= h /\ Succs(p, a) \cap s # {}}
BodyEq(it, p, h, base, seq) ==
  it = [s \in SUBSET DOMAIN seq |-> IF s = {} THEN base ELSE InLoop(p, h, it[s \ {Max(s)}])]

\* A block with an edge back to h is in its loop.
LEMMA LoopBodyIs ==
  ASSUME NEW p \in Programs, NEW h
  PROVE  /\ LoopBody(p, h) \in SUBSET Blocks(p)
         /\ \A b \in Blocks(p) : b >= h /\ h \in Succs(p, b) => b \in LoopBody(p, h)
<1>. DEFINE base == {a \in Blocks(p) : a >= h /\ h \in Succs(p, a)}
            seq == InOrder(p)
            L == Cardinality(Blocks(p))
            I == 1 .. L
            D == {s \in SUBSET Blocks(p) : base \subseteq s}
            it == CHOOSE e : BodyEq(e, p, h, base, seq)
            ch == [s \in SUBSET I |-> Max(s)]
            G == [e \in I \X D |-> InLoop(p, h, e[2])]
<1>0. L \in Nat
  BY ProgramIs
<1>1. DOMAIN seq = I
  BY DEF InOrder
<1>2. LoopBody(p, h) = it[I]
  <2>1. LoopBody(p, h) = it[DOMAIN seq]
    BY Zenon DEF LoopBody, FoldLeft, MapThenFoldSet, BodyEq, InLoop
  <2>. QED  BY <1>1, <2>1
<1>3. \A s \in SUBSET I : s # {} => ch[s] = Max(s) /\ ch[s] \in s /\ ch[s] \in I
                                     /\ s \ {ch[s]} \in SUBSET I
  <2>. SUFFICES ASSUME NEW s \in SUBSET I, s # {} PROVE Max(s) \in s
    OBVIOUS
  <2>1. s \in SUBSET (0 .. L)
    BY <1>0
  <2>. QED  BY <1>0, <2>1, MaxIs
<1>4. \A n \in I, s \in D : G[<<n, s>>] = InLoop(p, h, s) /\ InLoop(p, h, s) \in D
  <2>1. \A s \in D : InLoop(p, h, s) \in D
    BY DEF InLoop
  <2>. QED  BY <2>1
<1>5. FoldGiven(I, D, base, G, ch)
  <2>1. G \in [I \X D -> D]
    BY <1>4
  <2>2. base \in D
    OBVIOUS
  <2>. HIDE DEF G, ch, D, base
  <2>. QED  BY <1>0, <1>3, <2>1, <2>2, IntervalFinite DEF FoldGiven
<1>. HIDE DEF D, base
<1>6. PICK e \in [SUBSET I -> D] : IsFold(e, I, base, G, ch)
  <2>. HIDE DEF G, ch
  <2>. QED  BY <1>5, FoldExists
<1>7. BodyEq(e, p, h, base, seq)
  <2>1. ASSUME NEW s \in SUBSET I, s # {}
        PROVE  e[s] = InLoop(p, h, e[s \ {Max(s)}])
    <3>. HIDE DEF G, ch, seq
    <3>1. e[s] = G[<<ch[s], e[s \ {ch[s]}]>>]
      BY <1>6, <2>1 DEF IsFold
    <3>2. ch[s] = Max(s) /\ ch[s] \in I /\ e[s \ {ch[s]}] \in D
      BY <1>3, <2>1
    <3>. QED  BY <1>4, <3>1, <3>2
  <2>2. e[{}] = base
    BY <1>6 DEF IsFold
  <2>. HIDE DEF seq
  <2>. QED  BY <1>1, <2>1, <2>2 DEF BodyEq
<1>8. BodyEq(it, p, h, base, seq)
  <2>. HIDE DEF seq
  <2>. QED  BY <1>7, Zenon
<1>. HIDE DEF it
<1>9. FoldsIn(it, I, D, base, G, ch)
  <2>. HIDE DEF seq, G, ch
  <2>1. it[{}] = base
        /\ \A s \in SUBSET I : s # {} => it[s] = InLoop(p, h, it[s \ {Max(s)}])
    BY <1>1, <1>8 DEF BodyEq
  <2>2. ASSUME NEW s \in SUBSET I, s # {}, it[s \ {ch[s]}] \in D
        PROVE  it[s] = G[<<ch[s], it[s \ {ch[s]}]>>]
    <3>1. it[s] = InLoop(p, h, it[s \ {Max(s)}])
      BY <2>1, <2>2
    <3>2. ch[s] = Max(s) /\ ch[s] \in I
      BY <1>3, <2>2
    <3>. QED  BY <1>4, <2>2, <3>1, <3>2
  <2>. QED  BY <2>1, <2>2 DEF FoldsIn
<1>10. it[I] \in D
  <2>. HIDE DEF G, ch
  <2>. QED  BY <1>5, <1>9, FoldIs
<1>11. LoopBody(p, h) \in D
  BY <1>2, <1>10
<1>. QED  BY <1>11 DEF D, base

(***************************************************************************)
(* filllive().                                                             *)
(***************************************************************************)
LEMMA PairIs ==
  ASSUME NEW a \in Int \X Int, NEW b \in Int \X Int
  PROVE  Plus(a, b) \in Int \X Int /\ Minus(a, b) \in Int \X Int
BY DEF Plus, Minus

LEMMA UpperIs ==
  ASSUME NEW a \in Nat \X Nat, NEW b \in Int \X Int
  PROVE  Upper(a, b) \in Nat \X Nat /\ \A k \in 1 .. 2 : Upper(a, b)[k] >= a[k]
BY DEF Upper

LEMMA CountsIs ==
  ASSUME NEW p \in Programs, NEW s \in SUBSET Pool(p)
  PROVE  /\ Counts(p, s) \in Nat \X Nat /\ Counts(p, s) \in Int \X Int
         /\ \A k \in 1 .. 2 : Counts(p, s)[k] = Cardinality(Mask(p, k, s))
<1>1. IsFiniteSet(s)
  BY PoolIs, FS_Subset
<1>2. IsFiniteSet(Mask(p, 1, s)) /\ IsFiniteSet(Mask(p, 2, s))
  BY <1>1, MaskLess
<1>3. Cardinality(Mask(p, 1, s)) \in Nat /\ Cardinality(Mask(p, 2, s)) \in Nat
  BY <1>2, FS_CardinalityType
<1>. QED  BY <1>3 DEF Counts

LiveWalk(p, m) ==
  {w \in [in : SUBSET Pool(p), gen : SUBSET Pool(p), nlv : Int \X Int, top : Nat \X Nat] :
     \A k \in 1 .. 2 : w.top[k] >= m[k]}

LEMMA BSetIs ==
  ASSUME NEW p \in Programs, NEW m, NEW w \in LiveWalk(p, m), NEW s \in SUBSET Pool(p)
  PROVE  /\ BSet(p, w, s) \in LiveWalk(p, m) /\ BSet(p, w, s).top = w.top
         /\ \A k \in 1 .. 2 : BSet(p, w, s).nlv[k] >= w.nlv[k]
<1>. DEFINE cnt == Counts(p, s \ w.in)
            nlv == Plus(w.nlv, cnt)
<1>1. cnt \in Nat \X Nat /\ cnt \in Int \X Int
  <2>1. s \ w.in \in SUBSET Pool(p)
    OBVIOUS
  <2>. QED  BY ONLY <2>1, p \in Programs, CountsIs
<1>. HIDE DEF cnt
<1>2. w.nlv \in Int \X Int
  BY DEF LiveWalk
<1>3. nlv \in Int \X Int /\ \A k \in 1 .. 2 : nlv[k] >= w.nlv[k]
  BY <1>1, <1>2 DEF Plus
<1>4. BSet(p, w, s) = [w EXCEPT !.gen = w.gen \cup s, !.in = w.in \cup s, !.nlv = nlv]
  BY DEF BSet, cnt, LiveWalk
<1>. HIDE DEF nlv
<1>. QED  BY <1>3, <1>4 DEF LiveWalk

LEMMA LiveCallIs ==
  ASSUME NEW p \in Programs, NEW m \in Nat \X Nat, NEW w \in LiveWalk(p, m), NEW i \in Instr
  PROVE  LiveCall(p, w, i) \in LiveWalk(p, m)
<1>. DEFINE busy == Plus(Minus(w.nlv, Counts(p, i.rets)), NSave)
            in   == (w.in \ i.rets) \cup i.args
            top  == Upper(w.top, busy)
            nlv  == Plus(Minus(busy, NSave), Counts(p, i.args))
<1>1. i.rets \in SUBSET Pool(p) /\ i.args \in SUBSET Pool(p)
  BY InstrIs, PoolIs
<1>2. Counts(p, i.rets) \in Int \X Int /\ Counts(p, i.args) \in Int \X Int
  BY <1>1, CountsIs
<1>3. NSave \in Int \X Int
  <2>1. NSave[1] \in Nat /\ NSave[2] \in Nat
    BY SizeIs
  <2>. QED  BY <2>1 DEF NSave
<1>4. w.nlv \in Int \X Int /\ w.top \in Nat \X Nat /\ w.in \in SUBSET Pool(p) /\ \A k \in 1 .. 2 : w.top[k] >= m[k]
  BY DEF LiveWalk
<1>5. busy \in Int \X Int
  BY <1>2, <1>3, <1>4, PairIs
<1>. HIDE DEF busy
<1>6. nlv \in Int \X Int /\ top \in Nat \X Nat /\ in \in SUBSET Pool(p)
  BY <1>1, <1>2, <1>3, <1>4, <1>5, PairIs, UpperIs
<1>7. \A k \in 1 .. 2 : top[k] >= m[k]
  <2>1. \A k \in 1 .. 2 : top[k] >= w.top[k]
    BY <1>4, <1>5, UpperIs
  <2>2. \A k \in 1 .. 2 : top[k] \in Nat /\ m[k] \in Nat /\ w.top[k] \in Nat
    BY <1>4, <1>6
  <2>. HIDE DEF top
  <2>. QED  BY <1>4, <2>1, <2>2
<1>8. LiveCall(p, w, i) = [w EXCEPT !.in = in, !.top = top, !.nlv = nlv]
  BY DEF LiveCall, busy, LiveWalk
<1>. HIDE DEF in, top, nlv
<1>. QED  BY <1>6, <1>7, <1>8 DEF LiveWalk

LEMMA LiveInsIs ==
  ASSUME NEW p \in Programs, NEW m \in Nat \X Nat, NEW w \in LiveWalk(p, m),
         NEW i \in Instr, InsGiven(p, i)
  PROVE  LiveIns(p, w, i) \in LiveWalk(p, m)
<1>. DEFINE w1 == IF i.op = "call" THEN LiveCall(p, w, i) ELSE w
            nlv == Minus(w1.nlv, Counts(p, Results(i) \cap w1.in))
            w2 == [w1 EXCEPT !.nlv = nlv, !.gen = w1.gen \cup Results(i), !.in = w1.in \ Results(i)]
            w3 == BSet(p, w2, Operands(i))
            top == Upper(w3.top, w3.nlv)
<1>1. w1 \in LiveWalk(p, m)
  BY LiveCallIs
<1>. HIDE DEF w1
<1>2. Results(i) \in SUBSET Pool(p) /\ Operands(i) \in SUBSET Pool(p)
  BY DEF InsGiven
<1>3. nlv \in Int \X Int
  <2>1. Results(i) \cap w1.in \in SUBSET Pool(p)
    BY <1>2
  <2>2. Counts(p, Results(i) \cap w1.in) \in Int \X Int
    BY ONLY <2>1, p \in Programs, CountsIs
  <2>3. w1.nlv \in Int \X Int
    BY <1>1 DEF LiveWalk
  <2>. QED  BY <2>2, <2>3, PairIs
<1>. HIDE DEF nlv
<1>4. w2 \in LiveWalk(p, m)
  BY <1>1, <1>2, <1>3 DEF LiveWalk
<1>5. w2 = [w1 EXCEPT !.nlv = Minus(@, Counts(p, Results(i) \cap w1.in)),
                       !.gen = @ \cup Results(i), !.in = @ \ Results(i)]
  BY <1>1 DEF nlv, LiveWalk
<1>6. LiveIns(p, w, i) = [w3 EXCEPT !.top = Upper(@, w3.nlv)]
  BY <1>5 DEF LiveIns, w1
<1>. HIDE DEF w2
<1>7. w3 \in LiveWalk(p, m)
  BY <1>2, <1>4, BSetIs
<1>. HIDE DEF w3
<1>8. top \in Nat \X Nat /\ \A k \in 1 .. 2 : top[k] >= m[k]
  <2>1. w3.top \in Nat \X Nat /\ w3.nlv \in Int \X Int /\ \A k \in 1 .. 2 : w3.top[k] >= m[k]
    BY <1>7 DEF LiveWalk
  <2>2. top \in Nat \X Nat /\ \A k \in 1 .. 2 : top[k] >= w3.top[k]
    BY <2>1, UpperIs
  <2>3. \A k \in 1 .. 2 : top[k] \in Nat /\ m[k] \in Nat /\ w3.top[k] \in Nat
    BY <2>1, <2>2
  <2>. HIDE DEF top
  <2>. QED  BY <2>1, <2>2, <2>3
<1>9. LiveIns(p, w, i) = [w3 EXCEPT !.top = top]
  BY <1>6, <1>7 DEF LiveWalk
<1>. HIDE DEF top
<1>. QED  BY <1>7, <1>8, <1>9 DEF LiveWalk

\* The number of names that are live at the end of a block, but of the last one.
AtLeast(p, b, out) == IF p.jmp[b].type = "ret" THEN Zero ELSE Counts(p, out)
AtStart(p, b, out, gen) ==
  [LiveAtEnd(p, b, out, gen) EXCEPT !.top = LiveAtEnd(p, b, out, gen).nlv]

LEMMA AtStartIs ==
  ASSUME NEW p \in Programs, NEW b \in Blocks(p), NEW out \in SUBSET Pool(p), NEW gen \in SUBSET Pool(p)
  PROVE  /\ AtLeast(p, b, out) \in Nat \X Nat
         /\ AtStart(p, b, out, gen) \in LiveWalk(p, AtLeast(p, b, out))
<1>. DEFINE w == [in |-> out, gen |-> gen, nlv |-> Counts(p, out), top |-> Zero]
            m == AtLeast(p, b, out)
            z1 == LiveAtEnd(p, b, out, gen)
<1>1. p.jmp[b].rets \in SUBSET Pool(p) /\ Named(p.jmp[b].arg) \in SUBSET Pool(p)
  BY ProgramIs, PoolIs DEF JmpGiven
<1>2. /\ Counts(p, out) \in Nat \X Nat /\ Counts(p, out) \in Int \X Int
      /\ Counts(p, p.jmp[b].rets) \in Nat \X Nat
  BY <1>1, CountsIs
<1>3. m \in Nat \X Nat
  BY <1>2 DEF AtLeast, Zero
<1>. HIDE DEF m
<1>4. w \in LiveWalk(p, Zero)
  BY <1>2 DEF LiveWalk, Zero
<1>5. ASSUME NEW z2 \in LiveWalk(p, Zero), z2.nlv \in Nat \X Nat, \A k \in 1 .. 2 : z2.nlv[k] >= m[k]
      PROVE  [z2 EXCEPT !.top = z2.nlv] \in LiveWalk(p, m)
  BY <1>5 DEF LiveWalk
<1>6. /\ z1 \in LiveWalk(p, Zero) /\ z1.nlv \in Nat \X Nat /\ \A k \in 1 .. 2 : z1.nlv[k] >= m[k]
  <2>1. CASE p.jmp[b].type = "ret"
    <3>1. z1 = [w EXCEPT !.in = @ \cup p.jmp[b].rets, !.nlv = Counts(p, p.jmp[b].rets)]
      BY <2>1 DEF LiveAtEnd
    <3>2. m = Zero
      BY <2>1 DEF m, AtLeast
    <3>3. z1 = [in |-> out \cup p.jmp[b].rets, gen |-> gen, nlv |-> Counts(p, p.jmp[b].rets), top |-> Zero]
      BY <3>1
    <3>. HIDE DEF z1
    <3>4. z1.nlv = Counts(p, p.jmp[b].rets)
      BY <3>3
    <3>5. z1 \in LiveWalk(p, Zero)
      BY <1>1, <1>2, <3>3 DEF LiveWalk, Zero
    <3>. QED  BY <1>2, <3>2, <3>4, <3>5 DEF Zero
  <2>2. CASE p.jmp[b].type # "ret"
    <3>1. z1 = BSet(p, w, Named(p.jmp[b].arg))
      BY <2>2 DEF LiveAtEnd
    <3>2. m = w.nlv /\ w.nlv \in Nat \X Nat
      BY <2>2, <1>2 DEF m, AtLeast
    <3>. HIDE DEF w, z1
    <3>3. z1 \in LiveWalk(p, Zero) /\ \A k \in 1 .. 2 : z1.nlv[k] >= w.nlv[k]
      BY <1>1, <1>4, <3>1, BSetIs
    <3>4. z1.nlv \in Int \X Int
      BY <3>3 DEF LiveWalk
    <3>5. z1.nlv \in Nat \X Nat
      BY <3>2, <3>3, <3>4
    <3>. QED  BY <3>2, <3>3, <3>5
  <2>. QED  BY <2>1, <2>2
<1>. HIDE DEF z1
<1>7. [z1 EXCEPT !.top = z1.nlv] \in LiveWalk(p, m)
  BY <1>5, <1>6
<1>8. AtStart(p, b, out, gen) = [z1 EXCEPT !.top = z1.nlv]
  BY DEF AtStart, z1
<1>. QED  BY <1>3, <1>7, <1>8 DEF m

\* What liveness keeps: the count of a block is no less than what is live at
\* its end, and after the last block only the global registers are.
LiveGood(p) ==
  {l \in LiveState(p) :
     \A b \in Blocks(p) :
       /\ Succs(p, b) = {} => l.out[b] \subseteq RGlob
       /\ \A k \in 1 .. 2 : l.nlive[b][k] >= AtLeast(p, b, l.out[b])[k]}

EndEq(it, p, w, seq) ==
  it = [s \in SUBSET DOMAIN seq |->
        IF s = {} THEN w ELSE LiveIns(p, it[s \ {Min(s)}], seq[Min(s)])]
EndFold(p, ins, w) == FoldRight(LAMBDA i, w0 : LiveIns(p, w0, i), ins, w)

LEMMA EndFoldIs ==
  ASSUME NEW p \in Programs, NEW m \in Nat \X Nat, NEW w \in LiveWalk(p, m),
         NEW ins, InsAll(p, ins)
  PROVE  EndFold(p, ins, w) \in LiveWalk(p, m)
<1>. DEFINE D == LiveWalk(p, m)
            L == Len(ins)
            I == 1 .. L
            it == CHOOSE e : EndEq(e, p, w, ins)
            ch == [s \in SUBSET I |-> Min(s)]
            G == [e \in I \X D |-> LiveIns(p, e[2], ins[e[1]])]
<1>0. L \in Nat /\ DOMAIN ins = I /\ \A n \in I : ins[n] \in Instr /\ InsGiven(p, ins[n])
  BY DEF InsAll
<1>2. EndFold(p, ins, w) = it[I]
  <2>1. EndFold(p, ins, w) = it[DOMAIN ins]
    BY Zenon DEF EndFold, FoldRight, MapThenFoldSet, EndEq
  <2>. QED  BY <1>0, <2>1
<1>. HIDE DEF D
<1>3. \A s \in SUBSET I : s # {} => ch[s] = Min(s) /\ ch[s] \in s /\ ch[s] \in I
                                     /\ s \ {ch[s]} \in SUBSET I
  BY <1>0, MinIs
<1>4. \A n \in I, s \in D : G[<<n, s>>] = LiveIns(p, s, ins[n]) /\ LiveIns(p, s, ins[n]) \in D
  BY <1>0, LiveInsIs DEF D
<1>5. FoldGiven(I, D, w, G, ch)
  <2>1. G \in [I \X D -> D]
    BY <1>4
  <2>2. w \in D
    BY DEF D
  <2>. HIDE DEF G, ch
  <2>. QED  BY <1>0, <1>3, <2>1, <2>2, IntervalFinite DEF FoldGiven
<1>6. PICK e \in [SUBSET I -> D] : IsFold(e, I, w, G, ch)
  <2>. HIDE DEF G, ch
  <2>. QED  BY <1>5, FoldExists
<1>7. EndEq(e, p, w, ins)
  <2>1. ASSUME NEW s \in SUBSET I, s # {}
        PROVE  e[s] = LiveIns(p, e[s \ {Min(s)}], ins[Min(s)])
    <3>. HIDE DEF G, ch
    <3>1. e[s] = G[<<ch[s], e[s \ {ch[s]}]>>]
      BY <1>6, <2>1 DEF IsFold
    <3>2. ch[s] = Min(s) /\ ch[s] \in I /\ e[s \ {ch[s]}] \in D
      BY <1>3, <2>1
    <3>. QED  BY <1>4, <3>1, <3>2
  <2>2. e[{}] = w
    BY <1>6 DEF IsFold
  <2>. QED  BY <1>0, <2>1, <2>2 DEF EndEq
<1>8. EndEq(it, p, w, ins)
  BY <1>7, Zenon
<1>. HIDE DEF it
<1>9. FoldsIn(it, I, D, w, G, ch)
  <2>. HIDE DEF G, ch
  <2>1. it[{}] = w
        /\ \A s \in SUBSET I : s # {} => it[s] = LiveIns(p, it[s \ {Min(s)}], ins[Min(s)])
    BY <1>0, <1>8 DEF EndEq
  <2>2. ASSUME NEW s \in SUBSET I, s # {}, it[s \ {ch[s]}] \in D
        PROVE  it[s] = G[<<ch[s], it[s \ {ch[s]}]>>]
    <3>1. it[s] = LiveIns(p, it[s \ {Min(s)}], ins[Min(s)])
      BY <2>1, <2>2
    <3>2. ch[s] = Min(s) /\ ch[s] \in I
      BY <1>3, <2>2
    <3>. QED  BY <1>4, <2>2, <3>1, <3>2
  <2>. QED  BY <2>1, <2>2 DEF FoldsIn
<1>10. it[I] \in D
  <2>. HIDE DEF G, ch
  <2>. QED  BY <1>5, <1>9, FoldIs
<1>. QED  BY <1>2, <1>10 DEF D

LEMMA GivenEdges ==
  ASSUME NEW p \in Programs, NEW in \in [Blocks(p) -> SUBSET Pool(p)], NEW b, NEW s \in Blocks(p)
  PROVE  PhiArgs(p, b, s) \in SUBSET Pool(p) /\ LiveOn(p, in, b, s) \in SUBSET Pool(p)
<1>1. PhisGiven(p, s)
  BY ProgramIs
<1>2. \A q \in ToSet(p.phi[s]) : \A a \in ToSet(q.arg) : IsTmp(a[2]) => Id(a[2]) \in AllTemps(p)
  BY <1>1 DEF PhisGiven, ToSet
<1>3. PhiArgs(p, b, s) \in SUBSET Pool(p)
  BY <1>2 DEF PhiArgs, Pool
<1>. QED  BY <1>3 DEF LiveOn

LEMMA LiveBlockIs ==
  ASSUME NEW p \in Programs, NEW l \in LiveGood(p), NEW b \in Blocks(p)
  PROVE  LiveBlock(p, l, b) \in LiveGood(p)
<1>. DEFINE out == l.out[b] \cup RGlob \cup UNION {LiveOn(p, l.in, b, s) : s \in Succs(p, b)}
            gen == l.gen[b] \cup UNION {PhiArgs(p, b, s) : s \in Succs(p, b)}
            end == EndFold(p, p.ins[b], AtStart(p, b, out, gen))
            m == AtLeast(p, b, out)
<1>1. l \in LiveState(p) /\ l.in \in [Blocks(p) -> SUBSET Pool(p)]
  BY DEF LiveGood, LiveState
<1>2. \A s \in Succs(p, b) : PhiArgs(p, b, s) \in SUBSET Pool(p) /\ LiveOn(p, l.in, b, s) \in SUBSET Pool(p)
  BY <1>1, ProgramIs, GivenEdges
<1>3. RGlob \subseteq Regs /\ Regs \subseteq Pool(p)
  BY RegsAssumption, PoolIs DEF Regs
<1>4. out \in SUBSET Pool(p) /\ gen \in SUBSET Pool(p)
  <2>1. l.out[b] \in SUBSET Pool(p) /\ l.gen[b] \in SUBSET Pool(p)
    BY <1>1, LiveIs
  <2>. QED  BY <1>2, <1>3, <2>1
<1>5. Succs(p, b) = {} => out \subseteq RGlob
  BY DEF LiveGood
<1>6. LiveBlock(p, l, b) = [l EXCEPT !.out[b] = out, !.in[b] = end.in, !.gen[b] = end.gen, !.nlive[b] = end.top]
  BY Zenon DEF LiveBlock, EndFold, AtStart
<1>. HIDE DEF out, gen
<1>7. m \in Nat \X Nat /\ end \in LiveWalk(p, m)
  <2>1. m \in Nat \X Nat /\ AtStart(p, b, out, gen) \in LiveWalk(p, m)
    BY <1>4, AtStartIs
  <2>2. InsAll(p, p.ins[b])
    BY ProgramIs DEF InsAll
  <2>. HIDE DEF m
  <2>. QED  BY <2>1, <2>2, EndFoldIs
<1>8. m = AtLeast(p, b, out)
  OBVIOUS
<1>. HIDE DEF end, m
<1>9. /\ end.in \in SUBSET Pool(p) /\ end.gen \in SUBSET Pool(p) /\ end.top \in Nat \X Nat
      /\ \A k \in 1 .. 2 : end.top[k] >= m[k]
  BY <1>7 DEF LiveWalk
<1>. DEFINE l2 == [l EXCEPT !.out[b] = out, !.in[b] = end.in, !.gen[b] = end.gen, !.nlive[b] = end.top]
<1>10. l2 \in LiveState(p)
  BY <1>1, <1>4, <1>9 DEF LiveState
<1>11. /\ l2.out[b] = out /\ l2.nlive[b] = end.top
       /\ \A a \in Blocks(p) : a # b => l2.out[a] = l.out[a] /\ l2.nlive[a] = l.nlive[a]
  BY <1>1 DEF LiveState
<1>. HIDE DEF l2
<1>12. ASSUME NEW a \in Blocks(p)
       PROVE  /\ Succs(p, a) = {} => l2.out[a] \subseteq RGlob
              /\ \A k \in 1 .. 2 : l2.nlive[a][k] >= AtLeast(p, a, l2.out[a])[k]
  <2>1. CASE a = b
    BY <1>5, <1>8, <1>9, <1>11, <2>1
  <2>2. CASE a # b
    BY <1>11, <2>2 DEF LiveGood
  <2>. QED  BY <2>1, <2>2
<1>13. l2 \in LiveGood(p)
  BY <1>10, <1>12 DEF LiveGood
<1>. QED  BY <1>6, <1>13 DEF l2

RoundEq(it, p, l, seq) ==
  it = [s \in SUBSET DOMAIN seq |->
        IF s = {} THEN l ELSE Once(LiveBlock(p, it[s \ {Min(s)}], seq[Min(s)]))]
RoundFold(p, l) == FoldRight(LAMBDA b, l0 : Once(LiveBlock(p, l0, b)), InOrder(p), l)

LEMMA LiveRoundIs ==
  ASSUME NEW p \in Programs, NEW l \in LiveGood(p)
  PROVE  LiveRound(p, l) \in LiveGood(p)
<1>. DEFINE D == LiveGood(p)
            seq == InOrder(p)
            L == Cardinality(Blocks(p))
            I == 1 .. L
            it == CHOOSE e : RoundEq(e, p, l, seq)
            ch == [s \in SUBSET I |-> Min(s)]
            G == [e \in I \X D |-> LiveBlock(p, e[2], seq[e[1]])]
<1>0. L \in Nat /\ DOMAIN seq = I /\ \A n \in I : seq[n] \in Blocks(p)
  <2>1. L \in Nat /\ Blocks(p) = 0 .. L - 1
    BY ProgramIs
  <2>2. \A n \in I : n - 1 \in 0 .. L - 1
    BY <2>1
  <2>3. DOMAIN seq = I /\ \A n \in I : seq[n] = n - 1
    BY DEF InOrder
  <2>. QED  BY <2>1, <2>2, <2>3
<1>2. RoundFold(p, l) = it[I]
  <2>1. RoundFold(p, l) = it[DOMAIN seq]
    BY Zenon DEF RoundFold, FoldRight, MapThenFoldSet, RoundEq
  <2>. QED  BY <1>0, <2>1
<1>. HIDE DEF D, seq
<1>3. \A s \in SUBSET I : s # {} => ch[s] = Min(s) /\ ch[s] \in s /\ ch[s] \in I
                                     /\ s \ {ch[s]} \in SUBSET I
  BY <1>0, MinIs
<1>4. \A n \in I, s \in D : G[<<n, s>>] = LiveBlock(p, s, seq[n]) /\ LiveBlock(p, s, seq[n]) \in D
  BY <1>0, LiveBlockIs DEF D
<1>5. FoldGiven(I, D, l, G, ch)
  <2>1. G \in [I \X D -> D]
    BY <1>4
  <2>2. l \in D
    BY DEF D
  <2>. HIDE DEF G, ch
  <2>. QED  BY <1>0, <1>3, <2>1, <2>2, IntervalFinite DEF FoldGiven
<1>6. PICK e \in [SUBSET I -> D] : IsFold(e, I, l, G, ch)
  <2>. HIDE DEF G, ch
  <2>. QED  BY <1>5, FoldExists
<1>7. RoundEq(e, p, l, seq)
  <2>1. ASSUME NEW s \in SUBSET I, s # {}
        PROVE  e[s] = Once(LiveBlock(p, e[s \ {Min(s)}], seq[Min(s)]))
    <3>. HIDE DEF G, ch
    <3>1. e[s] = G[<<ch[s], e[s \ {ch[s]}]>>]
      BY <1>6, <2>1 DEF IsFold
    <3>2. ch[s] = Min(s) /\ ch[s] \in I /\ e[s \ {ch[s]}] \in D
      BY <1>3, <2>1
    <3>3. e[s] = LiveBlock(p, e[s \ {Min(s)}], seq[Min(s)])
      BY <1>4, <3>1, <3>2
    <3>. QED  BY <3>3, OnceIs
  <2>2. e[{}] = l
    BY <1>6 DEF IsFold
  <2>. QED  BY <1>0, <2>1, <2>2 DEF RoundEq
<1>8. RoundEq(it, p, l, seq)
  BY <1>7, Zenon
<1>. HIDE DEF it
<1>9. FoldsIn(it, I, D, l, G, ch)
  <2>. HIDE DEF G, ch
  <2>1. it[{}] = l
        /\ \A s \in SUBSET I : s # {} => it[s] = Once(LiveBlock(p, it[s \ {Min(s)}], seq[Min(s)]))
    BY <1>0, <1>8 DEF RoundEq
  <2>2. ASSUME NEW s \in SUBSET I, s # {}, it[s \ {ch[s]}] \in D
        PROVE  it[s] = G[<<ch[s], it[s \ {ch[s]}]>>]
    <3>1. it[s] = LiveBlock(p, it[s \ {Min(s)}], seq[Min(s)])
      BY <2>1, <2>2, OnceIs
    <3>2. ch[s] = Min(s) /\ ch[s] \in I
      BY <1>3, <2>2
    <3>. QED  BY <1>4, <2>2, <3>1, <3>2
  <2>. QED  BY <2>1, <2>2 DEF FoldsIn
<1>10. it[I] \in D
  <2>. HIDE DEF G, ch
  <2>. QED  BY <1>5, <1>9, FoldIs
<1>11. LiveRound(p, l) = Once(RoundFold(p, l))
  BY Zenon DEF LiveRound, RoundFold
<1>. QED  BY <1>2, <1>10, <1>11, OnceIs DEF D

LEMMA NoLiveIs ==
  ASSUME NEW p \in Programs
  PROVE  NoLive(p) \in LiveGood(p)
<1>1. NoLive(p) \in LiveState(p)
  BY DEF NoLive, LiveState, Zero
<1>2. \A b \in Blocks(p) : NoLive(p).out[b] = {} /\ NoLive(p).nlive[b] = Zero
  BY DEF NoLive
<1>3. \A k \in 1 .. 2 : Counts(p, {})[k] = 0
  <2>1. Mask(p, 1, {}) = {} /\ Mask(p, 2, {}) = {}
    BY DEF Mask
  <2>. QED  BY <2>1, FS_EmptySet DEF Counts
<1>4. \A b \in Blocks(p), k \in 1 .. 2 : AtLeast(p, b, {})[k] = 0 /\ Zero[k] = 0
  BY <1>3 DEF AtLeast, Zero
<1>5. \A b \in Blocks(p), k \in 1 .. 2 : NoLive(p).nlive[b][k] >= AtLeast(p, b, NoLive(p).out[b])[k]
  <2>. SUFFICES ASSUME NEW b \in Blocks(p), NEW k \in 1 .. 2
                PROVE  NoLive(p).nlive[b][k] >= AtLeast(p, b, NoLive(p).out[b])[k]
    OBVIOUS
  <2>1. NoLive(p).nlive[b][k] = 0
    BY <1>2, <1>4
  <2>2. AtLeast(p, b, NoLive(p).out[b])[k] = 0
    BY <1>2, <1>4
  <2>. QED  BY <2>1, <2>2
<1>. QED  BY <1>1, <1>2, <1>5 DEF LiveGood

LEMMA MaxOf ==
  ASSUME NEW I, IsFiniteSet(I), NEW g, \A e \in I : g[e] \in Nat, NEW S \in SUBSET I, S # {}
  PROVE  Max({g[e] : e \in S}) \in Nat /\ \A e \in S : g[e] <= Max({g[e2] : e2 \in S})
<1>. DEFINE T == {s \in SUBSET I : \E m \in Nat : \A e \in s : g[e] <= m}
<1>1. \A s \in SUBSET I : (\A e \in s : s \ {e} \in T) => s \in T
  <2>. SUFFICES ASSUME NEW s \in SUBSET I, \A e \in s : s \ {e} \in T PROVE s \in T
    OBVIOUS
  <2>1. CASE s = {}
    BY <2>1
  <2>2. CASE s # {}
    <3>1. PICK e \in s : TRUE
      BY <2>2
    <3>2. PICK m \in Nat : \A u \in s \ {e} : g[u] <= m
      BY <3>1
    <3>. DEFINE n == m + g[e]
    <3>3. n \in Nat /\ g[e] <= n /\ m <= n /\ g[e] \in Nat
      BY <3>1
    <3>. HIDE DEF n
    <3>4. \A u \in s : g[u] <= n
      <4>. SUFFICES ASSUME NEW u \in s PROVE g[u] <= n
        OBVIOUS
      <4>1. CASE u = e
        BY <4>1, <3>3
      <4>2. CASE u # e
        <5>1. g[u] <= m /\ g[u] \in Nat
          BY <4>2, <3>2
        <5>. QED  BY <5>1, <3>3
      <4>. QED  BY <4>1, <4>2
    <3>. QED  BY <3>3, <3>4
  <2>. QED  BY <2>1, <2>2
<1>2. S \in T
  <2>. HIDE DEF T
  <2>. QED  BY <1>1, Subsets
<1>3. PICK m \in Nat : \A e \in S : g[e] <= m
  BY <1>2
<1>. DEFINE img == {g[e] : e \in S}
<1>4. img \in SUBSET (0 .. m) /\ img # {}
  BY <1>3
<1>5. \A e \in S : g[e] \in img
  OBVIOUS
<1>. HIDE DEF img
<1>6. Max(img) \in img /\ \A k \in img : k <= Max(img)
  BY <1>4, MaxIs
<1>. QED  BY <1>4, <1>5, <1>6 DEF img

\* A header needs as many registers as any block of its loop.
LEMMA AggregatedIs ==
  ASSUME NEW p \in Programs, NEW l \in LiveState(p)
  PROVE  /\ Aggregated(p, l) \in LiveState(p) /\ Aggregated(p, l).out = l.out
         /\ \A h \in Blocks(p), b \in Blocks(p), k \in 1 .. 2 :
              b \in LoopBody(p, h) => l.nlive[b][k] <= Aggregated(p, l).nlive[h][k]
<1>. DEFINE over(h) == LoopBody(p, h) \cup {h}
            most(h, k) == Max({l.nlive[e][k] : e \in over(h)})
            gen == [b \in Blocks(p) |-> l.gen[b] \cup UNION {l.gen[e] : e \in LoopBody(p, b)}]
            nl  == [b \in Blocks(p) |-> [k \in 1 .. 2 |-> most(b, k)]]
<1>1. \A h \in Blocks(p) : over(h) \in SUBSET Blocks(p) /\ over(h) # {} /\ h \in over(h)
  BY LoopBodyIs
<1>2. \A h \in Blocks(p), k \in 1 .. 2 :
        most(h, k) \in Nat /\ \A b \in over(h) : l.nlive[b][k] <= most(h, k)
  <2>. SUFFICES ASSUME NEW h \in Blocks(p), NEW k \in 1 .. 2
                PROVE  most(h, k) \in Nat /\ \A b \in over(h) : l.nlive[b][k] <= most(h, k)
    OBVIOUS
  <2>. DEFINE g == [b \in Blocks(p) |-> l.nlive[b][k]]
              S == over(h)
  <2>1. \A b \in Blocks(p) : g[b] \in Nat /\ g[b] = l.nlive[b][k]
    <3>1. \A b \in Blocks(p) : l.nlive[b] \in Nat \X Nat
      BY LiveIs
    <3>. QED  BY <3>1
  <2>2. S \in SUBSET Blocks(p) /\ S # {}
    BY <1>1
  <2>. HIDE DEF over
  <2>3. {l.nlive[e][k] : e \in S} = {g[e] : e \in S}
    BY <2>1, <2>2
  <2>4. most(h, k) = Max({g[e] : e \in S})
    BY <2>3
  <2>. HIDE DEF g, S, most
  <2>5. Max({g[e] : e \in S}) \in Nat /\ \A e \in S : g[e] <= Max({g[e2] : e2 \in S})
    <3>1. IsFiniteSet(Blocks(p)) /\ \A b \in Blocks(p) : g[b] \in Nat
      BY <2>1, ProgramIs
    <3>. QED  BY ONLY <2>2, <3>1, MaxOf
  <2>. QED  BY <2>1, <2>2, <2>4, <2>5 DEF S
<1>. HIDE DEF most
<1>3. Aggregated(p, l) = [l EXCEPT !.gen = gen, !.nlive = nl]
  BY DEF Aggregated, most, LiveState
<1>4. gen \in [Blocks(p) -> SUBSET Pool(p)]
  <2>1. \A b \in Blocks(p) : l.gen[b] \in SUBSET Pool(p)
    BY LiveIs
  <2>2. \A b \in Blocks(p) : \A e \in LoopBody(p, b) : l.gen[e] \in SUBSET Pool(p)
    BY <2>1, LoopBodyIs
  <2>. QED  BY <2>1, <2>2
<1>5. nl \in [Blocks(p) -> Nat \X Nat]
  <2>1. \A b \in Blocks(p) : [k \in 1 .. 2 |-> most(b, k)] \in Nat \X Nat
    BY <1>2
  <2>. QED  BY <2>1
<1>6. \A h \in Blocks(p), k \in 1 .. 2 : nl[h][k] = most(h, k)
  OBVIOUS
<1>. HIDE DEF gen, nl
<1>7. /\ Aggregated(p, l) \in LiveState(p) /\ Aggregated(p, l).out = l.out
      /\ Aggregated(p, l).nlive = nl
  BY <1>3, <1>4, <1>5 DEF LiveState
<1>. QED  BY <1>2, <1>6, <1>7

-----------------------------------------------------------------------------
LivePart ==
  f = orig /\ c.live \in LiveGood(orig) /\ bad = FALSE

\* When the liveness is computed every block is as spill() needs it.
LivenessDone ==
  orig \in Programs /\ f = orig /\ \E l \in LiveGood(orig) : c.live = Aggregated(orig, l)
LEMMA AllReady == LivenessDone => \A b \in Blocks(orig) : Ready(b)
<1>. SUFFICES ASSUME LivenessDone, NEW b \in Blocks(orig) PROVE Ready(b)
  OBVIOUS
<1>. PICK p \in Programs : orig = p /\ f = p
  BY DEF LivenessDone
<1>. PICK l \in LiveGood(p) : c.live = Aggregated(p, l)
  BY DEF LivenessDone
<1>1. l \in LiveState(p) /\ c.live.out = l.out
  BY AggregatedIs DEF LiveGood
<1>2. Succs(f, b) = {} => c.live.out[b] \subseteq RGlob
  BY <1>1 DEF LiveGood
<1>3. ASSUME NEW h \in Back(f, b), NEW k \in 1 .. 2
      PROVE  Cardinality(Mask(f, k, c.live.out[b])) <= c.live.nlive[h][k]
  <2>1. h \in Succs(p, b) /\ h <= b /\ h \in Blocks(p)
    BY ProgramIs DEF Back
  <2>2. h \in Int /\ b \in Int
    <3>1. Blocks(p) = 0 .. Cardinality(Blocks(p)) - 1 /\ Cardinality(Blocks(p)) \in Nat
      BY ProgramIs
    <3>. QED  BY <3>1, <2>1
  <2>3. b \in LoopBody(p, h)
    BY <2>1, <2>2, LoopBodyIs
  <2>4. p.jmp[b].type # "ret"
    BY <2>1, ProgramIs DEF JmpGiven
  <2>5. AtLeast(p, b, l.out[b]) = Counts(p, l.out[b])
    BY <2>4 DEF AtLeast
  <2>6. l.out[b] \in SUBSET Pool(p)
    BY <1>1, LiveIs
  <2>7. Counts(p, l.out[b])[k] = Cardinality(Mask(p, k, l.out[b])) /\ Counts(p, l.out[b])[k] \in Nat
    BY <2>6, CountsIs
  <2>8. l.nlive[b][k] >= Counts(p, l.out[b])[k]
    BY <2>5 DEF LiveGood
  <2>9. l.nlive[b][k] <= c.live.nlive[h][k]
    BY <1>1, <2>1, <2>3, AggregatedIs
  <2>10. l.nlive[b][k] \in Nat /\ c.live.nlive[h][k] \in Nat
    <3>1. c.live \in LiveState(p)
      BY <1>1, AggregatedIs
    <3>2. l.nlive[b] \in Nat \X Nat /\ c.live.nlive[h] \in Nat \X Nat
      BY <1>1, <2>1, <3>1, LiveIs
    <3>. QED  BY <3>2
  <2>11. Cardinality(Mask(f, k, c.live.out[b])) = Counts(p, l.out[b])[k]
    BY <1>1, <2>7
  <2>. QED  BY <2>7, <2>8, <2>9, <2>10, <2>11
<1>. QED  BY <1>2, <1>3 DEF Ready

LEMMA LiveRoom ==
  ASSUME EdgesInv, RoomInv, LivePart, Live
  PROVE  RoomInv' /\ (pc' = "live" => LivePart') /\ (pc' = "spill" => SpillPart') /\ pc' \in {"live", "spill"}
<1>. DEFINE l == LiveRound(f, c.live)
            l2 == Aggregated(orig, l)
<1>1. orig \in Programs /\ f = orig /\ c.live \in LiveGood(orig) /\ bad = FALSE
  BY DEF LivePart, EdgesInv
<1>2. l \in LiveGood(orig)
  BY <1>1, LiveRoundIs
<1>3. orig' = orig /\ f' = f /\ slot' = slot /\ bad' = bad
  BY DEF Live
<1>4. l \in LiveState(orig) /\ l2 \in LiveState(orig)
  BY <1>1, <1>2, AggregatedIs DEF LiveGood
<1>5. SamePhis'
  BY <1>3 DEF RoomInv, SamePhis
<1>6. CASE l.out # c.live.out
  <2>1. c' = [c EXCEPT !.live = l] /\ pc' = pc
    BY <1>6 DEF Live
  <2>. HIDE DEF l
  <2>2. c'.live = l /\ DOMAIN c' = DOMAIN c
    BY <2>1 DEF RoomInv
  <2>3. RoomInv'
    BY <1>3, <1>4, <1>5, <2>2 DEF RoomInv
  <2>4. LivePart'
    BY <1>1, <1>2, <1>3, <2>2 DEF LivePart
  <2>5. pc' = "live"
    BY <2>1 DEF Live
  <2>. QED  BY <2>3, <2>4, <2>5
<1>7. CASE l.out = c.live.out
  <2>1. /\ c' = [c EXCEPT !.live = Aggregated(f, l), !.cost = FillCost(f), !.loop = LoopOf(f)]
        /\ pc' = "spill" /\ at' = Cardinality(Blocks(f)) - 1
    BY <1>7 DEF Live
  <2>. HIDE DEF l
  <2>2. c'.live = l2 /\ DOMAIN c' = DOMAIN c /\ c'.cost = FillCost(orig)
    BY <1>1, <2>1 DEF RoomInv
  <2>3. RoomInv'
    BY <1>3, <1>4, <1>5, <2>2 DEF RoomInv
  <2>4. SpillGiven(orig, f', c')
    BY <1>1, <1>3, <2>2, FillCostIs DEF SpillGiven
  <2>5. \A b \in Blocks(orig) : Ready(b)'
    <3>1. LivenessDone'
      BY <1>1, <1>2, <1>3, <2>2 DEF LivenessDone
    <3>2. LivenessDone' => (\A b \in Blocks(orig) : Ready(b))'
      BY AllReady, PTL
    <3>. QED  BY <1>3, <3>1, <3>2
  <2>6. at' \in Int /\ at' < Cardinality(Blocks(orig)) /\ \A b \in Blocks(orig) : b <= at'
    <3>1. Blocks(orig) = 0 .. Cardinality(Blocks(orig)) - 1 /\ Cardinality(Blocks(orig)) \in Nat
      BY <1>1, ProgramIs
    <3>2. at' = Cardinality(Blocks(orig)) - 1
      BY <2>1, <1>1
    <3>. QED  BY <3>1, <3>2
  <2>7. \A b \in Blocks(orig) : ~ b > at'
    <3>1. Blocks(orig) = 0 .. Cardinality(Blocks(orig)) - 1 /\ Cardinality(Blocks(orig)) \in Nat
      BY <1>1, ProgramIs
    <3>. QED  BY <3>1, <2>6
  <2>8. SpillPart'
    BY <1>3, <2>4, <2>5, <2>6, <2>7 DEF SpillPart
  <2>. QED  BY <2>1, <2>3, <2>8
<1>. QED  BY <1>6, <1>7

Phases == {"live", "spill", "rega", "edges", "joined", "run"}
RegaInv ==
  /\ EdgesInv /\ RoomInv /\ pc \in Phases
  /\ pc = "live" => LivePart
  /\ pc = "spill" => SpillPart
  /\ FitsRega

LEMMA InitRega == Init => RegaInv
<1>. SUFFICES ASSUME Init PROVE RegaInv
  OBVIOUS
<1>1. EdgesInv
  BY InitEdges
<1>2. orig \in Programs /\ f = orig /\ pc = "live" /\ slot = {} /\ bad = FALSE
  BY DEF Init
<1>3. DOMAIN c = {"live", "cost", "loop", "up"} /\ c.live = NoLive(orig)
  BY <1>2 DEF Init
<1>4. c.live \in LiveGood(orig) /\ c.live \in LiveState(orig)
  BY <1>2, <1>3, NoLiveIs DEF LiveGood
<1>5. f.ins \in [Blocks(orig) -> Seq(Instr)] /\ DOMAIN f.jmp = Blocks(orig)
  BY <1>2, ProgramsAssumption
<1>6. RoomInv
  BY <1>1, <1>2, <1>3, <1>4, <1>5 DEF RoomInv, EdgesInv
<1>7. LivePart
  BY <1>2, <1>4 DEF LivePart
<1>. QED  BY <1>1, <1>2, <1>6, <1>7 DEF RegaInv, FitsRega, Phases

\* The steps that follow change nothing that the invariant is about.
LEMMA LaterRoom ==
  ASSUME RegaInv, UNCHANGED <<orig, f, c, slot, bad>>
  PROVE  RoomInv'
<1>1. RoomInv
  BY DEF RegaInv
<1>. QED  BY <1>1 DEF RoomInv, SamePhis

LEMMA NextRega == RegaInv /\ [Next]_vars => RegaInv'
<1>. SUFFICES ASSUME RegaInv, [Next]_vars PROVE RegaInv'
  OBVIOUS
<1>0. EdgesInv /\ RoomInv /\ EdgesInv' /\ pc \in Phases
  BY NextEdges DEF RegaInv
<1>1. CASE Live
  <2>1. RoomInv' /\ (pc' = "live" => LivePart') /\ (pc' = "spill" => SpillPart') /\ pc' \in {"live", "spill"}
    BY <1>0, <1>1, LiveRoom DEF RegaInv, Live
  <2>. QED  BY <1>0, <2>1 DEF RegaInv, FitsRega, Phases
<1>2. CASE SpillNext
  <2>1. SpillPart /\ pc' = "spill"
    BY <1>2 DEF RegaInv, SpillNext
  <2>2. RoomInv' /\ SpillPart'
    BY <1>0, <1>2, <2>1, SpillNextRoom
  <2>. QED  BY <1>0, <2>1, <2>2 DEF RegaInv, FitsRega, Phases
<1>3. CASE Walk
  <2>1. SpillPart /\ pc' = "rega" /\ UNCHANGED <<orig, f, c, slot, bad>>
    BY <1>3 DEF RegaInv, Walk
  <2>2. FitsRega' /\ RoomInv'
    BY <1>0, <1>3, <2>1, WalkFits, LaterRoom
  <2>. QED  BY <1>0, <2>1, <2>2 DEF RegaInv, Phases
<1>4. ASSUME UNCHANGED <<orig, f, c, slot, bad>>, pc' \in {"edges", "joined", "run"}
      PROVE  RegaInv'
  <2>1. RoomInv'
    BY <1>4, LaterRoom
  <2>. QED  BY <1>0, <1>4, <2>1 DEF RegaInv, FitsRega, Phases
<1>5. ASSUME NEW b, PickJoin(b) \/ PickEnd(b) \/ Step(b)
      PROVE  RegaInv'
  BY <1>4, <1>5 DEF PickJoin, PickEnd, Step, Run
<1>6. CASE PickBeg
  BY <1>4, <1>6 DEF PickBeg
<1>7. CASE Begin
  BY <1>4, <1>7 DEF Begin, Run
<1>8. CASE UNCHANGED vars
  <2>1. UNCHANGED <<orig, f, c, slot, bad, pc, at, walk>>
    BY <1>8 DEF vars
  <2>2. RoomInv'
    BY <2>1, LaterRoom
  <2>3. LivePart' <=> LivePart
    BY <2>1 DEF LivePart
  <2>4. SpillPart' <=> SpillPart
    BY <2>1 DEF SpillPart, Ready, Roomed
  <2>5. FitsRega' <=> FitsRega
    BY <2>1 DEF FitsRega
  <2>. QED  BY <1>0, <2>1, <2>2, <2>3, <2>4, <2>5 DEF RegaInv
<1>. QED  BY <1>1, <1>2, <1>3, <1>5, <1>6, <1>7, <1>8 DEF Next

THEOREM RegaInvariant == Spec => []RegaInv
BY InitRega, NextRega, PTL DEF Spec

\* Whatever the function and the numbers of registers, rega() finds enough
\* registers at every instruction, group of copies, call and end of a block
\* that spill() leaves: "no more regs" is never reached.
THEOREM RegistersSuffice == Spec => []FitsRega
<1>1. RegaInv => FitsRega
  BY DEF RegaInv
<1>. QED  BY <1>1, RegaInvariant, PTL

\* What spill() works on stays in its types: only temporaries of the function
\* get slots, and liveness names only these and registers.
THEOREM BackendTypes == Spec => []TypeOK
<1>1. RegaInv => TypeOK
  <2>. SUFFICES ASSUME RegaInv PROVE TypeOK
    OBVIOUS
  <2>1. RoomInv /\ Blocks(f) = Blocks(orig) /\ pc \in Phases
    BY SameSuccs DEF RegaInv
  <2>2. \A b \in Blocks(orig) : /\ c.live.in[b] \in SUBSET Pool(orig) /\ c.live.out[b] \in SUBSET Pool(orig)
                                /\ c.live.nlive[b] \in Nat \X Nat
    BY <2>1, LiveIs DEF RoomInv
  <2>3. \A b \in Blocks(f) : c.live.in[b] \cup c.live.out[b] \subseteq Names
    BY <2>1, <2>2 DEF Names, Pool
  <2>4. DOMAIN f.ins = Blocks(orig) /\ f.s1 = orig.s1 /\ f.s2 = orig.s2
    BY <2>1 DEF RoomInv, SamePhis
  <2>. QED  BY <2>1, <2>2, <2>3, <2>4 DEF TypeOK, RoomInv, Phases
<1>. QED  BY <1>1, RegaInvariant, PTL

=============================================================================
