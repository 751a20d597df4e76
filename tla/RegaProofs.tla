----------------------------- MODULE RegaProofs -----------------------------
(***************************************************************************)
(* Proofs about Rega: for any temporaries, any bank of registers and any   *)
(* block whose points have at most as many live names as there are         *)
(* registers, the walk never runs out of registers and what the emitted    *)
(* code expects in a register is there.                                    *)
(***************************************************************************)
EXTENDS Rega, FiniteSetTheorems, FunctionTheorems, TLAPS

\* An RMap: two names never share a register.
IsMap(m) ==
  /\ m \in [Live(m) -> Regs]
  /\ \A x, y \in Live(m) : m[x] = m[y] => x = y

\* A fixed register is only mapped to itself.
Own(m) == \A r \in Live(m) \cap Regs : m[r] = r

-----------------------------------------------------------------------------
(* Counting: names and registers.                                           *)

LEMMA NamesFinite ==
  ASSUME NEW S \in SUBSET (Names \cup {NoRef})
  PROVE  IsFiniteSet(S) /\ Cardinality(S) \in Nat
<1>1. IsFiniteSet(Names)
  BY FiniteAssumption, FS_Union, Zenon DEF Names
<1>2. IsFiniteSet(Names \cup {NoRef})
  BY <1>1, FS_AddElement, Zenon
<1>. QED  BY <1>2, FS_Subset, FS_CardinalityType, Zenon

\* A map uses as many registers as it has names.
LEMMA UsedCount ==
  ASSUME NEW m, IsMap(m)
  PROVE  /\ IsFiniteSet(Live(m)) /\ Cardinality(Live(m)) \in Nat
         /\ IsFiniteSet(Regs \ Used(m))
         /\ Cardinality(Regs \ Used(m)) = Cardinality(Regs) - Cardinality(Live(m))
         /\ Cardinality(Regs) \in Nat
<1>1. m \in [Live(m) -> Regs] /\ \A x, y \in Live(m) : m[x] = m[y] => x = y
  BY Zenon DEF IsMap
<1>2. m \in Injection(Live(m), Regs)
  BY <1>1, Fun_IsInj, Zenon
<1>3. IsFiniteSet(Live(m))
  BY <1>2, FS_Injection, FiniteAssumption, Zenon
<1>4. m \in [Live(m) -> Used(m)] /\ \A r \in Used(m) : \E x \in Live(m) : m[x] = r
  BY <1>1 DEF Used
<1>5. m \in Surjection(Live(m), Used(m))
  BY <1>4, Fun_IsSurj, Zenon
<1>6. m \in Injection(Live(m), Used(m))
  BY <1>4, <1>1, Fun_IsInj, Zenon
<1>7. Cardinality(Used(m)) = Cardinality(Live(m))
  BY <1>3, <1>5, <1>6, FS_Surjection, Zenon
<1>8. Regs \cap Used(m) = Used(m)
  BY <1>1 DEF Used
<1>9. /\ IsFiniteSet(Regs \ Used(m))
      /\ Cardinality(Regs \ Used(m)) = Cardinality(Regs) - Cardinality(Regs \cap Used(m))
  BY FS_Difference, FiniteAssumption, Zenon
<1>10. Cardinality(Live(m)) \in Nat /\ Cardinality(Regs) \in Nat
  BY <1>3, FiniteAssumption, FS_CardinalityType, Zenon
<1>. QED  BY <1>3, <1>7, <1>8, <1>9, <1>10

\* A smaller set can be mapped into a larger one without sharing.
LEMMA InjectionExists ==
  ASSUME NEW S, NEW T, IsFiniteSet(S), IsFiniteSet(T), Cardinality(S) <= Cardinality(T)
  PROVE  \E f \in [S -> T] : \A x, y \in S : f[x] = f[y] => x = y
<1>. DEFINE a == Cardinality(S)  b == Cardinality(T)
<1>1. a \in Nat /\ b \in Nat /\ ExistsBijection(1..a, S) /\ ExistsBijection(1..b, T)
  BY FS_CardinalityType, Zenon
<1>2. ExistsInjection(1..a, 1..b)
  BY <1>1, Fun_NatInjLeq, Zenon
<1>3. ExistsInjection(S, 1..a) /\ ExistsInjection(1..b, T)
  BY <1>1, Fun_ExistsBijEquiv, Zenon
<1>4. ExistsInjection(S, T)
  BY <1>2, <1>3, Fun_ExistsInjTransitive, Zenon
<1>5. PICK f : f \in Injection(S, T)
  BY <1>4 DEF ExistsInjection
<1>6. f \in [S -> T] /\ \A x, y \in S : f[x] = f[y] => x = y
  BY <1>5, Fun_InjectionProperties, Zenon
<1>. QED  BY <1>6

-----------------------------------------------------------------------------
(* The operations of RMap.                                                  *)

\* ralloc() finds registers as long as the names fit.
LEMMA RAllocsExist ==
  ASSUME NEW m, IsMap(m), NEW ts, IsFiniteSet(ts), Fits(Live(m) \cup ts)
  PROVE  RAllocs(m, ts) # {}
<1>. DEFINE new == ts \ Live(m)
            free == Regs \ Used(m)
<1>1. /\ IsFiniteSet(Live(m)) /\ Cardinality(Live(m)) \in Nat
      /\ IsFiniteSet(free) /\ Cardinality(Regs) \in Nat
      /\ Cardinality(free) = Cardinality(Regs) - Cardinality(Live(m))
  BY UsedCount, Zenon
<1>2. IsFiniteSet(new) /\ Cardinality(new) \in Nat
  BY FS_Difference, FS_CardinalityType, Zenon
<1>3. Live(m) \cap new = {} /\ Live(m) \cup new = Live(m) \cup ts
  OBVIOUS
<1>4. /\ Cardinality(Live(m) \cup new)
           = Cardinality(Live(m)) + Cardinality(new) - Cardinality(Live(m) \cap new)
      /\ Cardinality({}) = 0
  BY <1>1, <1>2, FS_Union, FS_EmptySet, Zenon
<1>5. Cardinality(new) <= Cardinality(free)
  <2>1. Cardinality(Live(m) \cup new) <= Cardinality(Regs)
    BY <1>3, Zenon DEF Fits
  <2>2. Cardinality(Live(m) \cup new) = Cardinality(Live(m)) + Cardinality(new)
    <3>1. Cardinality(Live(m) \cap new) = 0
      BY <1>3, <1>4, Zenon
    <3>. HIDE DEF new
    <3>. QED  BY <1>1, <1>2, <1>4, <3>1
  <2>. HIDE DEF new, free
  <2>. QED  BY <1>1, <1>2, <2>1, <2>2
<1>6. PICK f \in [new -> free] : \A x, y \in new : f[x] = f[y] => x = y
  BY <1>1, <1>2, <1>5, InjectionExists, Zenon
<1>7. [x \in Live(m) \cup new |-> IF x \in new THEN f[x] ELSE m[x]] \in RAllocs(m, ts)
  BY <1>6, Zenon DEF RAllocs
<1>. QED  BY <1>7

\* What it gives: the names added, each in a register of its own; the rest stays.
LEMMA RAllocsGive ==
  ASSUME NEW m, IsMap(m), NEW ts, NEW m2 \in RAllocs(m, ts)
  PROVE  /\ Live(m2) = Live(m) \cup ts
         /\ IsMap(m2)
         /\ \A x \in Live(m) : m2[x] = m[x]
<1>. DEFINE new == ts \ Live(m)
            free == Regs \ Used(m)
<1>1. PICK f \in [new -> free] :
        /\ \A x, y \in new : f[x] = f[y] => x = y
        /\ m2 = [x \in Live(m) \cup new |-> IF x \in new THEN f[x] ELSE m[x]]
  BY DEF RAllocs
<1>2. Live(m2) = Live(m) \cup new
  BY <1>1 DEF Live
<1>3. \A x \in Live(m) : m2[x] = m[x]
  BY <1>1
<1>4. \A x \in new : m2[x] = f[x]
  BY <1>1
<1>5. \A x \in Live(m) : m[x] \in Used(m) /\ m[x] \in Regs
  BY DEF Used, IsMap
<1>6. m2 \in [Live(m2) -> Regs]
  BY <1>1, <1>2, <1>5
<1>7. \A x, y \in Live(m2) : m2[x] = m2[y] => x = y
  BY <1>1, <1>2, <1>3, <1>4, <1>5 DEF IsMap
<1>. QED  BY <1>2, <1>3, <1>6, <1>7 DEF IsMap

LEMMA RFreeAllGives ==
  ASSUME NEW m, IsMap(m), NEW ts
  PROVE  /\ Live(RFreeAll(m, ts)) = Live(m) \ ts
         /\ IsMap(RFreeAll(m, ts))
         /\ \A x \in Live(m) \ ts : RFreeAll(m, ts)[x] = m[x]
BY DEF RFreeAll, Live, IsMap

LEMMA RAddGives ==
  ASSUME NEW m, IsMap(m), NEW t, NEW r \in Regs, \A x \in Live(m) : x # t => m[x] # r
  PROVE  /\ Live(RAdd(m, t, r)) = Live(m) \cup {t}
         /\ IsMap(RAdd(m, t, r))
         /\ RAdd(m, t, r)[t] = r
         /\ \A x \in Live(m) : x # t => RAdd(m, t, r)[x] = m[x]
BY DEF RAdd, Live, IsMap

\* The name move() gives r to.
Target(r, to) == IF to = NoRef THEN r ELSE to

\* The map move() starts from, and the names that use r in it.
Without(m, to) == IF to = NoRef THEN m ELSE RFree(m, to)
Users(m, r) == {t \in Live(m) : m[t] = r}

LEMMA MovesHeld ==
  ASSUME NEW m, IsMap(m), Live(m) \subseteq Names, NEW r \in Regs,
         NEW to \in Temps \cup {NoRef}
  PROVE  LET m1   == Without(m, to)
             held == RAdd(RFreeAll(m1, Users(m1, r)), NoRef, r)
         IN  /\ IsMap(m1)
             /\ Live(m1) = Live(m) \ {to}
             /\ \A x \in Live(m1) : m1[x] = m[x]
             /\ IsMap(held)
             /\ Live(held) = (Live(m1) \ Users(m1, r)) \cup {NoRef}
             /\ held[NoRef] = r
             /\ \A x \in Live(m1) \ Users(m1, r) : held[x] = m[x]
<1>. DEFINE m1   == Without(m, to)
            m2   == RFreeAll(m1, Users(m1, r))
            held == RAdd(m2, NoRef, r)
<1>0. NoRef \notin Live(m)
  BY NamesAssumption DEF Names
<1>1. /\ IsMap(m1)
      /\ Live(m1) = Live(m) \ {to}
      /\ \A x \in Live(m1) : m1[x] = m[x]
  <2>1. CASE to = NoRef
    BY <2>1, <1>0 DEF Without
  <2>2. CASE to # NoRef
    <3>1. m1 = RFreeAll(m, {to})
      BY <2>2 DEF Without, RFree
    <3>. QED  BY <3>1, RFreeAllGives
  <2>. QED  BY <2>1, <2>2
<1>. HIDE DEF m1
<1>2. /\ Live(m2) = Live(m1) \ Users(m1, r)
      /\ IsMap(m2)
      /\ \A x \in Live(m1) \ Users(m1, r) : m2[x] = m1[x]
  BY <1>1, RFreeAllGives
<1>. HIDE DEF m2
<1>3. \A x \in Live(m2) : m2[x] # r
  BY <1>2 DEF Users
<1>4. /\ Live(held) = Live(m2) \cup {NoRef}
      /\ IsMap(held)
      /\ held[NoRef] = r
      /\ \A x \in Live(m2) : x # NoRef => held[x] = m2[x]
  BY <1>2, <1>3, RAddGives
<1>. HIDE DEF held
<1>5. /\ Live(held) = (Live(m1) \ Users(m1, r)) \cup {NoRef}
      /\ \A x \in Live(m1) \ Users(m1, r) : held[x] = m[x]
  BY <1>0, <1>1, <1>2, <1>4
<1>6. QED  BY <1>1, <1>4, <1>5 DEF m1, m2, held

\* move() finds a register for who used r, unless all are taken.
LEMMA MovesExist ==
  ASSUME NEW m, IsMap(m), Live(m) \subseteq Names, NEW r \in Regs,
         NEW to \in Temps \cup {NoRef},
         \/ \A x \in Live(m) : m[x] = r => x = r
         \/ Cardinality(Live(m) \ {to}) < Cardinality(Regs)
  PROVE  Moves(m, r, to) # {}
<1>. DEFINE m1   == Without(m, to)
            user == Users(m1, r)
            held == RAdd(RFreeAll(m1, user), NoRef, r)
<1>1. /\ IsMap(m1) /\ Live(m1) = Live(m) \ {to}
      /\ \A x \in Live(m1) : m1[x] = m[x]
      /\ IsMap(held) /\ Live(held) = (Live(m1) \ user) \cup {NoRef}
  BY MovesHeld
<1>2. user \subseteq Live(m1)
  BY Zenon DEF Users
<1>3. IsFiniteSet(user \ {r})
  <2>1. user \ {r} \in SUBSET (Names \cup {NoRef})
    BY <1>1, <1>2
  <2>. QED  BY <2>1, NamesFinite, Zenon
<1>4. Fits(Live(held) \cup (user \ {r}))
  <2>1. CASE \A x \in Live(m) : m[x] = r => x = r
    <3>1. Live(held) \cup (user \ {r}) = Live(held)
      BY <1>1, <2>1 DEF Users
    <3>2. /\ Cardinality(Live(held)) \in Nat /\ IsFiniteSet(Regs \ Used(held))
          /\ Cardinality(Regs \ Used(held)) = Cardinality(Regs) - Cardinality(Live(held))
          /\ Cardinality(Regs) \in Nat
      BY <1>1, UsedCount, Zenon
    <3>3. Cardinality(Regs \ Used(held)) \in Nat
      BY <3>2, FS_CardinalityType, Zenon
    <3>4. Cardinality(Live(held)) <= Cardinality(Regs)
      BY <3>2, <3>3
    <3>. QED  BY <3>1, <3>4, Zenon DEF Fits
  <2>2. CASE Cardinality(Live(m) \ {to}) < Cardinality(Regs)
    <3>1. Live(held) \cup (user \ {r}) \in SUBSET (Live(m1) \cup {NoRef})
      BY <1>1, <1>2
    <3>2. /\ IsFiniteSet(Live(m1)) /\ Cardinality(Live(m1)) \in Nat
          /\ Cardinality(Regs) \in Nat
      BY <1>1, UsedCount, Zenon
    <3>3. /\ IsFiniteSet(Live(m1) \cup {NoRef})
          /\ Cardinality(Live(m1) \cup {NoRef})
               = IF NoRef \in Live(m1) THEN Cardinality(Live(m1)) ELSE Cardinality(Live(m1)) + 1
      BY <3>2, FS_AddElement, Zenon
    <3>4. /\ Cardinality(Live(held) \cup (user \ {r})) <= Cardinality(Live(m1) \cup {NoRef})
          /\ IsFiniteSet(Live(held) \cup (user \ {r}))
      BY <3>1, <3>3, FS_Subset
    <3>5. Cardinality(Live(held) \cup (user \ {r})) \in Nat
      BY <3>4, FS_CardinalityType, Zenon
    <3>6. Cardinality(Live(m1)) < Cardinality(Regs)
      BY <1>1, <2>2, Zenon
    <3>. HIDE DEF m1, user, held
    <3>. QED  BY <3>2, <3>3, <3>4, <3>5, <3>6 DEF Fits
  <2>. QED  BY <2>1, <2>2
<1>5. RAllocs(held, user \ {r}) # {}
  BY <1>1, <1>3, <1>4, RAllocsExist, Zenon
<1>6. Moves(m, r, to) = {RAdd(RFree(m3, NoRef), Target(r, to), r) :
                           m3 \in RAllocs(held, user \ {r})}
  BY DEF Moves, Without, Users, Target
<1>. HIDE DEF held, user
<1>. QED  BY <1>5, <1>6

\* What it gives: r belongs to the result, or to itself; who did not use r stays.
LEMMA MovesGive ==
  ASSUME NEW m, IsMap(m), Own(m), Live(m) \subseteq Names, NEW r \in Regs,
         NEW to \in Temps \cup {NoRef}, to # NoRef => r \notin Live(m),
         NEW m4 \in Moves(m, r, to)
  PROVE  /\ IsMap(m4) /\ Own(m4)
         /\ Live(m4) = Live(m) \cup {Target(r, to)}
         /\ m4[Target(r, to)] = r
         /\ \A x \in Live(m) : x # Target(r, to) /\ m[x] # r => m4[x] = m[x]
<1>. DEFINE m1   == Without(m, to)
            user == Users(m1, r)
            held == RAdd(RFreeAll(m1, user), NoRef, r)
            tg   == Target(r, to)
<1>1. /\ IsMap(m1) /\ Live(m1) = Live(m) \ {to}
      /\ \A x \in Live(m1) : m1[x] = m[x]
      /\ IsMap(held) /\ Live(held) = (Live(m1) \ user) \cup {NoRef}
      /\ held[NoRef] = r
      /\ \A x \in Live(m1) \ user : held[x] = m[x]
  BY MovesHeld
<1>2. Moves(m, r, to) = {RAdd(RFree(m3, NoRef), tg, r) : m3 \in RAllocs(held, user \ {r})}
  BY DEF Moves, Without, Users, Target
<1>3. user = {x \in Live(m1) : m[x] = r}
  BY <1>1 DEF Users
<1>. HIDE DEF held, user
<1>4. PICK m3 \in RAllocs(held, user \ {r}) : m4 = RAdd(RFree(m3, NoRef), tg, r)
  BY <1>2
<1>5. /\ Live(m3) = Live(held) \cup (user \ {r})
      /\ IsMap(m3)
      /\ \A x \in Live(held) : m3[x] = held[x]
  BY <1>1, RAllocsGive
<1>. DEFINE m5 == RFreeAll(m3, {NoRef})
<1>6. /\ Live(m5) = Live(m3) \ {NoRef}
      /\ IsMap(m5)
      /\ \A x \in Live(m5) : m5[x] = m3[x]
  BY <1>5, RFreeAllGives
<1>7. m4 = RAdd(m5, tg, r)
  BY <1>4 DEF RFree
<1>. HIDE DEF m5, m1
<1>8. \A x \in Live(m5) : m5[x] # r
  BY <1>1, <1>5, <1>6 DEF IsMap
<1>9. /\ Live(m4) = Live(m5) \cup {tg}
      /\ IsMap(m4)
      /\ m4[tg] = r
      /\ \A x \in Live(m5) : x # tg => m4[x] = m5[x]
  BY <1>6, <1>7, <1>8, RAddGives
<1>10. NoRef \notin Live(m)
  BY NamesAssumption DEF Names
<1>11. Live(m5) \cup {tg} = Live(m) \cup {tg}
  <2>1. CASE to = NoRef
    BY <2>1, <1>1, <1>3, <1>5, <1>6, <1>10 DEF Target
  <2>2. CASE to # NoRef
    BY <2>2, <1>1, <1>3, <1>5, <1>6, <1>10 DEF Target
  <2>. QED  BY <2>1, <2>2
<1>12. \A x \in Live(m) : x # tg /\ m[x] # r => m4[x] = m[x]
  <2>. SUFFICES ASSUME NEW x \in Live(m), x # tg, m[x] # r  PROVE m4[x] = m[x]
    OBVIOUS
  <2>1. x \in Live(m1)
    BY <1>1, <1>10 DEF Target
  <2>2. x \in Live(held) /\ x \in Live(m5) /\ held[x] = m[x]
    BY <2>1, <1>1, <1>3, <1>5, <1>6, <1>10
  <2>. QED  BY <2>2, <1>5, <1>6, <1>9
<1>13. Own(m4)
  <2>. SUFFICES ASSUME NEW q \in Live(m4) \cap Regs  PROVE m4[q] = q
    BY DEF Own
  <2>1. CASE q = tg
    BY <2>1, <1>9, NamesAssumption DEF Target
  <2>2. CASE q # tg
    <3>1. q \in Live(m) /\ m[q] = q
      BY <2>2, <1>9, <1>11 DEF Own
    <3>2. q # r
      BY <3>1, <2>2 DEF Target
    <3>. QED  BY <3>1, <3>2, <2>2, <1>12
  <2>. QED  BY <2>1, <2>2
<1>. QED  BY <1>9, <1>11, <1>12, <1>13 DEF tg

-----------------------------------------------------------------------------
(* Needs, and what instructions do to them.                                 *)

\* What nd expects in r is what m has there.
MeetsAt(nd, m, r) == nd[r] = Nothing \/ (nd[r] \in Live(m) /\ m[nd[r]] = r)
Meets(nd, m) == \A r \in Regs : MeetsAt(nd, m, r)

LEMMA ReadAllMeets ==
  ASSUME NEW nd, NEW m, IsMap(m), NEW ts \in SUBSET Live(m), NEW r \in Regs,
         MeetsAt(nd, m, r)
  PROVE  /\ MeetsAt(ReadAll(nd, m, ts), m, r)
         /\ ReadAll(nd, m, ts)[r] \in {nd[r]} \cup ts
<1>1. CASE \E t \in ts : m[t] = r
  <2>. DEFINE c == CHOOSE t \in ts : m[t] = r
  <2>1. c \in ts /\ m[c] = r
    BY <1>1
  <2>2. ReadAll(nd, m, ts)[r] = Both(nd[r], c)
    BY <1>1 DEF ReadAll
  <2>. HIDE DEF c
  <2>3. nd[r] = Nothing \/ nd[r] = c
    BY <2>1 DEF MeetsAt, IsMap
  <2>4. ReadAll(nd, m, ts)[r] = c
    BY <2>2, <2>3 DEF Both
  <2>. QED  BY <2>1, <2>4 DEF MeetsAt
<1>2. CASE ~ \E t \in ts : m[t] = r
  <2>1. ReadAll(nd, m, ts)[r] = nd[r]
    BY <1>2 DEF ReadAll
  <2>. QED  BY <2>1 DEF MeetsAt
<1>. QED  BY <1>1, <1>2

\* A register none of the names is in keeps its need.
LEMMA ReadAllElsewhere ==
  ASSUME NEW nd, NEW m, NEW ts, NEW r \in Regs, \A t \in ts : m[t] # r
  PROVE  ReadAll(nd, m, ts)[r] = nd[r]
BY DEF ReadAll

LEMMA MeetsType ==
  ASSUME NEW nd, NEW m, Live(m) \subseteq Names, Meets(nd, m),
         nd = [r \in Regs |-> nd[r]]
  PROVE  nd \in [Regs -> Names \cup {Nothing, Bad}]
BY DEF Meets, MeetsAt

-----------------------------------------------------------------------------
(* The invariant, unfolded.                                                 *)

LEMMA Facts ==
  ASSUME TypeOK, ValuesKept
  PROVE  /\ IsMap(cur) /\ Own(cur) /\ Live(cur) \subseteq Names
         /\ need \in [Regs -> Names \cup {Nothing, Bad}]
         /\ Meets(need, IF InGroup THEN m0 ELSE cur)
<1>1. Live(cur) \subseteq Names /\ cur \in [Live(cur) -> Regs]
  BY DEF TypeOK, Live
<1>2. Meets(need, IF InGroup THEN m0 ELSE cur)
  BY DEF ValuesKept, NeedsMet, Meets, MeetsAt, InGroup
<1>. QED  BY <1>1, <1>2 DEF TypeOK, ValuesKept, OneNameEach, IsMap, Own

LEMMA FoldFacts ==
  ASSUME IsMap(cur), Own(cur), Meets(need, IF InGroup THEN m0 ELSE cur)
  PROVE  ValuesKept
BY DEF ValuesKept, OneNameEach, NeedsMet, IsMap, Own, Meets, MeetsAt, InGroup

LEMMA TypeFold ==
  ASSUME IsMap(cur), Live(cur) \subseteq Names
  PROVE  \E s \in SUBSET Names : cur \in [s -> Regs]
BY DEF IsMap

\* Registers that leave the copies' results, or were moved for, stand for
\* different names.
LEMMA TagInjective ==
  ASSUME GroupShape, InGroup, TypeOK, NEW r \in Regs, NEW q \in Regs, Tag(r) = Tag(q)
  PROVE  r = q
<1>1. \A g \in DOMAIN group : group[g] # NoRef => group[g] \in Temps
  BY DEF GroupShape
<1>. QED  BY <1>1, NamesAssumption DEF GroupShape, Tag

LEMMA TagType ==
  ASSUME GroupShape, InGroup, NEW r \in Regs
  PROVE  Tag(r) \in Names /\ (Tag(r) \in Regs => Tag(r) = r)
<1>1. \A g \in DOMAIN group : group[g] # NoRef => group[g] \in Temps
  BY DEF GroupShape
<1>. QED  BY <1>1, NamesAssumption DEF Tag, Names

\* The places kept and those of the group fit the registers: if all names
\* but one find theirs among them, there is a register more.
LEMMA GroupRoom ==
  ASSUME GroupShape, InGroup, TypeOK, NEW L, NEW r \in Room,
         \A x \in L : x \in Kept \/ \E q \in Room \ {r} : Tag(q) = x
  PROVE  Cardinality(L) < Cardinality(Regs)
<1>. DEFINE P == (Kept \cup Room)
            f == [x \in L |-> IF x \in Kept THEN x ELSE CHOOSE q \in Room \ {r} : Tag(q) = x]
<1>1. Room \subseteq Regs /\ Kept \subseteq Temps
  BY BankAssumption DEF Room, Kept, GroupShape, TypeOK
<1>2. f \in [L -> P \ {r}]
  <2>. SUFFICES ASSUME NEW x \in L  PROVE f[x] \in P \ {r}
    OBVIOUS
  <2>1. CASE x \in Kept
    BY <2>1, <1>1, NamesAssumption
  <2>2. CASE x \notin Kept
    <3>1. \E q \in Room \ {r} : Tag(q) = x
      BY <2>2
    <3>. QED  BY <2>2, <3>1
  <2>. QED  BY <2>1, <2>2
<1>3. \A x \in L : x \notin Kept => f[x] \in Room /\ Tag(f[x]) = x
  <2>. SUFFICES ASSUME NEW x \in L, x \notin Kept  PROVE f[x] \in Room /\ Tag(f[x]) = x
    OBVIOUS
  <2>1. \E q \in Room \ {r} : Tag(q) = x
    OBVIOUS
  <2>. QED  BY <2>1
<1>4. \A x \in L : x \in Kept => f[x] = x
  OBVIOUS
<1>. HIDE DEF f
<1>5. \A x, y \in L : f[x] = f[y] => x = y
  BY <1>1, <1>3, <1>4, NamesAssumption
<1>6. f \in Injection(L, P \ {r})
  BY <1>2, <1>5, Fun_IsInj, Zenon
<1>7. P \in SUBSET (Names \cup {NoRef})
  BY <1>1 DEF Names
<1>8. IsFiniteSet(P) /\ Cardinality(P) \in Nat
  BY <1>7, NamesFinite, Zenon
<1>9. r \in P
  OBVIOUS
<1>10. IsFiniteSet(P \ {r}) /\ Cardinality(P \ {r}) = Cardinality(P) - 1
  BY <1>8, <1>9, FS_RemoveElement, Zenon
<1>11. Cardinality(L) <= Cardinality(P \ {r}) /\ IsFiniteSet(L)
  BY <1>6, <1>10, FS_Injection, Zenon
<1>12. Cardinality(L) \in Nat /\ Cardinality(Regs) \in Nat
  BY <1>11, FiniteAssumption, FS_CardinalityType, Zenon
<1>13. Cardinality(P) <= Cardinality(Regs)
  BY DEF GroupShape, Fits
<1>. HIDE DEF P
<1>. QED  BY <1>8, <1>10, <1>11, <1>12, <1>13

-----------------------------------------------------------------------------
(* One lemma for each step: it preserves RegInv.                            *)

LEMMA InitInv == Init => RegInv
<1>. SUFFICES ASSUME Init PROVE RegInv
  OBVIOUS
<1>1. PICK out \in SUBSET Names : cur \in RAllocs([r \in out \cap Regs |-> r], out)
  BY DEF Init
<1>. DEFINE base == [r \in out \cap Regs |-> r]
<1>2. IsMap(base) /\ Live(base) = out \cap Regs
  BY DEF IsMap, Live
<1>3. \A r \in Live(base) : base[r] = r
  BY <1>2
<1>. HIDE DEF base
<1>4. IsMap(cur) /\ Live(cur) = out /\ Own(cur)
  <2>1. cur \in RAllocs(base, out)
    BY <1>1 DEF base
  <2>2. /\ Live(cur) = Live(base) \cup out
        /\ IsMap(cur)
        /\ \A x \in Live(base) : cur[x] = base[x]
    BY <1>2, <2>1, RAllocsGive
  <2>. QED  BY <1>2, <1>3, <2>2 DEF Own
<1>5. pc = "ins" /\ m0 = << >> /\ group = << >> /\ call = FALSE /\ def = {} /\ left = {}
  BY DEF Init
<1>6. \A r \in Regs : need[r] = IF \E t \in Live(cur) : cur[t] = r
                               THEN CHOOSE t \in Live(cur) : cur[t] = r ELSE Nothing
  BY DEF Init, Used
<1>7. Meets(need, cur)
  <2>. SUFFICES ASSUME NEW r \in Regs PROVE MeetsAt(need, cur, r)
    BY DEF Meets
  <2>1. CASE \E t \in Live(cur) : cur[t] = r
    BY <2>1, <1>6 DEF MeetsAt
  <2>2. CASE ~ \E t \in Live(cur) : cur[t] = r
    BY <2>2, <1>6 DEF MeetsAt
  <2>. QED  BY <2>1, <2>2
<1>8. need = [r \in Regs |-> need[r]]
  BY DEF Init
<1>9. need \in [Regs -> Names \cup {Nothing, Bad}]
  BY <1>4, <1>7, <1>8, MeetsType
<1>10. ValuesKept
  BY <1>4, <1>5, <1>7, FoldFacts DEF InGroup
<1>11. TypeOK
  <2>1. Live(m0) = {} /\ DOMAIN group = {}
    BY <1>5 DEF Live
  <2>2. Results(group) = {}
    BY <2>1 DEF Results
  <2>. QED  BY <1>4, <1>5, <1>9, <2>1, <2>2, TypeFold DEF TypeOK
<1>. QED  BY <1>5, <1>10, <1>11 DEF RegInv, NeverOut, GroupShape, GroupPlaces,
             CallPlaces, InGroup

\* The results of an instruction leave the needs and the map together.
LEMMA WriteMeets ==
  ASSUME RegInv, pc = "ins", NEW to \in Live(cur) \cup {NoRef}
  PROVE  LET m1 == RFree(cur, to)
             n1 == IF to = NoRef THEN need ELSE Write(need, cur[to], to)
         IN  /\ IsMap(m1) /\ Own(m1) /\ Live(m1) = Live(cur) \ {to}
             /\ Meets(n1, m1)
             /\ n1 \in [Regs -> Names \cup {Nothing, Bad}]
             /\ to # NoRef => n1[cur[to]] = Nothing
<1>. DEFINE m1 == RFree(cur, to)
            n1 == IF to = NoRef THEN need ELSE Write(need, cur[to], to)
<1>1. /\ IsMap(cur) /\ Own(cur) /\ Live(cur) \subseteq Names
      /\ need \in [Regs -> Names \cup {Nothing, Bad}]
      /\ Meets(need, cur)
  BY Facts DEF RegInv, InGroup
<1>2. /\ Live(m1) = Live(cur) \ {to}
      /\ IsMap(m1)
      /\ \A x \in Live(m1) : m1[x] = cur[x]
  BY <1>1, RFreeAllGives DEF RFree
<1>3. Own(m1)
  BY <1>1, <1>2 DEF Own
<1>4. n1 \in [Regs -> Names \cup {Nothing, Bad}]
  BY <1>1 DEF Write
<1>5. to # NoRef => n1[cur[to]] = Nothing
  BY <1>1 DEF Write, Meets, MeetsAt, IsMap
<1>6. Meets(n1, m1)
  <2>. SUFFICES ASSUME NEW r \in Regs PROVE MeetsAt(n1, m1, r)
    BY DEF Meets
  <2>1. CASE to # NoRef /\ cur[to] = r
    BY <2>1, <1>5 DEF MeetsAt
  <2>2. CASE to = NoRef \/ cur[to] # r
    <3>1. n1[r] = need[r]
      BY <2>2, <1>1 DEF Write
    <3>2. MeetsAt(need, cur, r)
      BY <1>1 DEF Meets
    <3>3. NoRef \notin Live(cur)
      BY <1>1, NamesAssumption DEF Names
    <3>4. need[r] = Nothing \/ need[r] \in Live(m1)
      BY <2>2, <3>2, <3>3, <1>2 DEF MeetsAt
    <3>. QED  BY <3>1, <3>2, <3>4, <1>2 DEF MeetsAt
  <2>. QED  BY <2>1, <2>2
<1>. QED  BY <1>2, <1>3, <1>4, <1>5, <1>6

LEMMA FoldNext ==
  ASSUME IsMap(cur'), Own(cur'), Live(cur') \subseteq Names,
         Meets(need', IF pc' \in {"group", "clobber"} THEN m0' ELSE cur')
  PROVE  ValuesKept' /\ \E s \in SUBSET Names : cur' \in [s -> Regs]
<1>1. \E s \in SUBSET Names : cur' \in [s -> Regs]
  BY DEF IsMap
<1>. QED  BY <1>1 DEF ValuesKept, OneNameEach, NeedsMet, IsMap, Own, Meets, MeetsAt

\* What is left to show when dopm() is not at work in the next state.
LEMMA FoldInv ==
  ASSUME RegInv, pc' \in {"ins", "call"},
         IsMap(cur'), Own(cur'), Live(cur') \subseteq Names,
         need' = [r \in Regs |-> need'[r]], Meets(need', cur'),
         Live(m0') \subseteq Names, DOMAIN group' \subseteq Regs,
         Results(group') \subseteq Temps, call' \in BOOLEAN, def' \subseteq Regs,
         left' \subseteq Regs, CallPlaces'
  PROVE  RegInv'
<1>1. need' \in [Regs -> Names \cup {Nothing, Bad}]
  BY MeetsType
<1>2. ValuesKept' /\ \E s \in SUBSET Names : cur' \in [s -> Regs]
  BY FoldNext
<1>3. TypeOK'
  BY <1>1, <1>2 DEF TypeOK
<1>4. NeverOut' /\ GroupShape' /\ GroupPlaces'
  BY DEF NeverOut, GroupShape, GroupPlaces, InGroup
<1>. QED  BY <1>2, <1>3, <1>4 DEF RegInv

LEMMA EmptyDomain == DOMAIN << >> = {} /\ Live(<< >>) = {} /\ Results(<< >>) = {}
<1>1. DOMAIN << >> = {}
  OBVIOUS
<1>. QED  BY <1>1 DEF Live, Results

LEMMA InsInv ==
  ASSUME RegInv, NEW to \in Names \cup {NoRef}, NEW args \in SUBSET Names, Ins(to, args)
  PROVE  RegInv'
<1>. DEFINE m1 == RFree(cur, to)
            n1 == IF to = NoRef THEN need ELSE Write(need, cur[to], to)
            rf == IF to = NoRef THEN NoRef ELSE cur[to]
<1>1. /\ pc = "ins" /\ to \in Live(cur) \cup {NoRef}
      /\ args \cap Regs \subseteq Live(cur) \ {to}
      /\ Fits((Live(cur) \ {to}) \cup args)
  BY DEF Ins
<1>2. /\ IsMap(cur) /\ Own(cur) /\ Live(cur) \subseteq Names
      /\ need \in [Regs -> Names \cup {Nothing, Bad}]
  BY Facts DEF RegInv
<1>3. /\ IsMap(m1) /\ Own(m1) /\ Live(m1) = Live(cur) \ {to}
      /\ Meets(n1, m1)
      /\ n1 \in [Regs -> Names \cup {Nothing, Bad}]
      /\ to # NoRef => n1[cur[to]] = Nothing
  BY <1>1, WriteMeets
<1>4. IsFiniteSet(args)
  <2>1. args \in SUBSET (Names \cup {NoRef})
    OBVIOUS
  <2>. QED  BY <2>1, NamesFinite, Zenon
<1>5. RAllocs(m1, args) # {}
  <2>1. Fits(Live(m1) \cup args)
    BY <1>1, <1>3
  <2>. QED  BY <2>1, <1>3, <1>4, RAllocsExist, Zenon
<1>6. PICK m2 \in RAllocs(m1, args) : Emit(to, args, m2)
  BY <1>5 DEF Ins
<1>7. UNCHANGED <<pc, dopmvars>>
  BY <1>5 DEF Ins
<1>. HIDE DEF m1, n1
<1>8. /\ Live(m2) = Live(m1) \cup args
      /\ IsMap(m2)
      /\ \A x \in Live(m1) : m2[x] = m1[x]
  BY <1>3, RAllocsGive
<1>9. Own(m2)
  BY <1>1, <1>3, <1>8 DEF Own
<1>10. Meets(n1, m2)
  BY <1>3, <1>8 DEF Meets, MeetsAt
<1>11. Live(m2) \subseteq Names
  BY <1>2, <1>3, <1>8
<1>12. CASE cur' = m2 /\ need' = ReadAll(n1, m2, args)
  <2>1. Meets(need', cur')
    <3>. SUFFICES ASSUME NEW r \in Regs PROVE MeetsAt(need', cur', r)
      BY DEF Meets
    <3>1. MeetsAt(n1, m2, r) /\ args \in SUBSET Live(m2)
      BY <1>8, <1>10 DEF Meets
    <3>. QED  BY <1>8, <1>12, <3>1, ReadAllMeets
  <2>2. need' = [r \in Regs |-> need'[r]]
    BY <1>12 DEF ReadAll
  <2>3. CallPlaces'
    BY <1>1, <1>7 DEF CallPlaces
  <2>4. pc' = "ins" /\ m0' = m0 /\ group' = group /\ call' = call /\ def' = def /\ left' = left
    BY <1>1, <1>7 DEF dopmvars
  <2>. QED  BY <1>8, <1>9, <1>11, <1>12, <2>1, <2>2, <2>3, <2>4, FoldInv DEF RegInv, TypeOK
<1>13. ASSUME NEW t \in Live(m2) \cap Temps, to # NoRef, rf \notin Used(m2),
              cur' = RAdd(m2, t, rf),
              need' = Copy(ReadAll(n1, cur', args), m2[t], rf)
       PROVE  RegInv'
  <2>1. rf = cur[to] /\ rf \in Regs
    BY <1>1, <1>2, <1>13 DEF IsMap
  <2>2. \A x \in Live(m2) : m2[x] # rf /\ m2[x] \in Regs
    BY <1>8, <1>13 DEF Used, IsMap
  <2>. HIDE DEF rf
  <2>3. /\ Live(cur') = Live(m2)
        /\ IsMap(cur')
        /\ cur'[t] = rf
        /\ \A x \in Live(m2) : x # t => cur'[x] = m2[x]
    BY <1>8, <1>13, <2>1, <2>2, RAddGives
  <2>4. Own(cur')
    BY <1>9, <2>3, NamesAssumption DEF Own
  <2>. DEFINE nd == ReadAll(n1, cur', args)
  <2>5. nd = [r \in Regs |-> nd[r]]
    BY DEF ReadAll
  <2>6. \A r \in Regs : r # m2[t] => MeetsAt(nd, cur', r)
    <3>. SUFFICES ASSUME NEW r \in Regs, r # m2[t] PROVE MeetsAt(nd, cur', r)
      OBVIOUS
    <3>1. MeetsAt(n1, m2, r)
      BY <1>10 DEF Meets
    <3>2. MeetsAt(n1, cur', r)
      BY <3>1, <2>3 DEF MeetsAt
    <3>3. args \in SUBSET Live(cur')
      BY <1>8, <2>3
    <3>. QED  BY <3>2, <3>3, <2>3, ReadAllMeets
  <2>7. nd[m2[t]] \in {Nothing, t}
    <3>1. \A x \in args : cur'[x] # m2[t]
      BY <1>8, <2>2, <2>3 DEF IsMap
    <3>2. m2[t] \in Regs
      BY <2>2
    <3>3. nd[m2[t]] = n1[m2[t]]
      BY <3>1, <3>2, ReadAllElsewhere
    <3>4. MeetsAt(n1, m2, m2[t])
      BY <1>10, <3>2 DEF Meets
    <3>. QED  BY <3>3, <3>4, <1>8 DEF MeetsAt, IsMap
  <2>8. nd[rf] \in {Nothing, t}
    <3>1. m2[t] # rf
      BY <2>2
    <3>. QED  BY <2>1, <2>3, <2>6, <3>1 DEF MeetsAt, IsMap
  <2>9. need' = [nd EXCEPT ![rf] = Both(nd[rf], nd[m2[t]]), ![m2[t]] = Nothing]
    BY <1>13 DEF Copy
  <2>. HIDE DEF nd
  <2>10. Both(nd[rf], nd[m2[t]]) \in {Nothing, t}
    BY <2>7, <2>8 DEF Both
  <2>11. need' = [r \in Regs |-> need'[r]]
    BY <2>5, <2>9
  <2>12. need'[rf] \in {Nothing, t} /\ need'[m2[t]] = Nothing
    BY <2>1, <2>2, <2>5, <2>9, <2>10
  <2>13. \A r \in Regs : r # rf /\ r # m2[t] => need'[r] = nd[r]
    BY <2>5, <2>9
  <2>14. Meets(need', cur')
    BY <2>3, <2>6, <2>12, <2>13 DEF Meets, MeetsAt
  <2>15. CallPlaces'
    BY <1>1, <1>7 DEF CallPlaces
  <2>16. pc' = "ins" /\ m0' = m0 /\ group' = group /\ call' = call /\ def' = def /\ left' = left
    BY <1>1, <1>7 DEF dopmvars
  <2>. QED  BY <1>11, <2>3, <2>4, <2>11, <2>14, <2>15, <2>16, FoldInv DEF RegInv, TypeOK
<1>14. \/ cur' = m2 /\ need' = ReadAll(n1, m2, args)
       \/ \E t \in Live(m2) \cap Temps :
            /\ to # NoRef /\ rf \notin Used(m2)
            /\ cur' = RAdd(m2, t, rf)
            /\ need' = Copy(ReadAll(n1, cur', args), m2[t], rf)
  BY <1>6 DEF Emit, n1
<1>. QED  BY <1>12, <1>13, <1>14

-----------------------------------------------------------------------------
(* The steps of dopm().                                                     *)

LEMMA StartGroupInv ==
  ASSUME RegInv, StartGroup
  PROVE  RegInv'
<1>1. /\ pc = "ins" /\ pc' = "group"
      /\ Live(cur) \cap Regs = {}
      /\ cur' = cur /\ need' = need
  BY DEF StartGroup
<1>0. PICK srcs \in SUBSET Regs : \E g \in [srcs -> Temps \cup {NoRef}] :
        \E isCall \in BOOLEAN, d \in SUBSET srcs : Group(g, isCall, d)
  BY DEF StartGroup
<1>2. PICK g \in [srcs -> Temps \cup {NoRef}], isCall \in BOOLEAN, d \in SUBSET srcs :
        Group(g, isCall, d)
  BY <1>0
<1>3. /\ \A r, q \in DOMAIN g : g[r] = g[q] /\ g[r] # NoRef => r = q
      /\ isCall => DOMAIN g \subseteq RSave /\ \A r \in DOMAIN g : g[r] # NoRef => r \in d
      /\ Fits((Live(cur) \ Results(g)) \cup IF isCall THEN RSave ELSE DOMAIN g)
      /\ m0' = cur /\ group' = g /\ call' = isCall /\ def' = d /\ left' = DOMAIN g
  BY <1>2 DEF Group
<1>4. /\ IsMap(cur) /\ Own(cur) /\ Live(cur) \subseteq Names
      /\ need \in [Regs -> Names \cup {Nothing, Bad}]
      /\ Meets(need, cur)
  BY <1>1, Facts DEF RegInv, InGroup
<1>5. Live(cur) \subseteq Temps
  BY <1>1, <1>4 DEF Names
<1>6. DOMAIN g = srcs /\ Results(g) \subseteq Temps
  BY NamesAssumption DEF Results
<1>7. ValuesKept' /\ \E s \in SUBSET Names : cur' \in [s -> Regs]
  BY <1>1, <1>3, <1>4, FoldNext
<1>8. TypeOK'
  BY <1>1, <1>3, <1>4, <1>6, <1>7 DEF TypeOK
<1>9. NeverOut' /\ CallPlaces'
  BY <1>1 DEF NeverOut, CallPlaces
<1>10. GroupShape'
  BY <1>1, <1>3, <1>4, <1>5, <1>6 DEF GroupShape, Kept, Room, IsMap
<1>11. GroupPlaces'
  <2>1. Placed' = {}
    BY <1>1, <1>3 DEF Placed
  <2>. QED  BY <1>1, <1>3, <2>1 DEF GroupPlaces, Kept
<1>. QED  BY <1>7, <1>8, <1>9, <1>10, <1>11 DEF RegInv

\* What the invariant says of a register that is still to be moved for.
LEMMA LeftFacts ==
  ASSUME RegInv, InGroup, NEW r \in left
  PROVE  /\ r \in Regs /\ r \in Room
         /\ pc = "group" => r \in DOMAIN group /\ r \notin Placed
         /\ pc = "clobber" => r \in Clobbered /\ Tag(r) = r
         /\ \A x \in Live(cur) \ {Tag(r)} : x \in Kept \/ \E q \in Room \ {r} : Tag(q) = x
<1>1. /\ left \subseteq IF pc = "group" THEN DOMAIN group ELSE Clobbered
      /\ DOMAIN group \subseteq Room /\ def \subseteq DOMAIN group
      /\ call => \A q \in DOMAIN group : group[q] # NoRef => q \in def
      /\ Live(cur) \subseteq Live(m0) \cup {Tag(q) : q \in Placed}
  BY DEF RegInv, GroupShape, GroupPlaces
<1>2. r \in Regs /\ r \in Room
  BY <1>1 DEF RegInv, TypeOK, Clobbered, Room
<1>3. pc = "clobber" => r \in Clobbered /\ Tag(r) = r
  BY <1>1 DEF Clobbered, Tag, InGroup
<1>4. Placed \subseteq Room
  BY <1>1 DEF Placed, Room, Clobbered
<1>5. \A x \in Live(cur) \ {Tag(r)} : x \in Kept \/ \E q \in Room \ {r} : Tag(q) = x
  <2>. SUFFICES ASSUME NEW x \in Live(cur) \ {Tag(r)}
                PROVE  x \in Kept \/ \E q \in Room : Tag(q) = x
    OBVIOUS
  <2>1. CASE x \in Live(m0)
    <3>1. CASE x \in Results(group)
      <4>1. PICK q \in DOMAIN group : group[q] = x /\ x # NoRef
        BY <3>1 DEF Results
      <4>. QED  BY <4>1, <1>1 DEF Tag
    <3>. QED  BY <2>1, <3>1 DEF Kept
  <2>2. CASE x \notin Live(m0)
    BY <2>2, <1>1, <1>4
  <2>. QED  BY <2>1, <2>2
<1>6. pc = "group" => r \in DOMAIN group /\ r \notin Placed
  BY <1>1 DEF Placed
<1>. QED  BY <1>2, <1>3, <1>5, <1>6

\* move() for a register of the group, or for one the call overwrites.
LEMMA MoveToInv ==
  ASSUME RegInv, InGroup, NEW r \in left, NEW to \in Temps \cup {NoRef},
         IF pc = "group" THEN to = group[r] ELSE to = NoRef,
         MoveTo(r, to)
  PROVE  RegInv'
<1>1. /\ IsMap(cur) /\ Own(cur) /\ Live(cur) \subseteq Names
      /\ need \in [Regs -> Names \cup {Nothing, Bad}]
      /\ Meets(need, m0)
  BY Facts DEF RegInv
<1>2. /\ r \in Regs /\ r \in Room
      /\ pc = "group" => r \in DOMAIN group /\ r \notin Placed
      /\ pc = "clobber" => r \in Clobbered /\ Tag(r) = r
      /\ \A x \in Live(cur) \ {Tag(r)} : x \in Kept \/ \E q \in Room \ {r} : Tag(q) = x
  BY LeftFacts
<1>3. TypeOK /\ GroupShape /\ GroupPlaces /\ NeverOut /\ ValuesKept
  BY DEF RegInv
<1>4. Target(r, to) = Tag(r)
  BY <1>2 DEF Target, Tag, InGroup
<1>5. Tag(r) \in Names /\ (Tag(r) \in Regs => Tag(r) = r)
  BY <1>2, <1>3, TagType
<1>6. to # NoRef => r \notin Live(cur)
  <2>. SUFFICES ASSUME to # NoRef, r \in Live(cur) PROVE FALSE
    OBVIOUS
  <2>1. pc = "group" /\ r \notin Placed
    BY <1>2 DEF InGroup
  <2>2. r \notin Live(m0)
    BY <1>2, <1>3, NamesAssumption DEF GroupShape
  <2>3. PICK q \in Placed : Tag(q) = r
    BY <2>2, <1>3 DEF GroupPlaces
  <2>4. q \in Regs
    BY <1>3, <2>1 DEF Placed, TypeOK
  <2>5. q = r
    BY <2>3, <2>4, <1>2, <1>3, TagType
  <2>. QED  BY <2>1, <2>5
<1>7. \/ \A x \in Live(cur) : cur[x] = r => x = r
      \/ Cardinality(Live(cur) \ {to}) < Cardinality(Regs)
  <2>1. CASE Tag(r) \in Live(cur) /\ to = NoRef /\ Tag(r) = r
    BY <2>1, <1>1, <1>2 DEF IsMap, Own
  <2>2. CASE ~ (Tag(r) \in Live(cur) /\ to = NoRef /\ Tag(r) = r)
    <3>1. Live(cur) \ {to} = Live(cur) \ {Tag(r)}
      BY <2>2, <1>1, <1>4, NamesAssumption DEF Target, Names
    <3>2. Cardinality(Live(cur) \ {Tag(r)}) < Cardinality(Regs)
      BY <1>2, <1>3, GroupRoom
    <3>. QED  BY <3>1, <3>2
  <2>. QED  BY <2>1, <2>2
<1>8. Moves(cur, r, to) # {}
  BY <1>1, <1>2, <1>7, MovesExist
<1>9. /\ cur' \in Moves(cur, r, to)
      /\ left' = left \ {r}
      /\ UNCHANGED <<pc, need, m0, group, call, def>>
  BY <1>8 DEF MoveTo
<1>10. /\ IsMap(cur') /\ Own(cur')
       /\ Live(cur') = Live(cur) \cup {Tag(r)}
       /\ cur'[Tag(r)] = r
       /\ \A x \in Live(cur) : x # Tag(r) /\ cur[x] # r => cur'[x] = cur[x]
  BY <1>1, <1>2, <1>4, <1>6, <1>9, MovesGive
<1>11. Live(cur') \subseteq Names
  BY <1>1, <1>5, <1>10
<1>12. ValuesKept' /\ \E s \in SUBSET Names : cur' \in [s -> Regs]
  BY <1>1, <1>9, <1>10, <1>11, FoldNext DEF InGroup
<1>13. TypeOK'
  BY <1>3, <1>9, <1>12 DEF TypeOK, Results
<1>14. /\ InGroup' = InGroup /\ Kept' = Kept /\ Room' = Room /\ Clobbered' = Clobbered
       /\ \A q : Tag(q)' = Tag(q)
  BY <1>9 DEF InGroup, Kept, Room, Clobbered, Tag, Results
<1>15. NeverOut' /\ CallPlaces'
  BY <1>3, <1>9 DEF NeverOut, CallPlaces, InGroup
<1>16. GroupShape'
  BY <1>3, <1>9, <1>14 DEF GroupShape
<1>17. Placed' = Placed \cup {r} /\ Placed \subseteq Regs
  BY <1>2, <1>3, <1>9, <1>14, BankAssumption DEF Placed, InGroup, TypeOK, Clobbered
<1>18. \A q \in Placed : Tag(q) \in Live(cur') /\ cur'[Tag(q)] = q
  <2>. SUFFICES ASSUME NEW q \in Placed PROVE Tag(q) \in Live(cur') /\ cur'[Tag(q)] = q
    OBVIOUS
  <2>1. Tag(q) \in Live(cur) /\ cur[Tag(q)] = q
    BY <1>3 DEF GroupPlaces
  <2>2. CASE q = r
    BY <2>2, <1>10
  <2>3. CASE q # r
    <3>1. Tag(q) # Tag(r)
      BY <2>3, <1>2, <1>3, <1>17, TagInjective
    <3>. QED  BY <2>1, <2>3, <3>1, <1>10
  <2>. QED  BY <2>2, <2>3
<1>19. GroupPlaces'
  <2>1. /\ Kept \subseteq Live(cur)
        /\ Live(cur) \subseteq Live(m0) \cup {Tag(q) : q \in Placed}
    BY <1>3 DEF GroupPlaces
  <2>2. Kept \subseteq Live(cur')
    BY <2>1, <1>10
  <2>3. Live(cur') \subseteq Live(m0) \cup {Tag(q) : q \in Placed'}
    BY <2>1, <1>10, <1>17
  <2>4. \A q \in Placed' : Tag(q) \in Live(cur') /\ cur'[Tag(q)] = q
    BY <1>10, <1>17, <1>18
  <2>5. Live(m0)' = Live(m0) /\ {Tag(q) : q \in Placed}' = {Tag(q) : q \in Placed'}
    BY <1>9, <1>14
  <2>6. \A q \in Placed' : Tag(q)' \in Live(cur)' /\ (cur[Tag(q)])' = q
    BY <2>4, <1>14
  <2>. QED  BY <2>2, <2>3, <2>5, <2>6, <1>14 DEF GroupPlaces
<1>. QED  BY <1>12, <1>13, <1>15, <1>16, <1>19 DEF RegInv

LEMMA StartClobberInv ==
  ASSUME RegInv, StartClobber
  PROVE  RegInv'
<1>1. /\ pc = "group" /\ left = {} /\ pc' = "clobber" /\ left' = Clobbered
      /\ UNCHANGED <<cur, need, m0, group, call, def>>
  BY DEF StartClobber, Clobbered
<1>2. TypeOK /\ GroupShape /\ GroupPlaces /\ ValuesKept /\ InGroup
  BY <1>1 DEF RegInv, InGroup
<1>3. /\ InGroup' /\ Kept' = Kept /\ Room' = Room /\ Clobbered' = Clobbered
      /\ \A q : Tag(q)' = Tag(q)
  BY <1>1 DEF InGroup, Kept, Room, Clobbered, Tag, Results
<1>4. Placed' = Placed
  BY <1>1, <1>3 DEF Placed
<1>5. TypeOK'
  BY <1>1, <1>2, BankAssumption DEF TypeOK, Clobbered, Results
<1>6. ValuesKept'
  BY <1>1, <1>2 DEF ValuesKept, OneNameEach, NeedsMet
<1>7. NeverOut' /\ CallPlaces'
  BY <1>1 DEF NeverOut, CallPlaces
<1>8. GroupShape'
  BY <1>1, <1>2, <1>3 DEF GroupShape
<1>9. GroupPlaces'
  BY <1>1, <1>2, <1>3, <1>4 DEF GroupPlaces
<1>. QED  BY <1>5, <1>6, <1>7, <1>8, <1>9 DEF RegInv

\* Once everything is moved for, a register of the group or one that the
\* call overwrites belongs to its tag, and what m0 holds is still mapped.
LEMMA AllPlaced ==
  ASSUME RegInv, pc = "clobber", left = {}
  PROVE  /\ \A r \in DOMAIN group : Tag(r) \in Live(cur) /\ cur[Tag(r)] = r
         /\ call => \A r \in RSave \ DOMAIN group : r \in Live(cur) /\ cur[r] = r
         /\ Live(m0) \cup Results(group) \subseteq Live(cur)
         /\ \A t \in Results(group) : \E q \in DOMAIN group : group[q] = t /\ cur[t] = q
<1>1. GroupShape /\ GroupPlaces /\ TypeOK /\ InGroup
  BY DEF RegInv, InGroup
<1>2. Placed = DOMAIN group \cup Clobbered
  BY DEF Placed
<1>3. \A r \in DOMAIN group : Tag(r) \in Live(cur) /\ cur[Tag(r)] = r
  BY <1>1, <1>2 DEF GroupPlaces
<1>4. call => \A r \in RSave \ DOMAIN group : r \in Live(cur) /\ cur[r] = r
  <2>. SUFFICES ASSUME call, NEW r \in RSave \ DOMAIN group
                PROVE  r \in Live(cur) /\ cur[r] = r
    OBVIOUS
  <2>1. r \in Clobbered /\ Tag(r) = r
    BY <1>1 DEF Clobbered, Tag, GroupShape
  <2>. QED  BY <2>1, <1>1, <1>2 DEF GroupPlaces
<1>5. \A t \in Results(group) : \E q \in DOMAIN group : group[q] = t /\ cur[t] = q /\ t \in Live(cur)
  <2>. SUFFICES ASSUME NEW t \in Results(group)
                PROVE  \E q \in DOMAIN group : group[q] = t /\ cur[t] = q /\ t \in Live(cur)
    OBVIOUS
  <2>1. PICK q \in DOMAIN group : group[q] = t /\ t # NoRef
    BY DEF Results
  <2>2. Tag(q) = t
    BY <2>1 DEF Tag
  <2>. QED  BY <2>1, <2>2, <1>3
<1>6. Live(m0) \cup Results(group) \subseteq Live(cur)
  BY <1>1, <1>5 DEF GroupPlaces, Kept
<1>. QED  BY <1>3, <1>4, <1>5, <1>6

\* The parallel move, put before code that needs what m0 says, needs what
\* the map says now; it asks for no fixed register.
LEMMA ParallelMoveMeets ==
  ASSUME RegInv, pc = "clobber", left = {},
         NEW slots \in SUBSET (Results(group) \ Live(m0))
  PROVE  /\ Meets(ParallelMove(need, cur, slots), cur)
         /\ \A r \in Regs : ParallelMove(need, cur, slots)[r] \in Temps \cup {Nothing}
<1>. DEFINE moved(r) == {t \in Live(cur) : cur[t] = r /\ t \in Live(m0)}
            kept(r)  == IF \E t \in Live(cur) \cap Live(m0) : m0[t] = r THEN Nothing ELSE need[r]
            wanted(r) ==
              IF moved(r) = {} THEN kept(r)
              ELSE Both(kept(r), need[m0[CHOOSE t \in moved(r) : TRUE]])
            w == [r \in Regs |-> wanted(r)]
<1>1. /\ IsMap(cur) /\ Own(cur) /\ Live(cur) \subseteq Names
      /\ need \in [Regs -> Names \cup {Nothing, Bad}]
      /\ Meets(need, m0)
  BY Facts DEF RegInv, InGroup
<1>2. /\ m0 \in [Live(m0) -> Regs] /\ Live(m0) \subseteq Temps
      /\ \A t, u \in Live(m0) : m0[t] = m0[u] => t = u
      /\ Results(group) \subseteq Temps
  BY DEF RegInv, GroupShape, InGroup, TypeOK
<1>3. Live(m0) \cup Results(group) \subseteq Live(cur)
  BY AllPlaced
<1>4. \A r \in Regs : kept(r) = Nothing
  BY <1>1, <1>3 DEF Meets, MeetsAt
<1>5. ASSUME NEW r \in Regs
      PROVE  wanted(r) = Nothing \/ (wanted(r) \in Live(m0) /\ cur[wanted(r)] = r)
  <2>1. CASE moved(r) = {}
    BY <2>1, <1>4
  <2>2. CASE moved(r) # {}
    <3>1. PICK t \in moved(r) : t = CHOOSE u \in moved(r) : TRUE
      BY <2>2
    <3>2. t \in Live(m0) /\ cur[t] = r /\ m0[t] \in Regs
      BY <1>2
    <3>. HIDE DEF moved, kept
    <3>3. wanted(r) = Both(kept(r), need[m0[t]])
      BY <2>2, <3>1
    <3>4. kept(r) = Nothing
      BY <1>4
    <3>5. need[m0[t]] \in {Nothing, t}
      BY <1>1, <1>2, <3>2 DEF Meets, MeetsAt
    <3>6. wanted(r) \in {Nothing, t}
      BY <3>3, <3>4, <3>5 DEF Both
    <3>. HIDE DEF wanted
    <3>. QED  BY <3>2, <3>6
  <2>. QED  BY <2>1, <2>2
<1>6. ParallelMove(need, cur, slots) = ReadAll(w, cur, slots)
  BY DEF ParallelMove
<1>7. \A r \in Regs : w[r] = wanted(r)
  OBVIOUS
<1>. HIDE DEF w, wanted
<1>8. \A r \in Regs : MeetsAt(w, cur, r) /\ w[r] \in Live(m0) \cup {Nothing}
  BY <1>3, <1>5, <1>7 DEF MeetsAt
<1>9. slots \in SUBSET Live(cur)
  BY <1>3
<1>10. ASSUME NEW r \in Regs
       PROVE  /\ MeetsAt(ReadAll(w, cur, slots), cur, r)
              /\ ReadAll(w, cur, slots)[r] \in Temps \cup {Nothing}
  <2>1. /\ MeetsAt(ReadAll(w, cur, slots), cur, r)
        /\ ReadAll(w, cur, slots)[r] \in {w[r]} \cup slots
    BY <1>1, <1>8, <1>9, ReadAllMeets
  <2>. QED  BY <2>1, <1>2, <1>8
<1>. QED  BY <1>6, <1>10 DEF Meets

LEMMA EndGroupInv ==
  ASSUME RegInv, NEW slots \in SUBSET Temps, EndGroup(slots)
  PROVE  RegInv'
<1>. DEFINE nd == ParallelMove(need, cur, slots)
            m  == RFreeAll(cur, Results(group))
            sources == DOMAIN group
            result(r) == {t \in Results(group) : group[r] = t}
<1>1. /\ pc = "clobber" /\ left = {}
      /\ slots \in SUBSET (Results(group) \ Live(m0))
      /\ cur' = [x \in Live(m) \cup sources |-> IF x \in sources THEN x ELSE m[x]]
      /\ need' = [r \in Regs |->
                   IF r \in sources /\ nd[r] \in result(r) \cup {r} THEN r ELSE nd[r]]
      /\ pc' = IF call THEN "call" ELSE "ins"
      /\ m0' = << >> /\ group' = << >> /\ call' = FALSE
      /\ UNCHANGED <<def, left>>
  BY DEF EndGroup
<1>2. /\ IsMap(cur) /\ Own(cur) /\ Live(cur) \subseteq Names
      /\ GroupShape /\ TypeOK /\ InGroup
  BY <1>1, Facts DEF RegInv, InGroup
<1>3. /\ \A r \in sources : Tag(r) \in Live(cur) /\ cur[Tag(r)] = r
      /\ call => \A r \in RSave \ sources : r \in Live(cur) /\ cur[r] = r
      /\ \A t \in Results(group) : \E q \in sources : group[q] = t /\ cur[t] = q
  BY <1>1, AllPlaced
<1>4. /\ Meets(nd, cur)
      /\ \A r \in Regs : nd[r] \in Temps \cup {Nothing}
  BY <1>1, ParallelMoveMeets
<1>. HIDE DEF nd
<1>5. /\ Live(m) = Live(cur) \ Results(group)
      /\ IsMap(m)
      /\ \A x \in Live(m) : m[x] = cur[x]
  BY <1>2, RFreeAllGives
<1>. HIDE DEF m
<1>6. sources \subseteq Regs /\ Results(group) \subseteq Temps
  BY <1>2 DEF TypeOK
<1>7. /\ Live(cur') = Live(m) \cup sources
      /\ \A r \in sources : cur'[r] = r
      /\ \A x \in Live(m) : x \notin sources => cur'[x] = cur[x]
  BY <1>1, <1>5 DEF Live
<1>8. \A x \in Live(m) : cur[x] \in sources => x \in sources
  <2>. SUFFICES ASSUME NEW x \in Live(m), cur[x] \in sources PROVE x \in sources
    OBVIOUS
  <2>1. x = Tag(cur[x])
    BY <1>2, <1>3, <1>5 DEF IsMap
  <2>2. x \notin Results(group)
    BY <1>5
  <2>. QED  BY <2>1, <2>2 DEF Tag, Results
<1>9. IsMap(cur')
  <2>1. cur' \in [Live(cur') -> Regs]
    BY <1>1, <1>2, <1>5, <1>6, <1>7 DEF IsMap
  <2>2. \A x, y \in Live(cur') : cur'[x] = cur'[y] => x = y
    BY <1>2, <1>5, <1>7, <1>8 DEF IsMap
  <2>. QED  BY <2>1, <2>2 DEF IsMap
<1>10. Own(cur')
  BY <1>2, <1>5, <1>7 DEF Own
<1>11. Live(cur') \subseteq Names
  BY <1>2, <1>5, <1>6, <1>7 DEF Names
<1>12. ASSUME NEW r \in Regs, ~ (r \in sources /\ nd[r] \in result(r) \cup {r}), nd[r] # Nothing
       PROVE  nd[r] \in Live(m) /\ nd[r] \notin sources /\ cur'[nd[r]] = r
  <2>1. nd[r] \in Live(cur) /\ cur[nd[r]] = r /\ nd[r] \in Temps
    BY <1>4, <1>12 DEF Meets, MeetsAt
  <2>2. r \notin sources
    <3>. SUFFICES ASSUME r \in sources PROVE FALSE
      OBVIOUS
    <3>1. nd[r] = Tag(r)
      BY <1>2, <1>3, <2>1 DEF IsMap
    <3>. QED  BY <3>1, <1>12 DEF Tag, Results
  <2>3. nd[r] \notin Results(group)
    BY <1>3, <2>1, <2>2
  <2>4. nd[r] \notin sources
    BY <1>6, <2>1, NamesAssumption
  <2>. QED  BY <2>1, <2>3, <2>4, <1>5, <1>7
<1>13. Meets(need', cur')
  <2>. SUFFICES ASSUME NEW r \in Regs PROVE MeetsAt(need', cur', r)
    BY DEF Meets
  <2>1. CASE r \in sources /\ nd[r] \in result(r) \cup {r}
    BY <2>1, <1>1, <1>7 DEF MeetsAt
  <2>2. CASE ~ (r \in sources /\ nd[r] \in result(r) \cup {r})
    <3>1. need'[r] = nd[r]
      BY <2>2, <1>1
    <3>. QED  BY <2>2, <3>1, <1>7, <1>12 DEF MeetsAt
  <2>. QED  BY <2>1, <2>2
<1>14. CallPlaces'
  <2>. SUFFICES ASSUME call
                PROVE  /\ def \subseteq RSave
                       /\ \A r \in RSave : r \in Live(cur') /\ cur'[r] = r
                       /\ \A r \in Regs : need'[r] \in Regs => need'[r] \in def
    BY <1>1 DEF CallPlaces, Live
  <2>1. def \subseteq RSave /\ def \subseteq sources
    BY <1>2 DEF GroupShape, Room
  <2>2. \A r \in RSave : r \in Live(cur') /\ cur'[r] = r
    <3>. SUFFICES ASSUME NEW r \in RSave, r \notin sources PROVE r \in Live(m) /\ cur[r] = r
      BY <1>7
    <3>. QED  BY <1>3, <1>5, <1>6, BankAssumption, NamesAssumption
  <2>3. ASSUME NEW r \in Regs, need'[r] \in Regs PROVE need'[r] \in def
    <3>1. r \in sources /\ nd[r] \in result(r) \cup {r}
      BY <1>1, <1>4, <2>3, NamesAssumption
    <3>2. need'[r] = r
      BY <1>1, <3>1
    <3>3. nd[r] # r
      BY <1>4, NamesAssumption
    <3>4. group[r] \in Results(group)
      BY <3>1, <3>3
    <3>5. group[r] # NoRef
      BY <3>4 DEF Results
    <3>6. r \in def
      BY <1>2, <3>1, <3>5 DEF GroupShape
    <3>. QED  BY <3>2, <3>6
  <2>. QED  BY <2>1, <2>2, <2>3
<1>15. need' = [r \in Regs |-> need'[r]]
  BY <1>1
<1>16. Live(m0') = {} /\ DOMAIN group' = {} /\ Results(group') = {}
  BY <1>1, EmptyDomain
<1>17. call' \in BOOLEAN /\ def' \subseteq Regs /\ left' \subseteq Regs /\ pc' \in {"ins", "call"}
  BY <1>1, <1>2 DEF TypeOK
<1>. QED  BY <1>9, <1>10, <1>11, <1>13, <1>14, <1>15, <1>16, <1>17, FoldInv

LEMMA CallInv ==
  ASSUME RegInv, NEW args \in SUBSET RSave, Call(args)
  PROVE  RegInv'
<1>1. /\ pc = "call" /\ pc' = "ins" /\ def' = {}
      /\ cur' = RFreeAll(cur, RSave \ args)
      /\ need' = [r \in Regs |->
                   IF r \notin RSave THEN need[r]
                   ELSE IF need[r] # Nothing /\ ~ (r \in def /\ need[r] = r) THEN Bad
                   ELSE IF r \in args THEN r ELSE Nothing]
      /\ UNCHANGED <<m0, group, call, left>>
  BY DEF Call
<1>2. /\ IsMap(cur) /\ Own(cur) /\ Live(cur) \subseteq Names
      /\ Meets(need, cur)
  BY <1>1, Facts DEF RegInv, InGroup
<1>3. /\ \A r \in RSave : r \in Live(cur) /\ cur[r] = r
      /\ \A r \in Regs : need[r] \in Regs => need[r] \in def
      /\ TypeOK
  BY <1>1 DEF RegInv, CallPlaces
<1>4. /\ Live(cur') = Live(cur) \ (RSave \ args)
      /\ IsMap(cur')
      /\ \A x \in Live(cur') : cur'[x] = cur[x]
  BY <1>1, <1>2, RFreeAllGives
<1>5. Own(cur') /\ Live(cur') \subseteq Names
  BY <1>2, <1>4 DEF Own
<1>6. Meets(need', cur')
  <2>. SUFFICES ASSUME NEW r \in Regs PROVE MeetsAt(need', cur', r)
    BY DEF Meets
  <2>0. MeetsAt(need, cur, r)
    BY <1>2 DEF Meets
  <2>1. CASE r \notin RSave
    <3>1. need'[r] = need[r]
      BY <1>1, <2>1
    <3>2. need[r] \in Live(cur) /\ cur[need[r]] = r => need[r] \in Live(cur')
      BY <1>3, <1>4, <2>1
    <3>. QED  BY <2>0, <3>1, <3>2, <1>4 DEF MeetsAt
  <2>2. CASE r \in RSave
    <3>1. need[r] \in {Nothing, r}
      BY <1>2, <1>3, <2>0, <2>2 DEF MeetsAt, IsMap
    <3>2. need[r] # Nothing => need[r] = r /\ r \in def
      BY <3>1, <1>3
    <3>3. need'[r] = IF r \in args THEN r ELSE Nothing
      BY <1>1, <2>2, <3>2
    <3>4. r \in args => r \in Live(cur') /\ cur'[r] = r
      BY <1>3, <1>4, <2>2
    <3>. QED  BY <3>3, <3>4 DEF MeetsAt
  <2>. QED  BY <2>1, <2>2
<1>7. need' = [r \in Regs |-> need'[r]]
  BY <1>1
<1>8. CallPlaces'
  BY <1>1 DEF CallPlaces
<1>9. /\ Live(m0') \subseteq Names /\ DOMAIN group' \subseteq Regs
      /\ Results(group') \subseteq Temps /\ call' \in BOOLEAN /\ def' \subseteq Regs
      /\ left' \subseteq Regs /\ pc' \in {"ins", "call"}
  BY <1>1, <1>3 DEF TypeOK
<1>. QED  BY <1>4, <1>5, <1>6, <1>7, <1>8, <1>9, FoldInv

LEMMA GroupCopyInv ==
  ASSUME RegInv, NEW r \in Regs, GroupCopy(r)
  PROVE  RegInv'
<1>1. pc = "group" /\ r \in left /\ MoveTo(r, group[r])
  BY DEF GroupCopy
<1>2. InGroup /\ group[r] \in Temps \cup {NoRef}
  BY <1>1 DEF RegInv, GroupShape, InGroup
<1>. QED  BY <1>1, <1>2, MoveToInv

LEMMA ClobberMoveInv ==
  ASSUME RegInv, NEW r \in Regs, ClobberMove(r)
  PROVE  RegInv'
<1>1. pc = "clobber" /\ r \in left /\ MoveTo(r, NoRef) /\ InGroup
  BY DEF ClobberMove, InGroup
<1>. QED  BY <1>1, MoveToInv

LEMMA StutterInv ==
  ASSUME RegInv, UNCHANGED vars
  PROVE  RegInv'
BY DEF vars, dopmvars, RegInv, TypeOK, ValuesKept, OneNameEach, NeedsMet, NeverOut,
       GroupShape, GroupPlaces, CallPlaces, InGroup, Kept, Room, Tag, Clobbered, Placed, Results

LEMMA NextInv ==
  ASSUME RegInv, [Next]_vars
  PROVE  RegInv'
<1>1. ASSUME NEW to \in Names \cup {NoRef}, NEW args \in SUBSET Names, Ins(to, args)
      PROVE  RegInv'
  BY <1>1, InsInv
<1>2. CASE StartGroup
  BY <1>2, StartGroupInv
<1>3. ASSUME NEW r \in Regs, GroupCopy(r)  PROVE RegInv'
  BY <1>3, GroupCopyInv
<1>4. ASSUME NEW r \in Regs, ClobberMove(r)  PROVE RegInv'
  BY <1>4, ClobberMoveInv
<1>5. CASE StartClobber
  BY <1>5, StartClobberInv
<1>6. ASSUME NEW slots \in SUBSET Temps, EndGroup(slots)  PROVE RegInv'
  BY <1>6, EndGroupInv
<1>7. ASSUME NEW args \in SUBSET RSave, Call(args)  PROVE RegInv'
  BY <1>7, CallInv
<1>8. CASE UNCHANGED vars
  BY <1>8, StutterInv
<1>. QED  BY <1>1, <1>2, <1>3, <1>4, <1>5, <1>6, <1>7, <1>8 DEF Next

LEMMA CallSafeLemma == RegInv => CallSafe
<1>. SUFFICES ASSUME RegInv, pc = "call", NEW t \in Live(cur) \cap Temps, cur[t] \in RSave
              PROVE  FALSE
  BY DEF CallSafe
<1>1. cur[t] \in Live(cur) /\ cur[cur[t]] = cur[t]
  BY DEF RegInv, CallPlaces
<1>2. t = cur[t]
  BY <1>1 DEF RegInv, ValuesKept, OneNameEach
<1>. QED  BY <1>2, BankAssumption, NamesAssumption

-----------------------------------------------------------------------------
(* What holds of every behaviour.                                           *)

\* The invariant that all of it rests on: what doblk() and dopm() keep true
\* of the map, the needs and the places of a group of copies.
THEOREM RegInvariant == Spec => []RegInv
<1>1. Init => RegInv
  BY InitInv
<1>2. RegInv /\ [Next]_vars => RegInv'
  BY NextInv
<1>. QED  BY <1>1, <1>2, PTL DEF Spec

\* The allocator's variables have their types.
THEOREM TypeCorrect == Spec => []TypeOK
<1>1. RegInv => TypeOK
  BY DEF RegInv
<1>. QED  BY <1>1, RegInvariant, PTL

\* No two names live at once share a register, and each register holds what
\* the code after it expects there: rega.c loses no value.
THEOREM ValuesKeptCorrect == Spec => []ValuesKept
<1>1. RegInv => ValuesKept
  BY DEF RegInv
<1>. QED  BY <1>1, RegInvariant, PTL

\* pickreg() never dies with "no more regs", if spill() left at most as
\* many live names as registers, before the group of copies and after it.
THEOREM NeverOutCorrect == Spec => []NeverOut
<1>1. RegInv => NeverOut
  BY DEF RegInv
<1>. QED  BY <1>1, RegInvariant, PTL

\* No temporary that lives across a call is in a register it overwrites.
THEOREM CallSafeCorrect == Spec => []CallSafe
<1>1. RegInv => CallSafe
  BY CallSafeLemma
<1>. QED  BY <1>1, RegInvariant, PTL

=============================================================================
