--------------------------- MODULE SccpFindProofs ---------------------------
(***************************************************************************)
(* Proofs about the analysis of Sccp: first the facts that they rest on,   *)
(* about the functions, the lattice, what is computed, the list of edges   *)
(* and what the analysis knows; then what each of its steps keeps true.    *)
(***************************************************************************)
EXTENDS Sccp, FiniteSetTheorems, FunctionTheorems, SequenceTheorems, TLAPS

-----------------------------------------------------------------------------
(* The function.                                                            *)

Nums == {Bot, Top} \cup Cons

LEMMA Names ==
  /\ Bot = -1 /\ Top = 0 /\ None = -1 /\ R = -2
  /\ Modulus \in Nat \ {0} /\ Word \in 1 .. Modulus
  /\ Cons = 1 .. Modulus
  /\ Temps \cap ({Bot, Top, R} \cup Cons) = {}
<1>1. Modulus \in Nat \ {0}
  BY WidthAssumption
<1>2. Cons = 1 .. Modulus
  <2>1. \A c \in 1 .. Modulus : c - 1 \in 0 .. Modulus - 1 /\ Con(c - 1) = c
    BY <1>1 DEF Con
  <2>2. \A v \in 0 .. Modulus - 1 : Con(v) \in 1 .. Modulus
    BY <1>1 DEF Con
  <2>. QED  BY <2>1, <2>2 DEF Cons
<1>. QED  BY <1>1, <1>2, WidthAssumption, TempsAssumption DEF Bot, Top, None, R

LEMMA FnFacts ==
  ASSUME fn \in Programs
  PROVE  WellTyped(fn, Blocks) /\ OneDef(fn, Blocks) /\ Strict(fn, Blocks)
BY ProgramsAssumption DEF Blocks

LEMMA FnTypes ==
  ASSUME fn \in Programs
  PROVE  /\ IsFiniteSet(Blocks) /\ 0 \in Blocks /\ Blocks \subseteq Nat
         /\ Blocks = 0 .. Cardinality(Blocks) - 1 /\ Cardinality(Blocks) \in Nat
         /\ fn.blks = Blocks
         /\ fn.jmp \in [Blocks -> {"jmp", "jnz", "ret"}]
         /\ fn.s1 \in [Blocks -> Blocks \cup {None}]
         /\ fn.s2 \in [Blocks -> Blocks \cup {None}]
         /\ fn.arg \in [Blocks -> Operands \cup {R}]
         /\ fn.phi \in [Blocks -> Seq(PhiRecs(Blocks))]
         /\ fn.ins \in [Blocks -> Seq(InsRecs)]
         /\ DOMAIN fn = {"blks", "jmp", "s1", "s2", "arg", "phi", "ins"}
         /\ fn.phi[0] = << >>
         /\ None \notin Blocks
<1>. DEFINE B == Blocks
<1>1. /\ IsFiniteSet(B) /\ B = 0 .. Cardinality(B) - 1 /\ 0 \in B
      /\ fn \in [blks : {B}, jmp : [B -> {"jmp", "jnz", "ret"}],
                 s1 : [B -> B \cup {None}], s2 : [B -> B \cup {None}],
                 arg : [B -> Operands \cup {R}],
                 phi : [B -> Seq(PhiRecs(B))], ins : [B -> Seq(InsRecs)]]
      /\ fn.phi[0] = << >>
  BY FnFacts DEF WellTyped
<1>2. Cardinality(B) \in Nat
  BY <1>1, FS_CardinalityType
<1>3. B \subseteq Nat /\ None \notin B
  <2>. SUFFICES ASSUME NEW x \in B PROVE x \in Nat /\ x # None
    OBVIOUS
  <2>1. x \in 0 .. Cardinality(B) - 1
    BY <1>1, Zenon
  <2>. HIDE DEF B
  <2>. QED  BY <1>2, <2>1 DEF None
<1>. QED  BY <1>1, <1>2, <1>3

LEMMA PhiFacts ==
  ASSUME fn \in Programs, NEW b \in Blocks, NEW i \in DOMAIN fn.phi[b]
  PROVE  /\ fn.phi[b][i] \in PhiRecs(Blocks)
         /\ fn.phi[b][i].to \in Temps
         /\ DOMAIN fn.phi[b][i].arg = {a \in Blocks : b \in {fn.s1[a], fn.s2[a]}}
         /\ \A a \in DOMAIN fn.phi[b][i].arg : fn.phi[b][i].arg[a] \in Operands
         /\ b # 0
<1>1. fn.phi[b] \in Seq(PhiRecs(Blocks))
  BY FnTypes
<1>2. fn.phi[b][i] \in PhiRecs(Blocks)
  BY <1>1, ElementOfSeq, LenProperties
<1>3. DOMAIN fn.phi[b][i].arg = {a \in Blocks : b \in {fn.s1[a], fn.s2[a]}}
  BY FnFacts DEF WellTyped
<1>4. b # 0
  BY FnTypes
<1>5. PICK A \in SUBSET Blocks : fn.phi[b][i].arg \in [A -> Operands] /\ fn.phi[b][i].to \in Temps
  BY <1>2 DEF PhiRecs
<1>. QED  BY <1>2, <1>3, <1>4, <1>5

LEMMA InsFacts ==
  ASSUME fn \in Programs, NEW b \in Blocks, NEW i \in DOMAIN fn.ins[b]
  PROVE  /\ fn.ins[b][i] \in InsRecs
         /\ fn.ins[b][i].op \in {"add", "div", "load", "store", "nop"}
         /\ fn.ins[b][i].to \in Temps \cup {R}
         /\ fn.ins[b][i].arg \in [1 .. 2 -> Operands \cup {R}]
         /\ fn.ins[b][i].op = "store" => fn.ins[b][i].to = R
         /\ CanFold(fn.ins[b][i].op) =>
              /\ fn.ins[b][i].to # R
              /\ \A k \in 1 .. 2 : fn.ins[b][i].arg[k] \in Operands
<1>1. fn.ins[b] \in Seq(InsRecs)
  BY FnTypes
<1>2. fn.ins[b][i] \in InsRecs
  BY <1>1, ElementOfSeq, LenProperties
<1>3. /\ fn.ins[b][i].op = "store" => fn.ins[b][i].to = R
      /\ fn.ins[b][i].op \in {"add", "div"} =>
           fn.ins[b][i].to # R /\ \A k \in 1 .. 2 : fn.ins[b][i].arg[k] # R
  BY FnFacts DEF WellTyped
<1>. QED  BY <1>2, <1>3 DEF InsRecs, CanFold

LEMMA JmpFacts ==
  ASSUME fn \in Programs, NEW b \in Blocks
  PROVE  /\ fn.jmp[b] \in {"jmp", "jnz", "ret"}
         /\ fn.s1[b] = None <=> fn.jmp[b] = "ret"
         /\ fn.s2[b] # None <=> fn.jmp[b] = "jnz"
         /\ fn.s1[b] \in Blocks \cup {None} /\ fn.s2[b] \in Blocks \cup {None}
         /\ fn.arg[b] \in Operands \cup {R}
         /\ fn.jmp[b] = "jnz" => fn.arg[b] \in Operands
         /\ fn.jmp[b] = "jmp" => fn.arg[b] = R
BY FnTypes, FnFacts DEF WellTyped

LEMMA ItemForm ==
  ASSUME fn \in Programs, NEW u \in Items
  PROVE  /\ u[2] \in Blocks
         /\ \/ u[1] = "phi" /\ u[3] \in DOMAIN fn.phi[u[2]] /\ u = <<"phi", u[2], u[3]>>
            \/ u[1] = "ins" /\ u[3] \in DOMAIN fn.ins[u[2]] /\ u = <<"ins", u[2], u[3]>>
            \/ u[1] = "jmp" /\ u = JmpOf(u[2]) /\ u[3] = 1
         /\ u[3] \in Nat
<1>1. PICK b \in Blocks : u \in Phis(b) \cup Inss(b) \cup {JmpOf(b)}
  BY DEF Items, JmpOf
<1>2. \A i \in DOMAIN fn.phi[b] : i \in Nat
  <2>1. fn.phi[b] \in Seq(PhiRecs(Blocks))
    BY FnTypes
  <2>. QED  BY <2>1, LenProperties
<1>3. \A i \in DOMAIN fn.ins[b] : i \in Nat
  <2>1. fn.ins[b] \in Seq(InsRecs)
    BY FnTypes
  <2>. QED  BY <2>1, LenProperties
<1>. QED  BY <1>1, <1>2, <1>3 DEF Phis, Inss, JmpOf

LEMMA IsItem ==
  ASSUME NEW b \in Blocks
  PROVE  /\ \A i \in DOMAIN fn.phi[b] : <<"phi", b, i>> \in Items
         /\ \A i \in DOMAIN fn.ins[b] : <<"ins", b, i>> \in Items
         /\ JmpOf(b) \in Items
BY DEF Items, Phis, Inss, JmpOf

LEMMA DefForm ==
  ASSUME fn \in Programs, NEW u \in Defs
  PROVE  /\ ToOf(u) \in Temps
         /\ u[2] \in Blocks /\ u \in Items
         /\ \/ /\ u[1] = "phi" /\ u[3] \in DOMAIN fn.phi[u[2]] /\ u = <<"phi", u[2], u[3]>>
               /\ ToOf(u) = fn.phi[u[2]][u[3]].to
            \/ /\ u[1] = "ins" /\ u[3] \in DOMAIN fn.ins[u[2]] /\ u = <<"ins", u[2], u[3]>>
               /\ ToOf(u) = fn.ins[u[2]][u[3]].to /\ fn.ins[u[2]][u[3]].to # R
<1>1. u \in Items /\ (u[1] = "phi" \/ (u[1] = "ins" /\ InsOf(u).to # R))
  BY DEF Defs
<1>2. CASE u[1] = "phi"
  <2>1. u[2] \in Blocks /\ u[3] \in DOMAIN fn.phi[u[2]] /\ u = <<"phi", u[2], u[3]>>
    BY <1>1, <1>2, ItemForm
  <2>. QED  BY <1>1, <1>2, <2>1, PhiFacts DEF ToOf, PhiOf
<1>3. CASE u[1] # "phi"
  <2>1. u[2] \in Blocks /\ u[3] \in DOMAIN fn.ins[u[2]] /\ u = <<"ins", u[2], u[3]>>
    BY <1>1, <1>3, ItemForm
  <2>. QED  BY <1>1, <1>3, <2>1, InsFacts DEF ToOf, InsOf
<1>. QED  BY <1>2, <1>3

\* Ssa form: one definition for each temporary.
LEMMA DefUnique ==
  ASSUME fn \in Programs, NEW u \in Defs, NEW v \in Defs, ToOf(u) = ToOf(v)
  PROVE  u = v
<1>1. OneDef(fn, Blocks)
  BY FnFacts
<1>. QED  BY <1>1, DefForm DEF OneDef

-----------------------------------------------------------------------------
(* The lattice.                                                             *)

\* What the values in V merge to.
MeetOf(V) ==
  IF V \subseteq {Top} THEN Top
  ELSE IF \E v \in V : V \subseteq {Top, v} THEN CHOOSE v \in V : v # Top
  ELSE Bot

IsMeet(m, V) ==
  \/ m = Top /\ V \subseteq {Top}
  \/ m \in V /\ m # Top /\ V \subseteq {Top, m}
  \/ m = Bot /\ \E v, w \in V : v # w /\ v # Top /\ w # Top

LEMMA MeetIs ==
  ASSUME NEW V
  PROVE  IsMeet(MeetOf(V), V)
<1>1. CASE V \subseteq {Top}
  BY <1>1 DEF MeetOf, IsMeet
<1>2. CASE ~ (V \subseteq {Top}) /\ \E v \in V : V \subseteq {Top, v}
  <2>1. PICK v \in V : V \subseteq {Top, v}
    BY <1>2
  <2>2. v # Top
    BY <1>2, <2>1
  <2>3. \A w \in V : w # Top => w = v
    BY <2>1
  <2>4. (CHOOSE w \in V : w # Top) = v
    BY <2>2, <2>3
  <2>. QED  BY <1>2, <2>1, <2>2, <2>4 DEF MeetOf, IsMeet
<1>3. CASE ~ (V \subseteq {Top}) /\ ~ \E v \in V : V \subseteq {Top, v}
  <2>1. PICK v \in V : v # Top
    BY <1>3
  <2>2. PICK w \in V : w # v /\ w # Top
    BY <1>3, <2>1
  <2>. QED  BY <1>3, <2>1, <2>2 DEF MeetOf, IsMeet
<1>. QED  BY <1>1, <1>2, <1>3

LEMMA MeetUnique ==
  ASSUME NEW V, NEW m, NEW n, IsMeet(m, V), IsMeet(n, V)
  PROVE  m = n
BY DEF IsMeet

LEMMA MergeMeet ==
  ASSUME NEW V, NEW x
  PROVE  LatMerge(x, MeetOf(V)) = MeetOf(V \cup {x})
<1>1. IsMeet(MeetOf(V), V) /\ IsMeet(MeetOf(V \cup {x}), V \cup {x})
  BY MeetIs
<1>2. IsMeet(LatMerge(x, MeetOf(V)), V \cup {x})
  <2>. DEFINE m == MeetOf(V)
  <2>1. IsMeet(m, V)
    BY <1>1
  <2>. SUFFICES IsMeet(LatMerge(x, m), V \cup {x})
    OBVIOUS
  <2>. HIDE DEF m
  <2>0. Bot # Top
    BY DEF Bot, Top
  <2>2. CASE m = Top
    BY <2>0, <2>1, <2>2 DEF IsMeet, LatMerge
  <2>3. CASE m # Top /\ x \in {Top, m}
    <3>1. LatMerge(x, m) = m
      BY <2>3 DEF LatMerge
    <3>2. V \subseteq {Top, m} => V \cup {x} \subseteq {Top, m}
      BY <2>3
    <3>. QED  BY <2>1, <2>3, <3>1, <3>2 DEF IsMeet
  <2>4. CASE m # Top /\ x \notin {Top, m}
    <3>1. LatMerge(x, m) = Bot
      BY <2>4 DEF LatMerge
    <3>2. \E v \in V : v # Top /\ v # x
      BY <2>1, <2>4 DEF IsMeet
    <3>. QED  BY <2>4, <3>1, <3>2 DEF IsMeet
  <2>. QED  BY <2>2, <2>3, <2>4
<1>. QED  BY <1>1, <1>2, MeetUnique

\* A set of naturals has a least element.
LEMMA LeastNat ==
  ASSUME NEW T \in SUBSET Nat, T # {}
  PROVE  \E m \in T : \A k \in T : m <= k
<1>. DEFINE less == OpToRel(<, Nat)
<1>1. \E m \in T : \A k \in T : ~ (<<k, m>> \in less)
  BY NatLessThanWellFounded, WFMin, Zenon
<1>2. \A k, m \in T : k < m => <<k, m>> \in less
  BY DEF OpToRel
<1>. HIDE DEF less
<1>3. PICK m \in T : \A k \in T : ~ (<<k, m>> \in less)
  BY <1>1
<1>4. \A k \in T : ~ (k < m)
  BY <1>2, <1>3
<1>5. \A k \in T : m <= k
  BY <1>4
<1>. QED  BY <1>5

\* visitphi()'s loop, in whatever order it goes.
IterEq(it, f, I) ==
  it = [s \in SUBSET I |->
        IF s = {} THEN Top
        ELSE LatMerge(f[CHOOSE x \in s : TRUE], it[s \ {CHOOSE x \in s : TRUE}])]

LEMMA FoldIsMeet ==
  ASSUME NEW f, NEW I, IsFiniteSet(I)
  PROVE  FoldFunctionOnSet(LatMerge, Top, f, I) = MeetOf({f[x] : x \in I})
<1>. DEFINE g  == [s \in SUBSET I |-> MeetOf({f[x] : x \in s})]
            it == CHOOSE h : IterEq(h, f, I)
            pick(s) == CHOOSE x \in s : TRUE
<1>1. FoldFunctionOnSet(LatMerge, Top, f, I) = it[I]
  BY Zenon DEF FoldFunctionOnSet, MapThenFoldSet, IterEq
<1>2. ASSUME NEW s \in SUBSET I, s # {}
      PROVE  /\ pick(s) \in s /\ s \ {pick(s)} \in SUBSET I
             /\ g[s] = LatMerge(f[pick(s)], g[s \ {pick(s)}])
  <2>1. pick(s) \in s
    BY <1>2
  <2>. HIDE DEF pick
  <2>2. {f[x] : x \in s} = {f[x] : x \in s \ {pick(s)}} \cup {f[pick(s)]}
    BY <2>1
  <2>3. s \ {pick(s)} \in SUBSET I
    OBVIOUS
  <2>4. g[s \ {pick(s)}] = MeetOf({f[x] : x \in s \ {pick(s)}}) /\ g[s] = MeetOf({f[x] : x \in s})
    BY <2>3
  <2>. QED  BY <2>1, <2>2, <2>3, <2>4, MergeMeet
<1>3. g[{}] = Top
  <2>1. {f[x] : x \in {}} = {}
    OBVIOUS
  <2>. QED  BY <2>1 DEF MeetOf
<1>4. IterEq(g, f, I)
  <2>. DEFINE e(s) == IF s = {} THEN Top ELSE LatMerge(f[pick(s)], g[s \ {pick(s)}])
  <2>1. \A s \in SUBSET I : g[s] = e(s)
    BY <1>2, <1>3
  <2>2. g = [s \in SUBSET I |-> g[s]]
    OBVIOUS
  <2>. HIDE DEF g
  <2>3. g = [s \in SUBSET I |-> e(s)]
    BY <2>1, <2>2
  <2>. QED  BY <2>3 DEF IterEq
<1>5. IterEq(it, f, I)
  BY <1>4, Zenon
<1>. HIDE DEF it, g
<1>6. \A s \in SUBSET I : it[s] = IF s = {} THEN Top ELSE LatMerge(f[pick(s)], it[s \ {pick(s)}])
  BY <1>5 DEF IterEq
<1>7. \A s \in SUBSET I : it[s] = g[s]
  <2>. SUFFICES ASSUME NEW w \in SUBSET I, it[w] # g[w] PROVE FALSE
    OBVIOUS
  <2>. DEFINE sizes == {n \in Nat : \E s \in SUBSET I : it[s] # g[s] /\ Cardinality(s) = n}
  <2>1. \A s \in SUBSET I : IsFiniteSet(s) /\ Cardinality(s) \in Nat
    BY FS_Subset, FS_CardinalityType
  <2>2. sizes \in SUBSET Nat /\ sizes # {}
    BY <2>1
  <2>3. PICK n \in sizes : \A k \in sizes : n <= k
    BY <2>2, LeastNat
  <2>4. PICK s \in SUBSET I : it[s] # g[s] /\ Cardinality(s) = n
    BY <2>3
  <2>5. s # {}
    BY <1>3, <1>6, <2>4
  <2>6. pick(s) \in s /\ s \ {pick(s)} \in SUBSET I
    BY <1>2, <2>5
  <2>. HIDE DEF pick
  <2>7. Cardinality(s \ {pick(s)}) = n - 1 /\ n - 1 \in Nat
    <3>1. Cardinality(s \ {pick(s)}) = n - 1
      BY <2>1, <2>4, <2>6, FS_RemoveElement
    <3>2. Cardinality(s \ {pick(s)}) \in Nat
      BY <2>1, <2>6
    <3>. QED  BY <3>1, <3>2
  <2>8. it[s \ {pick(s)}] = g[s \ {pick(s)}]
    <3>. SUFFICES ASSUME it[s \ {pick(s)}] # g[s \ {pick(s)}] PROVE FALSE
      OBVIOUS
    <3>1. n - 1 \in sizes
      BY <2>6, <2>7
    <3>2. n <= n - 1 /\ n \in Nat
      BY <2>3, <3>1
    <3>. QED  BY <3>2
  <2>9. it[s] = LatMerge(f[pick(s)], it[s \ {pick(s)}])
    BY <1>6, <2>4, <2>5
  <2>10. g[s] = LatMerge(f[pick(s)], g[s \ {pick(s)}])
    BY <1>2, <2>4, <2>5
  <2>. QED  BY <2>4, <2>8, <2>9, <2>10, Zenon
<1>8. it[I] = g[I]
  BY <1>7
<1>. QED  BY <1>1, <1>8 DEF g

\* A lower value, on its way from Top to Bot.
LEMMA BelowTrans ==
  ASSUME NEW a, NEW b, NEW c, Below(a, b), Below(b, c)
  PROVE  Below(a, c)
BY DEF Below, Top, Bot

LEMMA MeetFalls ==
  ASSUME NEW V, NEW W, \A v \in V : \E w \in W : Below(w, v),
         NEW m, NEW n, IsMeet(m, V), IsMeet(n, W)
  PROVE  Below(n, m)
<1>0. Bot # Top
  BY DEF Bot, Top
<1>1. CASE m = Top
  BY <1>1 DEF Below
<1>2. CASE m \in V /\ m # Top
  <2>1. PICK w \in W : w = m \/ w = Bot
    BY <1>2 DEF Below
  <2>. QED  BY <1>0, <1>2, <2>1 DEF Below, IsMeet
<1>3. CASE m = Bot /\ \E v, w \in V : v # w /\ v # Top /\ w # Top
  <2>1. PICK v, w \in V : v # w /\ v # Top /\ w # Top
    BY <1>3
  <2>2. PICK x, y \in W : (x = v \/ x = Bot) /\ (y = w \/ y = Bot)
    BY <2>1 DEF Below
  <2>. QED  BY <1>0, <1>3, <2>1, <2>2 DEF Below, IsMeet
<1>. QED  BY <1>1, <1>2, <1>3 DEF IsMeet

-----------------------------------------------------------------------------
(* What is computed.                                                        *)

LEMMA LatValType ==
  ASSUME Typed, NEW r \in Operands
  PROVE  LatVal(r) \in Nums
BY DEF Typed, TypeOK, Operands, LatVal, Nums

LEMMA OpFoldType ==
  ASSUME NEW op, CanFold(op), NEW l \in Cons, NEW r \in Cons
  PROVE  OpFold(op, l, r) \in Cons \cup {Bot}
<1>1. Value(l) \in 0 .. Modulus - 1 /\ Value(r) \in 0 .. Modulus - 1 /\ Modulus \in Nat \ {0}
  BY Names DEF Value
<1>2. \A v \in 0 .. Modulus - 1 : Con(v) \in Cons
  BY DEF Cons
<1>3. CASE op = "add"
  <2>. DEFINE s == Value(l) + Value(r)
  <2>1. s \in Nat
    BY <1>1
  <2>. HIDE DEF s
  <2>2. s % Modulus \in 0 .. Modulus - 1
    BY <1>1, <2>1
  <2>3. Con(s % Modulus) \in Cons
    BY <1>2, <2>2
  <2>. QED  BY <1>3, <2>3 DEF OpFold, s
<1>4. CASE op = "div" /\ Value(r) # 0
  <2>. DEFINE x == Value(l)
              y == Value(r)
  <2>1. x \in Nat /\ y \in Nat /\ y # 0 /\ x < Modulus /\ Modulus \in Nat
    BY <1>1, <1>4
  <2>. HIDE DEF x, y
  <2>2. x \div y \in 0 .. Modulus - 1
    BY <2>1
  <2>3. Con(x \div y) \in Cons
    BY <1>2, <2>2
  <2>. QED  BY <1>4, <2>3 DEF OpFold, x, y
<1>5. CASE op = "div" /\ Value(r) = 0
  BY <1>5 DEF OpFold
<1>. QED  BY <1>3, <1>4, <1>5 DEF CanFold

LEMMA InsValType ==
  ASSUME Typed, NEW b \in Blocks, NEW i \in DOMAIN fn.ins[b]
  PROVE  InsVal(fn.ins[b][i]) \in Nums
<1>. DEFINE x == fn.ins[b][i]
            l == LatVal(x.arg[1])
            r == LatVal(x.arg[2])
<1>1. CASE CanFold(x.op) /\ l # Bot /\ r # Bot /\ l # Top /\ r # Top
  <2>1. x.arg[1] \in Operands /\ x.arg[2] \in Operands
    BY <1>1, InsFacts DEF Typed, TypeOK
  <2>2. l \in Nums /\ r \in Nums
    BY <2>1, LatValType
  <2>3. l \in Cons /\ r \in Cons
    BY <1>1, <2>2 DEF Nums
  <2>4. OpFold(x.op, l, r) \in Cons \cup {Bot}
    BY <1>1, <2>3, OpFoldType
  <2>5. InsVal(x) = OpFold(x.op, l, r)
    BY <1>1 DEF InsVal
  <2>. QED  BY <2>4, <2>5 DEF Nums
<1>2. CASE ~ (CanFold(x.op) /\ l # Bot /\ r # Bot /\ l # Top /\ r # Top)
  <2>1. InsVal(x) \in {Bot, Top}
    BY <1>2 DEF InsVal
  <2>. QED  BY <2>1 DEF Nums
<1>. QED  BY <1>1, <1>2

\* The values a phi of block n merges.
ArgVals(p, n) == {LatVal(p.arg[a]) : a \in {a \in DOMAIN p.arg : ~ DeadEdge(a, n)}}

LEMMA PhiMeet ==
  Typed => \A b \in Blocks : \A i \in DOMAIN fn.phi[b] :
              IsMeet(PhiVal(fn.phi[b][i], b), ArgVals(fn.phi[b][i], b))
<1>. SUFFICES ASSUME Typed, NEW b \in Blocks, NEW i \in DOMAIN fn.phi[b]
              PROVE  IsMeet(PhiVal(fn.phi[b][i], b), ArgVals(fn.phi[b][i], b))
  OBVIOUS
<1>. DEFINE p == fn.phi[b][i]
            live == {a \in DOMAIN p.arg : ~ DeadEdge(a, b)}
            f == [a \in live |-> LatVal(p.arg[a])]
<1>1. live \in SUBSET Blocks /\ IsFiniteSet(Blocks)
  BY PhiFacts, FnTypes DEF Typed, TypeOK
<1>2. IsFiniteSet(live)
  BY <1>1, FS_Subset
<1>3. PhiVal(p, b) = FoldFunctionOnSet(LatMerge, Top, f, live)
  BY DEF PhiVal
<1>4. PhiVal(p, b) = MeetOf({f[a] : a \in live})
  BY <1>2, <1>3, FoldIsMeet
<1>5. {f[a] : a \in live} = ArgVals(p, b)
  BY DEF ArgVals
<1>. QED  BY <1>4, <1>5, MeetIs

LEMMA PhiMeetNext ==
  (Typed => \A b \in Blocks : \A i \in DOMAIN fn.phi[b] :
               IsMeet(PhiVal(fn.phi[b][i], b), ArgVals(fn.phi[b][i], b)))'
BY PhiMeet, PTL

LEMMA PhiValType ==
  ASSUME Typed, NEW b \in Blocks, NEW i \in DOMAIN fn.phi[b]
  PROVE  PhiVal(fn.phi[b][i], b) \in Nums
<1>1. IsMeet(PhiVal(fn.phi[b][i], b), ArgVals(fn.phi[b][i], b))
  BY PhiMeet
<1>2. ArgVals(fn.phi[b][i], b) \subseteq Nums
  BY PhiFacts, LatValType DEF ArgVals, Typed, TypeOK
<1>. QED  BY <1>1, <1>2 DEF IsMeet, Nums

LEMMA ValOfType ==
  ASSUME Typed, NEW u \in Defs
  PROVE  ValOf(u) \in Nums
BY DefForm, PhiValType, InsValType DEF Typed, TypeOK, ValOf, PhiOf, InsOf

\* A step that leaves the function alone.
LEMMA SameFn ==
  ASSUME fn' = fn
  PROVE  /\ Blocks' = Blocks /\ Edges' = Edges /\ Items' = Items /\ Defs' = Defs
         /\ Defined' = Defined
         /\ \A u : /\ ToOf(u)' = ToOf(u) /\ PhiOf(u)' = PhiOf(u)
                   /\ InsOf(u)' = InsOf(u) /\ Reads(u)' = Reads(u)
         /\ \A t : Uses(t)' = Uses(t)
         /\ \A e : Dest(e)' = Dest(e)
<1>1. Blocks' = Blocks
  BY DEF Blocks
<1>2. Edges' = Edges
  BY <1>1 DEF Edges, Sides, Start
<1>3. Items' = Items
  BY <1>1 DEF Items, Phis, Inss
<1>4. \A u : /\ PhiOf(u)' = PhiOf(u) /\ InsOf(u)' = InsOf(u)
  BY DEF PhiOf, InsOf
<1>5. \A u : ToOf(u)' = ToOf(u)
  BY <1>4 DEF ToOf
<1>6. \A u : Reads(u)' = Reads(u)
  BY <1>4 DEF Reads
<1>7. Defs' = Defs
  BY <1>3, <1>4 DEF Defs
<1>8. \A t : Uses(t)' = Uses(t)
  BY <1>3, <1>6 DEF Uses
<1>9. Defined' = Defined
  BY <1>3, <1>6 DEF Defined
<1>10. \A e : Dest(e)' = Dest(e)
  BY DEF Dest, Succ, Start
<1>. QED  BY <1>1, <1>2, <1>3, <1>4, <1>5, <1>6, <1>7, <1>8, <1>9, <1>10

LEMMA DeadFalls ==
  ASSUME Typed, Typed', fn' = fn, \A e \in Edges : dead'[e] => dead[e],
         NEW a \in Blocks, NEW b, b # None, ~ DeadEdge(a, b)
  PROVE  ~ DeadEdge(a, b)'
<1>1. \A i \in Sides : <<a, i>> \in Edges
  BY DEF Edges
<1>. QED  BY <1>1 DEF DeadEdge, Succ, Typed, TypeOK

\* A temporary's value falls when what it is computed from does.
LEMMA ValOfFalls ==
  ASSUME Typed, Typed', fn' = fn, \A e \in Edges : dead'[e] => dead[e],
         \A t \in Temps : Below(val'[t], val[t]), NEW u \in Defs
  PROVE  Below(ValOf(u)', ValOf(u))
<1>0. u \in Items /\ u[2] \in Blocks
  BY DefForm DEF Typed, TypeOK
<1>1. \A r : Below(LatVal(r)', LatVal(r))
  BY DEF LatVal, Below
<1>2. CASE u[1] = "phi"
  <2>1. u[3] \in DOMAIN fn.phi[u[2]] /\ PhiOf(u) = fn.phi[u[2]][u[3]]
    BY <1>0, <1>2, ItemForm DEF Typed, TypeOK, PhiOf
  <2>. DEFINE b == u[2]
              i == u[3]
              p == fn.phi[b][i]
  <2>2. ValOf(u) = PhiVal(p, b) /\ ValOf(u)' = PhiVal(p, b)'
    BY <1>2, <2>1 DEF ValOf, PhiOf
  <2>3. IsMeet(PhiVal(p, b), ArgVals(p, b))
    BY <1>0, <2>1, PhiMeet
  <2>4. IsMeet(PhiVal(p, b)', ArgVals(p, b)')
    <3>1. b \in Blocks' /\ i \in DOMAIN fn'.phi[b]
      BY <1>0, <2>1, SameFn
    <3>. QED  BY <3>1, PhiMeetNext, Zenon
  <2>5. \A v \in ArgVals(p, b) : \E w \in ArgVals(p, b)' : Below(w, v)
    <3>. SUFFICES ASSUME NEW a \in DOMAIN p.arg, ~ DeadEdge(a, b)
                  PROVE  \E w \in ArgVals(p, b)' : Below(w, LatVal(p.arg[a]))
      BY DEF ArgVals
    <3>1. a \in Blocks /\ b # None
      <4>1. fn \in Programs /\ b \in Blocks /\ i \in DOMAIN fn.phi[b]
        BY <1>0, <2>1 DEF Typed, TypeOK
      <4>2. a \in {x \in Blocks : b \in {fn.s1[x], fn.s2[x]}}
        BY <4>1, PhiFacts
      <4>. QED  BY <4>1, <4>2, FnTypes
    <3>2. ~ DeadEdge(a, b)'
      BY <3>1, DeadFalls
    <3>3. p' = p
      OBVIOUS
    <3>4. LatVal(p.arg[a])' \in ArgVals(p, b)'
      BY <3>2, <3>3 DEF ArgVals
    <3>. QED  BY <1>1, <3>4
  <2>. HIDE DEF p
  <2>. QED  BY <2>2, <2>3, <2>4, <2>5, MeetFalls
<1>3. CASE u[1] # "phi"
  <2>1. u[3] \in DOMAIN fn.ins[u[2]] /\ InsOf(u) = fn.ins[u[2]][u[3]]
    BY <1>3, DefForm DEF Typed, TypeOK, InsOf
  <2>. DEFINE x == fn.ins[u[2]][u[3]]
              l == LatVal(x.arg[1])
              r == LatVal(x.arg[2])
  <2>2. ValOf(u) = InsVal(x) /\ ValOf(u)' = InsVal(x)'
    BY <1>3, <2>1 DEF ValOf, InsOf
  <2>3. Below(l', l) /\ Below(r', r)
    BY <1>1
  <2>4. InsVal(x) = IF ~ CanFold(x.op) \/ l = Bot \/ r = Bot THEN Bot
                    ELSE IF l = Top \/ r = Top THEN Top ELSE OpFold(x.op, l, r)
    BY DEF InsVal
  <2>5. InsVal(x)' = IF ~ CanFold(x.op) \/ l' = Bot \/ r' = Bot THEN Bot
                     ELSE IF l' = Top \/ r' = Top THEN Top ELSE OpFold(x.op, l', r')
    BY DEF InsVal
  <2>. SUFFICES Below(InsVal(x)', InsVal(x))
    BY <2>2
  <2>. HIDE DEF l, r, x
  <2>6. Below(InsVal(x)', InsVal(x))
    BY <2>3, <2>4, <2>5 DEF Below, Top, Bot
  <2>. QED  BY <2>6
<1>. QED  BY <1>2, <1>3

\* What an item computes depends on what it reads and on the edges to it.
LEMMA ValOfSame ==
  ASSUME Typed, fn' = fn, NEW u \in Defs,
         \A t \in Temps \cap Reads(u) : val'[t] = val[t],
         u[1] = "phi" => \A a \in Blocks : DeadEdge(a, u[2])' = DeadEdge(a, u[2])
  PROVE  ValOf(u)' = ValOf(u)
<1>1. \A r \in Reads(u) : LatVal(r)' = LatVal(r)
  BY DEF LatVal
<1>2. CASE u[1] = "phi"
  <2>. DEFINE p == PhiOf(u)
              b == u[2]
              live == {a \in DOMAIN p.arg : ~ DeadEdge(a, b)}
  <2>1. DOMAIN p.arg \subseteq Blocks
    BY <1>2, DefForm, PhiFacts DEF Typed, TypeOK, PhiOf
  <2>2. p' = p
    BY SameFn
  <2>3. live' = live
    BY <1>2, <2>1, <2>2
  <2>4. \A a \in DOMAIN p.arg : p.arg[a] \in Reads(u)
    BY <1>2 DEF Reads
  <2>5. [a \in live |-> LatVal(p.arg[a])]' = [a \in live |-> LatVal(p.arg[a])]
    <3>1. \A a \in live : LatVal(p.arg[a])' = LatVal(p.arg[a])
      <4>. SUFFICES ASSUME NEW a \in DOMAIN p.arg PROVE LatVal(p.arg[a])' = LatVal(p.arg[a])
        OBVIOUS
      <4>1. p.arg[a] \in Reads(u)
        BY <2>4
      <4>. QED  BY <1>1, <2>2, <4>1
    <3>. QED  BY <2>2, <2>3, <3>1
  <2>6. PhiVal(p, b)' = PhiVal(p, b)
    <3>1. PhiVal(p, b) = FoldFunctionOnSet(LatMerge, Top, [a \in live |-> LatVal(p.arg[a])], live)
      BY DEF PhiVal
    <3>2. PhiVal(p, b)' = FoldFunctionOnSet(LatMerge, Top, [a \in live |-> LatVal(p.arg[a])]', live')
      BY DEF PhiVal
    <3>. HIDE DEF p, live
    <3>. QED  BY <2>3, <2>5, <3>1, <3>2
  <2>. QED  BY <1>2, <2>2, <2>6 DEF ValOf
<1>3. CASE u[1] # "phi"
  <2>1. u[1] = "ins"
    BY <1>3, DefForm DEF Typed, TypeOK
  <2>2. InsOf(u).arg[1] \in Reads(u) /\ InsOf(u).arg[2] \in Reads(u)
    BY <2>1 DEF Reads
  <2>3. InsOf(u)' = InsOf(u)
    BY SameFn
  <2>4. InsVal(InsOf(u))' = InsVal(InsOf(u))
    BY <1>1, <2>2, <2>3 DEF InsVal
  <2>. QED  BY <1>3, <2>3, <2>4 DEF ValOf
<1>. QED  BY <1>2, <1>3

LEMMA JumpsSame ==
  ASSUME fn' = fn, NEW b, LatVal(fn.arg[b])' = LatVal(fn.arg[b])
  PROVE  Jumps(b)' = Jumps(b)
BY DEF Jumps

-----------------------------------------------------------------------------
(* The list of edges.                                                       *)

\* The edges of s, in this order, are what flowrk and work link.
IsList(n, s) ==
  /\ \A i, k \in 1 .. n : s[i] = s[k] => i = k
  /\ flowrk = IF n = 0 THEN NoEdge ELSE s[1]
  /\ \A i \in 1 .. n : work[s[i]] = IF i = n THEN NoEdge ELSE s[i + 1]
  /\ \A e \in Edges : (\A i \in 1 .. n : e # s[i]) => work[e] = NoEdge

ListOK == \E n \in Nat : \E s \in [1 .. n -> Edges] : IsList(n, s)

LEMMA EdgeFacts ==
  ASSUME fn \in Programs
  PROVE  /\ Start \in Edges /\ NoEdge \notin Edges /\ Start # NoEdge
         /\ IsFiniteSet(Edges) /\ Cardinality(Edges) \in Nat
         /\ \A e \in Edges : e # Start => e[1] \in Blocks /\ e[2] \in {0, 1} /\ e = <<e[1], e[2]>>
         /\ \A b \in Blocks : <<b, 0>> \in Edges /\ <<b, 1>> \in Edges
         /\ \A b \in Blocks, i \in {0, 1} : <<b, i>> # Start /\ <<b, i>> # NoEdge
<1>1. None \notin Blocks /\ IsFiniteSet(Blocks)
  BY FnTypes
<1>2. IsFiniteSet({0, 1})
  <2>1. {0, 1} = {0} \cup {1}
    OBVIOUS
  <2>2. IsFiniteSet({0} \cup {1})
    BY FS_Singleton, FS_AddElement
  <2>. QED  BY <2>1, <2>2, Zenon
<1>3. IsFiniteSet(Edges) /\ Cardinality(Edges) \in Nat
  <2>1. IsFiniteSet(Blocks \X Sides)
    BY <1>1, <1>2, FS_Product DEF Sides
  <2>. QED  BY <2>1, FS_AddElement, FS_CardinalityType DEF Edges
<1>. QED  BY <1>1, <1>3 DEF Edges, Sides, Start, NoEdge, None

\* What Chain computes.
LEMMA ChainIs ==
  Typed => \A n \in Nat : \A s \in [1 .. n -> Edges] : IsList(n, s) =>
    \A k \in Nat : Chain[k] = [i \in 1 .. k + 1 |-> IF i <= n THEN s[i] ELSE NoEdge]
<1>. SUFFICES ASSUME Typed, NEW n \in Nat, NEW s \in [1 .. n -> Edges], IsList(n, s)
              PROVE  \A k \in Nat : Chain[k] = [i \in 1 .. k + 1 |-> IF i <= n THEN s[i] ELSE NoEdge]
  OBVIOUS
<1>. DEFINE seq(k) == [i \in 1 .. k + 1 |-> IF i <= n THEN s[i] ELSE NoEdge]
            more(c, k) == IF c[k] = NoEdge THEN c \o <<NoEdge>> ELSE c \o <<work[c[k]]>>
            eq(h) == h = [k \in Nat |-> IF k = 0 THEN <<flowrk>> ELSE more(h[k - 1], k)]
            g == [k \in Nat |-> seq(k)]
            c == CHOOSE h : eq(h)
<1>1. Chain = c
  BY Zenon DEF Chain
<1>2. \A k \in Nat : seq(k) \in Seq(Edges \cup {NoEdge}) /\ Len(seq(k)) = k + 1
  <2>. SUFFICES ASSUME NEW k \in Nat
                PROVE  seq(k) \in Seq(Edges \cup {NoEdge}) /\ Len(seq(k)) = k + 1
    OBVIOUS
  <2>1. \A i \in 1 .. k + 1 : (IF i <= n THEN s[i] ELSE NoEdge) \in Edges \cup {NoEdge}
    OBVIOUS
  <2>2. seq(k) \in [1 .. k + 1 -> Edges \cup {NoEdge}]
    BY <2>1
  <2>3. seq(k) \in Seq(Edges \cup {NoEdge})
    BY <2>2, SeqDef
  <2>. QED  BY <2>2, <2>3, LenProperties
<1>3. seq(0) = <<flowrk>>
  <2>1. seq(0) = [i \in 1 .. 1 |-> IF i <= n THEN s[i] ELSE NoEdge]
    OBVIOUS
  <2>2. flowrk = IF 1 <= n THEN s[1] ELSE NoEdge
    BY DEF IsList
  <2>. QED  BY <2>1, <2>2
<1>4. ASSUME NEW k \in Nat, k # 0
      PROVE  seq(k) = more(seq(k - 1), k)
  <2>. DEFINE d == seq(k - 1)
  <2>0. k - 1 \in Nat /\ (k - 1) + 1 = k
    BY <1>4
  <2>1. d \in Seq(Edges \cup {NoEdge}) /\ Len(d) = k /\ d = [i \in 1 .. k |-> IF i <= n THEN s[i] ELSE NoEdge]
    BY <1>2, <2>0
  <2>. HIDE DEF d
  <2>2. d[k] = IF k <= n THEN s[k] ELSE NoEdge
    BY <1>4, <2>1
  <2>. DEFINE x == IF d[k] = NoEdge THEN NoEdge ELSE work[d[k]]
  <2>3. x = IF k + 1 <= n THEN s[k + 1] ELSE NoEdge
    <3>1. CASE k <= n
      <4>1. s[k] \in Edges /\ s[k] # NoEdge
        BY <1>4, <3>1, EdgeFacts DEF Typed, TypeOK
      <4>2. work[s[k]] = IF k = n THEN NoEdge ELSE s[k + 1]
        BY <1>4, <3>1 DEF IsList
      <4>. QED  BY <1>4, <2>2, <3>1, <4>1, <4>2
    <3>2. CASE ~ (k <= n)
      BY <1>4, <2>2, <3>2
    <3>. QED  BY <3>1, <3>2
  <2>4. more(d, k) = d \o <<x>>
    OBVIOUS
  <2>5. d \o <<x>> = [i \in 1 .. k + 1 |-> IF i <= k THEN d[i] ELSE x]
    <3>. HIDE DEF x
    <3>1. x \in {x}
      OBVIOUS
    <3>. DEFINE D == Edges \cup {NoEdge} \cup {x}
    <3>2. d \in Seq(D) /\ <<x>> \in Seq(D) /\ Len(<<x>>) = 1 /\ <<x>>[1] = x
      BY <2>1
    <3>3. d \o <<x>> \in Seq(D) /\ Len(d \o <<x>>) = k + 1
          /\ \A i \in 1 .. k + 1 : (d \o <<x>>)[i] = IF i <= k THEN d[i] ELSE <<x>>[i - k]
      BY <1>4, <2>1, <3>2, ConcatProperties
    <3>4. d \o <<x>> = [i \in 1 .. k + 1 |-> (d \o <<x>>)[i]]
      BY <3>3, LenProperties
    <3>5. \A i \in 1 .. k + 1 : (d \o <<x>>)[i] = IF i <= k THEN d[i] ELSE x
      BY <1>4, <3>2, <3>3
    <3>. QED  BY <3>4, <3>5
  <2>6. seq(k) = [i \in 1 .. k + 1 |-> IF i <= k THEN d[i] ELSE x]
    <3>1. \A i \in 1 .. k + 1 : (IF i <= n THEN s[i] ELSE NoEdge) = IF i <= k THEN d[i] ELSE x
      <4>. HIDE DEF x
      <4>. QED  BY <1>4, <2>1, <2>3
    <3>. QED  BY <3>1
  <2>. QED  BY <2>4, <2>5, <2>6 DEF d
<1>5. eq(g)
  <2>1. \A k \in Nat : g[k] = IF k = 0 THEN <<flowrk>> ELSE more(g[k - 1], k)
    <3>. SUFFICES ASSUME NEW k \in Nat PROVE g[k] = IF k = 0 THEN <<flowrk>> ELSE more(g[k - 1], k)
      OBVIOUS
    <3>1. g[k] = seq(k) /\ (k # 0 => g[k - 1] = seq(k - 1))
      OBVIOUS
    <3>. HIDE DEF g, seq, more
    <3>. QED  BY <1>3, <1>4, <3>1
  <2>2. g = [k \in Nat |-> g[k]]
    OBVIOUS
  <2>. HIDE DEF g, more
  <2>. QED  BY <2>1, <2>2
<1>6. eq(c)
  <2>. HIDE DEF g
  <2>. QED  BY <1>5, Zenon
<1>. HIDE DEF c
<1>7. \A k \in Nat : c[k] = IF k = 0 THEN <<flowrk>> ELSE more(c[k - 1], k)
  BY <1>6
<1>8. \A k \in Nat : c[k] = seq(k)
  <2>. HIDE DEF seq, more
  <2>. SUFFICES ASSUME NEW w \in Nat, c[w] # seq(w) PROVE FALSE
    OBVIOUS
  <2>. DEFINE bad == {k \in Nat : c[k] # seq(k)}
  <2>1. bad \in SUBSET Nat /\ bad # {}
    OBVIOUS
  <2>2. PICK m \in bad : \A k \in bad : m <= k
    BY <2>1, LeastNat
  <2>3. m \in Nat /\ c[m] # seq(m)
    BY <2>2
  <2>4. m # 0
    BY <1>3, <1>7, <2>3
  <2>5. m - 1 \in Nat /\ m - 1 \notin bad
    BY <2>2, <2>3, <2>4
  <2>6. c[m - 1] = seq(m - 1)
    BY <2>5
  <2>. QED  BY <1>4, <1>7, <2>3, <2>4, <2>6
<1>. QED  BY <1>1, <1>8

LEMMA ListFacts ==
  Typed => \A n \in Nat : \A s \in [1 .. n -> Edges] : IsList(n, s) =>
    /\ OnList = {s[i] : i \in 1 .. n}
    /\ Chain[Cardinality(Edges)][Cardinality(Edges) + 1] = NoEdge
<1>. SUFFICES ASSUME Typed, NEW n \in Nat, NEW s \in [1 .. n -> Edges], IsList(n, s)
              PROVE  /\ OnList = {s[i] : i \in 1 .. n}
                     /\ Chain[Cardinality(Edges)][Cardinality(Edges) + 1] = NoEdge
  OBVIOUS
<1>. DEFINE N == Cardinality(Edges)
<1>1. IsFiniteSet(Edges) /\ N \in Nat /\ NoEdge \notin Edges
  BY EdgeFacts DEF Typed, TypeOK
<1>2. n <= N
  <2>1. IsFiniteSet(1 .. n) /\ Cardinality(1 .. n) = n
    BY FS_Interval
  <2>2. s \in Injection(1 .. n, Edges)
    BY DEF IsList, Injection, IsInjective
  <2>. QED  BY <1>1, <2>1, <2>2, FS_Injection
<1>. HIDE DEF N
<1>3. Chain[N] = [i \in 1 .. N + 1 |-> IF i <= n THEN s[i] ELSE NoEdge]
  BY <1>1, ChainIs
<1>4. Chain[N][N + 1] = NoEdge
  BY <1>1, <1>2, <1>3
<1>5. OnList = {Chain[N][i] : i \in 1 .. N + 1} \ {NoEdge}
  BY DEF OnList, N
<1>6. {Chain[N][i] : i \in 1 .. N + 1} \ {NoEdge} = {s[i] : i \in 1 .. n}
  <2>1. \A i \in 1 .. n : i \in 1 .. N + 1 /\ Chain[N][i] = s[i] /\ s[i] # NoEdge
    BY <1>1, <1>2, <1>3
  <2>2. \A i \in 1 .. N + 1 : Chain[N][i] # NoEdge => i \in 1 .. n /\ Chain[N][i] = s[i]
    BY <1>1, <1>3
  <2>. QED  BY <2>1, <2>2
<1>. QED  BY <1>4, <1>5, <1>6 DEF N

LEMMA ListFactsNext ==
  (Typed => \A n \in Nat : \A s \in [1 .. n -> Edges] : IsList(n, s) =>
     /\ OnList = {s[i] : i \in 1 .. n}
     /\ Chain[Cardinality(Edges)][Cardinality(Edges) + 1] = NoEdge)'
BY ListFacts, PTL

LEMMA ListEmpty ==
  ASSUME Typed, ListOK
  PROVE  /\ flowrk = NoEdge <=> OnList = {}
         /\ flowrk # NoEdge => flowrk \in OnList
         /\ OnList \subseteq Edges
         /\ \A e \in Edges : work[e] # NoEdge => e \in OnList
         /\ Chain[Cardinality(Edges)][Cardinality(Edges) + 1] = NoEdge
<1>1. PICK n \in Nat : \E s \in [1 .. n -> Edges] : IsList(n, s)
  BY DEF ListOK
<1>2. PICK s \in [1 .. n -> Edges] : IsList(n, s)
  BY <1>1
<1>3. OnList = {s[i] : i \in 1 .. n} /\ Chain[Cardinality(Edges)][Cardinality(Edges) + 1] = NoEdge
  BY <1>2, ListFacts
<1>4. NoEdge \notin Edges
  BY EdgeFacts DEF Typed, TypeOK
<1>5. \A e \in Edges : work[e] # NoEdge => e \in {s[i] : i \in 1 .. n}
  BY <1>2 DEF IsList
<1>6. CASE n = 0
  <2>1. flowrk = NoEdge /\ OnList = {}
    BY <1>2, <1>3, <1>6 DEF IsList
  <2>. QED  BY <1>3, <1>5, <2>1
<1>7. CASE n # 0
  <2>1. flowrk = s[1] /\ 1 \in 1 .. n
    BY <1>2, <1>7 DEF IsList
  <2>2. s[1] \in OnList /\ s[1] \in Edges
    BY <1>3, <2>1
  <2>3. OnList \subseteq Edges
    BY <1>3
  <2>. QED  BY <1>3, <1>4, <1>5, <2>1, <2>2, <2>3
<1>. QED  BY <1>6, <1>7

LEMMA ListSame ==
  ASSUME fn' = fn, flowrk' = flowrk, work' = work
  PROVE  OnList' = OnList /\ (ListOK => ListOK')
<1>1. Edges' = Edges
  BY SameFn
<1>2. Chain' = Chain
  BY DEF Chain
<1>3. OnList' = OnList
  BY <1>1, <1>2 DEF OnList
<1>4. \A n, s : IsList(n, s)' <=> IsList(n, s)
  BY <1>1 DEF IsList
<1>. QED  BY <1>1, <1>3, <1>4 DEF ListOK

\* TakeEdge takes the first edge off the list.
LEMMA ListPop ==
  ASSUME Typed, Typed', fn' = fn, ListOK, flowrk # NoEdge,
         flowrk' = work[flowrk], work' = [work EXCEPT ![flowrk] = NoEdge]
  PROVE  /\ ListOK' /\ flowrk \in OnList
         /\ OnList' = OnList \ {flowrk}
<1>1. PICK n \in Nat : \E s \in [1 .. n -> Edges] : IsList(n, s)
  BY DEF ListOK
<1>2. PICK s \in [1 .. n -> Edges] : IsList(n, s)
  BY <1>1
<1>3. n # 0 /\ flowrk = s[1]
  BY <1>2 DEF IsList
<1>. DEFINE m == n - 1
            z == [i \in 1 .. m |-> s[i + 1]]
<1>4. m \in Nat /\ n = m + 1 /\ 1 \in 1 .. n
  BY <1>3
<1>. HIDE DEF m
<1>5. \A i \in 1 .. m : i + 1 \in 1 .. n /\ z[i] = s[i + 1]
  BY <1>4
<1>6. z \in [1 .. m -> Edges] /\ Edges' = Edges
  BY <1>4, <1>5, SameFn
<1>7. {z[i] : i \in 1 .. m} = {s[i] : i \in 1 .. n} \ {s[1]}
  <2>1. \A i \in 1 .. m : z[i] # s[1]
    BY <1>2, <1>4, <1>5 DEF IsList
  <2>2. \A i \in 1 .. n : s[i] # s[1] => i - 1 \in 1 .. m /\ s[i] = z[i - 1]
    BY <1>4, <1>5
  <2>. HIDE DEF z
  <2>. QED  BY <1>5, <2>1, <2>2
<1>8. IsList(m, z)'
  <2>1. \A i, k \in 1 .. m : z[i] = z[k] => i = k
    <3>. HIDE DEF z
    <3>. SUFFICES ASSUME NEW i \in 1 .. m, NEW k \in 1 .. m, z[i] = z[k] PROVE i = k
      OBVIOUS
    <3>1. i + 1 = k + 1
      BY <1>2, <1>5 DEF IsList
    <3>. QED  BY <3>1, <1>4
  <2>2. flowrk' = IF m = 0 THEN NoEdge ELSE z[1]
    <3>1. work[s[1]] = IF 1 = n THEN NoEdge ELSE s[2]
      BY <1>2, <1>4 DEF IsList
    <3>. QED  BY <1>3, <1>4, <1>5, <3>1
  <2>3. \A i \in 1 .. m : work'[z[i]] = IF i = m THEN NoEdge ELSE z[i + 1]
    <3>. SUFFICES ASSUME NEW i \in 1 .. m PROVE work'[z[i]] = IF i = m THEN NoEdge ELSE z[i + 1]
      OBVIOUS
    <3>1. i + 1 \in 1 .. n /\ z[i] = s[i + 1] /\ s[i + 1] # s[1] /\ s[i + 1] \in Edges
      BY <1>2, <1>4, <1>5 DEF IsList
    <3>2. work[s[i + 1]] = IF i + 1 = n THEN NoEdge ELSE s[(i + 1) + 1]
      BY <1>2, <3>1 DEF IsList
    <3>3. work'[z[i]] = work[s[i + 1]]
      BY <1>3, <3>1 DEF Typed, TypeOK
    <3>4. i # m => z[i + 1] = s[(i + 1) + 1]
      BY <1>4, <1>5
    <3>. HIDE DEF z
    <3>. QED  BY <1>4, <3>2, <3>3, <3>4
  <2>4. \A e \in Edges : (\A i \in 1 .. m : e # z[i]) => work'[e] = NoEdge
    <3>. SUFFICES ASSUME NEW e \in Edges, \A i \in 1 .. m : e # z[i] PROVE work'[e] = NoEdge
      OBVIOUS
    <3>1. e = s[1] \/ \A i \in 1 .. n : e # s[i]
      <4>. HIDE DEF z
      <4>. QED  BY <1>7
    <3>2. s[1] \in Edges
      BY <1>4
    <3>. QED  BY <1>2, <1>3, <3>1, <3>2 DEF IsList, Typed, TypeOK
  <2>. QED  BY <1>6, <2>1, <2>2, <2>3, <2>4 DEF IsList
<1>9. OnList = {s[i] : i \in 1 .. n}
  BY <1>2, ListFacts
<1>. HIDE DEF z
<1>10. OnList' = {z[i] : i \in 1 .. m}
  <2>1. z \in [1 .. m -> Edges']
    BY <1>6
  <2>. QED  BY <1>4, <1>8, <2>1, ListFactsNext, Zenon
<1>11. ListOK'
  BY <1>4, <1>6, <1>8 DEF ListOK
<1>. QED  BY <1>3, <1>4, <1>7, <1>9, <1>10, <1>11

\* visitjmp() puts the edges of sides on the list, which are not on it yet.
LEMMA ListPush ==
  ASSUME Typed, Typed', fn' = fn, ListOK, NEW b \in Blocks, NEW sides,
         sides \in {<< >>, << 0 >>, << 1 >>, <<0, 1>>}, Push(b, sides),
         <<b, 0>> \notin OnList, <<b, 1>> \notin OnList
  PROVE  /\ ListOK'
         /\ OnList' = OnList \cup {<<b, sides[i]>> : i \in DOMAIN sides}
<1>1. PICK n \in Nat : \E s \in [1 .. n -> Edges] : IsList(n, s)
  BY DEF ListOK
<1>2. PICK s \in [1 .. n -> Edges] : IsList(n, s)
  BY <1>1
<1>3. OnList = {s[i] : i \in 1 .. n}
  BY <1>2, ListFacts
<1>4. Edges' = Edges
  BY SameFn
<1>5. /\ \A e \in Edges : e # Start => e[1] \in Blocks /\ e[2] \in {0, 1} /\ e = <<e[1], e[2]>>
      /\ <<b, 0>> \in Edges /\ <<b, 1>> \in Edges /\ NoEdge \notin Edges
      /\ b # None /\ Start[1] = None
  BY EdgeFacts, FnTypes DEF Typed, TypeOK, Start
<1>6. CASE sides = << >>
  <2>1. flowrk' = flowrk /\ \A e \in Edges : work'[e] = work[e]
    BY <1>6 DEF Push
  <2>2. work' = work
    BY <2>1, <1>4 DEF Typed, TypeOK
  <2>. QED  BY <1>6, <2>1, <2>2, ListSame
<1>7. ASSUME NEW x \in {0, 1}, sides = <<x>>
      PROVE  ListOK' /\ OnList' = OnList \cup {<<b, x>>}
  <2>. DEFINE m == n + 1
              z == [i \in 1 .. m |-> IF i = 1 THEN <<b, x>> ELSE s[i - 1]]
  <2>1. Len(sides) = 1 /\ sides[1] = x /\ sides # << >>
    BY <1>7
  <2>2. <<b, x>> \in Edges /\ \A i \in 1 .. n : s[i] # <<b, x>>
    BY <1>3, <1>5, <1>7
  <2>3. flowrk' = <<b, x>>
    BY <2>1 DEF Push
  <2>4. \A e \in Edges : work'[e] = IF e = <<b, x>> THEN flowrk ELSE work[e]
    <3>. SUFFICES ASSUME NEW e \in Edges
                  PROVE  work'[e] = IF e = <<b, x>> THEN flowrk ELSE work[e]
      OBVIOUS
    <3>. QED  BY <2>1 DEF Push
  <2>5. m \in Nat /\ m # 0 /\ n = m - 1
    OBVIOUS
  <2>. HIDE DEF m
  <2>6. z[1] = <<b, x>> /\ \A i \in 1 .. n : i + 1 \in 1 .. m /\ z[i + 1] = s[i]
    BY <2>5
  <2>7. \A i \in 1 .. m : i = 1 \/ (i - 1 \in 1 .. n /\ z[i] = s[i - 1])
    BY <2>5
  <2>8. z \in [1 .. m -> Edges]
    <3>1. \A i \in 1 .. m : (IF i = 1 THEN <<b, x>> ELSE s[i - 1]) \in Edges
      BY <2>2, <2>5
    <3>. QED  BY <3>1
  <2>. HIDE DEF z
  <2>9. {z[i] : i \in 1 .. m} = OnList \cup {<<b, x>>}
    <3>1. 1 \in 1 .. m
      BY <2>5
    <3>2. <<b, x>> \in {z[i] : i \in 1 .. m}
      BY <2>6, <3>1, Zenon
    <3>3. OnList \subseteq {z[i] : i \in 1 .. m}
      BY <1>3, <2>6
    <3>4. \A i \in 1 .. m : z[i] \in OnList \cup {<<b, x>>}
      <4>. SUFFICES ASSUME NEW i \in 1 .. m PROVE z[i] \in OnList \/ z[i] = <<b, x>>
        OBVIOUS
      <4>1. CASE i = 1
        BY <2>6, <4>1, Zenon
      <4>2. CASE i # 1
        BY <1>3, <2>7, <4>2, Zenon
      <4>. QED  BY <4>1, <4>2
    <3>. HIDE DEF OnList
    <3>. QED  BY <3>2, <3>3, <3>4, Zenon
  <2>10. IsList(m, z)'
    <3>1. \A i, k \in 1 .. m : z[i] = z[k] => i = k
      <4>. SUFFICES ASSUME NEW i \in 1 .. m, NEW k \in 1 .. m, z[i] = z[k] PROVE i = k
        OBVIOUS
      <4>0. \A j \in 1 .. m : j # 1 => z[j] # z[1]
        BY <2>2, <2>6, <2>7, Zenon
      <4>1. CASE i = 1 \/ k = 1
        BY <4>0, <4>1
      <4>2. CASE i # 1 /\ k # 1
        <5>1. i - 1 = k - 1
          BY <1>2, <2>7, <4>2 DEF IsList
        <5>. QED  BY <5>1, <2>5
      <4>. QED  BY <4>1, <4>2
    <3>2. flowrk' = IF m = 0 THEN NoEdge ELSE z[1]
      BY <2>3, <2>5, <2>6
    <3>3. \A i \in 1 .. m : work'[z[i]] = IF i = m THEN NoEdge ELSE z[i + 1]
      <4>. SUFFICES ASSUME NEW i \in 1 .. m PROVE work'[z[i]] = IF i = m THEN NoEdge ELSE z[i + 1]
        OBVIOUS
      <4>1. CASE i = 1
        <5>1. work'[z[i]] = flowrk
          BY <2>2, <2>4, <2>6, <4>1
        <5>2. flowrk = IF n = 0 THEN NoEdge ELSE s[1]
          BY <1>2 DEF IsList
        <5>3. n # 0 => z[2] = s[1]
          <6>1. n # 0 => 1 \in 1 .. n
            OBVIOUS
          <6>. QED  BY <2>6, <6>1
        <5>. QED  BY <2>5, <4>1, <5>1, <5>2, <5>3
      <4>2. CASE i # 1
        <5>1. i - 1 \in 1 .. n /\ z[i] = s[i - 1] /\ s[i - 1] \in Edges /\ s[i - 1] # <<b, x>>
          BY <2>2, <2>7, <4>2
        <5>2. work'[z[i]] = work[s[i - 1]]
          BY <2>4, <5>1
        <5>3. work[s[i - 1]] = IF i - 1 = n THEN NoEdge ELSE s[(i - 1) + 1]
          BY <1>2, <5>1 DEF IsList
        <5>4. i # m => i \in 1 .. n /\ z[i + 1] = s[i] /\ (i - 1) + 1 = i
          BY <2>5, <2>6
        <5>. QED  BY <2>5, <5>2, <5>3, <5>4
      <4>. QED  BY <4>1, <4>2
    <3>4. \A e \in Edges : (\A i \in 1 .. m : e # z[i]) => work'[e] = NoEdge
      <4>. SUFFICES ASSUME NEW e \in Edges, \A i \in 1 .. m : e # z[i] PROVE work'[e] = NoEdge
        OBVIOUS
      <4>1. e # <<b, x>> /\ \A i \in 1 .. n : e # s[i]
        <5>1. 1 \in 1 .. m
          BY <2>5
        <5>. QED  BY <2>6, <5>1
      <4>. QED  BY <1>2, <2>4, <4>1 DEF IsList
    <3>. QED  BY <1>4, <3>1, <3>2, <3>3, <3>4 DEF IsList
  <2>11. OnList' = {z[i] : i \in 1 .. m}
    <3>1. z \in [1 .. m -> Edges']
      BY <1>4, <2>8
    <3>. QED  BY <2>5, <2>10, <3>1, ListFactsNext, Zenon
  <2>12. ListOK'
    BY <1>4, <2>5, <2>8, <2>10 DEF ListOK
  <2>. QED  BY <2>9, <2>11, <2>12
<1>8. CASE sides = <<0, 1>>
  <2>. DEFINE m == n + 2
              z == [i \in 1 .. m |-> IF i = 1 THEN <<b, 0>> ELSE IF i = 2 THEN <<b, 1>> ELSE s[i - 2]]
  <2>1. Len(sides) = 2 /\ sides[1] = 0 /\ sides[2] = 1 /\ sides # << >>
    BY <1>8
  <2>2. \A i \in 1 .. n : s[i] # <<b, 0>> /\ s[i] # <<b, 1>>
    BY <1>3
  <2>3. flowrk' = <<b, 0>>
    BY <2>1 DEF Push
  <2>4. \A e \in Edges : work'[e] = IF e = <<b, 1>> THEN flowrk
                                    ELSE IF e = <<b, 0>> THEN <<b, 1>> ELSE work[e]
    <3>. SUFFICES ASSUME NEW e \in Edges
                  PROVE  work'[e] = IF e = <<b, 1>> THEN flowrk
                                    ELSE IF e = <<b, 0>> THEN <<b, 1>> ELSE work[e]
      OBVIOUS
    <3>. QED  BY <2>1 DEF Push
  <2>5. m \in Nat /\ m > 1 /\ n = m - 2
    OBVIOUS
  <2>. HIDE DEF m
  <2>6. z[1] = <<b, 0>> /\ z[2] = <<b, 1>> /\ \A i \in 1 .. n : i + 2 \in 1 .. m /\ z[i + 2] = s[i]
    BY <2>5
  <2>7. \A i \in 1 .. m : i = 1 \/ i = 2 \/ (i - 2 \in 1 .. n /\ z[i] = s[i - 2])
    BY <2>5
  <2>8. z \in [1 .. m -> Edges]
    <3>1. \A i \in 1 .. m :
            (IF i = 1 THEN <<b, 0>> ELSE IF i = 2 THEN <<b, 1>> ELSE s[i - 2]) \in Edges
      BY <1>5, <2>5
    <3>. QED  BY <3>1
  <2>. HIDE DEF z
  <2>9. {z[i] : i \in 1 .. m} = OnList \cup {<<b, 0>>, <<b, 1>>}
    <3>1. 1 \in 1 .. m /\ 2 \in 1 .. m
      BY <2>5
    <3>2. <<b, 0>> \in {z[i] : i \in 1 .. m} /\ <<b, 1>> \in {z[i] : i \in 1 .. m}
      BY <2>6, <3>1, Zenon
    <3>3. OnList \subseteq {z[i] : i \in 1 .. m}
      BY <1>3, <2>6
    <3>4. \A i \in 1 .. m : z[i] \in OnList \cup {<<b, 0>>, <<b, 1>>}
      <4>. SUFFICES ASSUME NEW i \in 1 .. m
                    PROVE  z[i] \in OnList \/ z[i] = <<b, 0>> \/ z[i] = <<b, 1>>
        BY Zenon
      <4>1. CASE i = 1
        BY <2>6, <4>1, Zenon
      <4>2. CASE i = 2
        BY <2>6, <4>2, Zenon
      <4>3. CASE i # 1 /\ i # 2
        BY <1>3, <2>7, <4>3, Zenon
      <4>. QED  BY <4>1, <4>2, <4>3
    <3>. HIDE DEF OnList
    <3>. QED  BY <3>2, <3>3, <3>4, Zenon
  <2>10. IsList(m, z)'
    <3>0. <<b, 0>> # <<b, 1>>
      OBVIOUS
    <3>1. \A i, k \in 1 .. m : z[i] = z[k] => i = k
      <4>. SUFFICES ASSUME NEW i \in 1 .. m, NEW k \in 1 .. m, z[i] = z[k] PROVE i = k
        OBVIOUS
      <4>0. /\ \A j \in 1 .. m : j # 1 /\ j # 2 => z[j] # z[1] /\ z[j] # z[2]
            /\ z[1] # z[2]
        BY <2>2, <2>6, <2>7, <3>0, Zenon
      <4>1. CASE i \in {1, 2} \/ k \in {1, 2}
        BY <4>0, <4>1
      <4>2. CASE i \notin {1, 2} /\ k \notin {1, 2}
        <5>1. i - 2 = k - 2
          BY <1>2, <2>7, <4>2 DEF IsList
        <5>. QED  BY <5>1, <2>5
      <4>. QED  BY <4>1, <4>2
    <3>2. flowrk' = IF m = 0 THEN NoEdge ELSE z[1]
      BY <2>3, <2>5, <2>6
    <3>3. \A i \in 1 .. m : work'[z[i]] = IF i = m THEN NoEdge ELSE z[i + 1]
      <4>. SUFFICES ASSUME NEW i \in 1 .. m PROVE work'[z[i]] = IF i = m THEN NoEdge ELSE z[i + 1]
        OBVIOUS
      <4>1. CASE i = 1
        <5>1. work'[z[i]] = <<b, 1>>
          BY <1>5, <2>4, <2>6, <3>0, <4>1
        <5>2. i # m /\ i + 1 = 2
          BY <2>5, <4>1
        <5>. QED  BY <2>6, <5>1, <5>2, Zenon
      <4>2. CASE i = 2
        <5>1. work'[z[i]] = flowrk
          BY <1>5, <2>4, <2>6, <4>2
        <5>2. flowrk = IF n = 0 THEN NoEdge ELSE s[1]
          BY <1>2 DEF IsList
        <5>3. n # 0 => z[3] = s[1]
          <6>1. n # 0 => 1 \in 1 .. n
            OBVIOUS
          <6>. QED  BY <2>6, <6>1
        <5>. QED  BY <2>5, <4>2, <5>1, <5>2, <5>3
      <4>3. CASE i \notin {1, 2}
        <5>1. i - 2 \in 1 .. n /\ z[i] = s[i - 2] /\ s[i - 2] \in Edges
              /\ s[i - 2] # <<b, 0>> /\ s[i - 2] # <<b, 1>>
          BY <2>2, <2>7, <4>3
        <5>2. work'[z[i]] = work[s[i - 2]]
          BY <2>4, <5>1
        <5>3. work[s[i - 2]] = IF i - 2 = n THEN NoEdge ELSE s[(i - 2) + 1]
          BY <1>2, <5>1 DEF IsList
        <5>4. i # m => i - 1 \in 1 .. n /\ z[(i - 1) + 2] = s[i - 1]
          <6>1. i # m => i - 1 \in 1 .. n
            BY <2>5, <4>3
          <6>. QED  BY <2>6, <6>1
        <5>5. (i - 1) + 2 = i + 1 /\ (i - 2) + 1 = i - 1 /\ (i - 2 = n <=> i = m)
          BY <2>5
        <5>. QED  BY <5>2, <5>3, <5>4, <5>5
      <4>. QED  BY <4>1, <4>2, <4>3
    <3>4. \A e \in Edges : (\A i \in 1 .. m : e # z[i]) => work'[e] = NoEdge
      <4>. SUFFICES ASSUME NEW e \in Edges, \A i \in 1 .. m : e # z[i] PROVE work'[e] = NoEdge
        OBVIOUS
      <4>1. e # <<b, 0>> /\ e # <<b, 1>> /\ \A i \in 1 .. n : e # s[i]
        <5>1. 1 \in 1 .. m /\ 2 \in 1 .. m
          BY <2>5
        <5>. QED  BY <2>6, <5>1
      <4>. QED  BY <1>2, <2>4, <4>1 DEF IsList
    <3>. QED  BY <1>4, <3>1, <3>2, <3>3, <3>4 DEF IsList
  <2>11. OnList' = {z[i] : i \in 1 .. m}
    <3>1. z \in [1 .. m -> Edges']
      BY <1>4, <2>8
    <3>. QED  BY <2>5, <2>10, <3>1, ListFactsNext, Zenon
  <2>12. ListOK'
    BY <1>4, <2>5, <2>8, <2>10 DEF ListOK
  <2>13. {<<b, sides[i]>> : i \in DOMAIN sides} = {<<b, 0>>, <<b, 1>>}
    <3>1. DOMAIN sides = {1, 2}
      BY <1>8
    <3>. QED  BY <2>1, <3>1
  <2>. QED  BY <2>9, <2>11, <2>12, <2>13
<1>9. ASSUME NEW x \in {0, 1}, sides = <<x>>
      PROVE  {<<b, sides[i]>> : i \in DOMAIN sides} = {<<b, x>>}
  <2>1. DOMAIN sides = {1} /\ sides[1] = x
    BY <1>9
  <2>. QED  BY <2>1
<1>. QED  BY <1>6, <1>7, <1>8, <1>9

-----------------------------------------------------------------------------
(* The analysis.                                                            *)

LEMMA TodoFacts ==
  ASSUME todo \in Seq(Items), todo # << >>
  PROVE  /\ Head(todo) = todo[1] /\ Head(todo) \in Items
         /\ 1 \in DOMAIN todo /\ Len(todo) \in Nat /\ DOMAIN todo = 1 .. Len(todo)
         /\ Tail(todo) \in Seq(Items) /\ DOMAIN Tail(todo) = 1 .. Len(todo) - 1
         /\ \A i \in 1 .. Len(todo) - 1 : Tail(todo)[i] = todo[i + 1] /\ i + 1 \in DOMAIN todo
         /\ InTodo = {Head(todo)} \cup {Tail(todo)[i] : i \in DOMAIN Tail(todo)}
<1>1. /\ Head(todo) = todo[1] /\ Head(todo) \in Items
      /\ Tail(todo) \in Seq(Items) /\ Len(Tail(todo)) = Len(todo) - 1
      /\ \A i \in 1 .. Len(Tail(todo)) : Tail(todo)[i] = todo[i + 1]
  BY HeadTailProperties
<1>2. Len(todo) \in Nat /\ DOMAIN todo = 1 .. Len(todo) /\ DOMAIN Tail(todo) = 1 .. Len(Tail(todo))
  BY <1>1, LenProperties
<1>3. Len(todo) # 0
  BY EmptySeq
<1>4. 1 \in DOMAIN todo /\ \A i \in 1 .. Len(todo) - 1 : i + 1 \in DOMAIN todo
  BY <1>2, <1>3
<1>5. \A i \in DOMAIN todo : i = 1 \/ (i - 1 \in DOMAIN Tail(todo) /\ todo[i] = Tail(todo)[i - 1])
  <2>. SUFFICES ASSUME NEW i \in DOMAIN todo, i # 1
                PROVE  i - 1 \in DOMAIN Tail(todo) /\ todo[i] = Tail(todo)[i - 1]
    OBVIOUS
  <2>1. i - 1 \in 1 .. Len(Tail(todo)) /\ (i - 1) + 1 = i
    BY <1>1, <1>2
  <2>. QED  BY <1>1, <1>2, <2>1
<1>6. InTodo = {Head(todo)} \cup {Tail(todo)[i] : i \in DOMAIN Tail(todo)}
  <2>1. InTodo \subseteq {Head(todo)} \cup {Tail(todo)[i] : i \in DOMAIN Tail(todo)}
    <3>. SUFFICES ASSUME NEW i \in DOMAIN todo
                  PROVE  todo[i] = Head(todo) \/ todo[i] \in {Tail(todo)[j] : j \in DOMAIN Tail(todo)}
      BY DEF InTodo
    <3>. QED  BY <1>1, <1>5
  <2>2. {Head(todo)} \cup {Tail(todo)[i] : i \in DOMAIN Tail(todo)} \subseteq InTodo
    BY <1>1, <1>2, <1>4 DEF InTodo
  <2>. QED  BY <2>1, <2>2
<1>. QED  BY <1>1, <1>2, <1>4, <1>6

\* LatMerge() writes what was computed, as values only fall.
LEMMA MergeIsVal ==
  ASSUME NEW v, NEW m, Below(m, v)
  PROVE  LatMerge(v, m) = m
BY DEF Below, LatMerge, Bot, Top

\* What dominates a block that was reached was visited before.
LEMMA DomVisited ==
  ASSUME Typed, EdgesShape, VisitedWithin,
         NEW a \in Blocks, NEW b \in Blocks, b \in visit \cup {blk}, a # b,
         Dominates(fn, Blocks, a, b)
  PROVE  a \in visit
<1>1. PICK S \in SUBSET (Blocks \ {a}) : Within(fn, Blocks, S, a) /\ b \notin S
  BY DEF Dominates
<1>. SUFFICES ASSUME a \notin visit PROVE FALSE
  OBVIOUS
<1>2. visit \subseteq S
  BY <1>1 DEF VisitedWithin
<1>3. b = blk
  BY <1>1, <1>2
<1>4. fn \in Programs /\ None \notin Blocks
  BY FnTypes DEF Typed, TypeOK
<1>5. PICK e \in Edges : ~ dead[e] /\ Dest(e) = b
  BY <1>3, <1>4 DEF EdgesShape
<1>6. CASE e = Start
  <2>1. b = 0 /\ a # 0
    BY <1>5, <1>6 DEF Dest
  <2>. QED  BY <1>1, <2>1 DEF Within
<1>7. CASE e # Start
  <2>1. e[1] \in S
    BY <1>2, <1>5, <1>7 DEF EdgesShape
  <2>2. b \in {fn.s1[e[1]], fn.s2[e[1]]}
    BY <1>5, <1>7 DEF Dest, Succ
  <2>3. b \in S \cup {a, None}
    BY <1>1, <2>1, <2>2 DEF Within
  <2>. QED  BY <1>1, <1>4, <2>3
<1>. QED  BY <1>6, <1>7

\* So that a temporary that is read has a value that was found.
LEMMA ReadKnown ==
  ASSUME Typed, FindInv, Defined,
         NEW b \in Blocks, b \in visit \cup {blk}, NEW k, NEW t \in Temps,
         HasBefore(fn, Blocks, t, b, k),
         \A v \in Defs : v[2] = b /\ (v[1] = "phi" \/ v[3] < k) => Done(v)
  PROVE  val[t] # Top
<1>1. PICK a \in Blocks :
        /\ Dominates(fn, Blocks, a, b)
        /\ \/ \E i \in DOMAIN fn.phi[a] : fn.phi[a][i].to = t
           \/ \E i \in DOMAIN fn.ins[a] : fn.ins[a][i].to = t /\ (a = b => i < k)
  BY DEF HasBefore
<1>2. \E v \in Defs : v[2] = a /\ ToOf(v) = t /\ (a = b => v[1] = "phi" \/ v[3] < k)
  <2>1. CASE \E i \in DOMAIN fn.phi[a] : fn.phi[a][i].to = t
    <3>1. PICK i \in DOMAIN fn.phi[a] : fn.phi[a][i].to = t
      BY <2>1
    <3>. DEFINE v == <<"phi", a, i>>
    <3>2. v \in Defs /\ v[2] = a /\ v[1] = "phi" /\ ToOf(v) = t
      BY <3>1, IsItem DEF Defs, ToOf, PhiOf
    <3>. HIDE DEF v
    <3>. QED  BY <3>2
  <2>2. CASE \E i \in DOMAIN fn.ins[a] : fn.ins[a][i].to = t /\ (a = b => i < k)
    <3>1. PICK i \in DOMAIN fn.ins[a] : fn.ins[a][i].to = t /\ (a = b => i < k)
      BY <2>2
    <3>. DEFINE v == <<"ins", a, i>>
    <3>2. t # R
      BY Names
    <3>3. v \in Defs /\ v[2] = a /\ v[3] = i /\ ToOf(v) = t
      BY <3>1, <3>2, IsItem DEF Defs, ToOf, InsOf
    <3>. HIDE DEF v
    <3>. QED  BY <3>1, <3>3
  <2>. QED  BY <1>1, <2>1, <2>2
<1>3. PICK v \in Defs : v[2] = a /\ ToOf(v) = t /\ (a = b => v[1] = "phi" \/ v[3] < k)
  BY <1>2
<1>4. Done(v)
  <2>1. CASE a = b
    BY <1>3, <2>1
  <2>2. CASE a # b
    BY <1>1, <1>3, <2>2, DomVisited DEF Done, FindInv
  <2>. QED  BY <2>1, <2>2
<1>. QED  BY <1>3, <1>4 DEF FindInv, DoneKnown

\* What an item of the visited block computes is not Top either.
LEMMA ComputedKnown ==
  ASSUME Typed, FindInv, Defined, todo # << >>, NEW u \in Defs, u = Head(todo)
  PROVE  ValOf(u) # Top
<1>0. /\ u \in Items /\ u[2] \in Blocks /\ fn \in Programs /\ None \notin Blocks
      /\ todo \in Seq(Items) /\ TodoShape /\ Bot # Top
  <2>1. fn \in Programs /\ TodoShape /\ Bot # Top
    BY DEF Typed, TypeOK, FindInv, Bot, Top
  <2>2. todo \in Seq(Items)
    BY <2>1 DEF TodoShape
  <2>. QED  BY <2>1, <2>2, DefForm, FnTypes
<1>1. CASE Done(u)
  BY <1>1 DEF FindInv, DoneKnown, ValuesFall, Below, Bot, Top
<1>2. CASE ~ Done(u)
  <2>1. u = todo[1] /\ 1 \in DOMAIN todo
    BY <1>0, TodoFacts
  <2>2. u[2] = blk /\ blk \notin visit
    <3>1. blk = None => u[2] \in visit
      BY <1>0, <2>1 DEF TodoShape
    <3>2. blk # None => u[2] = blk
      BY <1>0, <2>1 DEF TodoShape
    <3>. QED  BY <1>2, <3>1, <3>2 DEF Done
  <2>. DEFINE b == u[2]
  <2>3. \A v \in Defs : v[2] = b /\ Before(v, u) => Done(v)
    <3>. SUFFICES ASSUME NEW v \in Defs, v[2] = b, Before(v, u), v \in InTodo PROVE FALSE
      BY <2>2 DEF Done
    <3>1. PICK i \in DOMAIN todo : v = todo[i]
      BY DEF InTodo
    <3>2. ~ Before(v, v)
      <4>1. v[3] \in Nat
        BY <1>0, DefForm, ItemForm
      <4>. QED  BY <4>1 DEF Before
    <3>3. i # 1 /\ i \in Nat /\ i > 1
      BY <1>0, <2>1, <3>1, <3>2, TodoFacts
    <3>4. Before(u, v)
      BY <1>0, <2>1, <2>2, <3>1, <3>3 DEF TodoShape
    <3>5. v[3] \in Nat /\ u[3] \in Nat
      BY <1>0, DefForm, ItemForm
    <3>. QED  BY <3>4, <3>5 DEF Before
  <2>4. Strict(fn, Blocks)
    BY <1>0, FnFacts
  <2>5. Top \notin Reads(u)
    BY <1>0 DEF Defined
  <2>6. CASE u[1] = "phi"
    <3>1. u[3] \in DOMAIN fn.phi[b] /\ PhiOf(u) = fn.phi[b][u[3]]
      BY <1>0, <2>6, ItemForm DEF PhiOf
    <3>. DEFINE p == fn.phi[b][u[3]]
    <3>2. PICK e \in Edges : ~ dead[e] /\ Dest(e) = b
      BY <1>0, <2>2 DEF FindInv, EdgesShape
    <3>3. e # Start
      <4>1. b # 0
        BY <1>0, <3>1, PhiFacts
      <4>. QED  BY <3>2, <4>1 DEF Dest
    <3>. DEFINE a == e[1]
    <3>4. a \in visit /\ a \in Blocks /\ e[2] \in {0, 1} /\ e = <<a, e[2]>>
      BY <1>0, <3>2, <3>3, EdgeFacts DEF FindInv, EdgesShape
    <3>5. Succ(fn, a, e[2]) = b /\ b \in {fn.s1[a], fn.s2[a]}
      BY <3>2, <3>3 DEF Dest, Succ
    <3>6. ~ DeadEdge(a, b)
      BY <3>2, <3>4, <3>5 DEF DeadEdge, Sides
    <3>7. a \in DOMAIN p.arg /\ p.arg[a] \in Operands
      BY <1>0, <3>1, <3>4, <3>5, PhiFacts
    <3>8. p.arg[a] # Top
      BY <2>5, <2>6, <3>1, <3>7 DEF Reads
    <3>9. LatVal(p.arg[a]) # Top
      <4>1. CASE p.arg[a] \in Temps
        <5>1. HasBefore(fn, Blocks, p.arg[a], a, Len(fn.ins[a]) + 1)
          BY <2>4, <1>0, <3>1, <3>4, <3>7, <4>1 DEF Strict, HasAfter
        <5>2. \A v \in Defs : v[2] = a => Done(v)
          BY <3>4 DEF Done
        <5>3. val[p.arg[a]] # Top
          BY <3>4, <4>1, <5>1, <5>2, ReadKnown
        <5>. QED  BY <4>1, <5>3 DEF LatVal
      <4>2. CASE p.arg[a] \notin Temps
        BY <3>8, <4>2 DEF LatVal
      <4>. QED  BY <4>1, <4>2
    <3>10. LatVal(p.arg[a]) \in ArgVals(p, b)
      BY <3>6, <3>7 DEF ArgVals
    <3>11. IsMeet(PhiVal(p, b), ArgVals(p, b))
      BY <1>0, <3>1, PhiMeet
    <3>12. PhiVal(p, b) # Top
      <4>. HIDE DEF p
      <4>. QED  BY <1>0, <3>9, <3>10, <3>11 DEF IsMeet
    <3>. QED  BY <2>6, <3>1, <3>12 DEF ValOf
  <2>7. CASE u[1] # "phi"
    <3>1. u[1] = "ins" /\ u[3] \in DOMAIN fn.ins[b] /\ InsOf(u) = fn.ins[b][u[3]] /\ u[3] \in Nat
      BY <1>0, <2>7, DefForm, ItemForm DEF InsOf
    <3>. DEFINE x == fn.ins[b][u[3]]
    <3>2. \A v \in Defs : v[2] = b /\ (v[1] = "phi" \/ v[3] < u[3]) => Done(v)
      <4>. SUFFICES ASSUME NEW v \in Defs, v[2] = b, v[1] = "phi" \/ v[3] < u[3] PROVE Done(v)
        OBVIOUS
      <4>1. v[1] = "phi" \/ v[1] = "ins"
        BY <1>0, DefForm
      <4>2. Before(v, u)
        BY <3>1, <4>1 DEF Before
      <4>. QED  BY <2>3, <4>2
    <3>3. ASSUME NEW k \in 1 .. 2, CanFold(x.op)
          PROVE  x.arg[k] \in Operands /\ LatVal(x.arg[k]) # Top
      <4>1. x.arg[k] \in Operands
        BY <1>0, <3>1, <3>3, InsFacts
      <4>2. x.arg[k] # Top
        BY <2>5, <3>1 DEF Reads
      <4>3. CASE x.arg[k] \in Temps
        <5>1. HasBefore(fn, Blocks, x.arg[k], b, u[3])
          BY <1>0, <2>4, <3>1, <4>3 DEF Strict
        <5>2. val[x.arg[k]] # Top
          BY <1>0, <2>2, <3>2, <4>3, <5>1, ReadKnown
        <5>. QED  BY <4>1, <4>3, <5>2 DEF LatVal
      <4>4. CASE x.arg[k] \notin Temps
        BY <4>1, <4>2, <4>4 DEF LatVal
      <4>. QED  BY <4>3, <4>4
    <3>4. InsVal(x) # Top
      <4>. DEFINE l == LatVal(x.arg[1])
                  r == LatVal(x.arg[2])
      <4>1. CASE ~ CanFold(x.op) \/ l = Bot \/ r = Bot
        BY <1>0, <4>1 DEF InsVal
      <4>2. CASE CanFold(x.op) /\ l # Bot /\ r # Bot
        <5>0. CanFold(x.op)
          BY <4>2, Zenon
        <5>9. 1 \in 1 .. 2 /\ 2 \in 1 .. 2
          OBVIOUS
        <5>1. l # Top /\ r # Top
          BY <3>3, <5>0, <5>9
        <5>2. l \in Nums /\ r \in Nums
          <6>1. x.arg[1] \in Operands /\ x.arg[2] \in Operands
            BY <3>3, <5>0, <5>9, Zenon
          <6>. QED  BY <6>1, LatValType
        <5>3. l \in Cons /\ r \in Cons
          BY <4>2, <5>1, <5>2 DEF Nums
        <5>4. OpFold(x.op, l, r) \in Cons \cup {Bot}
          BY <4>2, <5>3, OpFoldType
        <5>5. InsVal(x) = OpFold(x.op, l, r)
          BY <4>2, <5>1 DEF InsVal
        <5>6. Top \notin Cons \cup {Bot}
          BY Names
        <5>. QED  BY <5>4, <5>5, <5>6
      <4>. QED  BY <4>1, <4>2
    <3>. QED  BY <2>7, <3>1, <3>4 DEF ValOf
  <2>. QED  BY <2>6, <2>7
<1>. QED  BY <1>1, <1>2

-----------------------------------------------------------------------------
(* The steps of the analysis.                                               *)

FindOK == Typed /\ FindInv /\ ListOK

\* What a step of the analysis starts from.
LEMMA FindFacts ==
  ASSUME FindOK
  PROVE  /\ fn \in Programs /\ None \notin Blocks /\ todo \in Seq(Items)
         /\ OnList \subseteq Edges /\ visit \subseteq Blocks /\ IsFiniteSet(Blocks)
<1>1. fn \in Programs /\ visit \subseteq Blocks
  BY DEF FindOK, Typed, TypeOK
<1>2. todo \in Seq(Items)
  BY DEF FindOK, FindInv, TodoShape
<1>3. OnList \subseteq Edges
  BY ListEmpty DEF FindOK
<1>. QED  BY <1>1, <1>2, <1>3, FnTypes

\* The visit of a phi or of an instruction: its value is stored, and the uses
\* of a value that changed are put on usewrk.
ValStep(u) ==
  /\ todo # << >> /\ u = Head(todo) /\ u[1] # "jmp"
  /\ todo' = Tail(todo)
  /\ UNCHANGED <<pc, fn, dead, work, flowrk, visit, blk, out, run>>
  /\ val' \in [Temps -> Nums]
  /\ usewrk \subseteq usewrk' /\ usewrk' \subseteq Items
  /\ u \in Defs => val'[ToOf(u)] = ValOf(u)
  /\ \A t \in Temps : val'[t] # val[t] =>
       u \in Defs /\ t = ToOf(u) /\ Uses(t) \subseteq usewrk'

LEMMA ValStepTypes ==
  ASSUME FindOK, NEW u, ValStep(u)
  PROVE  Typed'
<1>1. todo' \in Seq(Items) /\ Items' = Items /\ Edges' = Edges /\ Blocks' = Blocks
  BY FindFacts, TodoFacts, SameFn DEF ValStep
<1>2. \A i \in DOMAIN todo' : todo'[i] \in Items'
  BY <1>1, ElementOfSeq, LenProperties
<1>3. val' \in [Temps -> {Bot, Top} \cup Cons]
  BY DEF ValStep, Nums
<1>. QED  BY <1>1, <1>2, <1>3 DEF ValStep, FindOK, Typed, TypeOK

LEMMA ValStepFacts ==
  ASSUME FindOK, NEW u, ValStep(u)
  PROVE  /\ u \in Items /\ u \in InTodo /\ InTodo = {u} \cup InTodo'
         /\ \A t \in Temps : Below(val'[t], val[t])
         /\ \A v \in Items : Done(v) => Done(v)'
         /\ \A v \in Items : v # u => (Done(v)' => Done(v))
         /\ Waiting \subseteq Waiting' \cup {u}
<1>1. u = Head(todo) /\ Head(todo) \in Items /\ InTodo = {u} \cup {Tail(todo)[i] : i \in DOMAIN Tail(todo)}
  BY FindFacts, TodoFacts DEF ValStep
<1>2. InTodo' = {Tail(todo)[i] : i \in DOMAIN Tail(todo)}
  BY DEF InTodo, ValStep
<1>3. \A t \in Temps : Below(val'[t], val[t])
  <2>. SUFFICES ASSUME NEW t \in Temps, val'[t] # val[t] PROVE Below(val'[t], val[t])
    BY DEF Below
  <2>1. u \in Defs /\ t = ToOf(u) /\ val'[t] = ValOf(u)
    BY DEF ValStep
  <2>2. Below(ValOf(u), val[ToOf(u)])
    BY <2>1 DEF FindOK, FindInv, ValuesFall
  <2>. QED  BY <2>1, <2>2, Zenon
<1>4. InTodo = {u} \cup InTodo'
  BY <1>1, <1>2, Zenon
<1>5. /\ \A v \in Items : Done(v) => Done(v)'
      /\ \A v \in Items : v # u => (Done(v)' => Done(v))
  BY <1>4 DEF Done, ValStep
<1>6. Waiting \subseteq Waiting' \cup {u}
  BY <1>4 DEF Waiting, ValStep
<1>. QED  BY <1>1, <1>3, <1>4, <1>5, <1>6

LEMMA ValStepKeeps ==
  ASSUME FindOK, NEW u, ValStep(u)
  PROVE  FindOK'
<1>. USE DEF FindOK
<1>1. Typed'
  BY ValStepTypes
<1>2. /\ u \in Items /\ u \in InTodo /\ InTodo = {u} \cup InTodo'
      /\ \A t \in Temps : Below(val'[t], val[t])
      /\ \A v \in Items : Done(v) => Done(v)'
      /\ \A v \in Items : v # u => (Done(v)' => Done(v))
      /\ Waiting \subseteq Waiting' \cup {u}
  BY ValStepFacts
<1>3. /\ Blocks' = Blocks /\ Edges' = Edges /\ Items' = Items /\ Defs' = Defs /\ Defined' = Defined
      /\ \A v : ToOf(v)' = ToOf(v) /\ Reads(v)' = Reads(v)
      /\ \A e : Dest(e)' = Dest(e)
      /\ fn' = fn /\ dead' = dead /\ visit' = visit /\ blk' = blk
      /\ u[1] # "jmp" /\ todo # << >> /\ todo' = Tail(todo) /\ u = Head(todo)
  BY SameFn DEF ValStep
<1>4. ListOK' /\ OnList' = OnList
  BY ListSame DEF ValStep
<1>5. \A e : Known(e)' <=> Known(e)
  BY <1>3, <1>4 DEF Known
<1>6. fn \in Programs /\ Typed /\ todo \in Seq(Items)
  BY FindFacts
<1>7. ASSUME NEW v \in Items, v \notin Waiting'
      PROVE  \A t \in Temps \cap Reads(v) : val'[t] = val[t]
  <2>. SUFFICES ASSUME NEW t \in Temps, t \in Reads(v), val'[t] # val[t] PROVE FALSE
    OBVIOUS
  <2>1. Uses(t) \subseteq usewrk'
    BY DEF ValStep
  <2>2. v \in Uses(t)
    BY DEF Uses
  <2>. QED  BY <1>7, <2>1, <2>2 DEF Waiting
<1>8. ASSUME NEW v \in Defs, v # u
      PROVE  val'[ToOf(v)] = val[ToOf(v)]
  <2>1. ToOf(v) \in Temps
    BY <1>6, DefForm
  <2>2. u \in Defs => ToOf(v) # ToOf(u)
    BY <1>6, <1>8, DefUnique
  <2>. QED  BY <2>1, <2>2 DEF ValStep
<1>9. out' = fn'
  BY DEF FindInv, ValStep
<1>10. ValuesFall'
  <2>. SUFFICES ASSUME NEW v \in Defs PROVE Below(ValOf(v)', val'[ToOf(v)])
    BY <1>3 DEF ValuesFall
  <2>1. Below(ValOf(v)', ValOf(v))
    BY <1>1, <1>2, <1>3, <1>6, ValOfFalls
  <2>2. CASE v = u
    BY <2>1, <2>2 DEF ValStep
  <2>3. CASE v # u
    <3>1. Below(ValOf(v), val[ToOf(v)])
      BY DEF FindInv, ValuesFall
    <3>. QED  BY <1>8, <2>1, <2>3, <3>1, BelowTrans
  <2>. QED  BY <2>2, <2>3
<1>11. DoneRight'
  <2>1. ASSUME NEW v \in Defs, v \notin Waiting', Done(v)'
        PROVE  val'[ToOf(v)] = ValOf(v)'
    <3>0. v \in Items
      BY DEF Defs
    <3>1. ValOf(v)' = ValOf(v)
      <4>1. v[1] = "phi" => \A a \in Blocks : DeadEdge(a, v[2])' = DeadEdge(a, v[2])
        BY <1>3 DEF DeadEdge
      <4>. QED  BY <1>3, <1>6, <1>7, <2>1, <3>0, <4>1, ValOfSame
    <3>2. CASE v = u
      BY <3>1, <3>2 DEF ValStep
    <3>3. CASE v # u
      <4>1. v \notin Waiting /\ Done(v)
        BY <1>2, <2>1, <3>0, <3>3
      <4>2. val[ToOf(v)] = ValOf(v)
        BY <4>1 DEF FindInv, DoneRight
      <4>. QED  BY <1>8, <3>1, <3>3, <4>2
    <3>. QED  BY <3>2, <3>3
  <2>2. ASSUME NEW b \in Blocks, Done(JmpOf(b))', JmpOf(b) \notin Waiting', NEW i \in DOMAIN Jumps(b)'
        PROVE  LET e == <<b, Jumps(b)'[i]>> IN ~ dead'[e] \/ e \in OnList'
    <3>0. JmpOf(b) \in Items /\ JmpOf(b) # u /\ JmpOf(b)[1] = "jmp" /\ JmpOf(b)[2] = b
      BY <1>3, IsItem DEF JmpOf
    <3>1. fn.arg[b] \in Reads(JmpOf(b))
      BY <3>0 DEF Reads
    <3>2. LatVal(fn.arg[b])' = LatVal(fn.arg[b])
      BY <1>3, <1>7, <2>2, <3>0, <3>1 DEF LatVal
    <3>3. Jumps(b)' = Jumps(b)
      BY <1>3, <3>2, JumpsSame
    <3>4. Done(JmpOf(b)) /\ JmpOf(b) \notin Waiting
      BY <1>2, <2>2, <3>0
    <3>. QED  BY <1>3, <1>4, <2>2, <3>3, <3>4 DEF FindInv, DoneRight
  <2>3. \A v \in Defs \ Waiting' : Done(v)' => val'[ToOf(v)] = ValOf(v)'
    BY <2>1
  <2>. QED  BY <1>3, <2>2, <2>3 DEF DoneRight
<1>12. TodoShape'
  <2>1. /\ Tail(todo) \in Seq(Items) /\ DOMAIN todo = 1 .. Len(todo) /\ Len(todo) \in Nat
        /\ DOMAIN Tail(todo) = 1 .. Len(todo) - 1 /\ Len(Tail(todo)) = Len(todo) - 1
        /\ \A i \in DOMAIN Tail(todo) : Tail(todo)[i] = todo[i + 1] /\ i + 1 \in DOMAIN todo
        /\ 1 \in DOMAIN todo /\ u = todo[1]
    BY <1>3, <1>6, TodoFacts, HeadTailProperties
  <2>2. TodoShape
    BY DEF FindInv
  <2>3. blk = None => Tail(todo) = << >>
    <3>. SUFFICES ASSUME blk = None PROVE Tail(todo) = << >>
      OBVIOUS
    <3>1. Len(todo) = 1
      BY <1>3, <2>2 DEF TodoShape
    <3>. QED  BY <2>1, <3>1, EmptySeq
  <2>4. ASSUME blk # None
        PROVE  /\ \A i, k \in DOMAIN Tail(todo) : i < k => Before(Tail(todo)[i], Tail(todo)[k])
               /\ \A i \in DOMAIN Tail(todo) :
                    Tail(todo)[i][2] = blk /\ (blk \in visit => Tail(todo)[i][1] = "phi")
               /\ blk \notin visit /\ Tail(todo) # << >> => Tail(todo)[Len(Tail(todo))] = JmpOf(blk)
    <3>1. /\ \A i, k \in DOMAIN todo : i < k => Before(todo[i], todo[k])
          /\ \A i \in DOMAIN todo : todo[i][2] = blk /\ (blk \in visit => todo[i][1] = "phi")
          /\ blk \notin visit /\ todo # << >> => todo[Len(todo)] = JmpOf(blk)
      BY <2>2, <2>4 DEF TodoShape
    <3>2. \A i, k \in DOMAIN Tail(todo) : i < k => Before(Tail(todo)[i], Tail(todo)[k])
      <4>. SUFFICES ASSUME NEW i \in DOMAIN Tail(todo), NEW k \in DOMAIN Tail(todo), i < k
                    PROVE  Before(Tail(todo)[i], Tail(todo)[k])
        OBVIOUS
      <4>1. i + 1 \in DOMAIN todo /\ k + 1 \in DOMAIN todo /\ i + 1 < k + 1
        BY <2>1
      <4>2. Before(todo[i + 1], todo[k + 1])
        BY <3>1, <4>1
      <4>. QED  BY <2>1, <4>2
    <3>3. \A i \in DOMAIN Tail(todo) :
            Tail(todo)[i][2] = blk /\ (blk \in visit => Tail(todo)[i][1] = "phi")
      BY <2>1, <3>1
    <3>4. blk \notin visit /\ Tail(todo) # << >> => Tail(todo)[Len(Tail(todo))] = JmpOf(blk)
      <4>. SUFFICES ASSUME blk \notin visit, Tail(todo) # << >>
                    PROVE  Tail(todo)[Len(Tail(todo))] = JmpOf(blk)
        OBVIOUS
      <4>1. Len(Tail(todo)) # 0
        BY <2>1, EmptySeq
      <4>2. Len(Tail(todo)) \in DOMAIN Tail(todo) /\ Len(Tail(todo)) + 1 = Len(todo)
        BY <2>1, <4>1
      <4>. QED  BY <1>3, <2>1, <3>1, <4>2
    <3>. QED  BY <3>2, <3>3, <3>4
  <2>5. Tail(todo) \in Seq(Items') /\ blk \in Blocks' \cup {None}
    BY <1>3, <2>1, <2>2 DEF TodoShape
  <2>. QED  BY <1>3, <2>3, <2>4, <2>5 DEF TodoShape
<1>13. EdgesShape'
  <2>1. \A b \in Blocks : Done(JmpOf(b)) => Done(JmpOf(b))'
    BY <1>2, IsItem
  <2>2. \A e \in Edges : e # Start => e[1] \in Blocks
    BY <1>6, EdgeFacts
  <2>. QED  BY <1>3, <1>5, <2>1, <2>2 DEF EdgesShape, FindInv
<1>14. JmpsTaken'
  <2>1. \A b \in Blocks : JmpOf(b) \in Items /\ JmpOf(b) # u
    <3>1. \A b \in Blocks : JmpOf(b)[1] = "jmp"
      BY DEF JmpOf
    <3>. QED  BY <1>3, <3>1, IsItem
  <2>2. \A b \in Blocks : Done(JmpOf(b))' => Done(JmpOf(b))
    BY <1>2, <2>1
  <2>. QED  BY <1>3, <2>2 DEF JmpsTaken, FindInv
<1>15. VisitedWithin'
  BY <1>3 DEF VisitedWithin, FindInv, Within
<1>16. DoneKnown'
  <2>. SUFFICES ASSUME Defined, NEW v \in Defs, Done(v)' PROVE val'[ToOf(v)] # Top
    BY <1>3 DEF DoneKnown
  <2>1. CASE v = u
    BY <1>3, <2>1, ComputedKnown DEF ValStep
  <2>2. CASE v # u
    <3>1. Done(v)
      BY <1>2, <2>2 DEF Defs
    <3>. QED  BY <1>8, <2>2, <3>1 DEF DoneKnown, FindInv
  <2>. QED  BY <2>1, <2>2
<1>17. JumpsAgree'
  <2>. SUFFICES ASSUME Defined, NEW e \in Edges \ {Start}, Known(e), fn.jmp[e[1]] = "jnz"
                PROVE  /\ LatVal(fn.arg[e[1]])' # Top
                       /\ \E i \in DOMAIN Jumps(e[1])' : e[2] = Jumps(e[1])'[i]
    BY <1>3, <1>5 DEF JumpsAgree
  <2>. DEFINE b == e[1]
              l == LatVal(fn.arg[b])
  <2>1. l # Top /\ \E i \in DOMAIN Jumps(b) : e[2] = Jumps(b)[i]
    BY DEF JumpsAgree, FindInv
  <2>2. l' = l \/ l' = Bot
    BY <1>2, <1>3, <2>1 DEF LatVal, Below
  <2>3. CASE l' = l
    <3>1. Jumps(b)' = Jumps(b)
      BY <1>3, <2>3, JumpsSame
    <3>. HIDE DEF l, b
    <3>. QED  BY <2>1, <2>3, <3>1 DEF l, b
  <2>4. CASE l' = Bot
    <3>1. Jumps(b)' = <<0, 1>>
      BY <1>3, <2>4 DEF Jumps
    <3>2. e[2] \in {0, 1}
      BY <1>6, EdgeFacts
    <3>3. Bot # Top
      BY DEF Bot, Top
    <3>. QED  BY <2>4, <3>1, <3>2, <3>3
  <2>. QED  BY <2>2, <2>3, <2>4
<1>. QED  BY <1>1, <1>4, <1>9, <1>10, <1>11, <1>12, <1>13, <1>14, <1>15, <1>16, <1>17 DEF FindInv

LEMMA UpdateStep ==
  ASSUME FindOK, todo # << >>, NEW u \in Defs, u = Head(todo),
         Update(ToOf(u), ValOf(u)), todo' = Tail(todo),
         UNCHANGED <<pc, fn, dead, work, flowrk, visit, blk, out, run>>
  PROVE  ValStep(u)
<1>. DEFINE t == ToOf(u)
            v == ValOf(u)
<1>1. fn \in Programs /\ val \in [Temps -> Nums] /\ usewrk \subseteq Items
  BY DEF FindOK, Typed, TypeOK, Nums
<1>2. t \in Temps /\ v \in Nums /\ u[1] # "jmp"
  BY <1>1, DefForm, ValOfType DEF FindOK
<1>3. LatMerge(val[t], v) = v
  BY MergeIsVal DEF FindOK, FindInv, ValuesFall
<1>4. Uses(t) \subseteq Items
  BY DEF Uses
<1>. HIDE DEF t, v
<1>5. /\ val' = [val EXCEPT ![t] = v]
      /\ usewrk' = IF v # val[t] THEN usewrk \cup Uses(t) ELSE usewrk
  BY <1>3 DEF Update, t, v
<1>6. val' \in [Temps -> Nums] /\ val'[t] = v
  BY <1>1, <1>2, <1>5
<1>7. \A x \in Temps : val'[x] # val[x] => x = t /\ Uses(t) \subseteq usewrk'
  BY <1>1, <1>5, <1>6
<1>8. usewrk \subseteq usewrk' /\ usewrk' \subseteq Items
  BY <1>1, <1>4, <1>5
<1>. QED  BY <1>2, <1>6, <1>7, <1>8 DEF ValStep, t, v

LEMMA VisitPhiStep ==
  ASSUME FindOK, VisitPhi
  PROVE  FindOK'
<1>. DEFINE u == Head(todo)
<1>1. todo # << >> /\ u[1] = "phi" /\ u \in Items
  BY FindFacts, TodoFacts DEF VisitPhi, Todo
<1>2. u \in Defs /\ ToOf(u) = PhiOf(u).to /\ ValOf(u) = PhiVal(PhiOf(u), u[2])
  BY <1>1 DEF Defs, ToOf, ValOf
<1>3. ValStep(u)
  BY <1>1, <1>2, UpdateStep DEF VisitPhi
<1>. QED  BY <1>3, ValStepKeeps

LEMMA VisitInsStep ==
  ASSUME FindOK, VisitIns
  PROVE  FindOK'
<1>. DEFINE u == Head(todo)
<1>1. todo # << >> /\ u[1] = "ins" /\ u \in Items
  BY FindFacts, TodoFacts DEF VisitIns, Todo
<1>2. CASE InsOf(u).to # R
  <2>1. u \in Defs /\ ToOf(u) = InsOf(u).to /\ ValOf(u) = InsVal(InsOf(u))
    BY <1>1, <1>2 DEF Defs, ToOf, ValOf
  <2>2. ValStep(u)
    BY <1>1, <1>2, <2>1, UpdateStep DEF VisitIns
  <2>. QED  BY <2>2, ValStepKeeps
<1>3. CASE InsOf(u).to = R
  <2>1. u \notin Defs
    BY <1>1, <1>3 DEF Defs
  <2>2. val' = val /\ usewrk' = usewrk /\ val \in [Temps -> Nums] /\ usewrk \subseteq Items
    BY <1>3 DEF VisitIns, FindOK, Typed, TypeOK, Nums
  <2>3. ValStep(u)
    BY <1>1, <2>1, <2>2 DEF ValStep, VisitIns
  <2>. QED  BY <2>3, ValStepKeeps
<1>. QED  BY <1>2, <1>3

LEMMA JumpsForm ==
  ASSUME fn \in Programs, NEW b \in Blocks
  PROVE  /\ Jumps(b) \in {<< >>, <<0>>, <<1>>, <<0, 1>>}
         /\ \A i \in DOMAIN Jumps(b) :
              Jumps(b)[i] \in {0, 1} /\ Dest(<<b, Jumps(b)[i]>>) \in Blocks
         /\ fn.jmp[b] = "jmp" => Jumps(b) = <<0>>
         /\ fn.jmp[b] = "jnz" => Jumps(b) # << >>
<1>1. Jumps(b) \in {<< >>, <<0>>, <<1>>, <<0, 1>>}
  BY JmpFacts DEF Jumps
<1>2. /\ fn.jmp[b] = "jmp" => Jumps(b) = <<0>>
      /\ fn.jmp[b] = "jnz" => Jumps(b) # << >>
      /\ fn.jmp[b] = "ret" => Jumps(b) = << >>
  BY DEF Jumps
<1>3. \A i \in DOMAIN Jumps(b) : Jumps(b)[i] \in {0, 1}
  BY <1>1
<1>4. /\ <<b, 0>> # Start /\ <<b, 1>> # Start
      /\ fn.jmp[b] \in {"jmp", "jnz"} => fn.s1[b] \in Blocks
      /\ fn.jmp[b] = "jnz" => fn.s2[b] \in Blocks
  BY EdgeFacts, JmpFacts
<1>5. \A i \in {0, 1} : Dest(<<b, i>>) = IF i = 0 THEN fn.s1[b] ELSE fn.s2[b]
  BY <1>4 DEF Dest, Succ
<1>6. \A i \in DOMAIN Jumps(b) : Dest(<<b, Jumps(b)[i]>>) \in Blocks
  <2>. SUFFICES ASSUME NEW i \in DOMAIN Jumps(b) PROVE Dest(<<b, Jumps(b)[i]>>) \in Blocks
    OBVIOUS
  <2>1. CASE fn.jmp[b] = "jmp"
    <3>1. Jumps(b)[i] = 0
      BY <1>2, <2>1
    <3>. QED  BY <1>4, <1>5, <2>1, <3>1
  <2>2. CASE fn.jmp[b] = "jnz"
    BY <1>3, <1>4, <1>5, <2>2
  <2>3. CASE fn.jmp[b] = "ret"
    BY <1>2, <2>3
  <2>. QED  BY <2>1, <2>2, <2>3, JmpFacts
<1>. QED  BY <1>1, <1>2, <1>3, <1>6

LEMMA VisitJmpAbort ==
  ASSUME FindOK, VisitJmp, pc' = "abort", pc = "find"
  PROVE  ~ Defined
<1>. DEFINE b == Head(todo)[2]
            sides == Jumps(b)
            e == <<b, 1 - sides[1]>>
<1>0. fn \in Programs /\ todo # << >> /\ Head(todo) \in Items
  BY FindFacts, TodoFacts DEF VisitJmp, Todo
<1>1. fn.jmp[b] = "jnz" /\ Len(sides) = 1 /\ ~ dead[e]
  BY DEF VisitJmp
<1>2. b \in Blocks
  BY <1>0, ItemForm
<1>3. sides \in {<< >>, <<0>>, <<1>>, <<0, 1>>}
  BY <1>0, <1>2, JumpsForm
<1>. HIDE DEF sides
<1>4. DOMAIN sides = {1} /\ sides[1] \in {0, 1}
  <2>1. sides = <<0>> \/ sides = <<1>>
    <3>1. Len(<< >>) # 1 /\ Len(<<0, 1>>) # 1
      OBVIOUS
    <3>. QED  BY <1>1, <1>3, <3>1, Zenon
  <2>. QED  BY <2>1
<1>5. e \in Edges \ {Start} /\ Known(e) /\ e[1] = b /\ e[2] = 1 - sides[1]
  <2>. DEFINE k == 1 - sides[1]
  <2>1. k = 0 \/ k = 1
    BY <1>4
  <2>. HIDE DEF k
  <2>2. <<b, k>> \in Edges \ {Start}
    BY <1>0, <1>2, <2>1, EdgeFacts
  <2>3. <<b, k>>[1] = b /\ <<b, k>>[2] = k
    OBVIOUS
  <2>. QED  BY <1>1, <2>2, <2>3 DEF Known, k
<1>6. Defined => \E i \in DOMAIN sides : e[2] = sides[i]
  BY <1>1, <1>5 DEF FindOK, FindInv, JumpsAgree, sides
<1>. QED  BY <1>4, <1>5, <1>6

LEMMA VisitJmpStep ==
  ASSUME FindOK, VisitJmp, pc' # "abort"
  PROVE  FindOK'
<1>. USE DEF FindOK
<1>1. fn \in Programs /\ todo \in Seq(Items) /\ Typed
  BY FindFacts
<1>. PICK u \in Items : u = Head(todo)
  BY <1>1, TodoFacts DEF VisitJmp, Todo
<1>. PICK b \in Blocks : b = u[2]
  BY <1>1, ItemForm
<1>. DEFINE sides == Jumps(b)
<1>2. /\ pc = "find" /\ todo # << >> /\ u[1] = "jmp"
      /\ Push(b, sides) /\ todo' = Tail(todo)
      /\ UNCHANGED <<pc, fn, val, dead, usewrk, visit, blk, out, run>>
  BY DEF VisitJmp, Todo, Abort
<1>3. /\ u \in Items /\ b \in Blocks /\ u = JmpOf(b) /\ u[1] = "jmp"
      /\ u = todo[1] /\ 1 \in DOMAIN todo /\ Len(todo) \in Nat /\ DOMAIN todo = 1 .. Len(todo)
  BY <1>1, <1>2, TodoFacts, ItemForm
<1>4. /\ Blocks' = Blocks /\ Edges' = Edges /\ Items' = Items /\ Defs' = Defs /\ Defined' = Defined
      /\ \A v : ToOf(v)' = ToOf(v) /\ Reads(v)' = Reads(v)
      /\ \A e : Dest(e)' = Dest(e)
  BY <1>2, SameFn
<1>5. TodoShape
  BY DEF FindInv
\* The jump comes last, and its edges are not on the list.
<1>6. b \in visit \/ b = blk
  <2>1. blk = None => b \in visit
    BY <1>2, <1>3, <1>5 DEF TodoShape
  <2>2. blk # None => b = blk
    BY <1>3, <1>5 DEF TodoShape
  <2>. QED  BY <2>1, <2>2
<1>7. Len(todo) = 1
  <2>1. CASE blk = None
    BY <1>2, <1>5, <2>1 DEF TodoShape
  <2>2. CASE blk # None
    <3>. SUFFICES ASSUME Len(todo) # 1 PROVE FALSE
      OBVIOUS
    <3>1. 2 \in DOMAIN todo /\ todo[2] \in Items
      BY <1>1, <1>3, ElementOfSeq
    <3>2. Before(u, todo[2])
      BY <1>3, <1>5, <2>2, <3>1 DEF TodoShape
    <3>3. todo[2][1] = "jmp" => todo[2][3] = 1
      BY <1>1, <3>1, ItemForm
    <3>4. u[3] = 1
      BY <1>3 DEF JmpOf
    <3>. QED  BY <1>2, <3>2, <3>3, <3>4 DEF Before
  <2>. QED  BY <2>1, <2>2
<1>8. todo' = << >> /\ InTodo = {u} /\ InTodo' = {}
  <2>1. Tail(todo) \in Seq(Items) /\ Len(Tail(todo)) = 0
    BY <1>1, <1>2, <1>7, HeadTailProperties
  <2>2. Tail(todo) = << >>
    BY <2>1, EmptySeq
  <2>3. InTodo = {u}
    BY <1>3, <1>7 DEF InTodo
  <2>4. todo' = << >>
    BY <1>2, <2>2
  <2>5. InTodo' = {}
    BY <2>4 DEF InTodo
  <2>. QED  BY <2>3, <2>4, <2>5
<1>9. <<b, 0>> \notin OnList /\ <<b, 1>> \notin OnList
  <2>1. CASE blk = None
    <3>1. OnList = {}
      BY <1>2, <1>5, <2>1, ListEmpty DEF TodoShape
    <3>. QED  BY <3>1
  <2>2. CASE blk # None
    <3>1. b = blk /\ (blk \in visit => u[1] = "phi")
      BY <1>3, <1>5, <2>2 DEF TodoShape
    <3>2. ~ Done(JmpOf(b))
      BY <1>2, <1>3, <1>8, <3>1 DEF Done
    <3>3. \A i \in {0, 1} : <<b, i>> \in Edges /\ <<b, i>> # Start /\ <<b, i>>[1] = b
      BY <1>1, <1>3, EdgeFacts
    <3>. QED  BY <3>2, <3>3 DEF FindInv, EdgesShape, Known
  <2>. QED  BY <2>1, <2>2
<1>10. sides \in {<< >>, <<0>>, <<1>>, <<0, 1>>}
  BY <1>1, <1>3, JumpsForm
<1>11. Typed'
  <2>1. flowrk' \in Edges \cup {NoEdge} /\ work' \in [Edges -> Edges \cup {NoEdge}]
    <3>1. sides = << >> \/ (sides[1] \in {0, 1} /\ (Len(sides) # 1 => sides[2] \in {0, 1}))
      <4>. HIDE DEF sides
      <4>1. CASE sides = << >>
        BY <4>1
      <4>2. ASSUME NEW x \in {0, 1}, sides = <<x>> PROVE sides[1] \in {0, 1} /\ Len(sides) = 1
        BY <4>2
      <4>3. CASE sides = <<0, 1>>
        BY <4>3
      <4>. QED  BY <1>10, <4>1, <4>2, <4>3
    <3>2. \A i \in {0, 1} : <<b, i>> \in Edges
      BY <1>1, <1>3, EdgeFacts
    <3>. HIDE DEF sides
    <3>3. flowrk' \in Edges \cup {NoEdge}
      BY <1>2, <3>1, <3>2 DEF Push, Typed, TypeOK
    <3>4. \A e \in Edges : work'[e] \in Edges \cup {NoEdge}
      <4>. SUFFICES ASSUME NEW e \in Edges PROVE work'[e] \in Edges \cup {NoEdge}
        OBVIOUS
      <4>1. work[e] \in Edges \cup {NoEdge} /\ flowrk \in Edges \cup {NoEdge}
        BY DEF Typed, TypeOK
      <4>2. \/ work'[e] = work[e] \/ work'[e] = flowrk
            \/ work'[e] = <<b, sides[2]>> /\ sides # << >> /\ Len(sides) # 1
        BY <1>2 DEF Push
      <4>. QED  BY <3>1, <3>2, <4>1, <4>2
    <3>. QED  BY <1>2, <3>3, <3>4 DEF Push
  <2>2. \A i \in DOMAIN todo' : todo'[i] \in Items'
    BY <1>8
  <2>. QED  BY <1>2, <1>4, <2>1, <2>2 DEF Typed, TypeOK
<1>12. ListOK' /\ OnList' = OnList \cup {<<b, sides[i]>> : i \in DOMAIN sides}
  <2>. HIDE DEF sides
  <2>. QED  BY <1>2, <1>3, <1>9, <1>10, <1>11, ListPush
<1>. HIDE DEF sides
<1>13. /\ \A v \in Items : Done(v) => Done(v)'
       /\ \A v \in Items : v # u => (Done(v)' => Done(v))
       /\ Waiting = Waiting' \cup {u}
       /\ Done(JmpOf(b))'
  <2>1. visit' = visit /\ blk' = blk /\ usewrk' = usewrk
    BY <1>2
  <2>2. /\ \A v \in Items : Done(v) => Done(v)'
        /\ \A v \in Items : v # u => (Done(v)' => Done(v))
    BY <1>8, <2>1 DEF Done
  <2>3. Waiting = Waiting' \cup {u}
    BY <1>8, <2>1 DEF Waiting
  <2>4. JmpOf(b)[2] = b
    BY DEF JmpOf
  <2>5. Done(JmpOf(b))'
    BY <1>6, <1>8, <2>1, <2>4 DEF Done
  <2>. QED  BY <2>2, <2>3, <2>5
<1>14. \A r : LatVal(r)' = LatVal(r)
  BY <1>2 DEF LatVal
<1>15. \A x : Jumps(x)' = Jumps(x)
  BY <1>2, <1>14, JumpsSame
<1>16. \A v \in Defs : ValOf(v)' = ValOf(v) /\ v # u /\ v \in Items
  <2>. SUFFICES ASSUME NEW v \in Defs PROVE ValOf(v)' = ValOf(v) /\ v # u /\ v \in Items
    OBVIOUS
  <2>1. \A a : DeadEdge(a, v[2])' = DeadEdge(a, v[2])
    BY <1>2 DEF DeadEdge
  <2>2. ValOf(v)' = ValOf(v)
    BY <1>1, <1>2, <2>1, ValOfSame
  <2>3. v # u /\ v \in Items
    BY <1>2 DEF Defs
  <2>. QED  BY <2>2, <2>3
<1>17. \A e \in Edges : Known(e)' =>
         Known(e) \/ (e[1] = b /\ e # Start /\ \E i \in DOMAIN sides : e = <<b, sides[i]>>)
  <2>. SUFFICES ASSUME NEW e \in Edges, Known(e)', ~ Known(e)
                PROVE  e[1] = b /\ e # Start /\ \E i \in DOMAIN sides : e = <<b, sides[i]>>
    OBVIOUS
  <2>1. PICK i \in DOMAIN sides : e = <<b, sides[i]>>
    BY <1>2, <1>12 DEF Known
  <2>2. sides[i] \in {0, 1}
    BY <1>1, <1>3, JumpsForm DEF sides
  <2>. QED  BY <1>1, <1>3, <2>1, <2>2, EdgeFacts
<1>18. \A e \in Edges : Known(e) => Known(e)'
  BY <1>2, <1>12 DEF Known
<1>19. out' = fn'
  BY <1>2 DEF FindInv
<1>20. ValuesFall'
  BY <1>2, <1>4, <1>16 DEF FindInv, ValuesFall
<1>21. DoneRight'
  <2>1. \A v \in Defs \ Waiting' : Done(v)' => val'[ToOf(v)] = ValOf(v)'
    <3>. SUFFICES ASSUME NEW v \in Defs, v \notin Waiting', Done(v)'
                  PROVE  val[ToOf(v)] = ValOf(v)
      BY <1>2, <1>16
    <3>. QED  BY <1>13, <1>16 DEF FindInv, DoneRight
  <2>2. ASSUME NEW x \in Blocks, Done(JmpOf(x))', JmpOf(x) \notin Waiting', NEW i \in DOMAIN Jumps(x)
        PROVE  ~ dead[<<x, Jumps(x)[i]>>] \/ <<x, Jumps(x)[i]>> \in OnList'
    <3>1. CASE x = b
      BY <1>12, <2>2, <3>1 DEF sides
    <3>2. CASE x # b
      <4>1. JmpOf(x) # u /\ JmpOf(x) \in Items
        BY <1>3, <3>2, IsItem DEF JmpOf
      <4>2. Done(JmpOf(x)) /\ JmpOf(x) \notin Waiting
        BY <1>13, <2>2, <4>1
      <4>3. ~ dead[<<x, Jumps(x)[i]>>] \/ <<x, Jumps(x)[i]>> \in OnList
        BY <2>2, <4>2 DEF FindInv, DoneRight
      <4>. QED  BY <1>12, <4>3
    <3>. QED  BY <3>1, <3>2
  <2>. QED  BY <1>2, <1>4, <1>15, <2>1, <2>2 DEF DoneRight
<1>22. TodoShape'
  <2>1. << >> \in Seq(Items)
    OBVIOUS
  <2>2. DOMAIN << >> = {}
    OBVIOUS
  <2>. QED  BY <1>2, <1>4, <1>5, <1>8, <2>1, <2>2 DEF TodoShape
<1>23. EdgesShape'
  <2>1. \A x \in Blocks : Done(JmpOf(x)) => Done(JmpOf(x))'
    BY <1>13, IsItem
  <2>2. ASSUME NEW e \in Edges, Known(e)', e # Start
        PROVE  Done(JmpOf(e[1]))' /\ Dest(e) \in Blocks
    <3>1. CASE Known(e)
      <4>1. e[1] \in Blocks
        BY <1>1, <2>2, EdgeFacts
      <4>. QED  BY <2>1, <2>2, <3>1, <4>1 DEF FindInv, EdgesShape
    <3>2. CASE ~ Known(e)
      <4>1. PICK i \in DOMAIN sides : e = <<b, sides[i]>>
        BY <1>17, <2>2, <3>2
      <4>2. Dest(e) \in Blocks
        BY <1>1, <1>3, <4>1, JumpsForm DEF sides
      <4>3. e[1] = b
        BY <4>1
      <4>. QED  BY <1>13, <4>2, <4>3
    <3>. QED  BY <3>1, <3>2
  <2>3. Known(Start)'
    BY <1>1, <1>18, EdgeFacts DEF FindInv, EdgesShape
  <2>4. \A e \in Edges : ~ dead[e] => (e # Start => e[1] \in visit) /\ Dest(e) \in visit \cup {blk}
    BY DEF FindInv, EdgesShape
  <2>5. blk # None => \E e \in Edges : ~ dead[e] /\ Dest(e) = blk
    BY DEF FindInv, EdgesShape
  <2>. QED  BY <1>2, <1>4, <2>2, <2>3, <2>4, <2>5 DEF EdgesShape
<1>24. JmpsTaken'
  <2>. SUFFICES ASSUME NEW x \in Blocks, fn.jmp[x] = "jmp", Done(JmpOf(x))'
                PROVE  ~ dead[<<x, 0>>] \/ (flowrk' = <<x, 0>> /\ (blk # None => blk = x))
    BY <1>2, <1>4, <1>8 DEF JmpsTaken
  <2>1. CASE x = b /\ ~ Done(JmpOf(b))
    <3>1. sides = <<0>>
      BY <1>1, <1>3, <2>1, JumpsForm DEF sides
    <3>2. flowrk' = <<b, 0>>
      BY <1>2, <3>1 DEF Push
    <3>3. b = blk
      BY <1>6, <2>1 DEF Done, JmpOf
    <3>. QED  BY <2>1, <3>2, <3>3
  <2>2. CASE Done(JmpOf(x))
    BY <1>2, <2>2 DEF FindInv, JmpsTaken
  <2>3. CASE x # b
    <3>1. JmpOf(x) # u /\ JmpOf(x) \in Items
      BY <1>3, <2>3, IsItem DEF JmpOf
    <3>. QED  BY <1>13, <2>2, <3>1
  <2>. QED  BY <2>1, <2>2, <2>3
<1>25. VisitedWithin'
  BY <1>2, <1>4 DEF VisitedWithin, FindInv, Within
<1>26. DoneKnown'
  BY <1>2, <1>4, <1>13, <1>16 DEF DoneKnown, FindInv
<1>27. JumpsAgree'
  <2>. SUFFICES ASSUME Defined, NEW e \in Edges \ {Start}, Known(e)', fn.jmp[e[1]] = "jnz"
                PROVE  /\ LatVal(fn.arg[e[1]]) # Top
                       /\ \E i \in DOMAIN Jumps(e[1]) : e[2] = Jumps(e[1])[i]
    BY <1>2, <1>4, <1>14, <1>15 DEF JumpsAgree
  <2>1. CASE Known(e)
    BY <2>1 DEF FindInv, JumpsAgree
  <2>2. CASE ~ Known(e)
    <3>1. PICK i \in DOMAIN sides : e = <<b, sides[i]>>
      BY <1>17, <2>2
    <3>2. e[1] = b /\ e[2] = sides[i]
      BY <3>1
    <3>3. fn.arg[b] \in Operands /\ fn.arg[b] # Top
      <4>1. fn.arg[b] \in Reads(u)
        BY <1>2 DEF Reads
      <4>. QED  BY <1>1, <1>3, <3>2, <4>1, JmpFacts DEF Defined
    <3>4. LatVal(fn.arg[b]) # Top
      <4>1. CASE fn.arg[b] \in Temps
        <5>1. HasBefore(fn, Blocks, fn.arg[b], b, Len(fn.ins[b]) + 1)
          BY <1>1, <1>3, <4>1, FnFacts DEF Strict, HasAfter
        <5>2. \A v \in Defs : v[2] = b => Done(v)
          BY <1>6, <1>8, <1>16 DEF Done
        <5>3. val[fn.arg[b]] # Top
          BY <1>3, <1>6, <4>1, <5>1, <5>2, ReadKnown
        <5>. QED  BY <4>1, <5>3 DEF LatVal
      <4>2. CASE fn.arg[b] \notin Temps
        BY <3>3, <4>2 DEF LatVal
      <4>. QED  BY <4>1, <4>2
    <3>. QED  BY <3>2, <3>4 DEF sides
  <2>. QED  BY <2>1, <2>2
<1>. QED  BY <1>11, <1>12, <1>19, <1>20, <1>21, <1>22, <1>23, <1>24, <1>25, <1>26, <1>27 DEF FindInv

LEMMA EndVisitStep ==
  ASSUME FindOK, EndVisit
  PROVE  FindOK' /\ pc' = "find"
<1>. USE DEF FindOK
<1>1. fn \in Programs /\ todo \in Seq(Items) /\ Typed /\ None \notin Blocks
  BY FindFacts
<1>2. pc = "find" /\ blk # None /\ todo = << >> /\ blk \in Blocks /\ InTodo = {}
  BY DEF EndVisit, FindInv, TodoShape, InTodo
<1>3. \A v : Done(v) <=> v[2] \in visit \cup {blk}
  BY <1>2 DEF Done
\* The edge of a jmp was just pushed, or taken before.
<1>4. ~ (fn.jmp[blk] = "jmp" /\ dead[<<blk, 0>>] /\ flowrk # <<blk, 0>>)
  <2>1. JmpOf(blk)[2] = blk
    BY DEF JmpOf
  <2>. QED  BY <1>2, <1>3, <2>1 DEF FindInv, JmpsTaken
<1>5. /\ visit' = visit \cup {blk} /\ blk' = None
      /\ UNCHANGED <<pc, fn, val, dead, work, flowrk, usewrk, todo, out, run>>
  BY <1>4 DEF EndVisit
<1>6. /\ Blocks' = Blocks /\ Edges' = Edges /\ Items' = Items /\ Defs' = Defs /\ Defined' = Defined
      /\ \A v : ToOf(v)' = ToOf(v) /\ Reads(v)' = Reads(v)
      /\ \A e : Dest(e)' = Dest(e)
  BY <1>5, SameFn
<1>7. ListOK' /\ OnList' = OnList /\ InTodo' = InTodo /\ Waiting' = Waiting
  BY <1>5, ListSame DEF InTodo, Waiting
<1>8. \A v \in Items : Done(v)' <=> Done(v)
  <2>. SUFFICES ASSUME NEW v \in Items PROVE Done(v)' <=> Done(v)
    OBVIOUS
  <2>1. v[2] # None
    BY <1>1, ItemForm
  <2>. QED  BY <1>2, <1>3, <1>5, <1>7, <2>1 DEF Done
<1>9. \A e : Known(e)' <=> Known(e)
  BY <1>5, <1>7 DEF Known
<1>10. /\ \A r : LatVal(r)' = LatVal(r)
       /\ \A x : Jumps(x)' = Jumps(x)
  BY <1>5, JumpsSame DEF LatVal
<1>11. \A v \in Defs : ValOf(v)' = ValOf(v) /\ v \in Items
  <2>. SUFFICES ASSUME NEW v \in Defs PROVE ValOf(v)' = ValOf(v) /\ v \in Items
    OBVIOUS
  <2>1. \A a : DeadEdge(a, v[2])' = DeadEdge(a, v[2])
    BY <1>5 DEF DeadEdge
  <2>2. ValOf(v)' = ValOf(v)
    BY <1>1, <1>5, <2>1, ValOfSame
  <2>. QED  BY <2>2 DEF Defs
<1>12. \A x \in Blocks : Done(JmpOf(x))' <=> Done(JmpOf(x))
  BY <1>8, IsItem
<1>13. Typed'
  BY <1>1, <1>2, <1>5, <1>6 DEF Typed, TypeOK
<1>14. out' = fn' /\ ValuesFall'
  BY <1>5, <1>6, <1>11 DEF FindInv, ValuesFall
<1>15. DoneRight'
  <2>1. \A v \in Defs \ Waiting : Done(v)' => val'[ToOf(v)] = ValOf(v)'
    BY <1>5, <1>8, <1>11 DEF FindInv, DoneRight
  <2>2. \A x \in Blocks : Done(JmpOf(x))' /\ JmpOf(x) \notin Waiting =>
          \A i \in DOMAIN Jumps(x) :
            ~ dead[<<x, Jumps(x)[i]>>] \/ <<x, Jumps(x)[i]>> \in OnList
    BY <1>12 DEF FindInv, DoneRight
  <2>. QED  BY <1>5, <1>6, <1>7, <1>10, <2>1, <2>2 DEF DoneRight
<1>16. TodoShape'
  BY <1>2, <1>5, <1>6 DEF FindInv, TodoShape
<1>17. EdgesShape'
  <2>1. \A e \in Edges : e # Start => e[1] \in Blocks
    BY <1>1, EdgeFacts
  <2>2. \A e \in Edges : Known(e) /\ e # Start => Done(JmpOf(e[1]))' /\ Dest(e) \in Blocks
    BY <1>12, <2>1 DEF FindInv, EdgesShape
  <2>3. \A e \in Edges : ~ dead[e] => (e # Start => e[1] \in visit') /\ Dest(e) \in visit' \cup {None}
    BY <1>5 DEF FindInv, EdgesShape
  <2>4. Known(Start)
    BY DEF FindInv, EdgesShape
  <2>. QED  BY <1>5, <1>6, <1>9, <2>2, <2>3, <2>4 DEF EdgesShape
<1>18. JmpsTaken'
  <2>. SUFFICES ASSUME NEW x \in Blocks, fn.jmp[x] = "jmp", Done(JmpOf(x))
                PROVE  ~ dead[<<x, 0>>] \/ flowrk = <<x, 0>>
    BY <1>2, <1>5, <1>6, <1>12 DEF JmpsTaken
  <2>. QED  BY DEF FindInv, JmpsTaken
<1>19. VisitedWithin'
  <2>. SUFFICES ASSUME NEW a \in Blocks, NEW S \in SUBSET (Blocks \ {a}), Within(fn, Blocks, S, a),
                       a \notin visit'
                PROVE  visit' \subseteq S
    BY <1>5, <1>6 DEF VisitedWithin, Within
  <2>1. a \notin visit /\ a # blk /\ visit \subseteq S
    BY <1>5 DEF FindInv, VisitedWithin
  <2>2. PICK e \in Edges : ~ dead[e] /\ Dest(e) = blk
    BY <1>2 DEF FindInv, EdgesShape
  <2>3. CASE e = Start
    BY <1>5, <2>1, <2>2, <2>3 DEF Dest, Within
  <2>4. CASE e # Start
    <3>1. e[1] \in S
      BY <2>1, <2>2, <2>4 DEF FindInv, EdgesShape
    <3>2. blk \in {fn.s1[e[1]], fn.s2[e[1]]}
      BY <2>2, <2>4 DEF Dest, Succ
    <3>3. blk \in S \cup {a, None}
      BY <3>1, <3>2 DEF Within
    <3>. QED  BY <1>2, <1>5, <2>1, <3>3
  <2>. QED  BY <2>3, <2>4
<1>20. DoneKnown'
  BY <1>5, <1>6, <1>8, <1>11 DEF DoneKnown, FindInv
<1>21. JumpsAgree'
  <2>. SUFFICES ASSUME Defined, NEW e \in Edges \ {Start}, Known(e), fn.jmp[e[1]] = "jnz"
                PROVE  /\ LatVal(fn.arg[e[1]]) # Top
                       /\ \E i \in DOMAIN Jumps(e[1]) : e[2] = Jumps(e[1])[i]
    BY <1>5, <1>6, <1>9, <1>10 DEF JumpsAgree
  <2>. QED  BY DEF FindInv, JumpsAgree
<1>. QED  BY <1>2, <1>5, <1>7, <1>13, <1>14, <1>15, <1>16, <1>17, <1>18, <1>19, <1>20, <1>21 DEF FindInv

LEMMA TakeUseStep ==
  ASSUME FindOK, NEW u \in usewrk, TakeUse(u)
  PROVE  FindOK'
<1>. USE DEF FindOK
<1>1. fn \in Programs /\ todo \in Seq(Items) /\ Typed /\ None \notin Blocks
  BY FindFacts
<1>2. /\ pc = "find" /\ blk = None /\ todo = << >> /\ flowrk = NoEdge
      /\ usewrk' = usewrk \ {u} /\ todo' = (IF u[2] \in visit THEN <<u>> ELSE << >>)
      /\ UNCHANGED <<pc, fn, val, dead, work, flowrk, visit, blk, out, run>>
  BY DEF TakeUse
<1>3. u \in Items /\ u[2] \in Blocks
  BY <1>1, ItemForm DEF Typed, TypeOK
<1>4. /\ Blocks' = Blocks /\ Edges' = Edges /\ Items' = Items /\ Defs' = Defs /\ Defined' = Defined
      /\ \A v : ToOf(v)' = ToOf(v) /\ Reads(v)' = Reads(v)
      /\ \A e : Dest(e)' = Dest(e)
  BY <1>2, SameFn
<1>5. ListOK' /\ OnList' = OnList
  BY <1>2, ListSame
<1>6. InTodo = {} /\ InTodo' = IF u[2] \in visit THEN {u} ELSE {}
  <2>1. InTodo = {}
    BY <1>2 DEF InTodo
  <2>2. CASE u[2] \in visit
    <3>1. todo' = <<u>>
      BY <1>2, <2>2
    <3>2. DOMAIN <<u>> = {1} /\ <<u>>[1] = u
      OBVIOUS
    <3>. QED  BY <2>1, <2>2, <3>1, <3>2 DEF InTodo
  <2>3. CASE u[2] \notin visit
    BY <1>2, <2>1, <2>3 DEF InTodo
  <2>. QED  BY <2>2, <2>3
<1>7. \A v \in Items : (Done(v)' <=> v[2] \in visit) /\ (Done(v) <=> v[2] \in visit)
  <2>. SUFFICES ASSUME NEW v \in Items
                PROVE  (Done(v)' <=> v[2] \in visit) /\ (Done(v) <=> v[2] \in visit)
    OBVIOUS
  <2>1. v[2] # None
    BY <1>1, ItemForm
  <2>. QED  BY <1>2, <2>1 DEF Done
<1>8. \A v \in Items : Done(v)' /\ v \notin Waiting' => v \notin Waiting
  BY <1>2, <1>6, <1>7 DEF Waiting
<1>9. \A e : Known(e)' <=> Known(e)
  BY <1>2, <1>5 DEF Known
<1>10. /\ \A r : LatVal(r)' = LatVal(r)
       /\ \A x : Jumps(x)' = Jumps(x)
  BY <1>2, JumpsSame DEF LatVal
<1>11. \A v \in Defs : ValOf(v)' = ValOf(v) /\ v \in Items
  <2>. SUFFICES ASSUME NEW v \in Defs PROVE ValOf(v)' = ValOf(v) /\ v \in Items
    OBVIOUS
  <2>1. \A a : DeadEdge(a, v[2])' = DeadEdge(a, v[2])
    BY <1>2 DEF DeadEdge
  <2>2. ValOf(v)' = ValOf(v)
    BY <1>1, <1>2, <2>1, ValOfSame
  <2>. QED  BY <2>2 DEF Defs
<1>12. \A x \in Blocks : JmpOf(x) \in Items /\ (Done(JmpOf(x))' <=> Done(JmpOf(x)))
  BY <1>7, IsItem
<1>13. todo' \in Seq(Items) /\ \A i \in DOMAIN todo' : todo'[i] = u /\ u[2] \in visit
  <2>1. <<u>> \in Seq(Items) /\ << >> \in Seq(Items) /\ DOMAIN <<u>> = {1} /\ <<u>>[1] = u
    BY <1>3
  <2>. QED  BY <1>2, <2>1
<1>14. Typed'
  BY <1>1, <1>2, <1>3, <1>4, <1>13 DEF Typed, TypeOK
<1>15. out' = fn' /\ ValuesFall'
  BY <1>2, <1>4, <1>11 DEF FindInv, ValuesFall
<1>16. DoneRight'
  <2>1. \A v \in Defs \ Waiting' : Done(v)' => val'[ToOf(v)] = ValOf(v)'
    BY <1>2, <1>7, <1>8, <1>11 DEF FindInv, DoneRight
  <2>2. \A x \in Blocks : Done(JmpOf(x))' /\ JmpOf(x) \notin Waiting' =>
          \A i \in DOMAIN Jumps(x) :
            ~ dead[<<x, Jumps(x)[i]>>] \/ <<x, Jumps(x)[i]>> \in OnList
    BY <1>8, <1>12 DEF FindInv, DoneRight
  <2>. QED  BY <1>2, <1>4, <1>5, <1>10, <2>1, <2>2 DEF DoneRight
<1>17. TodoShape'
  <2>1. todo' # << >> => Len(todo') = 1 /\ todo'[1][2] \in visit
    BY <1>2
  <2>. QED  BY <1>2, <1>4, <1>13, <2>1 DEF FindInv, TodoShape
<1>18. EdgesShape'
  <2>1. \A e \in Edges : e # Start => e[1] \in Blocks
    BY <1>1, EdgeFacts
  <2>2. \A e \in Edges : Known(e) /\ e # Start => Done(JmpOf(e[1]))' /\ Dest(e) \in Blocks
    BY <1>12, <2>1 DEF FindInv, EdgesShape
  <2>3. Known(Start) /\ \A e \in Edges : ~ dead[e] =>
          (e # Start => e[1] \in visit) /\ Dest(e) \in visit \cup {blk}
    BY DEF FindInv, EdgesShape
  <2>. QED  BY <1>2, <1>4, <1>9, <2>2, <2>3 DEF EdgesShape
<1>19. JmpsTaken'
  <2>. SUFFICES ASSUME NEW x \in Blocks, fn.jmp[x] = "jmp", Done(JmpOf(x))
                PROVE  ~ dead[<<x, 0>>]
    BY <1>2, <1>4, <1>12 DEF JmpsTaken
  <2>1. <<x, 0>> # NoEdge
    BY <1>1, EdgeFacts
  <2>. QED  BY <1>2, <2>1 DEF FindInv, JmpsTaken
<1>20. VisitedWithin'
  BY <1>2, <1>4 DEF VisitedWithin, FindInv, Within
<1>21. DoneKnown'
  BY <1>2, <1>4, <1>7, <1>11 DEF DoneKnown, FindInv
<1>22. JumpsAgree'
  <2>. SUFFICES ASSUME Defined, NEW e \in Edges \ {Start}, Known(e), fn.jmp[e[1]] = "jnz"
                PROVE  /\ LatVal(fn.arg[e[1]]) # Top
                       /\ \E i \in DOMAIN Jumps(e[1]) : e[2] = Jumps(e[1])[i]
    BY <1>2, <1>4, <1>9, <1>10 DEF JumpsAgree
  <2>. QED  BY DEF FindInv, JumpsAgree
<1>. QED  BY <1>5, <1>14, <1>15, <1>16, <1>17, <1>18, <1>19, <1>20, <1>21, <1>22 DEF FindInv

\* The items of a block that an edge leads to.
LEMMA VisitsForm ==
  ASSUME fn \in Programs, NEW n \in Blocks
  PROVE  /\ Visits(n) \in Seq(Items)
         /\ \A i, k \in DOMAIN Visits(n) : i < k => Before(Visits(n)[i], Visits(n)[k])
         /\ \A i \in DOMAIN Visits(n) :
              Visits(n)[i][2] = n /\ (n \in visit => Visits(n)[i][1] = "phi")
         /\ n \notin visit /\ Visits(n) # << >> => Visits(n)[Len(Visits(n))] = JmpOf(n)
         /\ \A v \in Items : v[2] = n /\ (n \in visit => v[1] = "phi") =>
              v \in {Visits(n)[i] : i \in DOMAIN Visits(n)}
<1>. DEFINE phis == [i \in DOMAIN fn.phi[n] |-> <<"phi", n, i>>]
            inss == [i \in DOMAIN fn.ins[n] |-> <<"ins", n, i>>]
            jmp == << JmpOf(n) >>
            p == Len(fn.phi[n])
            q == Len(fn.ins[n])
<1>1. /\ p \in Nat /\ DOMAIN fn.phi[n] = 1 .. p
      /\ q \in Nat /\ DOMAIN fn.ins[n] = 1 .. q
  <2>1. fn.phi[n] \in Seq(PhiRecs(Blocks)) /\ fn.ins[n] \in Seq(InsRecs)
    BY FnTypes
  <2>. QED  BY <2>1, LenProperties
<1>. HIDE DEF p, q
<1>2. phis \in Seq(Items) /\ Len(phis) = p /\ \A i \in 1 .. p : phis[i] = <<"phi", n, i>>
  <2>1. phis \in [1 .. p -> Items]
    BY <1>1, IsItem
  <2>2. phis \in Seq(Items)
    BY <1>1, <2>1, SeqDef
  <2>3. DOMAIN phis = 1 .. p
    BY <1>1
  <2>. QED  BY <1>1, <2>2, <2>3, LenProperties
<1>3. inss \in Seq(Items) /\ Len(inss) = q /\ \A i \in 1 .. q : inss[i] = <<"ins", n, i>>
  <2>1. inss \in [1 .. q -> Items]
    BY <1>1, IsItem
  <2>2. inss \in Seq(Items)
    BY <1>1, <2>1, SeqDef
  <2>3. DOMAIN inss = 1 .. q
    BY <1>1
  <2>. QED  BY <1>1, <2>2, <2>3, LenProperties
<1>4. jmp \in Seq(Items) /\ Len(jmp) = 1 /\ jmp[1] = JmpOf(n)
  <2>1. JmpOf(n) \in Items
    BY IsItem
  <2>. HIDE DEF JmpOf
  <2>. QED  BY <2>1
<1>5. Visits(n) = IF n \in visit THEN phis ELSE phis \o inss \o jmp
  BY DEF Visits, JmpOf
<1>. HIDE DEF phis, inss, jmp
<1>6. CASE n \in visit
  <2>1. Visits(n) = phis
    BY <1>5, <1>6
  <2>2. DOMAIN phis = 1 .. p
    BY <1>2, LenProperties
  <2>3. \A i, k \in 1 .. p : i < k => Before(phis[i], phis[k])
    BY <1>1, <1>2 DEF Before
  <2>4. \A i \in 1 .. p : phis[i][2] = n /\ phis[i][1] = "phi"
    BY <1>2
  <2>5. \A v \in Items : v[2] = n /\ v[1] = "phi" => v \in {phis[i] : i \in 1 .. p}
    <3>. SUFFICES ASSUME NEW v \in Items, v[2] = n, v[1] = "phi" PROVE \E i \in 1 .. p : v = phis[i]
      OBVIOUS
    <3>1. v[3] \in 1 .. p /\ v = <<"phi", n, v[3]>>
      BY <1>1, ItemForm
    <3>. QED  BY <1>2, <3>1
  <2>. QED  BY <1>2, <1>6, <2>1, <2>2, <2>3, <2>4, <2>5
<1>7. CASE n \notin visit
  <2>. DEFINE s == phis \o inss
              z == s \o jmp
  <2>1. Visits(n) = z
    BY <1>5, <1>7
  <2>2. s \in Seq(Items) /\ Len(s) = p + q
        /\ \A i \in 1 .. p + q : s[i] = IF i <= p THEN phis[i] ELSE inss[i - p]
    BY <1>1, <1>2, <1>3, ConcatProperties
  <2>. HIDE DEF s
  <2>3. z \in Seq(Items) /\ Len(z) = p + q + 1
        /\ \A i \in 1 .. p + q + 1 : z[i] = IF i <= p + q THEN s[i] ELSE jmp[i - (p + q)]
    <3>1. z \in Seq(Items) /\ Len(z) = Len(s) + Len(jmp)
          /\ \A i \in 1 .. Len(s) + Len(jmp) : z[i] = IF i <= Len(s) THEN s[i] ELSE jmp[i - Len(s)]
      BY <1>4, <2>2, ConcatProperties
    <3>2. Len(s) = p + q /\ Len(jmp) = 1
      BY <1>4, <2>2
    <3>. HIDE DEF z
    <3>. QED  BY <3>1, <3>2
  <2>. HIDE DEF z
  <2>4. DOMAIN z = 1 .. p + q + 1
    BY <2>3, LenProperties
  <2>5. \A i \in 1 .. p + q + 1 :
          \/ i <= p /\ z[i] = <<"phi", n, i>>
          \/ p < i /\ i <= p + q /\ z[i] = <<"ins", n, i - p>>
          \/ i = p + q + 1 /\ z[i] = JmpOf(n)
    <3>. SUFFICES ASSUME NEW i \in 1 .. p + q + 1
                  PROVE  \/ i <= p /\ z[i] = <<"phi", n, i>>
                         \/ p < i /\ i <= p + q /\ z[i] = <<"ins", n, i - p>>
                         \/ i = p + q + 1 /\ z[i] = JmpOf(n)
      OBVIOUS
    <3>1. CASE i <= p
      <4>1. i \in 1 .. p /\ i \in 1 .. p + q /\ i <= p + q
        BY <1>1, <3>1
      <4>2. z[i] = phis[i]
        BY <2>2, <2>3, <3>1, <4>1
      <4>. QED  BY <1>2, <3>1, <4>1, <4>2
    <3>2. CASE p < i /\ i <= p + q
      <4>1. i - p \in 1 .. q /\ i \in 1 .. p + q /\ ~ (i <= p)
        BY <1>1, <3>2
      <4>2. z[i] = inss[i - p]
        BY <2>2, <2>3, <3>2, <4>1
      <4>. QED  BY <1>3, <3>2, <4>1, <4>2
    <3>3. CASE p + q < i
      <4>1. i = p + q + 1 /\ ~ (i <= p + q) /\ i - (p + q) = 1
        BY <1>1, <3>3
      <4>2. z[i] = jmp[1]
        BY <2>3, <4>1
      <4>. QED  BY <1>4, <4>1, <4>2
    <3>4. p < i \/ i <= p
      BY <1>1
    <3>5. p + q < i \/ i <= p + q
      BY <1>1
    <3>. QED  BY <3>1, <3>2, <3>3, <3>4, <3>5
  <2>6. \A i \in 1 .. p + q + 1 : z[i][2] = n
    BY <2>5 DEF JmpOf
  <2>7. \A i, k \in 1 .. p + q + 1 : i < k => Before(z[i], z[k])
    <3>. SUFFICES ASSUME NEW i \in 1 .. p + q + 1, NEW k \in 1 .. p + q + 1, i < k
                  PROVE  Before(z[i], z[k])
      OBVIOUS
    <3>1. CASE i <= p
      <4>1. z[i] = <<"phi", n, i>>
        BY <1>1, <2>5, <3>1
      <4>2. (z[k][1] = "phi" /\ z[k][3] = k) \/ z[k][1] # "phi"
        BY <2>5 DEF JmpOf
      <4>3. z[i][1] = "phi" /\ z[i][3] = i
        BY <4>1
      <4>. QED  BY <4>2, <4>3 DEF Before
    <3>2. CASE p < i /\ i <= p + q
      <4>1. z[i] = <<"ins", n, i - p>>
        BY <1>1, <2>5, <3>2
      <4>2. z[i][1] = "ins" /\ z[i][3] = i - p
        BY <4>1
      <4>3. \/ z[k] = <<"ins", n, k - p>>
            \/ z[k] = JmpOf(n)
        BY <1>1, <2>5, <3>2
      <4>4. (z[k][1] = "ins" /\ z[k][3] = k - p) \/ z[k][1] = "jmp"
        BY <4>3 DEF JmpOf
      <4>5. i - p < k - p
        BY <1>1
      <4>. QED  BY <4>2, <4>4, <4>5 DEF Before
    <3>3. CASE p + q < i
      BY <1>1, <3>3
    <3>4. (p < i \/ i <= p) /\ (p + q < i \/ i <= p + q)
      BY <1>1
    <3>. QED  BY <3>1, <3>2, <3>3, <3>4
  <2>8. z[Len(z)] = JmpOf(n)
    <3>1. p + q + 1 \in 1 .. p + q + 1 /\ ~ (p + q + 1 <= p + q) /\ ~ (p + q + 1 <= p)
      BY <1>1
    <3>2. z[p + q + 1] = JmpOf(n)
      BY <2>5, <3>1
    <3>. QED  BY <2>3, <3>2
  <2>9. \A v \in Items : v[2] = n => v \in {z[i] : i \in 1 .. p + q + 1}
    <3>. SUFFICES ASSUME NEW v \in Items, v[2] = n PROVE \E i \in 1 .. p + q + 1 : v = z[i]
      OBVIOUS
    <3>1. CASE v[1] = "phi"
      <4>1. v[3] \in 1 .. p /\ v = <<"phi", n, v[3]>>
        BY <1>1, <3>1, ItemForm
      <4>2. v[3] \in 1 .. p + q + 1 /\ v[3] <= p /\ ~ (p < v[3]) /\ v[3] # p + q + 1
        BY <1>1, <4>1
      <4>3. z[v[3]] = <<"phi", n, v[3]>>
        BY <2>5, <4>2
      <4>. QED  BY <4>1, <4>2, <4>3
    <3>2. CASE v[1] = "ins"
      <4>1. v[3] \in 1 .. q /\ v = <<"ins", n, v[3]>>
        BY <1>1, <3>2, ItemForm
      <4>. DEFINE k == v[3] + p
      <4>2. k \in 1 .. p + q + 1 /\ ~ (k <= p) /\ k # p + q + 1 /\ k - p = v[3]
        BY <1>1, <4>1
      <4>. HIDE DEF k
      <4>3. z[k] = <<"ins", n, k - p>>
        BY <2>5, <4>2
      <4>. QED  BY <4>1, <4>2, <4>3
    <3>3. CASE v[1] = "jmp"
      <4>1. v = JmpOf(n)
        BY <3>3, ItemForm
      <4>2. Len(z) \in 1 .. p + q + 1
        BY <1>1, <2>3
      <4>. QED  BY <2>8, <4>1, <4>2
    <3>. QED  BY <3>1, <3>2, <3>3, ItemForm
  <2>. QED  BY <1>7, <2>1, <2>3, <2>4, <2>6, <2>7, <2>8, <2>9
<1>. QED  BY <1>6, <1>7

LEMMA TakeEdgeStep ==
  ASSUME FindOK, TakeEdge
  PROVE  FindOK'
<1>. USE DEF FindOK
<1>1. fn \in Programs /\ todo \in Seq(Items) /\ Typed /\ None \notin Blocks /\ OnList \subseteq Edges
  BY FindFacts
<1>2. /\ pc = "find" /\ blk = None /\ todo = << >> /\ flowrk # NoEdge
      /\ flowrk' = work[flowrk] /\ work' = [work EXCEPT ![flowrk] = NoEdge]
      /\ UNCHANGED <<pc, fn, val, usewrk, visit, out, run>>
  BY DEF TakeEdge
<1>3. /\ Blocks' = Blocks /\ Edges' = Edges /\ Items' = Items /\ Defs' = Defs /\ Defined' = Defined
      /\ \A v : ToOf(v)' = ToOf(v) /\ Reads(v)' = Reads(v)
      /\ \A e : Dest(e)' = Dest(e)
  BY <1>2, SameFn
<1>. PICK x : x = flowrk
  OBVIOUS
<1>4. x \in Edges /\ x \in OnList
  BY <1>2, ListEmpty DEF Typed, TypeOK
<1>. PICK n : n = Dest(x)
  OBVIOUS
<1>5. n \in Blocks
  <2>1. CASE x = Start
    BY <1>1, <2>1, FnTypes DEF Dest
  <2>2. CASE x # Start
    BY <1>4, <2>2 DEF FindInv, EdgesShape, Known
  <2>. QED  BY <2>1, <2>2
<1>6. InTodo = {} /\ Waiting = usewrk
  BY <1>2 DEF InTodo, Waiting
<1>7. \A v \in Items : Done(v) <=> v[2] \in visit
  <2>. SUFFICES ASSUME NEW v \in Items PROVE Done(v) <=> v[2] \in visit
    OBVIOUS
  <2>1. v[2] # None
    BY <1>1, ItemForm
  <2>. QED  BY <1>2, <2>1 DEF Done
<1>8. \A b \in Blocks : Done(JmpOf(b)) <=> b \in visit
  <2>1. \A b \in Blocks : JmpOf(b) \in Items /\ JmpOf(b)[2] = b
    BY IsItem DEF JmpOf
  <2>. QED  BY <1>7, <2>1
<1>9. \A e \in Edges : Known(e) => (e # Start => e[1] \in visit) /\ Dest(e) \in Blocks
  <2>. SUFFICES ASSUME NEW e \in Edges, Known(e)
                PROVE  (e # Start => e[1] \in visit) /\ Dest(e) \in Blocks
    OBVIOUS
  <2>1. CASE e = Start
    BY <1>1, <2>1, FnTypes DEF Dest
  <2>2. CASE e # Start
    <3>1. e[1] \in Blocks
      BY <1>1, <2>2, EdgeFacts
    <3>. QED  BY <1>8, <2>2, <3>1 DEF FindInv, EdgesShape
  <2>. QED  BY <2>1, <2>2
<1>10. \A e \in Edges : ~ dead[e] => Dest(e) \in visit
  BY <1>1, <1>2, <1>9 DEF FindInv, EdgesShape, Known
<1>11. /\ \A r : LatVal(r)' = LatVal(r)
       /\ \A b : Jumps(b)' = Jumps(b)
  BY <1>2, JumpsSame DEF LatVal
<1>12. ASSUME Typed'
       PROVE  ListOK' /\ OnList' = OnList \ {x}
  BY <1>1, <1>2, <1>12, ListPop
<1>13. flowrk' \in Edges \cup {NoEdge} /\ work' \in [Edges -> Edges \cup {NoEdge}]
  BY <1>2, <1>4 DEF Typed, TypeOK
<1>14. \A b \in Blocks : b \in visit /\ fn.jmp[b] = "jmp" => ~ dead[<<b, 0>>] \/ x = <<b, 0>>
  BY <1>8 DEF FindInv, JmpsTaken
\* The edge was taken before.
<1>15. CASE ~ dead[x]
  <2>1. UNCHANGED <<dead, blk, todo>>
    BY <1>15 DEF TakeEdge
  <2>2. Typed'
    BY <1>1, <1>2, <1>3, <1>13, <2>1 DEF Typed, TypeOK
  <2>3. ListOK' /\ OnList' = OnList \ {x}
    BY <1>12, <2>2
  <2>4. \A e : Known(e)' <=> Known(e)
    BY <1>15, <2>1, <2>3 DEF Known
  <2>5. \A v : Done(v)' <=> Done(v)
    BY <1>2, <2>1 DEF Done, InTodo
  <2>6. Waiting' = Waiting
    BY <1>2, <2>1 DEF Waiting, InTodo
  <2>7. \A v \in Defs : ValOf(v)' = ValOf(v) /\ v \in Items
    <3>. SUFFICES ASSUME NEW v \in Defs PROVE ValOf(v)' = ValOf(v) /\ v \in Items
      OBVIOUS
    <3>1. \A a : DeadEdge(a, v[2])' = DeadEdge(a, v[2])
      BY <1>2, <2>1 DEF DeadEdge
    <3>2. ValOf(v)' = ValOf(v)
      BY <1>1, <1>2, <3>1, ValOfSame
    <3>. QED  BY <3>2 DEF Defs
  <2>8. out' = fn' /\ ValuesFall'
    BY <1>2, <1>3, <2>7 DEF FindInv, ValuesFall
  <2>9. DoneRight'
    <3>1. \A v \in Defs \ Waiting : Done(v)' => val'[ToOf(v)] = ValOf(v)'
      BY <1>2, <2>5, <2>7 DEF FindInv, DoneRight
    <3>2. \A b \in Blocks : Done(JmpOf(b))' /\ JmpOf(b) \notin Waiting =>
            \A i \in DOMAIN Jumps(b) :
              ~ dead[<<b, Jumps(b)[i]>>] \/ <<b, Jumps(b)[i]>> \in OnList'
      BY <1>15, <2>3, <2>5 DEF FindInv, DoneRight
    <3>. QED  BY <1>2, <1>3, <1>11, <2>1, <2>6, <3>1, <3>2 DEF DoneRight
  <2>10. TodoShape'
    BY <1>1, <1>2, <1>3, <2>1 DEF TodoShape
  <2>11. EdgesShape'
    <3>1. Known(Start) /\ \A e \in Edges : Known(e) /\ e # Start => Done(JmpOf(e[1]))
      BY DEF FindInv, EdgesShape
    <3>. QED  BY <1>2, <1>3, <1>9, <1>10, <2>1, <2>4, <2>5, <3>1 DEF EdgesShape, Known
  <2>12. JmpsTaken'
    <3>. SUFFICES ASSUME NEW b \in Blocks, fn.jmp[b] = "jmp", Done(JmpOf(b)) PROVE ~ dead[<<b, 0>>]
      BY <1>2, <1>3, <2>1, <2>5 DEF JmpsTaken
    <3>. QED  BY <1>8, <1>14, <1>15
  <2>13. VisitedWithin'
    BY <1>2, <1>3 DEF VisitedWithin, FindInv, Within
  <2>14. DoneKnown'
    BY <1>2, <1>3, <2>5, <2>7 DEF DoneKnown, FindInv
  <2>15. JumpsAgree'
    <3>. SUFFICES ASSUME Defined, NEW e \in Edges \ {Start}, Known(e), fn.jmp[e[1]] = "jnz"
                  PROVE  /\ LatVal(fn.arg[e[1]]) # Top
                         /\ \E i \in DOMAIN Jumps(e[1]) : e[2] = Jumps(e[1])[i]
      BY <1>2, <1>3, <1>11, <2>4 DEF JumpsAgree
    <3>. QED  BY DEF FindInv, JumpsAgree
  <2>. QED  BY <2>2, <2>3, <2>8, <2>9, <2>10, <2>11, <2>12, <2>13, <2>14, <2>15 DEF FindInv
\* It is followed, and its block visited.
<1>16. CASE dead[x]
  <2>1. dead' = [dead EXCEPT ![x] = FALSE] /\ blk' = n /\ todo' = Visits(n)
    BY <1>1, <1>5, <1>16 DEF TakeEdge
  <2>2. /\ todo' \in Seq(Items)
        /\ \A i, k \in DOMAIN todo' : i < k => Before(todo'[i], todo'[k])
        /\ \A i \in DOMAIN todo' : todo'[i][2] = n /\ (n \in visit => todo'[i][1] = "phi")
        /\ n \notin visit /\ todo' # << >> => todo'[Len(todo')] = JmpOf(n)
        /\ \A v \in Items : v[2] = n /\ (n \in visit => v[1] = "phi") => v \in InTodo'
    BY <1>1, <1>5, <2>1, VisitsForm DEF InTodo
  <2>3. Typed'
    <3>1. \A i \in DOMAIN todo' : todo'[i] \in Items
      BY <2>2, ElementOfSeq, LenProperties
    <3>2. dead' \in [Edges -> BOOLEAN]
      BY <2>1 DEF Typed, TypeOK
    <3>. QED  BY <1>1, <1>2, <1>3, <1>13, <3>1, <3>2 DEF Typed, TypeOK
  <2>4. ListOK' /\ OnList' = OnList \ {x}
    BY <1>12, <2>3
  <2>5. \A e \in Edges : dead'[e] = IF e = x THEN FALSE ELSE dead[e]
    BY <2>1 DEF Typed, TypeOK
  <2>6. \A e \in Edges : Known(e)' <=> Known(e)
    BY <1>4, <2>4, <2>5 DEF Known
  <2>7. \A v \in Items : Done(v)' /\ v \notin Waiting' => Done(v) /\ v \notin Waiting
                         /\ (v[2] = n => v[1] # "phi")
    BY <1>2, <1>6, <1>7, <2>1, <2>2 DEF Done, Waiting
  <2>8. \A v \in Items : Done(v)' /\ v \notin usewrk => Done(v) /\ v \notin Waiting
    <3>. SUFFICES ASSUME NEW v \in Items, Done(v)', v \notin usewrk PROVE Done(v)
      BY <1>6
    <3>. QED  BY <1>2, <1>7, <2>1, <2>2 DEF Done
  <2>9. \A v \in Items : Done(v)' <=> Done(v)
    BY <1>2, <1>7, <2>1, <2>2 DEF Done
  <2>10. \A b \in Blocks : JmpOf(b) \in Items /\ (Done(JmpOf(b))' <=> b \in visit)
    BY <1>8, <2>9, IsItem
  <2>11. out' = fn' /\ ValuesFall'
    <3>. SUFFICES ASSUME NEW v \in Defs PROVE Below(ValOf(v)', val[ToOf(v)])
      BY <1>2, <1>3 DEF FindInv, ValuesFall
    <3>1. Below(ValOf(v)', ValOf(v))
      <4>1. \A t \in Temps : Below(val'[t], val[t])
        BY <1>2 DEF Below
      <4>2. \A e \in Edges : dead'[e] => dead[e]
        BY <2>5
      <4>. QED  BY <1>1, <1>2, <2>3, <4>1, <4>2, ValOfFalls
    <3>2. Below(ValOf(v), val[ToOf(v)])
      BY DEF FindInv, ValuesFall
    <3>. QED  BY <3>1, <3>2, BelowTrans
  <2>12. DoneRight'
    <3>1. ASSUME NEW v \in Defs, v \notin Waiting', Done(v)'
          PROVE  val[ToOf(v)] = ValOf(v)'
      <4>1. v \in Items
        BY DEF Defs
      <4>2. Done(v) /\ v \notin Waiting /\ (v[2] = n => v[1] # "phi")
        BY <2>7, <3>1, <4>1
      <4>3. v[1] = "phi" => \A a \in Blocks : DeadEdge(a, v[2])' = DeadEdge(a, v[2])
        <5>. SUFFICES ASSUME v[2] # n, NEW a \in Blocks PROVE DeadEdge(a, v[2])' = DeadEdge(a, v[2])
          BY <4>2
        <5>. SUFFICES ASSUME NEW i \in Sides, Succ(fn, a, i) = v[2]
                      PROVE  dead'[<<a, i>>] = dead[<<a, i>>]
          BY <1>2 DEF DeadEdge
        <5>1. <<a, i>> \in Edges /\ <<a, i>> # Start
          BY <1>1, EdgeFacts DEF Sides
        <5>2. Dest(<<a, i>>) = v[2]
          BY <5>1 DEF Dest
        <5>. QED  BY <2>5, <5>1, <5>2
      <4>4. ValOf(v)' = ValOf(v)
        BY <1>1, <1>2, <4>3, ValOfSame
      <4>. QED  BY <4>2, <4>4 DEF FindInv, DoneRight
    <3>2. ASSUME NEW b \in Blocks, Done(JmpOf(b))', JmpOf(b) \notin Waiting', NEW i \in DOMAIN Jumps(b)
          PROVE  ~ dead'[<<b, Jumps(b)[i]>>] \/ <<b, Jumps(b)[i]>> \in OnList'
      <4>1. Done(JmpOf(b)) /\ JmpOf(b) \notin Waiting
        BY <2>7, <2>10, <3>2
      <4>2. ~ dead[<<b, Jumps(b)[i]>>] \/ <<b, Jumps(b)[i]>> \in OnList
        BY <3>2, <4>1 DEF FindInv, DoneRight
      <4>3. <<b, Jumps(b)[i]>> \in Edges
        BY <1>1, <3>2, JumpsForm, EdgeFacts
      <4>. QED  BY <2>4, <2>5, <4>2, <4>3
    <3>. QED  BY <1>2, <1>3, <1>11, <3>1, <3>2 DEF DoneRight
  <2>13. TodoShape'
    BY <1>1, <1>2, <1>3, <1>5, <2>1, <2>2 DEF TodoShape
  <2>14. EdgesShape'
    <3>1. Known(Start)' /\ Start \in Edges
      BY <1>1, <2>6, EdgeFacts DEF FindInv, EdgesShape
    <3>2. \A e \in Edges : Known(e)' /\ e # Start => Done(JmpOf(e[1]))' /\ Dest(e) \in Blocks
      <4>. SUFFICES ASSUME NEW e \in Edges, Known(e), e # Start
                    PROVE  Done(JmpOf(e[1]))' /\ Dest(e) \in Blocks
        BY <2>6
      <4>1. e[1] \in Blocks
        BY <1>1, EdgeFacts
      <4>. QED  BY <1>9, <2>10, <4>1
    <3>3. \A e \in Edges : ~ dead'[e] => (e # Start => e[1] \in visit) /\ Dest(e) \in visit \cup {n}
      <4>. SUFFICES ASSUME NEW e \in Edges, ~ dead'[e]
                    PROVE  (e # Start => e[1] \in visit) /\ Dest(e) \in visit \cup {n}
        OBVIOUS
      <4>1. CASE e = x
        BY <1>4, <1>9, <4>1 DEF Known
      <4>2. CASE e # x
        BY <1>9, <1>10, <2>5, <4>2 DEF Known
      <4>. QED  BY <4>1, <4>2
    <3>4. \E e \in Edges : ~ dead'[e] /\ Dest(e) = n
      BY <1>4, <2>5
    <3>. QED  BY <1>2, <1>3, <2>1, <3>1, <3>2, <3>3, <3>4 DEF EdgesShape
  <2>15. JmpsTaken'
    <3>. SUFFICES ASSUME NEW b \in Blocks, fn.jmp[b] = "jmp", b \in visit PROVE ~ dead'[<<b, 0>>]
      BY <1>2, <1>3, <2>10 DEF JmpsTaken
    <3>1. <<b, 0>> \in Edges
      BY <1>1, EdgeFacts
    <3>. QED  BY <1>14, <2>5, <3>1
  <2>16. VisitedWithin'
    BY <1>2, <1>3 DEF VisitedWithin, FindInv, Within
  <2>17. DoneKnown'
    BY <1>2, <1>3, <2>9 DEF DoneKnown, FindInv, Defs
  <2>18. JumpsAgree'
    <3>. SUFFICES ASSUME Defined, NEW e \in Edges \ {Start}, Known(e), fn.jmp[e[1]] = "jnz"
                  PROVE  /\ LatVal(fn.arg[e[1]]) # Top
                         /\ \E i \in DOMAIN Jumps(e[1]) : e[2] = Jumps(e[1])[i]
      BY <1>2, <1>3, <1>11, <2>6 DEF JumpsAgree
    <3>. QED  BY DEF FindInv, JumpsAgree
  <2>. QED  BY <2>3, <2>4, <2>11, <2>12, <2>13, <2>14, <2>15, <2>16, <2>17, <2>18 DEF FindInv
<1>17. dead[x] \in BOOLEAN
  BY <1>4 DEF Typed, TypeOK
<1>. QED  BY <1>15, <1>16, <1>17

LEMMA InitFind ==
  ASSUME Init
  PROVE  FindOK
<1>1. /\ fn \in Programs /\ pc = "find" /\ out = fn
      /\ val = [t \in Temps |-> Top] /\ dead = [e \in Edges |-> TRUE]
      /\ work = [e \in Edges |-> NoEdge] /\ flowrk = Start
      /\ usewrk = {} /\ visit = {} /\ blk = None /\ todo = << >>
  BY DEF Init
<1>2. Typed
  BY <1>1, EdgeFacts DEF Typed, TypeOK
<1>3. None \notin Blocks /\ InTodo = {}
  BY <1>1, FnTypes DEF InTodo
<1>4. \A v \in Items : ~ Done(v)
  <2>. SUFFICES ASSUME NEW v \in Items PROVE ~ Done(v)
    OBVIOUS
  <2>1. v[2] # None
    BY <1>1, <1>3, ItemForm
  <2>. QED  BY <1>1, <2>1 DEF Done
<1>5. ListOK /\ OnList = {Start}
  <2>. DEFINE s == [i \in 1 .. 1 |-> Start]
  <2>1. s \in [1 .. 1 -> Edges] /\ \A i \in 1 .. 1 : s[i] = Start
    BY <1>1, EdgeFacts
  <2>. HIDE DEF s
  <2>2. 1 \in 1 .. 1 /\ \A i \in 1 .. 1 : i = 1
    OBVIOUS
  <2>3. IsList(1, s)
    <3>1. flowrk = s[1] /\ \A e \in Edges : work[e] = NoEdge
      BY <1>1, <2>1, <2>2
    <3>2. \A i \in 1 .. 1 : s[i] \in Edges
      BY <2>1
    <3>. QED  BY <2>2, <3>1, <3>2 DEF IsList
  <2>4. OnList = {s[i] : i \in 1 .. 1}
    BY <1>2, <2>1, <2>3, ListFacts
  <2>5. {s[i] : i \in 1 .. 1} = {Start}
    BY <2>1, <2>2
  <2>. QED  BY <2>1, <2>3, <2>4, <2>5 DEF ListOK
<1>6. ValuesFall
  BY <1>1, DefForm DEF ValuesFall, Below
<1>7. \A b \in Blocks : ~ Done(JmpOf(b))
  BY <1>4, IsItem
<1>8. DoneRight
  BY <1>4, <1>7 DEF DoneRight, Defs
<1>9. TodoShape
  BY <1>1 DEF TodoShape
<1>10. EdgesShape
  <2>1. \A e \in Edges : Known(e) => e = Start
    BY <1>1, <1>5 DEF Known
  <2>2. Known(Start)
    BY <1>5 DEF Known
  <2>. QED  BY <1>1, <2>1, <2>2 DEF EdgesShape
<1>11. JmpsTaken
  BY <1>7 DEF JmpsTaken
<1>12. VisitedWithin
  BY <1>1 DEF VisitedWithin
<1>13. DoneKnown
  BY <1>4 DEF DoneKnown, Defs
<1>14. JumpsAgree
  <2>1. \A e \in Edges : Known(e) => e = Start
    BY <1>1, <1>5 DEF Known
  <2>. QED  BY <2>1 DEF JumpsAgree
<1>. QED  BY <1>1, <1>2, <1>5, <1>6, <1>8, <1>9, <1>10, <1>11, <1>12, <1>13, <1>14 DEF FindOK, FindInv

\* The lists and the values say what ListIntact and UpToDate ask for.
LEMMA FindIntact ==
  ASSUME FindOK
  PROVE  ListIntact /\ UpToDate
<1>1. ListOK /\ Typed /\ DoneRight /\ fn \in Programs /\ visit \subseteq Blocks
  BY FindFacts DEF FindOK, FindInv
<1>2. \A b \in visit : \A i \in DOMAIN Jumps(b) :
        JmpOf(b) \notin usewrk /\ todo = << >>
          => ~ dead[<<b, Jumps(b)[i]>>] \/ <<b, Jumps(b)[i]>> \in OnList
  <2>. SUFFICES ASSUME NEW b \in visit, NEW i \in DOMAIN Jumps(b), JmpOf(b) \notin usewrk, todo = << >>
                PROVE  ~ dead[<<b, Jumps(b)[i]>>] \/ <<b, Jumps(b)[i]>> \in OnList
    OBVIOUS
  <2>1. JmpOf(b) \notin Waiting
    BY DEF Waiting, InTodo
  <2>2. Done(JmpOf(b)) /\ b \in Blocks
    BY <1>1 DEF Done, JmpOf
  <2>. QED  BY <1>1, <2>1, <2>2 DEF DoneRight
<1>3. ListIntact
  BY <1>1, <1>2, ListEmpty DEF ListIntact, JmpOf
<1>4. UpToDate
  <2>. SUFFICES ASSUME NEW b \in visit
                PROVE  /\ \A u \in Phis(b) \ Waiting : val[PhiOf(u).to] = PhiVal(PhiOf(u), b)
                       /\ \A u \in Inss(b) \ Waiting : InsOf(u).to # R =>
                            val[InsOf(u).to] = InsVal(InsOf(u))
    BY DEF UpToDate, Waiting, InTodo
  <2>1. ASSUME NEW u \in Phis(b), u \notin Waiting
        PROVE  val[PhiOf(u).to] = PhiVal(PhiOf(u), b)
    <3>1. u[1] = "phi" /\ u[2] = b /\ u \in Items
      BY <1>1 DEF Phis, Items
    <3>2. u \in Defs /\ Done(u)
      BY <3>1 DEF Defs, Done
    <3>. QED  BY <1>1, <2>1, <3>1, <3>2 DEF DoneRight, ToOf, ValOf
  <2>2. ASSUME NEW u \in Inss(b), u \notin Waiting, InsOf(u).to # R
        PROVE  val[InsOf(u).to] = InsVal(InsOf(u))
    <3>1. u[1] = "ins" /\ u[2] = b /\ u \in Items
      BY <1>1 DEF Inss, Items
    <3>2. u \in Defs /\ Done(u)
      BY <2>2, <3>1 DEF Defs, Done
    <3>. QED  BY <1>1, <2>2, <3>1, <3>2 DEF DoneRight, ToOf, ValOf
  <2>. QED  BY <2>1, <2>2
<1>. QED  BY <1>3, <1>4

\* The lists are empty: what was found is complete.
LEMMA EndFindFound ==
  ASSUME FindOK, EndFind
  PROVE  /\ Typed' /\ Found' /\ TrimInv'
         /\ UNCHANGED <<fn, val, dead, work, flowrk, usewrk, visit, todo, out, run>>
<1>1. fn \in Programs /\ Typed /\ None \notin Blocks /\ visit \subseteq Blocks /\ out = fn
  BY FindFacts DEF FindOK, FindInv
<1>2. /\ blk = None /\ todo = << >> /\ flowrk = NoEdge /\ usewrk = {} /\ pc' = "trim" /\ blk' = 0
      /\ UNCHANGED <<fn, val, dead, work, flowrk, usewrk, visit, todo, out, run>>
  BY DEF EndFind
<1>3. OnList = {} /\ Waiting = {}
  <2>1. OnList = {}
    BY <1>2, ListEmpty DEF FindOK
  <2>. QED  BY <1>2, <2>1 DEF Waiting, InTodo
<1>4. \A e \in Edges : ~ dead[e] => Dest(e) \in visit
  <2>. SUFFICES ASSUME NEW e \in Edges, ~ dead[e] PROVE Dest(e) \in visit
    OBVIOUS
  <2>1. Dest(e) \in visit \cup {None}
    BY <1>2 DEF FindOK, FindInv, EdgesShape
  <2>2. Dest(e) # None
    <3>1. CASE e = Start
      BY <1>1, <3>1, FnTypes DEF Dest
    <3>2. CASE e # Start
      BY <1>1, <3>2 DEF FindOK, FindInv, EdgesShape, Known
    <3>. QED  BY <3>1, <3>2
  <2>. QED  BY <2>1, <2>2
<1>5. 0 \in visit
  <2>1. ~ dead[Start] /\ Start \in Edges /\ Dest(Start) = 0
    BY <1>1, <1>3, EdgeFacts DEF FindOK, FindInv, EdgesShape, Known, Dest
  <2>. QED  BY <1>4, <2>1
<1>6. \A u \in Defs : u[2] \in visit => val[ToOf(u)] = ValOf(u)
  BY <1>3 DEF FindOK, FindInv, DoneRight, Done
<1>7. \A b \in visit : \A i \in DOMAIN Jumps(b) : ~ dead[<<b, Jumps(b)[i]>>]
  <2>. SUFFICES ASSUME NEW b \in visit, NEW i \in DOMAIN Jumps(b) PROVE ~ dead[<<b, Jumps(b)[i]>>]
    OBVIOUS
  <2>1. Done(JmpOf(b)) /\ b \in Blocks
    BY <1>1 DEF Done, JmpOf
  <2>. QED  BY <1>3, <2>1 DEF FindOK, FindInv, DoneRight
<1>8. /\ Blocks' = Blocks /\ Edges' = Edges /\ Items' = Items /\ Defs' = Defs
      /\ \A v : ToOf(v)' = ToOf(v)
      /\ \A e : Dest(e)' = Dest(e)
  BY <1>2, SameFn
<1>9. \A r : LatVal(r)' = LatVal(r)
  BY <1>2 DEF LatVal
<1>10. \A b : Jumps(b)' = Jumps(b)
  BY <1>2, <1>9, JumpsSame
<1>11. \A v \in Defs : ValOf(v)' = ValOf(v)
  <2>. SUFFICES ASSUME NEW v \in Defs PROVE ValOf(v)' = ValOf(v)
    OBVIOUS
  <2>1. \A a : DeadEdge(a, v[2])' = DeadEdge(a, v[2])
    BY <1>2 DEF DeadEdge
  <2>. QED  BY <1>1, <1>2, <2>1, ValOfSame
<1>12. Found'
  BY <1>2, <1>4, <1>5, <1>6, <1>7, <1>8, <1>10, <1>11 DEF Found
<1>13. Typed'
  BY <1>1, <1>2, <1>8 DEF Typed, TypeOK
<1>14. TrimInv'
  <2>1. out' = fn /\ fn' = fn /\ blk' = 0
    BY <1>1, <1>2
  <2>2. \A b \in Blocks : ~ (b < 0)
    BY <1>1, FnTypes
  <2>3. /\ DOMAIN fn = {"blks", "jmp", "s1", "s2", "arg", "phi", "ins"}
        /\ DOMAIN fn.jmp = Blocks /\ DOMAIN fn.arg = Blocks
        /\ DOMAIN fn.phi = Blocks /\ DOMAIN fn.ins = Blocks
        /\ fn.s1 \in [Blocks -> Blocks \cup {None}]
        /\ fn.s2 \in [Blocks -> Blocks \cup {None}]
        /\ fn.blks = Blocks
    BY <1>1, FnTypes
  <2>4. \A b \in Blocks : \A i \in DOMAIN fn.phi[b] :
          /\ DOMAIN fn.phi[b][i] = {"to", "arg"}
          /\ DOMAIN fn.phi[b][i].arg = {a \in Blocks : b \in {fn.s1[a], fn.s2[a]}}
    BY <1>1, PhiFacts DEF PhiRecs
  <2>5. \A b \in Blocks : ~ (b < blk')
    BY <2>1, <2>2
  <2>6. Shape(out)'
    BY <1>8, <2>1, <2>3, <2>4 DEF Shape
  <2>7. \A b \in Blocks' : BlkKept(out, b)' /\ ArgsAre(out, b, b < blk)'
    BY <1>8, <2>1, <2>5 DEF BlkKept, ArgsAre
  <2>8. blk' \in Nat /\ out'.blks = {b \in Blocks' : b < blk' => b \in visit'}
    BY <1>8, <2>1, <2>3, <2>5
  <2>. QED  BY <1>8, <2>5, <2>6, <2>7, <2>8 DEF TrimInv, Trimmed
<1>. QED  BY <1>2, <1>12, <1>13, <1>14

=============================================================================
