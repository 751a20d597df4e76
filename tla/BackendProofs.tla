---------------------------- MODULE BackendProofs ----------------------------
(***************************************************************************)
(* Proofs about Backend: whatever registers two blocks got, the moves of   *)
(* rega() between them bring each value to where it is expected.           *)
(***************************************************************************)
EXTENDS Backend, FiniteSetTheorems, TLAPS

LEMMA OperandFacts ==
  /\ \A t : IsTmp(Tm(t)) /\ Id(Tm(t)) = t /\ ~ IsTmp(Slot(t)) /\ Id(Slot(t)) = t
            /\ Slot(t)[1] = "slot" /\ Named(Tm(t)) = {t} /\ Named(Slot(t)) = {}
  /\ \A t, u : /\ Tm(t) # Slot(u)
               /\ Tm(t) = Tm(u) => t = u
               /\ Slot(t) = Slot(u) => t = u
BY DEF Tm, Slot, IsTmp, Id, Named, IsMem

LEMMA OnceIs ==
  ASSUME NEW e
  PROVE  Once(e) = e
BY DEF Once

LEMMA MapFacts ==
  ASSUME NEW names, NEW m \in Maps(names)
  PROVE  /\ DOMAIN m = names
         /\ \A t \in names : m[t] \in Regs
         /\ \A t, u \in names : m[t] = m[u] => t = u
BY DEF Maps

LEMMA RegsFinite ==
  /\ IsFiniteSet(Regs) /\ IsFiniteSet(Gpr) /\ IsFiniteSet(Fpr) /\ IsFiniteSet(RSave)
  /\ \A t \in Regs : t \in Int /\ t < Tmp0
<1>1. Tmp0 \in Int /\ Tmp0 - 1 \in Int /\ Regs \subseteq 1 .. Tmp0 - 1
  BY RegsAssumption
<1>2. IsFiniteSet(1 .. Tmp0 - 1)
  BY <1>1, FS_Interval
<1>3. IsFiniteSet(Regs)
  BY <1>1, <1>2, FS_Subset
<1>4. Gpr \subseteq Regs /\ Fpr \subseteq Regs /\ RSave \subseteq Regs
  BY RegsAssumption DEF Regs
<1>5. \A t \in Regs : t \in Int /\ t < Tmp0
  BY <1>1
<1>. QED  BY <1>3, <1>4, <1>5, FS_Subset

LEMMA MapFinite ==
  ASSUME NEW names, NEW m \in Maps(names)
  PROVE  IsFiniteSet(names)
<1>1. m \in Injection(names, Regs)
  BY MapFacts DEF Maps, Injection, IsInjective
<1>. QED  BY <1>1, RegsFinite, FS_Injection

-----------------------------------------------------------------------------
(***************************************************************************)
(* What spilling does to the phis of a block.                              *)
(***************************************************************************)
LEMMA ChangedFacts ==
  ASSUME NEW g, NEW b, NEW code, NEW mem, NEW jmp, {"s1", "s2", "phi"} \subseteq DOMAIN g
  PROVE  LET h == Changed(g, b, code, mem, jmp)
         IN  /\ DOMAIN h = DOMAIN g
             /\ h.s1 = g.s1 /\ h.s2 = g.s2
             /\ DOMAIN h.phi = DOMAIN g.phi
             /\ \A a \in DOMAIN g.phi :
                  h.phi[a] = IF a = b THEN [n \in DOMAIN g.phi[a] |-> PhiAt(mem, g.phi[a][n])]
                             ELSE g.phi[a]
BY DEF Changed

LEMMA PhiAtFacts ==
  ASSUME NEW mem, NEW p, NEW q, SamePhi(p, q), DOMAIN p = {"to", "cls", "arg"}, p.to = Tm(Id(p.to))
  PROVE  SamePhi(p, PhiAt(mem, q))
<1>1. Id(q.to) = Id(p.to)
  BY OperandFacts DEF SamePhi
<1>. QED  BY <1>1 DEF SamePhi, PhiAt

LEMMA SpillChanges ==
  ASSUME NEW g, NEW d, NEW s, NEW b
  PROVE  \E code, mem, jmp : SpillBlock(g, d, s, b).f = Changed(g, b, code, mem, jmp)
BY DEF SpillBlock


-----------------------------------------------------------------------------
(***************************************************************************)
(* EdgesInv is inductive.                                                  *)
(***************************************************************************)
LEMMA GivenFacts ==
  ASSUME orig \in Programs
  PROVE  /\ {"s1", "s2", "phi"} \subseteq DOMAIN orig
         /\ DOMAIN orig.phi = Blocks(orig)
         /\ \A b \in Blocks(orig) : PhisGiven(orig, b)
         /\ \A b \in Blocks(orig) : \A i \in DOMAIN orig.phi[b] :
              DOMAIN orig.phi[b][i] = {"to", "cls", "arg"}
<1>1. \A b \in Blocks(orig) : orig.phi[b] \in Seq(PhiSet(orig))
  BY ProgramsAssumption DEF PhisGiven
<1>2. \A b \in Blocks(orig) : \A i \in DOMAIN orig.phi[b] : orig.phi[b][i] \in PhiSet(orig)
  BY <1>1
<1>3. \A q \in PhiSet(orig) : DOMAIN q = {"to", "cls", "arg"}
  BY DEF PhiSet
<1>. QED  BY <1>2, <1>3, ProgramsAssumption

LEMMA InitEdges == Init => EdgesInv
<1>. SUFFICES ASSUME Init PROVE EdgesInv
  OBVIOUS
<1>1. orig \in Programs /\ f = orig /\ pc = "live"
  BY DEF Init
<1>2. SamePhis
  <2>1. \A b \in Blocks(orig) : \A i \in DOMAIN orig.phi[b] :
          SamePhi(orig.phi[b][i], orig.phi[b][i])
    BY <1>1, GivenFacts DEF SamePhi, PhisGiven
  <2>. QED  BY <1>1, <2>1, GivenFacts DEF SamePhis
<1>. QED  BY <1>1, <1>2 DEF EdgesInv

LEMMA SpillEdges == EdgesInv /\ SpillNext => EdgesInv'
<1>. SUFFICES ASSUME EdgesInv, SpillNext PROVE EdgesInv'
  OBVIOUS
<1>1. pc' = "spill" /\ orig' = orig /\ orig \in Programs /\ SamePhis
  BY DEF SpillNext, EdgesInv
<1>2. f' = SpillBlock(f, c, slot, at).f
  BY OnceIs DEF SpillNext
<1>3. PICK code, mem, jmp : f' = Changed(f, at, code, mem, jmp)
  BY <1>2, SpillChanges
<1>4. {"s1", "s2", "phi"} \subseteq DOMAIN f
  BY <1>1, GivenFacts DEF SamePhis
<1>5. /\ DOMAIN f' = DOMAIN f /\ f'.s1 = f.s1 /\ f'.s2 = f.s2
      /\ DOMAIN f'.phi = DOMAIN f.phi
      /\ \A a \in DOMAIN f.phi :
           f'.phi[a] = IF a = at THEN [n \in DOMAIN f.phi[a] |-> PhiAt(mem, f.phi[a][n])]
                       ELSE f.phi[a]
  BY <1>3, <1>4, ChangedFacts
<1>6. ASSUME NEW b \in Blocks(orig)
      PROVE  /\ DOMAIN f'.phi[b] = DOMAIN orig.phi[b]
             /\ \A i \in DOMAIN f'.phi[b] : SamePhi(orig.phi[b][i], f'.phi[b][i])
  <2>1. /\ DOMAIN f.phi[b] = DOMAIN orig.phi[b] /\ b \in DOMAIN f.phi
        /\ \A i \in DOMAIN f.phi[b] : SamePhi(orig.phi[b][i], f.phi[b][i])
    BY <1>1 DEF SamePhis
  <2>2. CASE b # at
    BY <1>5, <2>1, <2>2
  <2>3. CASE b = at
    <3>1. f'.phi[b] = [n \in DOMAIN f.phi[b] |-> PhiAt(mem, f.phi[b][n])]
      BY <1>5, <2>1, <2>3
    <3>2. \A i \in DOMAIN f.phi[b] : SamePhi(orig.phi[b][i], PhiAt(mem, f.phi[b][i]))
      <4>1. \A i \in DOMAIN orig.phi[b] :
               LET p == orig.phi[b][i] IN DOMAIN p = {"to", "cls", "arg"} /\ p.to = Tm(Id(p.to))
        BY <1>1, GivenFacts DEF PhisGiven
      <4>. QED  BY <2>1, <4>1, PhiAtFacts
    <3>. QED  BY <2>1, <3>1, <3>2
  <2>. QED  BY <2>2, <2>3
<1>7. SamePhis'
  BY <1>1, <1>5, <1>6 DEF SamePhis
<1>. QED  BY <1>1, <1>7 DEF EdgesInv


LEMMA JoinEdges ==
  ASSUME NEW s \in Blocks(f), EdgesInv, PickJoin(s)
  PROVE  EdgesInv'
<1>1. /\ pc' = "edges" /\ UNCHANGED <<orig, f, c, walk>>
      /\ join' = [to |-> s, end |-> << >>, beg |-> << >>, m |-> << >>, shared |-> {}]
  BY DEF PickJoin
<1>2. Ends'
  <2>1. DOMAIN join' = {"to", "end", "beg", "m", "shared"} /\ join'.to = s /\ join'.end = << >>
    BY <1>1
  <2>2. DOMAIN join'.end = {}
    BY <2>1
  <2>. QED  BY <1>1, <2>1, <2>2 DEF Ends
<1>. QED  BY <1>1, <1>2 DEF EdgesInv, SamePhis

LEMMA EndEdges ==
  ASSUME NEW b \in Blocks(f), EdgesInv, PickEnd(b)
  PROVE  EdgesInv'
<1>1. /\ pc = "edges" /\ pc' = pc /\ UNCHANGED <<orig, f, c, walk>>
      /\ b \in PredSet(f, join.to) /\ Ends
  BY DEF PickEnd, EdgesInv
<1>2. PICK m \in Maps(OutOf(b)) :
        join' = [join EXCEPT !.end = [a \in DOMAIN join.end \cup {b} |->
                                        IF a = b THEN m ELSE join.end[a]]]
  BY DEF PickEnd
<1>3. /\ DOMAIN join' = DOMAIN join /\ join'.to = join.to
      /\ DOMAIN join'.end = DOMAIN join.end \cup {b}
      /\ \A a \in DOMAIN join'.end : join'.end[a] = IF a = b THEN m ELSE join.end[a]
  BY <1>1, <1>2 DEF Ends
<1>4. \A names : Maps(names)' = Maps(names)
  BY <1>1 DEF Maps, IsFp
<1>5. Ends'
  <2>1. \A a \in DOMAIN join'.end : join'.end[a] \in Maps(OutOf(a))
    BY <1>1, <1>2, <1>3 DEF Ends
  <2>2. \A a \in DOMAIN join'.end : join'.end[a] \in Maps(OutOf(a))'
    BY <1>1, <2>1 DEF Maps, OutOf
  <2>. QED  BY <1>1, <1>3, <2>2 DEF Ends
<1>. QED  BY <1>1, <1>5 DEF EdgesInv, SamePhis

LEMMA BegEdges == EdgesInv /\ PickBeg => EdgesInv'
<1>. SUFFICES ASSUME EdgesInv, PickBeg PROVE EdgesInv'
  OBVIOUS
<1>1. /\ pc = "edges" /\ pc' = "joined" /\ UNCHANGED <<orig, f, c, walk>> /\ Ends
  BY DEF PickBeg, EdgesInv
<1>2. PICK beg \in Maps(Above(walk[join.to].live)) :
        \E w \in Shares(Sources(join.end, beg), beg) \cup {{}} :
          join' = [join EXCEPT !.beg = beg, !.m = Moved(Sources(join.end, beg), beg, w),
                               !.shared = SharedMoves(Sources(join.end, beg), beg, w)]
  BY DEF PickBeg
<1>. PICK src : src = Sources(join.end, beg)
  OBVIOUS
<1>3. PICK w \in Shares(src, beg) \cup {{}} :
        join' = [join EXCEPT !.beg = beg, !.m = Moved(src, beg, w),
                             !.shared = SharedMoves(src, beg, w)]
  BY <1>2
<1>4. /\ DOMAIN join' = DOMAIN join /\ join'.to = join.to /\ join'.end = join.end
      /\ join'.beg = beg /\ join'.m = Moved(src, beg, w)
      /\ join'.shared = SharedMoves(src, beg, w)
  BY <1>1, <1>3 DEF Ends
<1>5. Ends'
  <2>1. \A a \in DOMAIN join.end : join.end[a] \in Maps(OutOf(a))'
    BY <1>1 DEF Ends, Maps, OutOf
  <2>. QED  BY <1>1, <1>4, <2>1 DEF Ends
<1>6. Joined'
  <2>1. (join.beg \in Maps(Above(walk[join.to].live)))'
    BY <1>1, <1>2, <1>4 DEF Maps
  <2>2. Sources(join.end, join.beg)' = src
    <3>1. f' = f /\ join'.to = join.to /\ join'.end = join.end /\ join'.beg = beg
      BY <1>1, <1>4
    <3>2. src = Sources(join.end, beg)
      OBVIOUS
    <3>3. \A t : SourcesOf(join.end, t)' = SourcesOf(join.end, t)
      BY <3>1 DEF SourcesOf, ValueOn, PhiOf
    <3>. QED  BY <3>1, <3>2, <3>3 DEF Sources
  <2>. QED  BY <1>3, <1>4, <2>1, <2>2 DEF Joined
<1>. QED  BY <1>1, <1>5, <1>6 DEF EdgesInv, SamePhis

LEMMA OtherEdges ==
  ASSUME EdgesInv, UNCHANGED <<orig, f>>, pc' \notin {"edges", "joined"}
  PROVE  EdgesInv'
BY DEF EdgesInv, SamePhis

LEMMA NextEdges == EdgesInv /\ [Next]_vars => EdgesInv'
<1>. SUFFICES ASSUME EdgesInv, [Next]_vars PROVE EdgesInv'
  OBVIOUS
<1>1. CASE Live
  BY <1>1, OtherEdges DEF Live
<1>2. CASE SpillNext
  BY <1>2, SpillEdges
<1>3. CASE Walk
  BY <1>3, OtherEdges DEF Walk
<1>4. CASE PickBeg
  BY <1>4, BegEdges
<1>5. CASE Begin
  BY <1>5, OtherEdges DEF Begin, Run
<1>6. ASSUME NEW b \in Blocks(f), PickJoin(b) PROVE EdgesInv'
  BY <1>6, JoinEdges
<1>7. ASSUME NEW b \in Blocks(f), PickEnd(b) PROVE EdgesInv'
  BY <1>7, EndEdges
<1>8. ASSUME NEW b \in Blocks(f), Step(b) PROVE EdgesInv'
  BY <1>8, OtherEdges DEF Step, Run
<1>9. CASE UNCHANGED vars
  <2>1. UNCHANGED <<pc, orig, f, c, walk, join>>
    BY <1>9 DEF vars
  <2>2. Ends => Ends'
    BY <2>1 DEF Ends, Maps, OutOf
  <2>3. Joined => Joined'
    <3>1. (join.beg \in Maps(Above(walk[join.to].live)))' =
             (join.beg \in Maps(Above(walk[join.to].live)))
      BY <2>1 DEF Maps
    <3>2. Sources(join.end, join.beg)' = Sources(join.end, join.beg)
      BY <2>1 DEF Sources, SourcesOf, ValueOn, PhiOf
    <3>. QED  BY <2>1, <3>1, <3>2 DEF Joined
  <2>. QED  BY <2>1, <2>2, <2>3 DEF EdgesInv, SamePhis
<1>. QED  BY <1>1, <1>2, <1>3, <1>4, <1>5, <1>6, <1>7, <1>8, <1>9 DEF Next


-----------------------------------------------------------------------------
(***************************************************************************)
(* From EdgesInv to EdgesRight.                                            *)
(***************************************************************************)
LEMMA ToSetIs ==
  ASSUME NEW s
  PROVE  \A e : e \in ToSet(s) <=> \E i \in DOMAIN s : s[i] = e
BY DEF ToSet

\* Results of phis are apart, and arguments are no slots.
LEMMA PhiFacts ==
  ASSUME EdgesInv, NEW s \in Blocks(f)
  PROVE  \A p \in ToSet(f.phi[s]) :
           /\ p.to = Tm(Id(p.to)) \/ p.to = Slot(Id(p.to))
           /\ \A q \in ToSet(f.phi[s]) : Id(q.to) = Id(p.to) => q = p
           /\ \A b \in PredSet(f, s) : PhiArg(ArgFrom(p, b))
<1>1. /\ orig \in Programs /\ SamePhis /\ Blocks(f) = Blocks(orig) /\ s \in Blocks(orig)
      /\ DOMAIN f.phi[s] = DOMAIN orig.phi[s]
      /\ \A i \in DOMAIN f.phi[s] : SamePhi(orig.phi[s][i], f.phi[s][i])
  BY DEF EdgesInv, SamePhis, Blocks
<1>2. PhisGiven(orig, s)
  BY <1>1, GivenFacts
<1>3. PredSet(f, s) = PredSet(orig, s)
  BY <1>1 DEF SamePhis, PredSet, Succs, Blocks
<1>4. ASSUME NEW i \in DOMAIN f.phi[s]
      PROVE  /\ orig.phi[s][i].to = Tm(Id(orig.phi[s][i].to))
             /\ Id(f.phi[s][i].to) = Id(orig.phi[s][i].to)
             /\ \/ f.phi[s][i].to = Tm(Id(f.phi[s][i].to))
                \/ f.phi[s][i].to = Slot(Id(f.phi[s][i].to))
             /\ f.phi[s][i].arg = orig.phi[s][i].arg
  BY <1>1, <1>2, OperandFacts DEF PhisGiven, SamePhi
<1>5. ASSUME NEW i \in DOMAIN f.phi[s], NEW j \in DOMAIN f.phi[s],
             Id(f.phi[s][i].to) = Id(f.phi[s][j].to)
      PROVE  i = j
  <2>1. orig.phi[s][i].to = orig.phi[s][j].to
    BY <1>4, <1>5
  <2>. QED  BY <1>1, <1>2, <2>1 DEF PhisGiven
<1>6. ASSUME NEW i \in DOMAIN f.phi[s], NEW b \in PredSet(f, s)
      PROVE  PhiArg(ArgFrom(f.phi[s][i], b))
  <2>. PICK q : q = orig.phi[s][i]
    OBVIOUS
  <2>1. /\ \E a \in ToSet(q.arg) : a[1] = b
        /\ \A a \in ToSet(q.arg) : PhiArg(a[2])
    BY <1>1, <1>2, <1>3 DEF PhisGiven
  <2>2. ArgFrom(f.phi[s][i], b) = (CHOOSE a \in ToSet(q.arg) : a[1] = b)[2]
    BY <1>4, Zenon DEF ArgFrom
  <2>. QED  BY <2>1, <2>2
<1>. QED  BY <1>4, <1>5, <1>6, ToSetIs

\* The maps of an edge: m is one to one too.
LEMMA SharedIs ==
  ASSUME EdgesInv, pc = "joined", NEW t \in DOMAIN join.beg,
         Cardinality(SourcesOf(join.end, t)) = 1
  PROVE  \E r : SourcesOf(join.end, t) = {r} /\ SharedFrom(Sources(join.end, join.beg), t) = r
<1>1. SourcesOf(join.end, t) \subseteq Regs
  <2>1. \A b \in DOMAIN join.end : join.end[b] \in Maps(OutOf(b))
    BY DEF EdgesInv, Ends
  <2>2. \A b \in DOMAIN join.end : \A u \in DOMAIN join.end[b] : join.end[b][u] \in Regs
    BY <2>1, MapFacts
  <2>. QED  BY <2>2 DEF SourcesOf
<1>2. IsFiniteSet(SourcesOf(join.end, t))
  BY <1>1, RegsFinite, FS_Subset
<1>3. PICK r : SourcesOf(join.end, t) = {r}
  BY <1>2, FS_Singleton
<1>4. Sources(join.end, join.beg)[t] = {r}
  BY <1>3 DEF Sources
<1>. QED  BY <1>3, <1>4 DEF SharedFrom

LEMMA OnlyOne ==
  ASSUME NEW w, IsFiniteSet(w), NEW src, NEW t \in w, NEW u \in w, src[t] = src[u],
         Cardinality({v \in w : src[v] = src[t]}) = 1
  PROVE  t = u
<1>1. IsFiniteSet({v \in w : src[v] = src[t]})
  BY FS_Subset
<1>2. PICK v : {y \in w : src[y] = src[t]} = {v}
  BY <1>1, FS_Singleton
<1>. QED  BY <1>2

LEMMA JoinFacts ==
  ASSUME EdgesInv, pc = "joined"
  PROVE  \E w \in SUBSET DOMAIN join.beg :
           /\ join.m = [t \in DOMAIN join.beg |->
                          IF t \in w THEN SharedFrom(Sources(join.end, join.beg), t) ELSE join.beg[t]]
           /\ join.shared = {<<join.m[t], join.beg[t]>> : t \in w}
           /\ \A t, u \in DOMAIN join.beg : join.m[t] = join.m[u] => t = u
<1>. PICK beg : beg = join.beg
  OBVIOUS
<1>. PICK src : src = Sources(join.end, beg)
  OBVIOUS
<1>1. /\ beg \in Maps(Above(walk[join.to].live))
      /\ \E w \in Shares(src, beg) \cup {{}} :
           join.m = Moved(src, beg, w) /\ join.shared = SharedMoves(src, beg, w)
  BY DEF EdgesInv, Joined
<1>2. PICK w \in Shares(src, beg) \cup {{}} :
        join.m = Moved(src, beg, w) /\ join.shared = SharedMoves(src, beg, w)
  BY <1>1
<1>3. /\ w \subseteq Candidates(src, beg)
      /\ \A t \in w : Cardinality({u \in w : src[u] = src[t]}) = 1
  BY <1>2 DEF Shares
<1>4. w \subseteq DOMAIN beg
  BY <1>3 DEF Candidates
<1>5. IsFiniteSet(w)
  BY <1>1, <1>4, MapFacts, MapFinite, FS_Subset
<1>6. ASSUME NEW t \in w
      PROVE  src[t] = {SharedFrom(src, t)} /\ SharedFrom(src, t) \notin {beg[u] : u \in DOMAIN beg}
  <2>1. src[t] = SourcesOf(join.end, t)
    BY <1>4 DEF Sources
  <2>2. Cardinality(src[t]) = 1 /\ src[t] \cap {beg[u] : u \in DOMAIN beg} = {}
    BY <1>3 DEF Candidates
  <2>. QED  BY <1>4, <2>1, <2>2, SharedIs
<1>7. \A t, u \in DOMAIN beg : beg[t] = beg[u] => t = u
  BY <1>1, MapFacts
<1>8. join.m = [t \in DOMAIN beg |-> IF t \in w THEN SharedFrom(src, t) ELSE beg[t]]
  BY <1>2 DEF Moved
<1>9. join.shared = {<<join.m[t], beg[t]>> : t \in w}
  <2>1. \A t \in w : join.m[t] = SharedFrom(src, t)
    BY <1>4, <1>8
  <2>. QED  BY <1>2, <2>1 DEF SharedMoves
<1>10. ASSUME NEW t \in DOMAIN beg, NEW u \in DOMAIN beg, join.m[t] = join.m[u]
       PROVE  t = u
  <2>1. CASE t \in w /\ u \in w
    <3>1. src[t] = src[u]
      BY <1>6, <1>8, <1>10, <2>1
    <3>2. Cardinality({v \in w : src[v] = src[t]}) = 1
      BY <1>3, <2>1
    <3>. QED  BY <1>5, <2>1, <3>1, <3>2, OnlyOne
  <2>2. CASE t \in w /\ u \notin w
    BY <1>6, <1>8, <1>10, <2>2
  <2>3. CASE t \notin w /\ u \in w
    BY <1>6, <1>8, <1>10, <2>3
  <2>4. CASE t \notin w /\ u \notin w
    BY <1>7, <1>8, <1>10, <2>4
  <2>. QED  BY <2>1, <2>2, <2>3, <2>4
<1>11. \A t, u \in DOMAIN beg : join.m[t] = join.m[u] => t = u
  BY <1>10
<1>12. join.m = [t \in DOMAIN join.beg |->
                   IF t \in w THEN SharedFrom(Sources(join.end, join.beg), t) ELSE join.beg[t]]
  BY <1>8, Zenon
<1>13. join.shared = {<<join.m[t], join.beg[t]>> : t \in w}
  BY <1>9, Zenon
<1>. QED  BY <1>4, <1>11, <1>12, <1>13, Zenon


\* What the moves of the edge from b leave where t is expected.
FromOf(b, r) == IF IsTmp(r) THEN RRef(join.end[b], Id(r)) ELSE r

LEMMA HeldReg ==
  ASSUME NEW b, NEW k
  PROVE  Held(b, Tm(k)) = {Tm(t) : t \in {t \in DOMAIN join.end[b] : join.end[b][t] = k}}
<1>1. IsTmp(Tm(k)) /\ Id(Tm(k)) = k /\ Tm(k)[1] # "slot"
  BY OperandFacts DEF Tm
<1>2. Held(b, Tm(k)) = {Tm(t) : t \in {t \in DOMAIN join.end[b] : join.end[b][t] = Id(Tm(k))}}
  BY <1>1 DEF Held
<1>. QED  BY <1>1, <1>2, Zenon

LEMMA HeldFrom ==
  ASSUME EdgesInv, pc = "joined", NEW b \in DOMAIN join.end, NEW r, PhiArg(r)
  PROVE  Held(b, FromOf(b, r)) = {r}
<1>. PICK m : m = join.end[b]
  OBVIOUS
<1>1. \A t, u \in DOMAIN m : m[t] = m[u] => t = u
  BY MapFacts DEF EdgesInv, Ends
<1>2. CASE IsTmp(r) /\ Id(r) \in DOMAIN m
  <2>1. FromOf(b, r) = Tm(m[Id(r)]) /\ r = Tm(Id(r))
    BY <1>2 DEF FromOf, RRef, PhiArg
  <2>2. Held(b, FromOf(b, r)) = {Tm(t) : t \in {t \in DOMAIN m : m[t] = m[Id(r)]}}
    BY <2>1, HeldReg
  <2>3. {t \in DOMAIN m : m[t] = m[Id(r)]} = {Id(r)}
    BY <1>1, <1>2
  <2>. QED  BY <2>1, <2>2, <2>3
<1>3. CASE IsTmp(r) /\ Id(r) \notin DOMAIN m
  <2>1. FromOf(b, r) = Slot(Id(r)) /\ r = Tm(Id(r))
    BY <1>3 DEF FromOf, RRef, PhiArg
  <2>. QED  BY <2>1, OperandFacts DEF Held
<1>4. CASE ~ IsTmp(r)
  BY <1>4 DEF FromOf, Held, PhiArg
<1>. QED  BY <1>2, <1>3, <1>4

\* The moves into a place are those of one value.
LEMMA OneMove ==
  ASSUME EdgesInv, pc = "joined", NEW b \in DOMAIN join.end, NEW d, NEW r, PhiArg(r),
         <<FromOf(b, r), d>> \in EdgeMoves(b),
         \A e \in EdgeMoves(b) : e[2] = d => e[1] = FromOf(b, r)
  PROVE  After(b, d) = {r}
<1>1. \A e \in EdgeMoves(b) : e = <<e[1], e[2]>>
  BY DEF EdgeMoves
<1>2. {e \in EdgeMoves(b) : e[2] = d} = { <<FromOf(b, r), d>> }
  BY <1>1
<1>3. After(b, d) = UNION {Held(b, e[1]) : e \in { <<FromOf(b, r), d>> }}
  BY <1>2 DEF After
<1>4. After(b, d) = Held(b, FromOf(b, r))
  BY <1>3
<1>. QED  BY <1>4, HeldFrom

\* EdgeMoves, element by element.
LEMMA MovesAre ==
  ASSUME NEW b, NEW e
  PROVE  e \in EdgeMoves(b) <=>
           \/ \E p \in ToSet(f.phi[join.to]) :
                /\ ~ (IsTmp(p.to) /\ Id(p.to) \notin DOMAIN join.m)
                /\ e = <<FromOf(b, ArgFrom(p, b)),
                         IF IsTmp(p.to) THEN RRef(join.m, Id(p.to)) ELSE p.to>>
           \/ \E t \in InOf(join.to) : e = <<RRef(join.end[b], t), RRef(join.m, t)>>
BY DEF EdgeMoves, FromOf


LEMMA AfterReg ==
  ASSUME EdgesInv, pc = "joined", NEW b \in DOMAIN join.end, NEW t \in DOMAIN join.beg
  PROVE  After(b, Tm(join.m[t])) = {ValueOn(b, t)}
<1>. PICK s : s = join.to
  OBVIOUS
<1>1. s \in Blocks(f) /\ b \in PredSet(f, s)
  BY DEF EdgesInv, Ends
<1>2. /\ DOMAIN join.beg = Above(walk[s].live) /\ DOMAIN join.m = DOMAIN join.beg
      /\ \A u \in DOMAIN join.m : join.m[u] = join.m[t] => u = t
  BY JoinFacts, MapFacts DEF EdgesInv, Joined
<1>3. \A u : RRef(join.m, u) = Tm(join.m[t]) => u = t
  BY <1>2, OperandFacts DEF RRef
<1>4. RRef(join.m, t) = Tm(join.m[t])
  BY <1>2 DEF RRef
<1>5. CASE PhiOf(t) # {}
  <2>1. PICK p : p = (CHOOSE q \in PhiOf(t) : TRUE)
    OBVIOUS
  <2>2. p \in ToSet(f.phi[s]) /\ p.to = Tm(t) /\ ValueOn(b, t) = ArgFrom(p, b)
    BY <1>5, <2>1 DEF ValueOn, PhiOf
  <2>3. PhiArg(ArgFrom(p, b))
    BY <1>1, <2>2, PhiFacts
  <2>4. <<FromOf(b, ArgFrom(p, b)), Tm(join.m[t])>> \in EdgeMoves(b)
    BY <1>2, <1>4, <2>2, MovesAre, OperandFacts
  <2>5. ASSUME NEW e \in EdgeMoves(b), e[2] = Tm(join.m[t])
        PROVE  e[1] = FromOf(b, ArgFrom(p, b))
    <3>1. CASE \E q \in ToSet(f.phi[s]) :
                 e = <<FromOf(b, ArgFrom(q, b)),
                       IF IsTmp(q.to) THEN RRef(join.m, Id(q.to)) ELSE q.to>>
      <4>1. PICK q \in ToSet(f.phi[s]) :
                 e = <<FromOf(b, ArgFrom(q, b)),
                       IF IsTmp(q.to) THEN RRef(join.m, Id(q.to)) ELSE q.to>>
        BY <3>1
      <4>2. q.to = Tm(Id(q.to)) \/ q.to = Slot(Id(q.to))
        BY <1>1, PhiFacts
      <4>3. Id(q.to) = t
        BY <1>3, <2>5, <4>1, <4>2, OperandFacts
      <4>4. Id(p.to) = t
        BY <2>2, OperandFacts
      <4>5. q = p
        BY <1>1, <2>2, <4>3, <4>4, PhiFacts
      <4>. QED  BY <4>1, <4>5
    <3>2. CASE \E u \in InOf(s) : e = <<RRef(join.end[b], u), RRef(join.m, u)>>
      <4>1. t \in InOf(s)
        BY <1>3, <2>5, <3>2
      <4>2. t \in PhiTos(s)
        BY <2>2, OperandFacts DEF PhiTos
      <4>. QED  BY <4>1, <4>2 DEF InOf, Above
    <3>. QED  BY <3>1, <3>2, MovesAre
  <2>6. After(b, Tm(join.m[t])) = {ArgFrom(p, b)}
    BY <2>3, <2>4, <2>5, OneMove
  <2>. QED  BY <2>2, <2>6
<1>6. CASE PhiOf(t) = {}
  <2>1. ValueOn(b, t) = Tm(t)
    BY <1>6 DEF ValueOn
  <2>2. PhiArg(Tm(t)) /\ FromOf(b, Tm(t)) = RRef(join.end[b], t)
    BY OperandFacts DEF PhiArg, FromOf, Tm
  <2>3. \A p \in ToSet(f.phi[s]) : p.to # Tm(t)
    BY <1>6 DEF PhiOf
  <2>4. t \in InOf(s)
    <3>1. ASSUME NEW p \in ToSet(f.phi[s]), t \in Named(p.to) PROVE FALSE
      <4>1. p.to = Tm(Id(p.to)) \/ p.to = Slot(Id(p.to))
        BY <1>1, PhiFacts
      <4>. QED  BY <2>3, <3>1, <4>1, OperandFacts
    <3>2. t \notin PhiTos(s)
      BY <3>1 DEF PhiTos
    <3>. QED  BY <1>2, <3>2 DEF InOf, Above
  <2>5. <<FromOf(b, Tm(t)), Tm(join.m[t])>> \in EdgeMoves(b)
    BY <1>4, <2>2, <2>4, MovesAre
  <2>6. ASSUME NEW e \in EdgeMoves(b), e[2] = Tm(join.m[t])
        PROVE  e[1] = FromOf(b, Tm(t))
    <3>1. CASE \E q \in ToSet(f.phi[s]) :
                 e = <<FromOf(b, ArgFrom(q, b)),
                       IF IsTmp(q.to) THEN RRef(join.m, Id(q.to)) ELSE q.to>>
      <4>1. PICK q \in ToSet(f.phi[s]) :
                 e = <<FromOf(b, ArgFrom(q, b)),
                       IF IsTmp(q.to) THEN RRef(join.m, Id(q.to)) ELSE q.to>>
        BY <3>1
      <4>2. q.to = Tm(Id(q.to)) \/ q.to = Slot(Id(q.to))
        BY <1>1, PhiFacts
      <4>. QED  BY <1>3, <2>3, <2>6, <4>1, <4>2, OperandFacts
    <3>2. CASE \E u \in InOf(s) : e = <<RRef(join.end[b], u), RRef(join.m, u)>>
      BY <1>3, <2>2, <2>6, <3>2
    <3>. QED  BY <3>1, <3>2, MovesAre
  <2>. QED  BY <2>1, <2>2, <2>5, <2>6, OneMove
<1>. QED  BY <1>5, <1>6

LEMMA AfterSlot ==
  ASSUME EdgesInv, pc = "joined", NEW b \in DOMAIN join.end,
         NEW p \in ToSet(f.phi[join.to]), p.to[1] = "slot"
  PROVE  After(b, p.to) = {ArgFrom(p, b)}
<1>. PICK s : s = join.to
  OBVIOUS
<1>1. s \in Blocks(f) /\ b \in PredSet(f, s)
  BY DEF EdgesInv, Ends
<1>2. DOMAIN join.beg = Above(walk[s].live) /\ DOMAIN join.m = DOMAIN join.beg
  BY JoinFacts, MapFacts DEF EdgesInv, Joined
<1>3. p.to = Slot(Id(p.to)) /\ ~ IsTmp(p.to) /\ PhiArg(ArgFrom(p, b))
  BY <1>1, PhiFacts DEF IsTmp, Tm
<1>4. <<FromOf(b, ArgFrom(p, b)), p.to>> \in EdgeMoves(b)
  BY <1>3, MovesAre
<1>5. ASSUME NEW e \in EdgeMoves(b), e[2] = p.to
      PROVE  e[1] = FromOf(b, ArgFrom(p, b))
  <2>1. CASE \E q \in ToSet(f.phi[s]) :
               /\ ~ (IsTmp(q.to) /\ Id(q.to) \notin DOMAIN join.m)
               /\ e = <<FromOf(b, ArgFrom(q, b)),
                        IF IsTmp(q.to) THEN RRef(join.m, Id(q.to)) ELSE q.to>>
    <3>1. PICK q \in ToSet(f.phi[s]) :
               /\ ~ (IsTmp(q.to) /\ Id(q.to) \notin DOMAIN join.m)
               /\ e = <<FromOf(b, ArgFrom(q, b)),
                        IF IsTmp(q.to) THEN RRef(join.m, Id(q.to)) ELSE q.to>>
      BY <2>1
    <3>2. q.to = p.to
      BY <1>3, <1>5, <3>1, OperandFacts DEF RRef
    <3>3. q = p
      BY <1>1, <3>2, PhiFacts
    <3>. QED  BY <3>1, <3>3
  <2>2. CASE \E u \in InOf(s) : e = <<RRef(join.end[b], u), RRef(join.m, u)>>
    <3>1. PICK u \in InOf(s) : e = <<RRef(join.end[b], u), RRef(join.m, u)>>
      BY <2>2
    <3>2. u \in DOMAIN join.m
      BY <1>2, <3>1 DEF InOf, Above
    <3>. QED  BY <1>3, <1>5, <3>1, <3>2, OperandFacts DEF RRef
  <2>. QED  BY <2>1, <2>2, MovesAre
<1>. QED  BY <1>3, <1>4, <1>5, OneMove

LEMMA InvRight == EdgesInv => EdgesRight
<1>. SUFFICES ASSUME EdgesInv, pc = "joined", NEW b \in DOMAIN join.end
              PROVE  /\ \A t \in DOMAIN join.beg : Final(b, join.beg[t]) = {ValueOn(b, t)}
                     /\ \A p \in ToSet(f.phi[join.to]) :
                          p.to[1] = "slot" => After(b, p.to) = {ArgFrom(p, b)}
  BY DEF EdgesRight
<1>1. ASSUME NEW t \in DOMAIN join.beg
      PROVE  Final(b, join.beg[t]) = {ValueOn(b, t)}
  <2>1. PICK w \in SUBSET DOMAIN join.beg :
           /\ join.m = [u \in DOMAIN join.beg |->
                          IF u \in w THEN SharedFrom(Sources(join.end, join.beg), u) ELSE join.beg[u]]
           /\ join.shared = {<<join.m[u], join.beg[u]>> : u \in w}
    BY JoinFacts
  <2>2. \A u \in DOMAIN join.beg : join.beg[u] = join.beg[t] => u = t
    BY MapFacts DEF EdgesInv, Joined
  <2>. DEFINE moves == {e \in join.shared : e[2] = join.beg[t]}
  <2>3. After(b, Tm(join.m[t])) = {ValueOn(b, t)}
    BY AfterReg
  <2>4. CASE t \in w
    <3>1. moves = { <<join.m[t], join.beg[t]>> }
      BY <2>1, <2>2, <2>4
    <3>2. Final(b, join.beg[t]) = UNION {After(b, Tm(e[1])) : e \in { <<join.m[t], join.beg[t]>> }}
      BY <3>1 DEF Final
    <3>. QED  BY <2>3, <3>2
  <2>5. CASE t \notin w
    <3>1. moves = {} /\ join.m[t] = join.beg[t]
      BY <2>1, <2>2, <2>5
    <3>. QED  BY <2>3, <3>1 DEF Final
  <2>. QED  BY <2>4, <2>5
<1>. QED  BY <1>1, AfterSlot

-----------------------------------------------------------------------------
\* Whatever registers the blocks around an edge got, for every function and
\* every set of registers: the moves of rega() on the edge and those that all
\* edges share bring each value to where the block expects it.
THEOREM EdgesCorrect == Spec => []EdgesRight
<1>1. Spec => []EdgesInv
  BY InitEdges, NextEdges, PTL DEF Spec
<1>. QED  BY <1>1, InvRight, PTL

=============================================================================
