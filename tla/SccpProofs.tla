----------------------------- MODULE SccpProofs -----------------------------
(***************************************************************************)
(* Proofs about Sccp: for any function in ssa form, the worklists of       *)
(* fold() lose nothing, its assertions hold when nothing is undefined, and *)
(* the trimmed function does what the original does.                       *)
(***************************************************************************)
EXTENDS SccpFindProofs

-----------------------------------------------------------------------------
(* Trimming.                                                                *)

\* The phis of q are those of p, but for arguments that were dropped.
SamePhis(p, q) ==
  \A b \in Blocks :
    /\ DOMAIN q.phi[b] = DOMAIN p.phi[b]
    /\ \A i \in DOMAIN q.phi[b] :
         /\ q.phi[b][i].to = p.phi[b][i].to
         /\ DOMAIN q.phi[b][i].arg \subseteq DOMAIN p.phi[b][i].arg
         /\ \A a \in DOMAIN q.phi[b][i].arg : q.phi[b][i].arg[a] = p.phi[b][i].arg[a]

\* q is p without an edge of b.
Without(p, q, b, side) ==
  /\ Shape(q) /\ SamePhis(p, q)
  /\ q.blks = p.blks /\ q.jmp = p.jmp /\ q.arg = p.arg /\ q.ins = p.ins
  /\ q.s1 = IF side = 0 THEN [p.s1 EXCEPT ![b] = None] ELSE p.s1
  /\ q.s2 = IF side = 0 THEN p.s2 ELSE [p.s2 EXCEPT ![b] = None]

LEMMA EdgeDelFacts ==
  ASSUME fn \in Programs, NEW p, Shape(p), NEW b \in Blocks, NEW side \in {0, 1},
         NEW q, q = EdgeDel(p, b, side)
  PROVE  Without(p, q, b, side)
<1>. DEFINE d == Succ(p, b, side)
            w == IF side = 0 THEN [p EXCEPT !.s1[b] = None] ELSE [p EXCEPT !.s2[b] = None]
<1>0. None \notin Blocks
  BY FnTypes
<1>1. /\ DOMAIN p = {"blks", "jmp", "s1", "s2", "arg", "phi", "ins"}
      /\ DOMAIN p.jmp = Blocks /\ DOMAIN p.arg = Blocks
      /\ DOMAIN p.phi = Blocks /\ DOMAIN p.ins = Blocks
      /\ p.s1 \in [Blocks -> Blocks \cup {None}]
      /\ p.s2 \in [Blocks -> Blocks \cup {None}]
  BY DEF Shape
<1>2. /\ DOMAIN w = {"blks", "jmp", "s1", "s2", "arg", "phi", "ins"}
      /\ w.blks = p.blks /\ w.jmp = p.jmp /\ w.arg = p.arg /\ w.ins = p.ins /\ w.phi = p.phi
      /\ w.s1 = IF side = 0 THEN [p.s1 EXCEPT ![b] = None] ELSE p.s1
      /\ w.s2 = IF side = 0 THEN p.s2 ELSE [p.s2 EXCEPT ![b] = None]
  <2>1. CASE side = 0
    <3>1. w = [p EXCEPT !.s1 = [p.s1 EXCEPT ![b] = None]]
      BY <2>1
    <3>. HIDE DEF w
    <3>. QED  BY <1>1, <2>1, <3>1
  <2>2. CASE side = 1
    <3>1. w = [p EXCEPT !.s2 = [p.s2 EXCEPT ![b] = None]]
      BY <2>2
    <3>. HIDE DEF w
    <3>. QED  BY <1>1, <2>2, <3>1
  <2>. QED  BY <2>1, <2>2
<1>3. q = IF d = None \/ p.s1[b] = p.s2[b] THEN w ELSE [w EXCEPT !.phi[d] = DropArg(@, b)]
  BY DEF EdgeDel
<1>. HIDE DEF w
<1>4. /\ w.s1 \in [Blocks -> Blocks \cup {None}]
      /\ w.s2 \in [Blocks -> Blocks \cup {None}]
      /\ \A a \in Blocks : a # b => w.s1[a] = p.s1[a] /\ w.s2[a] = p.s2[a]
      /\ side = 0 => w.s1[b] = None /\ w.s2[b] = p.s2[b]
      /\ side = 1 => w.s1[b] = p.s1[b] /\ w.s2[b] = None
  BY <1>1, <1>2
<1>5. d = IF side = 0 THEN p.s1[b] ELSE p.s2[b]
  BY DEF Succ
<1>. HIDE DEF d
<1>6. CASE d = None \/ p.s1[b] = p.s2[b]
  <2>1. q = w
    BY <1>3, <1>6
  <2>2. \A c \in Blocks : {a \in Blocks : c \in {w.s1[a], w.s2[a]}} = {a \in Blocks : c \in {p.s1[a], p.s2[a]}}
    <3>. SUFFICES ASSUME NEW c \in Blocks, NEW a \in Blocks
                  PROVE  c \in {w.s1[a], w.s2[a]} <=> c \in {p.s1[a], p.s2[a]}
      OBVIOUS
    <3>1. CASE a = b
      BY <1>0, <1>4, <1>5, <1>6, <3>1
    <3>2. CASE a # b
      BY <1>4, <3>2
    <3>. QED  BY <3>1, <3>2
  <2>3. Shape(w)
    BY <1>1, <1>2, <1>4, <2>2 DEF Shape
  <2>4. SamePhis(p, q)
    BY <1>2, <2>1 DEF SamePhis
  <2>. QED  BY <1>2, <2>1, <2>3, <2>4 DEF Without
<1>7. CASE ~ (d = None \/ p.s1[b] = p.s2[b])
  <2>1. q = [w EXCEPT !.phi = [p.phi EXCEPT ![d] = DropArg(p.phi[d], b)]]
    BY <1>2, <1>3, <1>7
  <2>2. d \in Blocks
    BY <1>1, <1>5, <1>7
  <2>3. /\ DOMAIN q = {"blks", "jmp", "s1", "s2", "arg", "phi", "ins"}
        /\ q.blks = p.blks /\ q.jmp = p.jmp /\ q.arg = p.arg /\ q.ins = p.ins
        /\ q.s1 = w.s1 /\ q.s2 = w.s2
        /\ q.phi = [p.phi EXCEPT ![d] = DropArg(p.phi[d], b)]
    BY <1>2, <2>1
  <2>4. /\ DOMAIN q.phi = Blocks
        /\ \A c \in Blocks : c # d => q.phi[c] = p.phi[c]
        /\ q.phi[d] = DropArg(p.phi[d], b)
    BY <1>1, <2>2, <2>3
  <2>5. DOMAIN q.phi[d] = DOMAIN p.phi[d]
    BY <2>4 DEF DropArg
  <2>6. \A i \in DOMAIN p.phi[d] :
          /\ DOMAIN q.phi[d][i] = {"to", "arg"}
          /\ q.phi[d][i].to = p.phi[d][i].to
          /\ q.phi[d][i].arg = [x \in DOMAIN p.phi[d][i].arg \ {b} |-> p.phi[d][i].arg[x]]
    <3>. SUFFICES ASSUME NEW i \in DOMAIN p.phi[d]
                  PROVE  /\ DOMAIN q.phi[d][i] = {"to", "arg"}
                         /\ q.phi[d][i].to = p.phi[d][i].to
                         /\ q.phi[d][i].arg = [x \in DOMAIN p.phi[d][i].arg \ {b} |-> p.phi[d][i].arg[x]]
      OBVIOUS
    <3>. DEFINE r == p.phi[d][i]
                g == [x \in DOMAIN r.arg \ {b} |-> r.arg[x]]
    <3>1. q.phi[d][i] = [r EXCEPT !.arg = g]
      BY <2>4 DEF DropArg
    <3>2. DOMAIN r = {"to", "arg"}
      BY <2>2 DEF Shape
    <3>. HIDE DEF r, g
    <3>3. DOMAIN [r EXCEPT !.arg = g] = {"to", "arg"} /\ [r EXCEPT !.arg = g].to = r.to
          /\ [r EXCEPT !.arg = g].arg = g
      BY <3>2
    <3>. QED  BY <3>1, <3>3 DEF r, g
  <2>7. {a \in Blocks : d \in {q.s1[a], q.s2[a]}} = {a \in Blocks : d \in {p.s1[a], p.s2[a]}} \ {b}
    <3>. SUFFICES ASSUME NEW a \in Blocks
                  PROVE  d \in {q.s1[a], q.s2[a]} <=> d \in {p.s1[a], p.s2[a]} /\ a # b
      OBVIOUS
    <3>1. CASE a = b
      BY <1>0, <1>4, <1>5, <1>7, <2>2, <2>3, <3>1
    <3>2. CASE a # b
      BY <1>4, <2>3, <3>2
    <3>. QED  BY <3>1, <3>2
  <2>8. \A c \in Blocks : c # d =>
          {a \in Blocks : c \in {q.s1[a], q.s2[a]}} = {a \in Blocks : c \in {p.s1[a], p.s2[a]}}
    <3>. SUFFICES ASSUME NEW c \in Blocks, c # d, NEW a \in Blocks
                  PROVE  c \in {q.s1[a], q.s2[a]} <=> c \in {p.s1[a], p.s2[a]}
      OBVIOUS
    <3>1. CASE a = b
      BY <1>0, <1>4, <1>5, <2>3, <3>1
    <3>2. CASE a # b
      BY <1>4, <2>3, <3>2
    <3>. QED  BY <3>1, <3>2
  <2>9. ASSUME NEW c \in Blocks, NEW i \in DOMAIN q.phi[c]
        PROVE  /\ i \in DOMAIN p.phi[c]
               /\ DOMAIN q.phi[c][i] = {"to", "arg"}
               /\ q.phi[c][i].to = p.phi[c][i].to
               /\ DOMAIN q.phi[c][i].arg = {a \in Blocks : c \in {q.s1[a], q.s2[a]}}
               /\ DOMAIN q.phi[c][i].arg \subseteq DOMAIN p.phi[c][i].arg
               /\ \A a \in DOMAIN q.phi[c][i].arg : q.phi[c][i].arg[a] = p.phi[c][i].arg[a]
    <3>1. CASE c = d
      <4>1. i \in DOMAIN p.phi[d]
        BY <2>5, <2>9, <3>1
      <4>2. DOMAIN p.phi[d][i].arg = {a \in Blocks : d \in {p.s1[a], p.s2[a]}}
        BY <2>2, <4>1 DEF Shape
      <4>3. DOMAIN q.phi[d][i].arg = DOMAIN p.phi[d][i].arg \ {b}
        BY <2>6, <4>1
      <4>4. \A a \in DOMAIN q.phi[d][i].arg : q.phi[d][i].arg[a] = p.phi[d][i].arg[a]
        BY <2>6, <4>1
      <4>. QED  BY <2>6, <2>7, <3>1, <4>1, <4>2, <4>3, <4>4
    <3>2. CASE c # d
      <4>1. q.phi[c] = p.phi[c]
        BY <2>4, <3>2
      <4>. QED  BY <2>8, <2>9, <3>2, <4>1 DEF Shape
    <3>. QED  BY <3>1, <3>2
  <2>10. Shape(q)
    BY <1>1, <1>4, <2>3, <2>4, <2>9 DEF Shape
  <2>11. SamePhis(p, q)
    BY <2>4, <2>5, <2>9 DEF SamePhis
  <2>. QED  BY <1>2, <2>3, <2>10, <2>11 DEF Without
<1>. QED  BY <1>6, <1>7

LEMMA FoundSame ==
  ASSUME Typed, Found, pc' \in {"trim", "run", "end"},
         UNCHANGED <<fn, val, dead, work, flowrk, usewrk, visit, todo>>
  PROVE  Typed' /\ Found'
<1>1. fn \in Programs
  BY DEF Typed, TypeOK
<1>2. /\ Blocks' = Blocks /\ Edges' = Edges /\ Items' = Items /\ Defs' = Defs
      /\ \A v : ToOf(v)' = ToOf(v)
      /\ \A e : Dest(e)' = Dest(e)
  BY SameFn
<1>3. \A r : LatVal(r)' = LatVal(r)
  BY DEF LatVal
<1>4. \A b : Jumps(b)' = Jumps(b)
  BY <1>3, JumpsSame
<1>5. \A v \in Defs : ValOf(v)' = ValOf(v)
  <2>. SUFFICES ASSUME NEW v \in Defs PROVE ValOf(v)' = ValOf(v)
    OBVIOUS
  <2>1. \A a : DeadEdge(a, v[2])' = DeadEdge(a, v[2])
    BY DEF DeadEdge
  <2>. QED  BY <2>1, ValOfSame
<1>6. Found'
  BY <1>2, <1>4, <1>5 DEF Found
<1>7. Typed'
  BY <1>2 DEF Typed, TypeOK
<1>. QED  BY <1>6, <1>7

LEMMA SamePhisArgs ==
  ASSUME NEW p, NEW q, SamePhis(p, q), NEW b \in Blocks, NEW t, ArgsAre(p, b, t)
  PROVE  ArgsAre(q, b, t)
<1>. SUFFICES ASSUME NEW i \in DOMAIN q.phi[b]
              PROVE  /\ q.phi[b][i].to = fn.phi[b][i].to
                     /\ \A a \in DOMAIN q.phi[b][i].arg :
                          q.phi[b][i].arg[a] = IF t /\ b \in visit /\ ~ DeadEdge(a, b)
                                               THEN RenRef(fn.phi[b][i].arg[a]) ELSE fn.phi[b][i].arg[a]
  BY DEF ArgsAre
<1>1. /\ i \in DOMAIN p.phi[b] /\ q.phi[b][i].to = p.phi[b][i].to
      /\ \A a \in DOMAIN q.phi[b][i].arg :
           a \in DOMAIN p.phi[b][i].arg /\ q.phi[b][i].arg[a] = p.phi[b][i].arg[a]
  BY DEF SamePhis
<1>. QED  BY <1>1 DEF ArgsAre

LEMMA SamePhisOf ==
  ASSUME NEW p, NEW q, NEW r, SamePhis(p, q), r.phi = q.phi
  PROVE  SamePhis(p, r)
BY DEF SamePhis

LEMMA SamePhisTrans ==
  ASSUME NEW p, NEW q, NEW r, SamePhis(p, q), SamePhis(q, r)
  PROVE  SamePhis(p, r)
<1>. SUFFICES ASSUME NEW b \in Blocks
              PROVE  /\ DOMAIN r.phi[b] = DOMAIN p.phi[b]
                     /\ \A i \in DOMAIN r.phi[b] :
                          /\ r.phi[b][i].to = p.phi[b][i].to
                          /\ DOMAIN r.phi[b][i].arg \subseteq DOMAIN p.phi[b][i].arg
                          /\ \A a \in DOMAIN r.phi[b][i].arg : r.phi[b][i].arg[a] = p.phi[b][i].arg[a]
  BY DEF SamePhis
<1>1. DOMAIN q.phi[b] = DOMAIN p.phi[b] /\ DOMAIN r.phi[b] = DOMAIN q.phi[b]
  BY DEF SamePhis
<1>2. ASSUME NEW i \in DOMAIN r.phi[b]
      PROVE  /\ r.phi[b][i].to = p.phi[b][i].to
             /\ DOMAIN r.phi[b][i].arg \subseteq DOMAIN p.phi[b][i].arg
             /\ \A a \in DOMAIN r.phi[b][i].arg : r.phi[b][i].arg[a] = p.phi[b][i].arg[a]
  <2>1. /\ r.phi[b][i].to = q.phi[b][i].to
        /\ DOMAIN r.phi[b][i].arg \subseteq DOMAIN q.phi[b][i].arg
        /\ \A a \in DOMAIN r.phi[b][i].arg : r.phi[b][i].arg[a] = q.phi[b][i].arg[a]
    BY <1>2 DEF SamePhis
  <2>2. /\ q.phi[b][i].to = p.phi[b][i].to
        /\ DOMAIN q.phi[b][i].arg \subseteq DOMAIN p.phi[b][i].arg
        /\ \A a \in DOMAIN q.phi[b][i].arg : q.phi[b][i].arg[a] = p.phi[b][i].arg[a]
    BY <1>1, <1>2 DEF SamePhis
  <2>. QED  BY <2>1, <2>2
<1>. QED  BY <1>1, <1>2

\* A block that no edge reached is removed, with its edges.
LEMMA TrimDead ==
  ASSUME fn \in Programs, NEW k \in Blocks, Trimmed(out, k), k \notin visit, NEW o,
         o = [EdgeDel(EdgeDel(out, k, 0), k, 1) EXCEPT !.blks = @ \ {k}]
  PROVE  Trimmed(o, k + 1)
<1>. PICK p : p = EdgeDel(out, k, 0)
  OBVIOUS
<1>. PICK q : q = EdgeDel(p, k, 1)
  OBVIOUS
<1>1. /\ k \in Nat /\ Shape(out) /\ None \notin Blocks /\ Blocks \subseteq Nat
      /\ out.s1 \in [Blocks -> Blocks \cup {None}]
      /\ out.s2 \in [Blocks -> Blocks \cup {None}]
  BY FnTypes DEF Trimmed, Shape
<1>3. /\ Shape(p) /\ SamePhis(out, p)
      /\ p.blks = out.blks /\ p.jmp = out.jmp /\ p.arg = out.arg /\ p.ins = out.ins
      /\ p.s1 = [out.s1 EXCEPT ![k] = None] /\ p.s2 = out.s2
  <2>1. Without(out, p, k, 0)
    BY <1>1, EdgeDelFacts
  <2>. QED  BY <2>1 DEF Without
<1>4. /\ Shape(q) /\ SamePhis(p, q)
      /\ q.blks = p.blks /\ q.jmp = p.jmp /\ q.arg = p.arg /\ q.ins = p.ins
      /\ q.s1 = p.s1 /\ q.s2 = [p.s2 EXCEPT ![k] = None]
  <2>1. Without(p, q, k, 1)
    BY <1>3, EdgeDelFacts
  <2>. QED  BY <2>1 DEF Without
<1>5. /\ DOMAIN o = DOMAIN q /\ o.blks = out.blks \ {k}
      /\ o.jmp = out.jmp /\ o.arg = out.arg /\ o.ins = out.ins /\ o.phi = q.phi
      /\ o.s1 = [out.s1 EXCEPT ![k] = None] /\ o.s2 = [out.s2 EXCEPT ![k] = None]
  <2>1. o = [q EXCEPT !.blks = q.blks \ {k}]
    OBVIOUS
  <2>2. DOMAIN q = {"blks", "jmp", "s1", "s2", "arg", "phi", "ins"}
    BY <1>4 DEF Shape
  <2>. QED  BY <1>3, <1>4, <2>1, <2>2
<1>6. Shape(o)
  BY <1>4, <1>5, <1>3 DEF Shape
<1>7. SamePhis(out, o)
  <2>1. SamePhis(p, o)
    BY <1>4, <1>5 DEF SamePhis
  <2>. QED  BY <1>3, <2>1, SamePhisTrans
<1>8. /\ \A a \in Blocks : a # k => o.s1[a] = out.s1[a] /\ o.s2[a] = out.s2[a]
      /\ o.s1[k] = None /\ o.s2[k] = None
  BY <1>1, <1>5
<1>9. \A b \in Blocks : (b < k + 1 <=> b < k \/ b = k) /\ ~ (k < k)
  BY <1>1
<1>10. o.blks = {b \in Blocks : b < k + 1 => b \in visit}
  BY <1>5, <1>9 DEF Trimmed
<1>12. ASSUME NEW b \in Blocks
       PROVE  /\ b < k + 1 /\ b \in visit => BlkTrimmed(o, b)
              /\ b < k + 1 /\ b \notin visit => o.s1[b] = None /\ o.s2[b] = None
              /\ ~ (b < k + 1) => BlkKept(o, b)
              /\ ArgsAre(o, b, b < k + 1)
  <2>1. ArgsAre(out, b, b < k)
    BY DEF Trimmed
  <2>2. ArgsAre(o, b, b < k)
    BY <1>7, <2>1, SamePhisArgs
  <2>3. ArgsAre(o, b, b < k + 1)
    BY <1>9, <2>2 DEF ArgsAre
  <2>4. DOMAIN o.phi[b] = DOMAIN out.phi[b]
    BY <1>7 DEF SamePhis
  <2>5. CASE b = k
    BY <1>8, <1>9, <2>3, <2>5
  <2>6. CASE b # k
    <3>1. /\ o.s1[b] = out.s1[b] /\ o.s2[b] = out.s2[b] /\ o.jmp[b] = out.jmp[b]
          /\ o.arg[b] = out.arg[b] /\ o.ins[b] = out.ins[b]
      BY <1>5, <1>8, <2>6
    <3>2. BlkTrimmed(out, b) => BlkTrimmed(o, b)
      BY <2>4, <3>1 DEF BlkTrimmed
    <3>3. BlkKept(out, b) => BlkKept(o, b)
      BY <2>4, <3>1 DEF BlkKept
    <3>. QED  BY <1>9, <2>3, <2>6, <3>1, <3>2, <3>3 DEF Trimmed
  <2>. QED  BY <2>5, <2>6
<1>13. k + 1 \in Nat
  BY <1>1
<1>. QED  BY <1>6, <1>10, <1>12, <1>13 DEF Trimmed

\* q is out with the phis and the instructions of k trimmed.
Renamed(q, k) ==
  /\ Shape(q)
  /\ q.blks = out.blks /\ q.jmp = out.jmp /\ q.arg = out.arg
  /\ q.s1 = out.s1 /\ q.s2 = out.s2
  /\ \A c \in Blocks : c # k => q.ins[c] = out.ins[c] /\ q.phi[c] = out.phi[c]
  /\ q.ins[k] = [i \in DOMAIN fn.ins[k] |-> RenIns(fn.ins[k][i])]
  /\ DOMAIN q.phi[k] = {i \in DOMAIN fn.phi[k] : val[fn.phi[k][i].to] = Bot}
  /\ ArgsAre(q, k, TRUE)

JmpTrimmed(o, k) ==
  [jmp |-> o.jmp[k], arg |-> o.arg[k], s1 |-> o.s1[k], s2 |-> o.s2[k]] = TrimmedJmp(k)

\* The jump of q at other blocks than k is that of p.
SameJmps(p, q, k) ==
  \A c \in Blocks : c # k => /\ q.jmp[c] = p.jmp[c] /\ q.arg[c] = p.arg[c]
                             /\ q.s1[c] = p.s1[c] /\ q.s2[c] = p.s2[c]

\* The phis and the instructions of a block that was reached.
LEMMA RenFacts ==
  ASSUME fn \in Programs, NEW k \in Blocks, Trimmed(out, k), k \in visit, NEW q,
         q = [out EXCEPT !.phi[k] = RenPhis(@, k), !.ins[k] = [i \in DOMAIN @ |-> RenIns(@[i])]]
  PROVE  Renamed(q, k)
<1>. DEFINE phis == RenPhis(out.phi[k], k)
            inss == [i \in DOMAIN out.ins[k] |-> RenIns(out.ins[k][i])]
<1>1. /\ Shape(out) /\ k \in Nat /\ BlkKept(out, k) /\ ArgsAre(out, k, FALSE)
  <2>1. ~ (k < k) /\ k \in Nat
    BY FnTypes
  <2>2. BlkKept(out, k) /\ ArgsAre(out, k, k < k)
    BY <2>1 DEF Trimmed
  <2>. QED  BY <2>1, <2>2 DEF Trimmed, ArgsAre
<1>2. q = [out EXCEPT !.phi = [out.phi EXCEPT ![k] = phis], !.ins = [out.ins EXCEPT ![k] = inss]]
  BY Zenon
<1>3. /\ DOMAIN out = {"blks", "jmp", "s1", "s2", "arg", "phi", "ins"}
      /\ DOMAIN out.phi = Blocks /\ DOMAIN out.ins = Blocks
  BY <1>1 DEF Shape
<1>4. inss = [i \in DOMAIN fn.ins[k] |-> RenIns(fn.ins[k][i])]
  BY <1>1, Zenon DEF BlkKept
<1>5. /\ DOMAIN phis = {i \in DOMAIN out.phi[k] : val[out.phi[k][i].to] = Bot}
      /\ \A i \in DOMAIN phis :
           phis[i] = [out.phi[k][i] EXCEPT !.arg =
             [b \in DOMAIN out.phi[k][i].arg |->
               IF DeadEdge(b, k) THEN out.phi[k][i].arg[b] ELSE RenRef(out.phi[k][i].arg[b])]]
  BY Zenon DEF RenPhis
<1>. HIDE DEF phis, inss
<1>6. /\ DOMAIN q = {"blks", "jmp", "s1", "s2", "arg", "phi", "ins"}
      /\ q.blks = out.blks /\ q.jmp = out.jmp /\ q.arg = out.arg
      /\ q.s1 = out.s1 /\ q.s2 = out.s2
      /\ q.phi = [out.phi EXCEPT ![k] = phis] /\ q.ins = [out.ins EXCEPT ![k] = inss]
  BY <1>2, <1>3
<1>7. /\ DOMAIN q.phi = Blocks /\ DOMAIN q.ins = Blocks
      /\ q.phi[k] = phis /\ q.ins[k] = inss
      /\ \A c \in Blocks : c # k => q.ins[c] = out.ins[c] /\ q.phi[c] = out.phi[c]
  BY <1>3, <1>6
<1>8. ASSUME NEW i \in DOMAIN phis
      PROVE  /\ i \in DOMAIN out.phi[k]
             /\ DOMAIN phis[i] = {"to", "arg"}
             /\ phis[i].to = out.phi[k][i].to
             /\ phis[i].arg = [b \in DOMAIN out.phi[k][i].arg |->
                  IF DeadEdge(b, k) THEN out.phi[k][i].arg[b] ELSE RenRef(out.phi[k][i].arg[b])]
  <2>. DEFINE r == out.phi[k][i]
              g == [b \in DOMAIN r.arg |-> IF DeadEdge(b, k) THEN r.arg[b] ELSE RenRef(r.arg[b])]
  <2>1. i \in DOMAIN out.phi[k]
    BY <1>5
  <2>2. phis[i] = [r EXCEPT !.arg = g]
    BY <1>5
  <2>3. DOMAIN r = {"to", "arg"}
    BY <1>1, <2>1 DEF Shape
  <2>. HIDE DEF r, g
  <2>4. DOMAIN [r EXCEPT !.arg = g] = {"to", "arg"} /\ [r EXCEPT !.arg = g].to = r.to
        /\ [r EXCEPT !.arg = g].arg = g
    BY <2>3
  <2>. QED  BY <2>1, <2>2, <2>4 DEF r, g
<1>9. ASSUME NEW b \in Blocks, NEW i \in DOMAIN q.phi[b]
      PROVE  /\ DOMAIN q.phi[b][i] = {"to", "arg"}
             /\ DOMAIN q.phi[b][i].arg = {a \in Blocks : b \in {q.s1[a], q.s2[a]}}
  <2>1. CASE b # k
    BY <1>1, <1>6, <1>7, <2>1 DEF Shape
  <2>2. CASE b = k
    <3>1. i \in DOMAIN phis /\ q.phi[b][i] = phis[i]
      BY <1>7, <2>2
    <3>2. DOMAIN phis[i].arg = DOMAIN out.phi[k][i].arg
      BY <1>8, <3>1
    <3>3. DOMAIN out.phi[k][i].arg = {a \in Blocks : k \in {out.s1[a], out.s2[a]}}
      BY <1>1, <1>8, <3>1 DEF Shape
    <3>. QED  BY <1>6, <1>8, <2>2, <3>1, <3>2, <3>3
  <2>. QED  BY <2>1, <2>2
<1>10. Shape(q)
  BY <1>1, <1>6, <1>7, <1>9 DEF Shape
<1>11. DOMAIN q.phi[k] = {i \in DOMAIN fn.phi[k] : val[fn.phi[k][i].to] = Bot}
  <2>1. DOMAIN out.phi[k] = DOMAIN fn.phi[k]
    BY <1>1 DEF BlkKept
  <2>2. \A i \in DOMAIN out.phi[k] : out.phi[k][i].to = fn.phi[k][i].to
    BY <1>1 DEF ArgsAre
  <2>. QED  BY <1>5, <1>7, <2>1, <2>2
<1>12. ArgsAre(q, k, TRUE)
  <2>. SUFFICES ASSUME NEW i \in DOMAIN phis
                PROVE  /\ phis[i].to = fn.phi[k][i].to
                       /\ \A a \in DOMAIN phis[i].arg :
                            phis[i].arg[a] = IF ~ DeadEdge(a, k) THEN RenRef(fn.phi[k][i].arg[a])
                                             ELSE fn.phi[k][i].arg[a]
    BY <1>7 DEF ArgsAre
  <2>1. /\ out.phi[k][i].to = fn.phi[k][i].to
        /\ \A a \in DOMAIN out.phi[k][i].arg : out.phi[k][i].arg[a] = fn.phi[k][i].arg[a]
    BY <1>1, <1>8 DEF ArgsAre
  <2>2. phis[i].to = fn.phi[k][i].to
    BY <1>8, <2>1
  <2>3. ASSUME NEW a \in DOMAIN phis[i].arg
        PROVE  phis[i].arg[a] = IF ~ DeadEdge(a, k) THEN RenRef(fn.phi[k][i].arg[a])
                                ELSE fn.phi[k][i].arg[a]
    <3>. PICK g : g = out.phi[k][i].arg
      OBVIOUS
    <3>1. phis[i].arg = [b \in DOMAIN g |-> IF DeadEdge(b, k) THEN g[b] ELSE RenRef(g[b])]
      BY <1>8
    <3>2. a \in DOMAIN g
      BY <2>3, <3>1
    <3>3. g[a] = fn.phi[k][i].arg[a]
      BY <2>1, <3>2
    <3>. QED  BY <3>1, <3>2, <3>3
  <2>. QED  BY <2>2, <2>3
<1>. QED  BY <1>4, <1>6, <1>7, <1>10, <1>11, <1>12 DEF Renamed

\* The parts of a trimmed block make a function that is trimmed up to it.
LEMMA TrimmedNext ==
  ASSUME fn \in Programs, NEW k \in Blocks, Trimmed(out, k), k \in visit,
         NEW q, NEW o, Renamed(q, k), Shape(o), SamePhis(q, o),
         o.ins = q.ins, o.blks = out.blks, SameJmps(out, o, k), JmpTrimmed(o, k)
  PROVE  Trimmed(o, k + 1)
<1>1. k \in Nat /\ Blocks \subseteq Nat
  BY FnTypes
<1>2. \A b \in Blocks : (b < k + 1 <=> b < k \/ b = k) /\ ~ (k < k)
  BY <1>1
<1>3. o.blks = {b \in Blocks : b < k + 1 => b \in visit}
  BY <1>2 DEF Trimmed
<1>4. \A b \in Blocks : DOMAIN o.phi[b] = DOMAIN q.phi[b]
  BY DEF SamePhis
<1>5. ASSUME NEW b \in Blocks
      PROVE  /\ b < k + 1 /\ b \in visit => BlkTrimmed(o, b)
             /\ b < k + 1 /\ b \notin visit => o.s1[b] = None /\ o.s2[b] = None
             /\ ~ (b < k + 1) => BlkKept(o, b)
             /\ ArgsAre(o, b, b < k + 1)
  <2>1. CASE b = k
    <3>1. ArgsAre(o, k, TRUE)
      BY SamePhisArgs DEF Renamed
    <3>2. BlkTrimmed(o, k)
      BY <1>4 DEF BlkTrimmed, Renamed, JmpTrimmed
    <3>3. (k < k + 1) = TRUE
      BY <1>1
    <3>. QED  BY <2>1, <3>1, <3>2, <3>3
  <2>2. CASE b # k
    <3>1. /\ o.s1[b] = out.s1[b] /\ o.s2[b] = out.s2[b] /\ o.jmp[b] = out.jmp[b]
          /\ o.arg[b] = out.arg[b] /\ o.ins[b] = out.ins[b] /\ q.phi[b] = out.phi[b]
          /\ DOMAIN o.phi[b] = DOMAIN out.phi[b]
      BY <1>4, <2>2 DEF Renamed, SameJmps
    <3>2. BlkTrimmed(out, b) => BlkTrimmed(o, b)
      BY <3>1 DEF BlkTrimmed
    <3>3. BlkKept(out, b) => BlkKept(o, b)
      BY <3>1 DEF BlkKept
    <3>4. (b < k + 1) = (b < k)
      BY <1>2, <2>2
    <3>5. ArgsAre(out, b, b < k)
      BY DEF Trimmed
    <3>6. ArgsAre(q, b, b < k)
      BY <3>1, <3>5 DEF ArgsAre
    <3>7. ArgsAre(o, b, b < k)
      BY <3>6, SamePhisArgs
    <3>. QED  BY <3>1, <3>2, <3>3, <3>4, <3>7 DEF Trimmed
  <2>. QED  BY <2>1, <2>2
<1>6. k + 1 \in Nat
  BY <1>1
<1>. QED  BY <1>3, <1>5, <1>6 DEF Trimmed

\* o is r with the jump of k made a jmp; r is p without an edge of k.
Rewired(p, r, o, k, side) ==
  /\ DOMAIN o = DOMAIN r /\ o.phi = r.phi /\ o.ins = r.ins /\ o.blks = r.blks
  /\ o.jmp = [r.jmp EXCEPT ![k] = "jmp"]
  /\ o.arg = [r.arg EXCEPT ![k] = R]
  /\ o.s1 = IF side = 0 THEN [r.s1 EXCEPT ![k] = p.s2[k]] ELSE r.s1
  /\ o.s2 = IF side = 0 THEN [r.s2 EXCEPT ![k] = None] ELSE r.s2

\* o is p with the jump of k to one of the blocks it led to.
Rejumped(p, o, k, side) ==
  /\ Shape(o) /\ SamePhis(p, o) /\ SameJmps(p, o, k)
  /\ o.ins = p.ins /\ o.blks = p.blks
  /\ o.jmp[k] = "jmp" /\ o.arg[k] = R
  /\ o.s1[k] = (IF side = 0 THEN p.s2[k] ELSE p.s1[k]) /\ o.s2[k] = None

LEMMA RewiredFacts ==
  ASSUME fn \in Programs, NEW k \in Blocks, NEW p, NEW r, NEW o, NEW side \in {0, 1},
         Shape(p), Without(p, r, k, side), Rewired(p, r, o, k, side)
  PROVE  Rejumped(p, o, k, side)
<1>1. /\ DOMAIN p.jmp = Blocks /\ DOMAIN p.arg = Blocks
      /\ p.s1 \in [Blocks -> Blocks \cup {None}] /\ p.s2 \in [Blocks -> Blocks \cup {None}]
  BY DEF Shape
<1>2. Shape(r) /\ SamePhis(p, r) /\ r.jmp = p.jmp /\ r.arg = p.arg /\ r.ins = p.ins /\ r.blks = p.blks
  BY DEF Without
<1>3. /\ DOMAIN o = DOMAIN r /\ o.phi = r.phi /\ o.ins = r.ins /\ o.blks = r.blks
      /\ o.jmp = [p.jmp EXCEPT ![k] = "jmp"] /\ o.arg = [p.arg EXCEPT ![k] = R]
  BY <1>2 DEF Rewired
<1>4. /\ DOMAIN r = {"blks", "jmp", "s1", "s2", "arg", "phi", "ins"}
      /\ DOMAIN r.phi = Blocks /\ DOMAIN r.ins = Blocks
      /\ r.s1 \in [Blocks -> Blocks \cup {None}] /\ r.s2 \in [Blocks -> Blocks \cup {None}]
  BY <1>2 DEF Shape
<1>5. /\ DOMAIN o.jmp = Blocks /\ o.jmp[k] = "jmp"
      /\ \A c \in Blocks : c # k => o.jmp[c] = p.jmp[c]
  BY <1>1, <1>3
<1>6. /\ DOMAIN o.arg = Blocks /\ o.arg[k] = R
      /\ \A c \in Blocks : c # k => o.arg[c] = p.arg[c]
  BY <1>1, <1>3
<1>7. /\ \A c \in Blocks : c # k => r.s1[c] = p.s1[c] /\ r.s2[c] = p.s2[c]
      /\ side = 0 => r.s1[k] = None /\ r.s2[k] = p.s2[k]
      /\ side = 1 => r.s1[k] = p.s1[k] /\ r.s2[k] = None
  BY <1>1 DEF Without
<1>8. /\ o.s1 \in [Blocks -> Blocks \cup {None}] /\ o.s2 \in [Blocks -> Blocks \cup {None}]
      /\ o.s1[k] = (IF side = 0 THEN p.s2[k] ELSE p.s1[k]) /\ o.s2[k] = None
      /\ \A c \in Blocks : c # k => o.s1[c] = p.s1[c] /\ o.s2[c] = p.s2[c]
  <2>1. CASE side = 0
    <3>1. o.s1 = [r.s1 EXCEPT ![k] = p.s2[k]] /\ o.s2 = [r.s2 EXCEPT ![k] = None]
      BY <2>1 DEF Rewired
    <3>2. p.s2[k] \in Blocks \cup {None}
      BY <1>1
    <3>. QED  BY <1>4, <1>7, <2>1, <3>1, <3>2
  <2>2. CASE side = 1
    <3>1. o.s1 = r.s1 /\ o.s2 = r.s2
      BY <2>2 DEF Rewired
    <3>. QED  BY <1>4, <1>7, <2>2, <3>1
  <2>. QED  BY <2>1, <2>2
<1>9. ASSUME NEW b \in Blocks
      PROVE  {c \in Blocks : b \in {o.s1[c], o.s2[c]}} = {c \in Blocks : b \in {r.s1[c], r.s2[c]}}
  <2>. SUFFICES ASSUME NEW c \in Blocks
                PROVE  b \in {o.s1[c], o.s2[c]} <=> b \in {r.s1[c], r.s2[c]}
    OBVIOUS
  <2>1. None \notin Blocks
    BY FnTypes
  <2>2. CASE c = k
    BY <1>7, <1>8, <2>1, <2>2
  <2>3. CASE c # k
    BY <1>7, <1>8, <2>3
  <2>. QED  BY <2>2, <2>3
<1>10. ASSUME NEW b \in Blocks, NEW i \in DOMAIN o.phi[b]
       PROVE  /\ DOMAIN o.phi[b][i] = {"to", "arg"}
              /\ DOMAIN o.phi[b][i].arg = {c \in Blocks : b \in {o.s1[c], o.s2[c]}}
  <2>1. i \in DOMAIN r.phi[b]
    BY <1>3, <1>10
  <2>2. /\ DOMAIN r.phi[b][i] = {"to", "arg"}
        /\ DOMAIN r.phi[b][i].arg = {c \in Blocks : b \in {r.s1[c], r.s2[c]}}
    BY <1>2, <2>1 DEF Shape
  <2>. QED  BY <1>3, <1>9, <2>2
<1>11. Shape(o)
  BY <1>3, <1>4, <1>5, <1>6, <1>8, <1>10 DEF Shape
<1>12. SamePhis(p, o)
  <2>1. SamePhis(p, r) /\ o.phi = r.phi
    BY <1>2, <1>3
  <2>. QED  BY <2>1, SamePhisOf
<1>13. SameJmps(p, o, k)
  BY <1>5, <1>6, <1>8 DEF SameJmps
<1>. QED  BY <1>2, <1>3, <1>5, <1>6, <1>8, <1>11, <1>12, <1>13 DEF Rejumped

LEMMA MadeJmp ==
  ASSUME NEW q, NEW r, NEW o, NEW k,
         DOMAIN r = {"blks", "jmp", "s1", "s2", "arg", "phi", "ins"}
  PROVE  /\ o = [[r EXCEPT !.s1[k] = q.s2[k], !.s2[k] = None] EXCEPT !.jmp[k] = "jmp", !.arg[k] = R]
              => Rewired(q, r, o, k, 0)
         /\ o = [r EXCEPT !.jmp[k] = "jmp", !.arg[k] = R]
              => Rewired(q, r, o, k, 1)
<1>1. ASSUME NEW w, DOMAIN w = DOMAIN r, o = [w EXCEPT !.jmp[k] = "jmp", !.arg[k] = R]
      PROVE  /\ DOMAIN o = DOMAIN r /\ o.phi = w.phi /\ o.ins = w.ins /\ o.blks = w.blks
             /\ o.s1 = w.s1 /\ o.s2 = w.s2
             /\ o.jmp = [w.jmp EXCEPT ![k] = "jmp"] /\ o.arg = [w.arg EXCEPT ![k] = R]
  <2>1. o = [w EXCEPT !.jmp = [w.jmp EXCEPT ![k] = "jmp"], !.arg = [w.arg EXCEPT ![k] = R]]
    BY <1>1
  <2>. QED  BY <1>1, <2>1
<1>2. ASSUME o = [[r EXCEPT !.s1[k] = q.s2[k], !.s2[k] = None] EXCEPT !.jmp[k] = "jmp", !.arg[k] = R]
      PROVE  Rewired(q, r, o, k, 0)
  <2>. PICK w : w = [r EXCEPT !.s1 = [r.s1 EXCEPT ![k] = q.s2[k]], !.s2 = [r.s2 EXCEPT ![k] = None]]
    OBVIOUS
  <2>1. /\ DOMAIN w = DOMAIN r /\ w.phi = r.phi /\ w.ins = r.ins /\ w.blks = r.blks
        /\ w.jmp = r.jmp /\ w.arg = r.arg
        /\ w.s1 = [r.s1 EXCEPT ![k] = q.s2[k]] /\ w.s2 = [r.s2 EXCEPT ![k] = None]
    OBVIOUS
  <2>2. o = [w EXCEPT !.jmp[k] = "jmp", !.arg[k] = R]
    BY <1>2
  <2>3. /\ DOMAIN o = DOMAIN r /\ o.phi = w.phi /\ o.ins = w.ins /\ o.blks = w.blks
        /\ o.s1 = w.s1 /\ o.s2 = w.s2
        /\ o.jmp = [w.jmp EXCEPT ![k] = "jmp"] /\ o.arg = [w.arg EXCEPT ![k] = R]
    BY <1>1, <2>1, <2>2
  <2>. QED  BY <2>1, <2>3 DEF Rewired
<1>3. ASSUME o = [r EXCEPT !.jmp[k] = "jmp", !.arg[k] = R]
      PROVE  Rewired(q, r, o, k, 1)
  <2>3. /\ DOMAIN o = DOMAIN r /\ o.phi = r.phi /\ o.ins = r.ins /\ o.blks = r.blks
        /\ o.s1 = r.s1 /\ o.s2 = r.s2
        /\ o.jmp = [r.jmp EXCEPT ![k] = "jmp"] /\ o.arg = [r.arg EXCEPT ![k] = R]
    BY <1>1, <1>3
  <2>. QED  BY <2>3 DEF Rewired
<1>. QED  BY <1>2, <1>3

\* A block that was reached is rewritten.
LEMMA TrimLive ==
  ASSUME fn \in Programs, NEW k \in Blocks, Trimmed(out, k), k \in visit, NEW o,
         o = RenJmp([out EXCEPT !.phi[k] = RenPhis(@, k),
                                !.ins[k] = [i \in DOMAIN @ |-> RenIns(@[i])]], k)
  PROVE  Trimmed(o, k + 1)
<1>. PICK p : p = [out EXCEPT !.phi[k] = RenPhis(@, k), !.ins[k] = [i \in DOMAIN @ |-> RenIns(@[i])]]
  OBVIOUS
<1>1. o = RenJmp(p, k)
  OBVIOUS
<1>0. Renamed(p, k)
  BY RenFacts
<1>2. /\ Shape(p)
      /\ p.blks = out.blks /\ p.jmp = out.jmp /\ p.arg = out.arg
      /\ p.s1 = out.s1 /\ p.s2 = out.s2
  BY <1>0 DEF Renamed
<1>3. BlkKept(out, k) /\ None \notin Blocks
  <2>1. ~ (k < k)
    BY FnTypes
  <2>. QED  BY <2>1, FnTypes DEF Trimmed
<1>. DEFINE a == RenRef(fn.arg[k])
<1>. PICK q : q = [p EXCEPT !.arg = [p.arg EXCEPT ![k] = a]]
  OBVIOUS
<1>4. /\ DOMAIN p = {"blks", "jmp", "s1", "s2", "arg", "phi", "ins"}
      /\ DOMAIN p.jmp = Blocks /\ DOMAIN p.arg = Blocks
      /\ DOMAIN p.phi = Blocks /\ DOMAIN p.ins = Blocks
      /\ p.s1 \in [Blocks -> Blocks \cup {None}] /\ p.s2 \in [Blocks -> Blocks \cup {None}]
  BY <1>2 DEF Shape
<1>5. /\ p.arg[k] = fn.arg[k] /\ p.jmp[k] = fn.jmp[k]
      /\ p.s1[k] = fn.s1[k] /\ p.s2[k] = fn.s2[k]
  BY <1>2, <1>3 DEF BlkKept
<1>6. /\ DOMAIN q = DOMAIN p
      /\ q.blks = p.blks /\ q.jmp = p.jmp /\ q.s1 = p.s1 /\ q.s2 = p.s2
      /\ q.phi = p.phi /\ q.ins = p.ins /\ q.arg = [p.arg EXCEPT ![k] = a]
  <2>. HIDE DEF a
  <2>. QED  BY <1>4
<1>7. Shape(q)
  BY <1>2, <1>4, <1>6 DEF Shape
<1>8. SamePhis(p, q)
  BY <1>6 DEF SamePhis
<1>9. q.arg[k] = a /\ \A c \in Blocks : c # k => q.arg[c] = p.arg[c]
  <2>. HIDE DEF a
  <2>. QED  BY <1>4, <1>6
<1>10. CASE ~ (fn.jmp[k] = "jnz" /\ a \notin Temps)
  <2>1. o = q
    <3>1. ~ (p.jmp[k] = "jnz" /\ RenRef(p.arg[k]) \notin Temps)
      BY <1>5, <1>10
    <3>2. o = [p EXCEPT !.arg[k] = RenRef(p.arg[k])]
      BY <1>1, <3>1 DEF RenJmp
    <3>. QED  BY <1>5, <3>2, Zenon
  <2>2. JmpTrimmed(q, k)
    BY <1>5, <1>6, <1>9, <1>10 DEF TrimmedJmp, JmpTrimmed
  <2>3. SameJmps(out, q, k)
    BY <1>2, <1>6, <1>9 DEF SameJmps
  <2>4. q.ins = p.ins /\ q.blks = out.blks
    BY <1>2, <1>6
  <2>5. Trimmed(q, k + 1)
    BY <1>0, <1>7, <1>8, <2>2, <2>3, <2>4, TrimmedNext
  <2>. QED  BY <2>1, <2>5
<1>11. CASE fn.jmp[k] = "jnz" /\ a \notin Temps
  <2>. DEFINE zero == IsZero(a)
              side == IF zero THEN 0 ELSE 1
  <2>1. PICK r : r = EdgeDel(q, k, side)
    OBVIOUS
  <2>5. side \in {0, 1}
    OBVIOUS
  <2>2. Without(q, r, k, side)
    <3>. HIDE DEF side
    <3>. QED  BY <1>7, <2>1, <2>5, EdgeDelFacts
  <2>3. Rewired(q, r, o, k, side)
    <3>1. q = [p EXCEPT !.arg[k] = a] /\ q.s2 = p.s2
      BY <1>6, Zenon
    <3>2. /\ p.jmp[k] = "jnz" /\ RenRef(p.arg[k]) = a /\ a \notin Temps
      BY <1>5, <1>11
    <3>3. DOMAIN r = {"blks", "jmp", "s1", "s2", "arg", "phi", "ins"}
      BY <2>2 DEF Without, Shape
    <3>. HIDE DEF a
    <3>4. CASE zero
      <4>1. r = EdgeDel(q, k, 0)
        BY <2>1, <3>4
      <4>2. o = [[EdgeDel([p EXCEPT !.arg[k] = a], k, 0) EXCEPT !.s1[k] = p.s2[k], !.s2[k] = None]
                 EXCEPT !.jmp[k] = "jmp", !.arg[k] = R]
        BY <1>1, <3>2, <3>4 DEF RenJmp
      <4>3. o = [[r EXCEPT !.s1[k] = p.s2[k], !.s2[k] = None] EXCEPT !.jmp[k] = "jmp", !.arg[k] = R]
        BY <3>1, <4>1, <4>2, Zenon
      <4>. QED  BY <3>1, <3>3, <3>4, <4>3, MadeJmp
    <3>5. CASE ~ zero
      <4>1. r = EdgeDel(q, k, 1)
        BY <2>1, <3>5
      <4>2. o = [EdgeDel([p EXCEPT !.arg[k] = a], k, 1) EXCEPT !.jmp[k] = "jmp", !.arg[k] = R]
        BY <1>1, <3>2, <3>5 DEF RenJmp
      <4>3. o = [r EXCEPT !.jmp[k] = "jmp", !.arg[k] = R]
        BY <3>1, <4>1, <4>2, Zenon
      <4>4. Rewired(q, r, o, k, 1)
        BY <3>3, <4>3, MadeJmp
      <4>. QED  BY <3>5, <4>4
    <3>. QED  BY <3>4, <3>5
  <2>10. Rejumped(q, o, k, side)
    <3>. HIDE DEF side
    <3>. QED  BY <1>7, <2>2, <2>3, <2>5, RewiredFacts
  <2>4. /\ Shape(o) /\ SamePhis(q, o) /\ SameJmps(q, o, k)
        /\ o.ins = q.ins /\ o.blks = q.blks
        /\ o.jmp[k] = "jmp" /\ o.arg[k] = R
        /\ o.s1[k] = (IF side = 0 THEN q.s2[k] ELSE q.s1[k]) /\ o.s2[k] = None
    <3>. HIDE DEF side
    <3>. QED  BY <2>10, Zenon DEF Rejumped
  <2>6. SamePhis(p, o)
    BY <1>8, <2>4, SamePhisTrans
  <2>7. JmpTrimmed(o, k)
    <3>3. q.s1[k] = fn.s1[k] /\ q.s2[k] = fn.s2[k]
      BY <1>5, <1>6, Zenon
    <3>4. (side = 0) <=> zero
      OBVIOUS
    <3>5. o.s1[k] = (IF side = 0 THEN q.s2[k] ELSE q.s1[k])
      BY <2>4, Zenon
    <3>1. o.s1[k] = (IF zero THEN fn.s2[k] ELSE fn.s1[k])
      <4>. HIDE DEF zero, side
      <4>. QED  BY <3>3, <3>4, <3>5
    <3>2. TrimmedJmp(k) = [jmp |-> "jmp", arg |-> R, s2 |-> None,
                           s1 |-> IF zero THEN fn.s2[k] ELSE fn.s1[k]]
      BY <1>11 DEF TrimmedJmp
    <3>. HIDE DEF zero, side
    <3>. QED  BY <2>4, <3>1, <3>2 DEF JmpTrimmed
  <2>8. o.ins = p.ins /\ o.blks = out.blks
    BY <1>2, <1>6, <2>4
  <2>9. SameJmps(out, o, k)
    <3>. SUFFICES ASSUME NEW c \in Blocks, c # k
                  PROVE  /\ o.jmp[c] = out.jmp[c] /\ o.arg[c] = out.arg[c]
                         /\ o.s1[c] = out.s1[c] /\ o.s2[c] = out.s2[c]
      BY DEF SameJmps
    <3>1. /\ o.jmp[c] = q.jmp[c] /\ o.arg[c] = q.arg[c]
          /\ o.s1[c] = q.s1[c] /\ o.s2[c] = q.s2[c]
      BY <2>4 DEF SameJmps
    <3>2. q.arg[c] = out.arg[c]
      <4>. HIDE DEF a
      <4>. QED  BY <1>2, <1>9, Zenon
    <3>3. q.jmp = out.jmp /\ q.s1 = out.s1 /\ q.s2 = out.s2
      <4>. HIDE DEF a
      <4>. QED  BY <1>2, <1>6, Zenon
    <3>. QED  BY <3>1, <3>2, <3>3, Zenon
  <2>. QED  BY <1>0, <2>4, <2>6, <2>7, <2>8, <2>9, TrimmedNext
<1>. QED  BY <1>10, <1>11

\* The trimmed function is the same when the analysis is.
LEMMA TrimmedSame ==
  ASSUME UNCHANGED <<fn, val, dead, visit>>, NEW o, NEW k, o = out', k = blk', Trimmed(o, k)
  PROVE  TrimInv'
<1>1. Blocks' = Blocks
  BY SameFn
<1>2. \A a, b : DeadEdge(a, b)' = DeadEdge(a, b)
  BY DEF DeadEdge, Succ
<1>3. \A r : RenRef(r)' = RenRef(r)
  BY DEF RenRef
<1>4. \A i : RenIns(i)' = RenIns(i)
  BY <1>3 DEF RenIns
<1>5. \A b : TrimmedJmp(b)' = TrimmedJmp(b)
  BY <1>3 DEF TrimmedJmp
<1>6. Shape(out)'
  <2>1. Shape(o)
    BY DEF Trimmed
  <2>2. ASSUME NEW b \in Blocks, NEW i \in DOMAIN out'.phi[b]
        PROVE  /\ DOMAIN out'.phi[b][i] = {"to", "arg"}
               /\ DOMAIN out'.phi[b][i].arg = {a \in Blocks' : b \in {out'.s1[a], out'.s2[a]}}
    <3>1. /\ DOMAIN o.phi[b][i] = {"to", "arg"}
          /\ DOMAIN o.phi[b][i].arg = {a \in Blocks : b \in {o.s1[a], o.s2[a]}}
      BY <2>1, <2>2 DEF Shape
    <3>. QED  BY <1>1, <3>1
  <2>3. /\ DOMAIN out' = {"blks", "jmp", "s1", "s2", "arg", "phi", "ins"}
        /\ DOMAIN out'.jmp = Blocks /\ DOMAIN out'.arg = Blocks
        /\ DOMAIN out'.phi = Blocks /\ DOMAIN out'.ins = Blocks
        /\ out'.s1 \in [Blocks -> Blocks \cup {None}]
        /\ out'.s2 \in [Blocks -> Blocks \cup {None}]
    BY <2>1 DEF Shape
  <2>. QED  BY <1>1, <2>2, <2>3 DEF Shape
<1>7. ASSUME NEW b \in Blocks
      PROVE  /\ BlkTrimmed(o, b) => BlkTrimmed(out, b)'
             /\ BlkKept(o, b) => BlkKept(out, b)'
             /\ ArgsAre(o, b, b < k) => ArgsAre(out, b, b < blk)'
  <2>1. BlkTrimmed(o, b) => BlkTrimmed(out, b)'
    BY <1>4, <1>5 DEF BlkTrimmed
  <2>2. BlkKept(o, b) => BlkKept(out, b)'
    BY DEF BlkKept
  <2>3. ArgsAre(o, b, b < k) => ArgsAre(out, b, b < blk)'
    BY <1>2, <1>3 DEF ArgsAre
  <2>. QED  BY <2>1, <2>2, <2>3
<1>8. /\ blk' \in Nat /\ out'.blks = {b \in Blocks' : b < blk' => b \in visit'}
  BY <1>1, Zenon DEF Trimmed
<1>9. ASSUME NEW b \in Blocks
      PROVE  /\ b < blk' /\ b \in visit' => BlkTrimmed(out, b)'
             /\ b < blk' /\ b \notin visit' => out'.s1[b] = None /\ out'.s2[b] = None
             /\ ~ (b < blk') => BlkKept(out, b)'
             /\ ArgsAre(out, b, b < blk)'
  BY <1>7 DEF Trimmed
<1>. QED  BY <1>1, <1>6, <1>8, <1>9 DEF TrimInv, Trimmed

LEMMA TrimBlkStep ==
  ASSUME Typed, Found, TrimInv, TrimBlk
  PROVE  Typed' /\ Found' /\ TrimInv'
<1>1. /\ pc' = "trim" /\ blk \in Blocks /\ blk' = blk + 1
      /\ UNCHANGED <<pc, fn, val, dead, work, flowrk, usewrk, visit, todo, run>>
      /\ out' = IF blk \notin visit
                THEN [EdgeDel(EdgeDel(out, blk, 0), blk, 1) EXCEPT !.blks = @ \ {blk}]
                ELSE RenJmp([out EXCEPT !.phi[blk] = RenPhis(@, blk),
                                        !.ins[blk] = [i \in DOMAIN @ |-> RenIns(@[i])]], blk)
  BY DEF TrimBlk
<1>2. Typed' /\ Found'
  BY <1>1, FoundSame
<1>3. fn \in Programs
  BY DEF Typed, TypeOK
<1>. PICK k \in Blocks : k = blk
  BY <1>1
<1>. PICK o : o = out'
  OBVIOUS
<1>4. Trimmed(out, k)
  BY DEF TrimInv
<1>5. Trimmed(o, k + 1)
  <2>1. CASE k \in visit
    BY <1>1, <1>3, <1>4, <2>1, TrimLive
  <2>2. CASE k \notin visit
    BY <1>1, <1>3, <1>4, <2>2, TrimDead
  <2>. QED  BY <2>1, <2>2
<1>6. TrimInv'
  <2>. PICK n : n = k + 1
    OBVIOUS
  <2>1. UNCHANGED <<fn, val, dead, visit>> /\ n = blk' /\ Trimmed(o, n)
    BY <1>1, <1>5
  <2>. QED  BY <2>1, TrimmedSame
<1>. QED  BY <1>2, <1>6

\* When every block was trimmed.
LEMMA OutFacts ==
  ASSUME Typed, TrimInv, blk \notin Blocks
  PROVE  /\ Shape(out) /\ out.blks = visit
         /\ \A b \in visit : BlkTrimmed(out, b) /\ ArgsAre(out, b, TRUE)
         /\ \A b \in Blocks \ visit : out.s1[b] = None /\ out.s2[b] = None
<1>1. fn \in Programs /\ blk \in Nat /\ visit \subseteq Blocks
  BY DEF Typed, TypeOK, TrimInv, Trimmed
<1>2. Blocks = 0 .. Cardinality(Blocks) - 1 /\ Cardinality(Blocks) \in Nat
  BY <1>1, FnTypes
<1>3. \A b \in Blocks : b < blk
  <2>. DEFINE N == Cardinality(Blocks)
  <2>1. Blocks = 0 .. N - 1 /\ N \in Nat
    BY <1>2
  <2>. HIDE DEF N
  <2>. QED  BY <1>1, <2>1
<1>4. \A b \in Blocks : ArgsAre(out, b, TRUE)
  BY <1>3 DEF TrimInv, Trimmed, ArgsAre
<1>5. out.blks = visit
  BY <1>1, <1>3 DEF TrimInv, Trimmed
<1>. QED  BY <1>1, <1>3, <1>4, <1>5 DEF TrimInv, Trimmed

LEMMA EndTrimStep ==
  ASSUME Typed, Found, TrimInv, EndTrim
  PROVE  Typed' /\ Found' /\ TrimInv' /\ blk' \notin Blocks' /\ RunInv'
<1>1. /\ pc' = "run" /\ blk \notin Blocks
      /\ run' = [at |-> 0, from |-> None, i |-> 0,
                 env |-> [t \in Temps |-> Top], env2 |-> [t \in Temps |-> Top]]
      /\ UNCHANGED <<fn, val, dead, work, flowrk, usewrk, visit, blk, todo, out>>
  BY DEF EndTrim, findvars
<1>2. Typed' /\ Found'
  BY <1>1, FoundSame
<1>3. TrimInv'
  <2>. PICK o : o = out'
    OBVIOUS
  <2>. PICK k : k = blk'
    OBVIOUS
  <2>1. Trimmed(o, k)
    BY <1>1 DEF TrimInv
  <2>. QED  BY <1>1, <2>1, TrimmedSame
<1>4. blk' \notin Blocks'
  BY <1>1, SameFn
<1>5. RunInv'
  BY <1>1 DEF RunInv, Found
<1>. QED  BY <1>2, <1>3, <1>4, <1>5

-----------------------------------------------------------------------------
(* The executions.                                                          *)

RunOK == Typed /\ Found /\ TrimInv /\ blk \notin Blocks /\ RunInv

\* An operand has the value that was found, or none; its replacement has it
\* in the trimmed function.
LEMMA RefAgrees ==
  ASSUME Typed, RunInv, NEW r \in Operands \cup {R}, Of(run.env, r) # Top
  PROVE  /\ LatVal(r) \in {Of(run.env, r), Bot}
         /\ Of(run.env2, RenRef(r)) = Of(run.env, r)
         /\ RenRef(r) \notin Temps => RenRef(r) = Of(run.env, r)
<1>0. Temps \cap ({Bot, Top, R} \cup Cons) = {} /\ Bot \notin Cons
  BY Names
<1>1. CASE r \in Temps
  <2>1. /\ Of(run.env, r) = run.env[r] /\ run.env[r] \in Cons
        /\ val[r] = run.env[r] \/ (val[r] = Bot /\ run.env2[r] = run.env[r])
    BY <1>1 DEF RunInv, Of
  <2>2. CASE val[r] = run.env[r]
    BY <1>0, <1>1, <2>1, <2>2 DEF LatVal, RenRef, Of
  <2>3. CASE val[r] = Bot /\ run.env2[r] = run.env[r]
    BY <1>0, <1>1, <2>1, <2>3 DEF LatVal, RenRef, Of
  <2>. QED  BY <2>1, <2>2, <2>3
<1>2. CASE r \notin Temps
  BY <1>2 DEF LatVal, RenRef, Of
<1>. QED  BY <1>1, <1>2

LEMMA OfType ==
  ASSUME RunInv, NEW r \in Operands
  PROVE  Of(run.env, r) \in Cons \cup {Top}
BY DEF RunInv, Of, Operands

LEMMA PhisMatchInv ==
  ASSUME RunOK
  PROVE  PhisMatch
<1>1. /\ Shape(out) /\ out.blks = visit /\ visit \subseteq Blocks /\ None \notin Blocks
      /\ \A b \in Blocks \ visit : out.s1[b] = None /\ out.s2[b] = None
  BY OutFacts, FnTypes DEF RunOK, Typed, TypeOK
<1>2. SUFFICES ASSUME NEW b \in out.blks, NEW i \in DOMAIN out.phi[b]
               PROVE  DOMAIN out.phi[b][i].arg = {a \in out.blks : b \in {out.s1[a], out.s2[a]}}
  BY DEF PhisMatch
<1>3. b \in Blocks /\ DOMAIN out.phi[b][i].arg = {a \in Blocks : b \in {out.s1[a], out.s2[a]}}
  BY <1>1 DEF Shape
<1>4. \A a \in Blocks : b \in {out.s1[a], out.s2[a]} => a \in visit
  BY <1>1, <1>3
<1>. QED  BY <1>1, <1>3, <1>4

\* The jump of a trimmed block.
LEMMA OutJmp ==
  ASSUME RunOK, NEW b \in visit
  PROVE  /\ ~ (fn.jmp[b] = "jnz" /\ RenRef(fn.arg[b]) \notin Temps) =>
              /\ out.jmp[b] = fn.jmp[b] /\ out.arg[b] = RenRef(fn.arg[b])
              /\ out.s1[b] = fn.s1[b] /\ out.s2[b] = fn.s2[b]
         /\ fn.jmp[b] = "jnz" /\ RenRef(fn.arg[b]) \notin Temps =>
              /\ out.jmp[b] = "jmp"
              /\ out.s1[b] = IF IsZero(RenRef(fn.arg[b])) THEN fn.s2[b] ELSE fn.s1[b]
<1>1. [jmp |-> out.jmp[b], arg |-> out.arg[b], s1 |-> out.s1[b], s2 |-> out.s2[b]] = TrimmedJmp(b)
  BY OutFacts DEF RunOK, BlkTrimmed
<1>2. /\ out.jmp[b] = TrimmedJmp(b).jmp /\ out.arg[b] = TrimmedJmp(b).arg
      /\ out.s1[b] = TrimmedJmp(b).s1 /\ out.s2[b] = TrimmedJmp(b).s2
  <2>. PICK j : j = TrimmedJmp(b)
    OBVIOUS
  <2>. QED  BY <1>1
<1>3. CASE ~ (fn.jmp[b] = "jnz" /\ RenRef(fn.arg[b]) \notin Temps)
  <2>1. TrimmedJmp(b) = [jmp |-> fn.jmp[b], arg |-> RenRef(fn.arg[b]),
                         s1 |-> fn.s1[b], s2 |-> fn.s2[b]]
    BY <1>3, Zenon DEF TrimmedJmp
  <2>. QED  BY <1>2, <1>3, <2>1
<1>4. CASE fn.jmp[b] = "jnz" /\ RenRef(fn.arg[b]) \notin Temps
  <2>1. TrimmedJmp(b) = [jmp |-> "jmp", arg |-> R, s2 |-> None,
                         s1 |-> IF IsZero(RenRef(fn.arg[b])) THEN fn.s2[b] ELSE fn.s1[b]]
    BY <1>4, Zenon DEF TrimmedJmp
  <2>. HIDE DEF IsZero
  <2>. QED  BY <1>2, <1>4, <2>1
<1>. QED  BY <1>3, <1>4

\* The instructions of a trimmed block.
LEMMA OutIns ==
  ASSUME RunOK, NEW b \in visit, NEW i \in DOMAIN fn.ins[b]
  PROVE  /\ out.ins[b][i] = RenIns(fn.ins[b][i])
         /\ fn.ins[b][i].to = R \/ val[fn.ins[b][i].to] = Bot =>
              \/ /\ out.ins[b][i].op = fn.ins[b][i].op /\ out.ins[b][i].to = fn.ins[b][i].to
                 /\ \A k \in 1 .. 2 : out.ins[b][i].arg[k] = RenRef(fn.ins[b][i].arg[k])
              \/ /\ fn.ins[b][i].op = "store" /\ RenRef(fn.ins[b][i].arg[1]) = Top
                 /\ out.ins[b][i] = Nop
         /\ ~ (fn.ins[b][i].to = R \/ val[fn.ins[b][i].to] = Bot) =>
              fn.ins[b][i].to \in Temps /\ out.ins[b][i] = Nop
<1>. PICK x : x = fn.ins[b][i]
  OBVIOUS
<1>. PICK y : y = out.ins[b][i]
  OBVIOUS
<1>0. R \notin Temps /\ Bot \notin Temps
  BY Names
<1>1. y = RenIns(x)
  BY OutFacts DEF RunOK, BlkTrimmed
<1>2. x \in InsRecs /\ x.to \in Temps \cup {R}
  BY InsFacts DEF RunOK, Typed, TypeOK
<1>3. RenRef(x.to) = x.to <=> x.to = R \/ val[x.to] = Bot
  <2>1. CASE x.to = R
    BY <1>0, <2>1 DEF RenRef
  <2>2. CASE x.to \in Temps
    <3>1. val[x.to] \notin Temps
      BY <2>2, Names DEF RunOK, Typed, TypeOK
    <3>. QED  BY <1>0, <2>2, <3>1 DEF RenRef
  <2>. QED  BY <1>2, <2>1, <2>2
<1>4. CASE RenRef(x.to) = x.to
  <2>. DEFINE g == [k \in 1 .. 2 |-> RenRef(x.arg[k])]
  <2>. PICK z : z = [x EXCEPT !.arg = g]
    OBVIOUS
  <2>1. y = IF z.op = "store" /\ z.arg[1] = Top THEN Nop ELSE z
    BY <1>1, <1>4 DEF RenIns
  <2>. HIDE DEF g
  <2>2. z.op = x.op /\ z.to = x.to /\ z.arg = g
    BY <1>2 DEF InsRecs
  <2>3. \A k \in 1 .. 2 : z.arg[k] = RenRef(x.arg[k])
    BY <2>2 DEF g
  <2>4. z.arg[1] = RenRef(x.arg[1])
    BY <2>3
  <2>. QED  BY <1>1, <1>3, <1>4, <2>1, <2>2, <2>3, <2>4
<1>5. CASE RenRef(x.to) # x.to
  <2>1. y = Nop
    BY <1>1, <1>5 DEF RenIns
  <2>. QED  BY <1>1, <1>2, <1>3, <1>5, <2>1
<1>. QED  BY <1>4, <1>5

LEMMA SameRunInv ==
  ASSUME RunOK, pc = "run"
  PROVE  SameRun
<1>. PICK b : b = run.at
  OBVIOUS
<1>1. /\ b \in visit /\ visit \subseteq Blocks /\ out.blks = visit /\ fn \in Programs
      /\ Typed /\ RunInv /\ R \notin Temps /\ Top \notin Temps
  BY OutFacts, Names DEF RunOK, RunInv, Typed, TypeOK
<1>2. ASSUME NEW i \in DOMAIN fn.ins[b]
      PROVE  IF fn.ins[b][i].op = "store" /\ out.ins[b][i].op = "nop"
             THEN Of(run.env, fn.ins[b][i].arg[1]) = Top
             ELSE out.ins[b][i].op # "nop" =>
                    \A k \in 1 .. 2 : Refines(fn.ins[b][i].arg[k], out.ins[b][i].arg[k])
  <2>. PICK x : x = fn.ins[b][i]
    OBVIOUS
  <2>. PICK y : y = out.ins[b][i]
    OBVIOUS
  <2>1. /\ x.arg[1] \in Operands \cup {R} /\ x.arg[2] \in Operands \cup {R}
        /\ x.op = "store" => x.to = R
    BY <1>1, InsFacts
  <2>2. /\ x.to = R \/ val[x.to] = Bot =>
              \/ /\ y.op = x.op /\ y.to = x.to
                 /\ \A k \in 1 .. 2 : y.arg[k] = RenRef(x.arg[k])
              \/ x.op = "store" /\ RenRef(x.arg[1]) = Top /\ y = Nop
        /\ ~ (x.to = R \/ val[x.to] = Bot) => y = Nop
    BY <1>1, OutIns
  <2>3. CASE x.op = "store" /\ y.op = "nop"
    <3>1. RenRef(x.arg[1]) = Top
      BY <2>1, <2>2, <2>3
    <3>2. Of(run.env, x.arg[1]) = Top
      <4>. SUFFICES ASSUME Of(run.env, x.arg[1]) # Top PROVE FALSE
        OBVIOUS
      <4>1. Of(run.env2, RenRef(x.arg[1])) = Of(run.env, x.arg[1])
        BY <1>1, <2>1, RefAgrees
      <4>. QED  BY <1>1, <3>1, <4>1 DEF Of
    <3>. QED  BY <2>3, <3>2
  <2>4. CASE y.op # "nop"
    <3>. SUFFICES ASSUME NEW k \in 1 .. 2 PROVE Refines(x.arg[k], y.arg[k])
      BY <2>4
    <3>1. y.arg[k] = RenRef(x.arg[k])
      BY <2>2, <2>4 DEF Nop
    <3>2. x.arg[k] \in Operands \cup {R}
      BY <2>1
    <3>. QED  BY <1>1, <3>1, <3>2, RefAgrees DEF Refines
  <2>. QED  BY <2>3, <2>4
<1>3. /\ fn.jmp[b] \in {"jmp", "jnz", "ret"} /\ fn.arg[b] \in Operands \cup {R}
  BY <1>1, JmpFacts
<1>. PICK a : a = RenRef(fn.arg[b])
  OBVIOUS
<1>4. CASE fn.jmp[b] = "ret"
  <2>1. out.arg[b] = a
    BY <1>1, <1>4, OutJmp
  <2>2. Refines(fn.arg[b], out.arg[b])
    BY <1>1, <1>3, <2>1, RefAgrees DEF Refines
  <2>. QED  BY <1>1, <1>2, <1>4, <2>2 DEF SameRun
<1>5. CASE fn.jmp[b] = "jnz"
  <2>1. ASSUME Of(run.env, fn.arg[b]) # Top
        PROVE  Target(fn, run.env, b) = Target(out, run.env2, b)
    <3>1. /\ Of(run.env2, a) = Of(run.env, fn.arg[b])
          /\ a \notin Temps => a = Of(run.env, fn.arg[b])
      BY <1>1, <1>3, <2>1, RefAgrees
    <3>2. CASE a \in Temps
      BY <1>1, <1>5, <3>1, <3>2, OutJmp DEF Target
    <3>3. CASE a \notin Temps
      BY <1>1, <1>5, <3>1, <3>3, OutJmp DEF Target
    <3>. QED  BY <3>2, <3>3
  <2>. QED  BY <1>1, <1>2, <1>5, <2>1 DEF SameRun
<1>6. CASE fn.jmp[b] = "jmp"
  BY <1>1, <1>2, <1>6 DEF SameRun
<1>. QED  BY <1>3, <1>4, <1>5, <1>6

\* What a step of the executions keeps.
LEMMA RunKeeps ==
  ASSUME RunOK, UNCHANGED <<fn, findvars, out>>, pc' \in {"run", "end"}
  PROVE  Typed' /\ Found' /\ TrimInv' /\ blk' \notin Blocks'
<1>1. UNCHANGED <<fn, val, dead, work, flowrk, usewrk, visit, blk, todo, out>>
  BY DEF findvars
<1>2. Typed' /\ Found'
  BY <1>1, FoundSame DEF RunOK
<1>3. TrimInv'
  <2>. PICK o : o = out'
    OBVIOUS
  <2>. PICK k : k = blk'
    OBVIOUS
  <2>1. Trimmed(o, k)
    BY <1>1 DEF TrimInv, RunOK
  <2>. QED  BY <1>1, <2>1, TrimmedSame
<1>4. blk' \notin Blocks'
  BY <1>1, SameFn DEF RunOK
<1>. QED  BY <1>2, <1>3, <1>4

\* t is the result of the phi i of block b: what it becomes.
LEMMA PhiRuns ==
  ASSUME fn \in Programs, NEW b \in Blocks, NEW i \in DOMAIN fn.phi[b],
         NEW p, DOMAIN p.phi[b] \subseteq DOMAIN fn.phi[b], i \in DOMAIN p.phi[b],
         \A k \in DOMAIN p.phi[b] : p.phi[b][k].to = fn.phi[b][k].to,
         NEW env, NEW from
  PROVE  AfterPhis(p, env, b, from)[fn.phi[b][i].to] = Of(env, p.phi[b][i].arg[from])
<1>. DEFINE t == fn.phi[b][i].to
            c == CHOOSE k \in DOMAIN p.phi[b] : p.phi[b][k].to = t
<1>1. t \in Temps
  BY PhiFacts
<1>2. \A k \in DOMAIN fn.phi[b] : fn.phi[b][k].to = t => k = i
  BY FnFacts DEF OneDef
<1>3. p.phi[b][i].to = t
  OBVIOUS
<1>4. c = i
  <2>1. c \in DOMAIN p.phi[b] /\ p.phi[b][c].to = t
    BY <1>3
  <2>. QED  BY <1>2, <2>1
<1>5. AfterPhis(p, env, b, from)[t] = Of(env, p.phi[b][c].arg[from])
  BY <1>1, <1>3, Zenon DEF AfterPhis
<1>. QED  BY <1>4, <1>5, Zenon

\* The value of a phi once the edge from an argument was taken.
LEMMA PhiValRuns ==
  ASSUME Typed, Found, NEW b \in visit, NEW i \in DOMAIN fn.phi[b], NEW a \in Blocks,
         ~ DeadEdge(a, b), NEW v, v # Top, v # Bot,
         LatVal(fn.phi[b][i].arg[a]) \in {v, Bot}
  PROVE  /\ a \in DOMAIN fn.phi[b][i].arg
         /\ val[fn.phi[b][i].to] \in {v, Bot}
<1>1. b \in Blocks /\ fn \in Programs
  BY DEF Typed, TypeOK
<1>2. a \in DOMAIN fn.phi[b][i].arg
  <2>1. b \in {fn.s1[a], fn.s2[a]}
    BY DEF DeadEdge, Succ, Sides
  <2>. QED  BY <1>1, <2>1, PhiFacts
<1>3. val[fn.phi[b][i].to] = PhiVal(fn.phi[b][i], b)
  <2>. DEFINE u == <<"phi", b, i>>
  <2>1. u \in Items /\ u[1] = "phi" /\ u[2] = b /\ u[3] = i
    BY <1>1, IsItem
  <2>2. u \in Defs /\ ToOf(u) = fn.phi[b][i].to /\ ValOf(u) = PhiVal(fn.phi[b][i], b)
    BY <2>1 DEF Defs, ToOf, ValOf, PhiOf
  <2>. QED  BY <2>1, <2>2 DEF Found
<1>4. IsMeet(PhiVal(fn.phi[b][i], b), ArgVals(fn.phi[b][i], b))
  BY <1>1, PhiMeet
<1>5. LatVal(fn.phi[b][i].arg[a]) \in ArgVals(fn.phi[b][i], b)
  BY <1>2 DEF ArgVals
<1>6. Bot # Top
  BY Names
<1>. QED  BY <1>2, <1>3, <1>4, <1>5, <1>6 DEF IsMeet

LEMMA RunPhisStep ==
  ASSUME RunOK, RunPhis
  PROVE  Typed' /\ Found' /\ TrimInv' /\ blk' \notin Blocks' /\ RunInv'
<1>. PICK b : b = run.at
  OBVIOUS
<1>. PICK from : from = run.from
  OBVIOUS
<1>1. /\ pc = "run" /\ pc' = "run" /\ run.i = 0
      /\ run' = [run EXCEPT !.i = 1, !.env  = AfterPhis(fn, run.env, b, from),
                                     !.env2 = AfterPhis(out, run.env2, b, from)]
      /\ UNCHANGED <<fn, findvars, out>>
  BY DEF RunPhis
<1>2. Typed' /\ Found' /\ TrimInv' /\ blk' \notin Blocks'
  BY <1>1, RunKeeps
<1>3. /\ b \in visit /\ b \in Blocks /\ visit \subseteq Blocks /\ fn \in Programs
      /\ Typed /\ Found /\ RunInv /\ Bot \notin Cons /\ Top \notin Cons /\ Bot # Top
      /\ DOMAIN run = {"at", "from", "i", "env", "env2"}
  BY Names DEF RunOK, RunInv, Typed, TypeOK
<1>4. /\ DOMAIN run' = {"at", "from", "i", "env", "env2"}
      /\ run'.at = b /\ run'.i = 1
      /\ run'.env = AfterPhis(fn, run.env, b, from)
      /\ run'.env2 = AfterPhis(out, run.env2, b, from)
  <2>. PICK e : e = AfterPhis(fn, run.env, b, from)
    OBVIOUS
  <2>. PICK e2 : e2 = AfterPhis(out, run.env2, b, from)
    OBVIOUS
  <2>1. run' = [run EXCEPT !.i = 1, !.env = e, !.env2 = e2]
    BY <1>1
  <2>. QED  BY <1>3, <2>1
<1>5. DOMAIN run'.env = Temps /\ DOMAIN run'.env2 = Temps
  BY <1>4 DEF AfterPhis
<1>6. ASSUME NEW t \in Temps
      PROVE  /\ run'.env[t] \in Cons \cup {Top}
             /\ run'.env[t] # Top =>
                  val[t] = run'.env[t] \/ (val[t] = Bot /\ run'.env2[t] = run'.env[t])
  <2>0. /\ DOMAIN out.phi[b] = {i \in DOMAIN fn.phi[b] : val[fn.phi[b][i].to] = Bot}
        /\ \A i \in DOMAIN out.phi[b] : out.phi[b][i].to = fn.phi[b][i].to
    BY <1>3, OutFacts DEF RunOK, BlkTrimmed, ArgsAre
  <2>1. CASE \A i \in DOMAIN fn.phi[b] : fn.phi[b][i].to # t
    <3>1. run'.env[t] = run.env[t]
      <4>1. ~ \E i \in DOMAIN fn.phi[b] : fn.phi[b][i].to = t
        BY <2>1
      <4>. QED  BY <1>4, <4>1 DEF AfterPhis
    <3>2. run'.env2[t] = run.env2[t]
      <4>1. ~ \E i \in DOMAIN out.phi[b] : out.phi[b][i].to = t
        BY <2>0, <2>1
      <4>. QED  BY <1>4, <4>1 DEF AfterPhis
    <3>. QED  BY <1>3, <3>1, <3>2 DEF RunInv
  <2>2. CASE \E i \in DOMAIN fn.phi[b] : fn.phi[b][i].to = t
    <3>. PICK i \in DOMAIN fn.phi[b] : fn.phi[b][i].to = t
      BY <2>2
    <3>. PICK r : r = fn.phi[b][i].arg[from]
      OBVIOUS
    <3>1. b # 0
      BY <1>3, PhiFacts
    <3>2. /\ from \in visit /\ from \in Blocks /\ ~ DeadEdge(from, b)
          /\ b \in {out.s1[from], out.s2[from]}
      BY <1>1, <1>3, <3>1 DEF RunInv
    <3>3. from \in DOMAIN fn.phi[b][i].arg
      <4>1. b \in {fn.s1[from], fn.s2[from]}
        BY <3>2 DEF DeadEdge, Succ, Sides
      <4>. QED  BY <1>3, <3>2, <4>1, PhiFacts
    <3>4. r \in Operands
      BY <1>3, <3>3, PhiFacts
    <3>5. run'.env[t] = Of(run.env, r)
      <4>1. AfterPhis(fn, run.env, b, from)[fn.phi[b][i].to] = Of(run.env, fn.phi[b][i].arg[from])
        BY <1>3, PhiRuns
      <4>. QED  BY <1>4, <4>1
    <3>6. Of(run.env, r) \in Cons \cup {Top}
      BY <1>3, <3>4, OfType
    <3>7. ASSUME Of(run.env, r) # Top
          PROVE  val[t] = run'.env[t] \/ (val[t] = Bot /\ run'.env2[t] = run'.env[t])
      <4>. PICK v : v = Of(run.env, r)
        OBVIOUS
      <4>1. LatVal(r) \in {v, Bot} /\ Of(run.env2, RenRef(r)) = v
        BY <1>3, <3>4, <3>7, RefAgrees
      <4>2. v # Top /\ v # Bot
        BY <1>3, <3>6, <3>7
      <4>3. val[t] \in {v, Bot}
        BY <1>3, <3>2, <4>1, <4>2, PhiValRuns
      <4>4. CASE val[t] = v
        BY <3>5, <4>4
      <4>5. CASE val[t] = Bot
        <5>1. i \in DOMAIN out.phi[b] /\ DOMAIN out.phi[b] \subseteq DOMAIN fn.phi[b]
          BY <2>0, <4>5
        <5>2. run'.env2[t] = Of(run.env2, out.phi[b][i].arg[from])
          <6>1. AfterPhis(out, run.env2, b, from)[fn.phi[b][i].to] = Of(run.env2, out.phi[b][i].arg[from])
            <7>. PICK p : p = out
              OBVIOUS
            <7>. PICK env : env = run.env2
              OBVIOUS
            <7>1. /\ DOMAIN p.phi[b] \subseteq DOMAIN fn.phi[b] /\ i \in DOMAIN p.phi[b]
                  /\ \A k \in DOMAIN p.phi[b] : p.phi[b][k].to = fn.phi[b][k].to
              BY <2>0, <5>1
            <7>2. AfterPhis(p, env, b, from)[fn.phi[b][i].to] = Of(env, p.phi[b][i].arg[from])
              BY <1>3, <7>1, PhiRuns
            <7>. QED  BY <7>2
          <6>. QED  BY <1>4, <6>1
        <5>3. from \in DOMAIN out.phi[b][i].arg
          <6>1. Shape(out)
            BY OutFacts DEF RunOK
          <6>. QED  BY <1>3, <3>2, <5>1, <6>1 DEF Shape
        <5>4. out.phi[b][i].arg[from] = RenRef(r)
          <6>1. ArgsAre(out, b, TRUE)
            BY <1>3, OutFacts DEF RunOK
          <6>. QED  BY <1>3, <3>2, <5>1, <5>3, <6>1 DEF ArgsAre
        <5>. QED  BY <3>5, <4>1, <4>5, <5>2, <5>4
      <4>. QED  BY <4>3, <4>4, <4>5
    <3>. QED  BY <3>5, <3>6, <3>7
  <2>. QED  BY <2>1, <2>2
<1>7. RunInv'
  <2>1. visit' = visit /\ val' = val
    BY <1>1 DEF findvars
  <2>2. run'.at \in visit' /\ run'.i \in Nat /\ run'.i # 0
    BY <1>3, <1>4, <2>1
  <2>. QED  BY <1>4, <1>5, <1>6, <2>1, <2>2 DEF RunInv
<1>. QED  BY <1>2, <1>7

\* What an instruction computes is what was found for it, and what it computes
\* in the trimmed function.
RunsTo(n, x, c) ==
  /\ c \in Cons \cup {Top}
  /\ c # Top =>
       /\ n.to # R => val[n.to] \in {c, Bot}
       /\ \A y : /\ y.op = n.op
                 /\ \A k \in 1 .. 2 : y.arg[k] = RenRef(n.arg[k])
                 => Computed(run.env2, y, x) = c

LEMMA InsRuns ==
  ASSUME RunOK, NEW b \in visit, NEW i \in DOMAIN fn.ins[b], NEW x \in Cons,
         NEW c, c = Computed(run.env, fn.ins[b][i], x),
         ~ (CanFold(fn.ins[b][i].op) /\ c = Bot)
  PROVE  RunsTo(fn.ins[b][i], x, c)
<1>. PICK n : n = fn.ins[b][i]
  OBVIOUS
<1>. SUFFICES RunsTo(n, x, c)
  OBVIOUS
<1>. PICK l : l = Of(run.env, n.arg[1])
  OBVIOUS
<1>. PICK r : r = Of(run.env, n.arg[2])
  OBVIOUS
<1>1. Typed /\ RunInv /\ Found /\ fn \in Programs /\ b \in Blocks /\ Bot \notin Cons /\ Top \notin Cons
      /\ Bot # Top
  BY Names DEF RunOK, Typed, TypeOK
<1>2. CanFold(n.op) => n.arg[1] \in Operands /\ n.arg[2] \in Operands
  BY <1>1, InsFacts
<1>3. c = IF ~ CanFold(n.op) THEN x ELSE IF l = Top \/ r = Top THEN Top ELSE OpFold(n.op, l, r)
  BY Zenon DEF Computed
<1>4. n.to # R => val[n.to] = InsVal(n)
  <2>. SUFFICES ASSUME n.to # R PROVE val[n.to] = InsVal(n)
    OBVIOUS
  <2>. DEFINE u == <<"ins", b, i>>
  <2>1. u \in Items /\ u[1] = "ins" /\ u[2] = b /\ u[3] = i
    BY <1>1, IsItem
  <2>2. u \in Defs /\ ToOf(u) = n.to /\ ValOf(u) = InsVal(n)
    BY <2>1 DEF Defs, ToOf, ValOf, InsOf
  <2>. QED  BY <1>1, <2>1, <2>2 DEF Found
<1>5. CASE ~ CanFold(n.op)
  <2>1. c = x
    BY <1>3, <1>5
  <2>2. InsVal(n) = Bot
    BY <1>5 DEF InsVal
  <2>3. \A y : y.op = n.op => Computed(run.env2, y, x) = x
    BY <1>5 DEF Computed
  <2>. QED  BY <1>4, <2>1, <2>2, <2>3 DEF RunsTo
<1>6. CASE CanFold(n.op) /\ (l = Top \/ r = Top)
  BY <1>3, <1>6 DEF RunsTo
<1>7. CASE CanFold(n.op) /\ l # Top /\ r # Top
  <2>1. l \in Cons /\ r \in Cons
    BY <1>1, <1>2, <1>7, OfType
  <2>2. c = OpFold(n.op, l, r)
    BY <1>3, <1>7
  <2>3. c \in Cons
    <3>1. OpFold(n.op, l, r) \in Cons \cup {Bot}
      BY <1>7, <2>1, OpFoldType
    <3>. QED  BY <1>7, <2>2, <3>1
  <2>4. /\ LatVal(n.arg[1]) \in {l, Bot} /\ Of(run.env2, RenRef(n.arg[1])) = l
        /\ LatVal(n.arg[2]) \in {r, Bot} /\ Of(run.env2, RenRef(n.arg[2])) = r
    BY <1>1, <1>2, <1>7, RefAgrees
  <2>5. InsVal(n) \in {c, Bot}
    <3>1. CASE LatVal(n.arg[1]) = Bot \/ LatVal(n.arg[2]) = Bot
      BY <3>1 DEF InsVal
    <3>2. CASE LatVal(n.arg[1]) = l /\ LatVal(n.arg[2]) = r
      <4>1. l # Bot /\ l # Top /\ r # Bot /\ r # Top
        BY <1>1, <2>1
      <4>. QED  BY <1>7, <2>2, <3>2, <4>1 DEF InsVal
    <3>. QED  BY <2>4, <3>1, <3>2
  <2>6. ASSUME NEW y, y.op = n.op, \A k \in 1 .. 2 : y.arg[k] = RenRef(n.arg[k])
        PROVE  Computed(run.env2, y, x) = c
    <3>1. y.arg[1] = RenRef(n.arg[1]) /\ y.arg[2] = RenRef(n.arg[2])
      BY <2>6
    <3>2. Of(run.env2, y.arg[1]) = l /\ Of(run.env2, y.arg[2]) = r
      BY <2>4, <3>1
    <3>. QED  BY <1>7, <2>2, <2>6, <3>2, Zenon DEF Computed
  <2>. QED  BY <1>4, <2>3, <2>5, <2>6 DEF RunsTo
<1>. QED  BY <1>5, <1>6, <1>7

LEMMA RunInsStep ==
  ASSUME RunOK, NEW x \in Cons, RunIns(x)
  PROVE  /\ pc' \in {"run", "end"} /\ UNCHANGED <<fn, findvars, out>>
         /\ Typed' /\ Found' /\ TrimInv' /\ blk' \notin Blocks'
         /\ pc' = "run" => RunInv'
<1>. PICK b : b = run.at
  OBVIOUS
<1>. PICK k : k = run.i
  OBVIOUS
<1>. PICK n : n = fn.ins[b][k]
  OBVIOUS
<1>. PICK m : m = out.ins[b][k]
  OBVIOUS
<1>. PICK c : c = Computed(run.env, n, x)
  OBVIOUS
<1>1. /\ pc = "run" /\ k \in DOMAIN fn.ins[b] /\ UNCHANGED <<fn, findvars, out>>
      /\ IF CanFold(n.op) /\ c = Bot
         THEN pc' = "end" /\ run' = Idle
         ELSE /\ run' = [run EXCEPT !.i = run.i + 1, !.env = After(run.env, n, x),
                                    !.env2 = After(run.env2, m, x)]
              /\ pc' = pc
  BY DEF RunIns
<1>2. pc' \in {"run", "end"}
  BY <1>1
<1>3. Typed' /\ Found' /\ TrimInv' /\ blk' \notin Blocks'
  BY <1>1, <1>2, RunKeeps
<1>4. ASSUME pc' = "run" PROVE RunInv'
  <2>. PICK e : e = After(run.env, n, x)
    OBVIOUS
  <2>. PICK e2 : e2 = After(run.env2, m, x)
    OBVIOUS
  <2>1. ~ (CanFold(n.op) /\ c = Bot) /\ run' = [run EXCEPT !.i = k + 1, !.env = e, !.env2 = e2]
    BY <1>1, <1>4
  <2>2. /\ b \in visit /\ b \in Blocks /\ fn \in Programs
        /\ Typed /\ Found /\ RunInv /\ R \notin Temps /\ k \in Nat
        /\ DOMAIN run = {"at", "from", "i", "env", "env2"}
        /\ DOMAIN run.env = Temps /\ DOMAIN run.env2 = Temps
    BY Names DEF RunOK, RunInv, Typed, TypeOK
  <2>12. k \in DOMAIN fn.ins[b] /\ ~ (CanFold(n.op) /\ c = Bot)
    BY <1>1, <2>1
  <2>3. /\ DOMAIN run' = {"at", "from", "i", "env", "env2"}
        /\ run'.at = b /\ run'.i = k + 1 /\ run'.env = e /\ run'.env2 = e2
    BY <2>1, <2>2
  <2>4. /\ n.to = R \/ val[n.to] = Bot =>
             \/ /\ m.op = n.op /\ m.to = n.to
                /\ \A j \in 1 .. 2 : m.arg[j] = RenRef(n.arg[j])
             \/ n.op = "store" /\ m = Nop
        /\ ~ (n.to = R \/ val[n.to] = Bot) => n.to \in Temps /\ m = Nop
    <3>1. /\ fn.ins[b][k].to = R \/ val[fn.ins[b][k].to] = Bot =>
              \/ /\ out.ins[b][k].op = fn.ins[b][k].op /\ out.ins[b][k].to = fn.ins[b][k].to
                 /\ \A j \in 1 .. 2 : out.ins[b][k].arg[j] = RenRef(fn.ins[b][k].arg[j])
              \/ /\ fn.ins[b][k].op = "store" /\ RenRef(fn.ins[b][k].arg[1]) = Top
                 /\ out.ins[b][k] = Nop
          /\ ~ (fn.ins[b][k].to = R \/ val[fn.ins[b][k].to] = Bot) =>
               fn.ins[b][k].to \in Temps /\ out.ins[b][k] = Nop
      BY <2>2, <2>12, OutIns
    <3>. QED  BY <3>1, Zenon
  <2>5. n.to \in Temps \cup {R} /\ (n.op = "store" => n.to = R)
    BY <1>1, <2>2, InsFacts
  <2>6. Nop.to = R /\ m.to \in {n.to, R}
    <3>1. Nop.to = R
      BY DEF Nop
    <3>. QED  BY <2>4, <2>5, <3>1, Zenon
  <2>7. DOMAIN e = Temps /\ DOMAIN e2 = Temps
    BY <2>2 DEF After
  <2>8. /\ c \in Cons \cup {Top}
        /\ c # Top =>
             /\ n.to # R => val[n.to] \in {c, Bot}
             /\ m.op = n.op /\ (\A j \in 1 .. 2 : m.arg[j] = RenRef(n.arg[j]))
                  => Computed(run.env2, m, x) = c
    <3>1. RunsTo(n, x, c)
      BY <2>2, <2>12, InsRuns
    <3>. QED  BY <3>1 DEF RunsTo
  <2>9. ASSUME NEW t \in Temps
        PROVE  /\ e[t] \in Cons \cup {Top}
               /\ e[t] # Top => val[t] = e[t] \/ (val[t] = Bot /\ e2[t] = e[t])
    <3>1. CASE t # n.to
      <4>1. e[t] = run.env[t] /\ e2[t] = run.env2[t]
        BY <2>2, <2>6, <3>1 DEF After
      <4>. QED  BY <2>2, <4>1 DEF RunInv
    <3>2. CASE t = n.to
      <4>1. n.to # R /\ e[t] = c
        BY <2>2, <3>2 DEF After
      <4>2. CASE c = Top
        BY <4>1, <4>2
      <4>3. CASE c # Top /\ val[t] = c
        BY <2>8, <4>1, <4>3
      <4>4. CASE c # Top /\ val[t] = Bot
        <5>1. m.to = n.to /\ Computed(run.env2, m, x) = c
          BY <2>4, <2>5, <2>8, <3>2, <4>1, <4>4
        <5>2. e2[t] = c
          BY <2>2, <3>2, <4>1, <5>1 DEF After
        <5>. QED  BY <2>8, <4>1, <4>4, <5>2
      <4>. QED  BY <2>8, <3>2, <4>1, <4>2, <4>3, <4>4
    <3>. QED  BY <3>1, <3>2
  <2>10. val' = val /\ visit' = visit
    BY <1>1 DEF findvars
  <2>11. k + 1 \in Nat /\ k + 1 # 0
    BY <2>2
  <2>. QED  BY <2>2, <2>3, <2>7, <2>9, <2>10, <2>11 DEF RunInv
<1>. QED  BY <1>1, <1>2, <1>3, <1>4

\* Where a jump on a value goes was found: its edge was taken.
LEMMA JumpTaken ==
  ASSUME RunOK, NEW b \in visit, fn.jmp[b] \in {"jmp", "jnz"},
         fn.jmp[b] = "jnz" => Of(run.env, fn.arg[b]) # Top,
         NEW d, d = Target(fn, run.env, b)
  PROVE  d \in visit /\ ~ DeadEdge(b, d) /\ d \in {out.s1[b], out.s2[b]}
<1>1. /\ b \in Blocks /\ fn \in Programs /\ Typed /\ Found /\ RunInv /\ None \notin Blocks
      /\ Bot \notin Cons /\ Bot # Top
  <2>1. fn \in Programs /\ Typed
    BY DEF RunOK, Typed, TypeOK
  <2>2. None \notin Blocks
    BY <2>1, FnTypes
  <2>3. Bot \notin Cons /\ Bot # Top
    BY Names
  <2>4. b \in Blocks /\ Found /\ RunInv
    BY DEF RunOK, Typed, TypeOK
  <2>. QED  BY <2>1, <2>2, <2>3, <2>4
<1>. DEFINE v == Of(run.env, fn.arg[b])
            side == IF fn.jmp[b] = "jnz" /\ IsZero(v) THEN 1 ELSE 0
<1>2. d = Succ(fn, b, side) /\ side \in {0, 1}
  BY DEF Target, Succ
<1>3. \E i \in DOMAIN Jumps(b) : Jumps(b)[i] = side
  <2>1. CASE fn.jmp[b] = "jmp"
    <3>1. Jumps(b) = <<0>>
      BY <2>1 DEF Jumps
    <3>. QED  BY <2>1, <3>1
  <2>2. CASE fn.jmp[b] = "jnz"
    <3>1. LatVal(fn.arg[b]) \in {v, Bot}
      BY <1>1, <2>2, JmpFacts, RefAgrees
    <3>2. CASE LatVal(fn.arg[b]) = Bot
      <4>1. Jumps(b) = <<0, 1>>
        BY <2>2, <3>2 DEF Jumps
      <4>2. 1 \in DOMAIN Jumps(b) /\ 2 \in DOMAIN Jumps(b) /\ Jumps(b)[1] = 0 /\ Jumps(b)[2] = 1
        BY <4>1
      <4>. QED  BY <1>2, <4>2
    <3>3. CASE LatVal(fn.arg[b]) = v /\ v # Bot
      <4>1. Jumps(b) = IF IsZero(v) THEN <<1>> ELSE <<0>>
        BY <2>2, <3>3 DEF Jumps
      <4>. HIDE DEF IsZero, v
      <4>2. Jumps(b) = <<side>>
        BY <2>2, <4>1
      <4>. QED  BY <4>2
    <3>. QED  BY <3>1, <3>2, <3>3
  <2>. QED  BY <2>1, <2>2
<1>4. ~ dead[<<b, side>>] /\ <<b, side>> \in Edges /\ <<b, side>> # Start
  BY <1>1, <1>2, <1>3, EdgeFacts DEF Found
<1>5. d = Dest(<<b, side>>)
  BY <1>2, <1>4 DEF Dest
<1>6. d \in visit
  BY <1>1, <1>4, <1>5 DEF Found
<1>7. ~ DeadEdge(b, d)
  BY <1>2, <1>4 DEF DeadEdge, Sides
<1>8. d \in {out.s1[b], out.s2[b]}
  <2>. PICK a : a = RenRef(fn.arg[b])
    OBVIOUS
  <2>1. CASE fn.jmp[b] = "jnz" /\ a \notin Temps
    <3>1. a = v
      BY <1>1, <2>1, JmpFacts, RefAgrees
    <3>2. out.s1[b] = IF IsZero(v) THEN fn.s2[b] ELSE fn.s1[b]
      BY <2>1, <3>1, OutJmp
    <3>. QED  BY <2>1, <3>2 DEF Target
  <2>2. CASE ~ (fn.jmp[b] = "jnz" /\ a \notin Temps)
    BY <1>2, <2>2, OutJmp DEF Succ
  <2>. QED  BY <2>1, <2>2
<1>. QED  BY <1>6, <1>7, <1>8

LEMMA RunJmpStep ==
  ASSUME RunOK, RunJmp
  PROVE  /\ pc' \in {"run", "end"} /\ UNCHANGED <<fn, findvars, out>>
         /\ Typed' /\ Found' /\ TrimInv' /\ blk' \notin Blocks'
         /\ pc' = "run" => RunInv'
<1>. PICK b : b = run.at
  OBVIOUS
<1>. PICK d : d = Target(fn, run.env, b)
  OBVIOUS
<1>. DEFINE left == fn.jmp[b] = "ret" \/ (fn.jmp[b] = "jnz" /\ Of(run.env, fn.arg[b]) = Top)
<1>1. /\ pc = "run" /\ UNCHANGED <<fn, findvars, out>>
      /\ left => pc' = "end"
      /\ ~ left => run' = [run EXCEPT !.at = d, !.from = b, !.i = 0] /\ pc' = pc
  BY DEF RunJmp
<1>2. pc' \in {"run", "end"}
  BY <1>1
<1>3. Typed' /\ Found' /\ TrimInv' /\ blk' \notin Blocks'
  BY <1>1, <1>2, RunKeeps
<1>4. ASSUME pc' = "run" PROVE RunInv'
  <2>1. ~ left /\ run' = [run EXCEPT !.at = d, !.from = b, !.i = 0]
    BY <1>1, <1>4
  <2>2. /\ b \in visit /\ b \in Blocks /\ fn \in Programs /\ RunInv /\ b # None
        /\ DOMAIN run = {"at", "from", "i", "env", "env2"}
    BY FnTypes DEF RunOK, RunInv, Typed, TypeOK
  <2>3. /\ DOMAIN run' = {"at", "from", "i", "env", "env2"}
        /\ run'.at = d /\ run'.i = 0 /\ run'.from = b
        /\ run'.env = run.env /\ run'.env2 = run.env2
    BY <2>1, <2>2
  <2>4. fn.jmp[b] \in {"jmp", "jnz"} /\ (fn.jmp[b] = "jnz" => Of(run.env, fn.arg[b]) # Top)
    BY <2>1, <2>2, JmpFacts
  <2>5. d \in visit /\ ~ DeadEdge(b, d) /\ d \in {out.s1[b], out.s2[b]}
    BY <2>2, <2>4, JumpTaken
  <2>6. val' = val /\ visit' = visit /\ out' = out /\ DeadEdge(b, d)' = DeadEdge(b, d)
    BY <1>1 DEF findvars, DeadEdge, Succ
  <2>. QED  BY <2>2, <2>3, <2>5, <2>6 DEF RunInv
<1>. QED  BY <1>1, <1>2, <1>3, <1>4

-----------------------------------------------------------------------------
(* The theorems.                                                            *)

IInv == /\ SccpInv /\ ListIntact
        /\ pc = "find" => ListOK

LEMMA FindIntactNext == (FindOK => ListIntact /\ UpToDate)'
BY FindIntact, PTL

\* A step that leaves the lists alone keeps them.
LEMMA IntactSame ==
  ASSUME ListIntact, UNCHANGED <<fn, val, dead, work, flowrk, usewrk, visit, todo>>
  PROVE  ListIntact'
<1>1. Edges' = Edges /\ Chain' = Chain
  BY SameFn DEF Chain
<1>2. OnList' = OnList
  BY <1>1, Zenon DEF OnList
<1>3. \A r : LatVal(r)' = LatVal(r)
  BY DEF LatVal
<1>4. \A b : Jumps(b)' = Jumps(b)
  BY <1>3, JumpsSame
<1>. QED  BY <1>1, <1>2, <1>4 DEF ListIntact

\* A step of the analysis that does not end it.
LEMMA FindNext ==
  ASSUME IInv, pc = "find", FindOK', pc' = "find"
  PROVE  IInv'
BY FindIntactNext DEF IInv, SccpInv, FindOK

LEMMA FindSteps ==
  ASSUME IInv, pc = "find",
         TakeEdge \/ VisitPhi \/ VisitIns \/ EndVisit \/ \E u \in usewrk : TakeUse(u)
  PROVE  IInv'
<1>1. FindOK
  BY DEF IInv, SccpInv, FindOK
<1>2. CASE TakeEdge
  BY <1>1, <1>2, TakeEdgeStep, FindNext DEF TakeEdge
<1>3. CASE VisitPhi
  BY <1>1, <1>3, VisitPhiStep, FindNext DEF VisitPhi
<1>4. CASE VisitIns
  BY <1>1, <1>4, VisitInsStep, FindNext DEF VisitIns
<1>5. CASE EndVisit
  BY <1>1, <1>5, EndVisitStep, FindNext
<1>6. ASSUME NEW u \in usewrk, TakeUse(u) PROVE IInv'
  BY <1>1, <1>6, TakeUseStep, FindNext DEF TakeUse
<1>. QED  BY <1>2, <1>3, <1>4, <1>5, <1>6

LEMMA JmpSteps ==
  ASSUME IInv, pc = "find", VisitJmp
  PROVE  IInv'
<1>1. FindOK /\ Typed /\ ListIntact
  BY DEF IInv, SccpInv, FindOK
<1>2. CASE pc' # "abort"
  <2>1. pc' = "find"
    BY <1>2 DEF VisitJmp, Abort
  <2>. QED  BY <1>1, <1>2, <2>1, VisitJmpStep, FindNext
<1>3. CASE pc' = "abort"
  <2>1. UNCHANGED <<fn, val, dead, work, flowrk, usewrk, visit, blk, todo, out, run>>
    BY <1>3 DEF VisitJmp, Abort, findvars
  <2>2. ~ Defined
    BY <1>1, <1>3, VisitJmpAbort
  <2>3. ~ Defined'
    BY <2>1, <2>2, SameFn
  <2>4. Typed'
    BY <1>1, <1>3, <2>1, SameFn DEF Typed, TypeOK
  <2>5. ListIntact'
    BY <1>1, <2>1, IntactSame
  <2>. QED  BY <1>3, <2>3, <2>4, <2>5 DEF IInv, SccpInv
<1>. QED  BY <1>2, <1>3

LEMMA TrimSteps ==
  ASSUME IInv, EndFind \/ TrimBlk \/ EndTrim
  PROVE  IInv'
<1>1. CASE EndFind
  <2>1. pc = "find" /\ pc' = "trim"
    BY <1>1 DEF EndFind
  <2>2. FindOK /\ ListIntact
    BY <2>1 DEF IInv, SccpInv, FindOK
  <2>3. Typed' /\ Found' /\ TrimInv' /\ UNCHANGED <<fn, val, dead, work, flowrk, usewrk, visit, todo>>
    BY <1>1, <2>2, EndFindFound
  <2>4. ListIntact'
    BY <2>2, <2>3, IntactSame
  <2>. QED  BY <2>1, <2>3, <2>4 DEF IInv, SccpInv
<1>2. CASE TrimBlk
  <2>1. pc = "trim" /\ pc' = "trim" /\ UNCHANGED <<fn, val, dead, work, flowrk, usewrk, visit, todo>>
    BY <1>2 DEF TrimBlk
  <2>2. Typed /\ Found /\ TrimInv /\ ListIntact
    BY <2>1 DEF IInv, SccpInv
  <2>3. Typed' /\ Found' /\ TrimInv'
    BY <1>2, <2>2, TrimBlkStep
  <2>4. ListIntact'
    BY <2>1, <2>2, IntactSame
  <2>. QED  BY <2>1, <2>3, <2>4 DEF IInv, SccpInv
<1>3. CASE EndTrim
  <2>1. pc = "trim" /\ pc' = "run" /\ UNCHANGED <<fn, val, dead, work, flowrk, usewrk, visit, todo>>
    BY <1>3 DEF EndTrim, findvars
  <2>2. Typed /\ Found /\ TrimInv /\ ListIntact
    BY <2>1 DEF IInv, SccpInv
  <2>3. Typed' /\ Found' /\ TrimInv' /\ blk' \notin Blocks' /\ RunInv'
    BY <1>3, <2>2, EndTrimStep
  <2>4. ListIntact'
    BY <2>1, <2>2, IntactSame
  <2>. QED  BY <2>1, <2>3, <2>4 DEF IInv, SccpInv
<1>. QED  BY <1>1, <1>2, <1>3

LEMMA RunSteps ==
  ASSUME IInv, RunPhis \/ RunJmp \/ \E x \in Cons : RunIns(x)
  PROVE  IInv'
<1>1. pc = "run" /\ UNCHANGED <<fn, val, dead, work, flowrk, usewrk, visit, todo>>
  BY DEF RunPhis, RunJmp, RunIns, findvars
<1>2. RunOK /\ ListIntact
  BY <1>1 DEF IInv, SccpInv, RunOK
<1>3. /\ pc' \in {"run", "end"} /\ Typed' /\ Found' /\ TrimInv' /\ blk' \notin Blocks'
      /\ pc' = "run" => RunInv'
  <2>1. CASE RunPhis
    BY <1>2, <2>1, RunPhisStep DEF RunPhis
  <2>2. CASE RunJmp
    BY <1>2, <2>2, RunJmpStep
  <2>3. ASSUME NEW x \in Cons, RunIns(x)
        PROVE  /\ pc' \in {"run", "end"} /\ Typed' /\ Found' /\ TrimInv' /\ blk' \notin Blocks'
               /\ pc' = "run" => RunInv'
    BY <1>2, <2>3, RunInsStep
  <2>. QED  BY <2>1, <2>2, <2>3
<1>4. ListIntact'
  BY <1>1, <1>2, IntactSame
<1>. QED  BY <1>3, <1>4 DEF IInv, SccpInv

\* Nothing changes.
LEMMA FindSame ==
  ASSUME FindOK, UNCHANGED vars
  PROVE  FindOK'
<1>1. /\ UNCHANGED <<pc, fn, val, dead, work, flowrk, usewrk, visit, blk, todo, out, run>>
      /\ Typed /\ FindInv /\ ListOK /\ fn \in Programs
  BY FindFacts DEF vars, findvars, FindOK
<1>2. /\ Blocks' = Blocks /\ Edges' = Edges /\ Items' = Items /\ Defs' = Defs
      /\ Defined' = Defined
      /\ \A v : ToOf(v)' = ToOf(v)
      /\ \A e : Dest(e)' = Dest(e)
  BY <1>1, SameFn
<1>3. OnList' = OnList /\ ListOK'
  BY <1>1, ListSame
<1>4. \A r : LatVal(r)' = LatVal(r)
  BY <1>1 DEF LatVal
<1>5. \A b : Jumps(b)' = Jumps(b)
  BY <1>1, <1>4, JumpsSame
<1>6. \A v \in Defs : ValOf(v)' = ValOf(v)
  <2>. SUFFICES ASSUME NEW v \in Defs PROVE ValOf(v)' = ValOf(v)
    OBVIOUS
  <2>1. \A a : DeadEdge(a, v[2])' = DeadEdge(a, v[2])
    BY <1>1 DEF DeadEdge, Succ
  <2>. QED  BY <1>1, <2>1, ValOfSame
<1>7. InTodo' = InTodo /\ Waiting' = Waiting
  BY <1>1 DEF InTodo, Waiting
<1>8. /\ \A u : Done(u)' = Done(u)
      /\ \A e : Known(e)' = Known(e)
  BY <1>1, <1>3, <1>7 DEF Done, Known
<1>9. Typed'
  BY <1>1, <1>2 DEF Typed, TypeOK
<1>10. ValuesFall' /\ DoneKnown'
  BY <1>1, <1>2, <1>6, <1>8 DEF FindInv, ValuesFall, DoneKnown
<1>11. DoneRight'
  BY <1>1, <1>2, <1>3, <1>5, <1>6, <1>7, <1>8 DEF FindInv, DoneRight
<1>12. TodoShape'
  BY <1>1, <1>2 DEF FindInv, TodoShape
<1>13. EdgesShape'
  BY <1>1, <1>2, <1>8 DEF FindInv, EdgesShape
<1>14. JmpsTaken'
  BY <1>1, <1>2, <1>8 DEF FindInv, JmpsTaken
<1>15. VisitedWithin'
  BY <1>1, <1>2 DEF FindInv, VisitedWithin
<1>16. JumpsAgree'
  BY <1>1, <1>2, <1>4, <1>5, <1>8 DEF FindInv, JumpsAgree
<1>17. out' = fn'
  BY <1>1 DEF FindInv
<1>. QED  BY <1>3, <1>9, <1>10, <1>11, <1>12, <1>13, <1>14, <1>15, <1>16, <1>17 DEF FindOK, FindInv

LEMMA StaysTrimmed ==
  ASSUME Typed, Found, TrimInv, pc = "trim",
         UNCHANGED <<pc, fn, val, dead, work, flowrk, usewrk, visit, blk, todo, out>>
  PROVE  Typed' /\ Found' /\ TrimInv'
<1>1. Typed' /\ Found'
  BY FoundSame
<1>2. TrimInv'
  <2>. PICK o : o = out'
    OBVIOUS
  <2>. PICK k : k = blk'
    OBVIOUS
  <2>1. Trimmed(o, k)
    BY DEF TrimInv
  <2>. QED  BY <2>1, TrimmedSame
<1>. QED  BY <1>1, <1>2

LEMMA NextKeeps ==
  ASSUME IInv, [Next]_vars
  PROVE  IInv'
<1>1. CASE UNCHANGED vars
  <2>1. UNCHANGED <<pc, fn, val, dead, work, flowrk, usewrk, visit, blk, todo, out, run>>
    BY <1>1 DEF vars, findvars
  <2>2. ListIntact'
    BY <2>1, IntactSame DEF IInv
  <2>3. CASE pc = "find"
    <3>1. FindOK' /\ pc' = "find"
      <4>1. FindOK
        BY <2>3 DEF IInv, SccpInv, FindOK
      <4>. QED  BY <1>1, <2>1, <2>3, <4>1, FindSame
    <3>. QED  BY <2>3, <3>1, FindNext
  <2>4. CASE pc = "trim"
    <3>1. Typed /\ Found /\ TrimInv
      BY <2>4 DEF IInv, SccpInv
    <3>2. Typed' /\ Found' /\ TrimInv'
      BY <2>1, <2>4, <3>1, StaysTrimmed
    <3>. QED  BY <2>1, <2>2, <2>4, <3>2 DEF IInv, SccpInv
  <2>5. CASE pc = "run"
    <3>1. RunOK
      BY <2>5 DEF IInv, SccpInv, RunOK
    <3>2. Typed' /\ Found' /\ TrimInv' /\ blk' \notin Blocks'
      BY <2>1, <2>5, <3>1, RunKeeps DEF findvars
    <3>3. RunInv'
      <4>1. \A a, b : DeadEdge(a, b)' = DeadEdge(a, b)
        BY <2>1 DEF DeadEdge, Succ
      <4>. QED  BY <2>1, <3>1, <4>1 DEF RunOK, RunInv
    <3>. QED  BY <2>1, <2>2, <2>5, <3>2, <3>3 DEF IInv, SccpInv
  <2>6. CASE pc \in {"end", "abort"}
    <3>1. Typed'
      BY <2>1, SameFn DEF IInv, SccpInv, Typed, TypeOK
    <3>2. pc = "abort" => ~ Defined'
      BY <2>1, SameFn DEF IInv, SccpInv
    <3>. QED  BY <2>1, <2>2, <2>6, <3>1, <3>2 DEF IInv, SccpInv
  <2>7. pc \in {"find", "trim", "run", "end", "abort"}
    BY DEF IInv, SccpInv, Typed, TypeOK
  <2>. QED  BY <2>3, <2>4, <2>5, <2>6, <2>7
<1>2. CASE Next
  <2>1. CASE TakeEdge \/ VisitPhi \/ VisitIns \/ EndVisit \/ \E u \in usewrk : TakeUse(u)
    <3>1. pc = "find"
      BY <2>1 DEF TakeEdge, VisitPhi, VisitIns, EndVisit, TakeUse, Todo
    <3>. QED  BY <2>1, <3>1, FindSteps
  <2>2. CASE VisitJmp
    <3>1. pc = "find"
      BY <2>2 DEF VisitJmp, Todo
    <3>. QED  BY <2>2, <3>1, JmpSteps
  <2>3. CASE EndFind \/ TrimBlk \/ EndTrim
    BY <2>3, TrimSteps
  <2>4. CASE RunPhis \/ RunJmp \/ \E x \in Cons : RunIns(x)
    BY <2>4, RunSteps
  <2>. QED  BY <1>2, <2>1, <2>2, <2>3, <2>4 DEF Next, Fold
<1>. QED  BY <1>1, <1>2

\* The inductive invariant: what the worklists still hold, what the analysis
\* found, how far the function is trimmed, and how the executions agree.
THEOREM SccpInvariant == Spec => []IInv
<1>1. Init => IInv
  BY InitFind, FindIntact DEF IInv, SccpInv, FindOK, Init
<1>2. IInv /\ [Next]_vars => IInv'
  BY NextKeeps
<1>. QED  BY <1>1, <1>2, PTL DEF Spec

\* The analysis keeps its types: the values of temporaries are lattice values,
\* the lists hold edges and items of the function.
THEOREM TypeCorrect == Spec => []TypeOK
<1>1. IInv => TypeOK
  BY DEF IInv, SccpInv, Typed
<1>. QED  BY <1>1, SccpInvariant, PTL

\* The assertions of visitjmp() and fold() hold for every function that reads
\* no undefined value.
THEOREM NoAbortCorrect == Spec => []NoAbortDefined
<1>1. IInv => NoAbortDefined
  BY DEF IInv, SccpInv, NoAbortDefined, NoAbort
<1>. QED  BY <1>1, SccpInvariant, PTL

\* The phis of the trimmed function match its edges, and it does what the
\* original function does in every execution.
THEOREM TrimCorrect == Spec => []TrimRight
<1>1. IInv => TrimRight
  <2>. SUFFICES ASSUME IInv PROVE PhisMatch /\ SameRun
    BY DEF TrimRight
  <2>1. CASE pc = "run"
    <3>1. RunOK
      BY <2>1 DEF IInv, SccpInv, RunOK
    <3>. QED  BY <2>1, <3>1, PhisMatchInv, SameRunInv
  <2>2. CASE pc # "run"
    BY <2>2 DEF PhisMatch, SameRun
  <2>. QED  BY <2>1, <2>2
<1>. QED  BY <1>1, SccpInvariant, PTL

\* The list that runs through Edge.work loses no edge, and every value is up to
\* date or what computes it still waits.
THEOREM ListsCorrect == Spec => [](ListIntact /\ UpToDate)
<1>1. IInv => ListIntact /\ UpToDate
  <2>. SUFFICES ASSUME IInv PROVE UpToDate
    BY DEF IInv
  <2>1. CASE pc = "find"
    <3>1. FindOK
      BY <2>1 DEF IInv, SccpInv, FindOK
    <3>. QED  BY <3>1, FindIntact
  <2>2. CASE pc # "find"
    BY <2>2 DEF UpToDate
  <2>. QED  BY <2>1, <2>2
<1>. QED  BY <1>1, SccpInvariant, PTL

-----------------------------------------------------------------------------
(***************************************************************************)
(* The worklists end with what computing everything again and again ends   *)
(* with.  A state of such a computation has a value for each temporary and *)
(* the edges that were taken; a state that knows more has lower values and *)
(* more edges.  Rounds only learn, there is a last one that changes        *)
(* nothing, and the analysis ends neither before nor behind.               *)
(***************************************************************************)
States == [val : [Temps -> Nums], taken : SUBSET Edges]

\* z knows all that s does.
Lower(s, z) == \A t \in Temps : Below(z.val[t], s.val[t])
Leq(s, z) ==
  /\ Lower(s, z)
  /\ s.taken \subseteq z.taken

\* What the analysis has found so far.
Now == [val |-> val, taken |-> {e \in Edges : ~ dead[e]}]

LEMMA BelowFacts ==
  /\ \A v : Below(v, v) /\ Below(v, Top) /\ Below(Bot, v)
  /\ \A v, w : Below(v, w) /\ Below(w, v) => v = w
BY DEF Below, Top, Bot

LEMMA LeqFacts ==
  /\ \A s : Leq(s, s)
  /\ \A s, z, x : Leq(s, z) /\ Leq(z, x) => Leq(s, x)
  /\ \A s, z \in States : Leq(s, z) /\ Leq(z, s) => s = z
<1>1. \A s : Leq(s, s)
  BY BelowFacts DEF Leq, Lower
<1>2. ASSUME NEW s, NEW z, NEW x, Leq(s, z), Leq(z, x)
      PROVE  Leq(s, x)
  BY <1>2, BelowTrans DEF Leq, Lower
<1>3. ASSUME NEW s \in States, NEW z \in States, Leq(s, z), Leq(z, s)
      PROVE  s = z
  <2>1. \A t \in Temps : s.val[t] = z.val[t]
    BY <1>3, BelowFacts DEF Leq, Lower
  <2>2. s.taken = z.taken
    BY <1>3 DEF Leq, Lower
  <2>3. s.val = z.val
    BY <2>1 DEF States
  <2>. QED  BY <2>2, <2>3 DEF States
<1>. QED  BY <1>1, <1>2, <1>3

-----------------------------------------------------------------------------
(* A round computes more from more.                                         *)

LEMMA NumsFinite == IsFiniteSet(Nums)
<1>1. IsFiniteSet(Cons)
  BY Names, FS_Interval
<1>2. IsFiniteSet(Cons \cup {Top})
  BY <1>1, FS_AddElement
<1>3. IsFiniteSet((Cons \cup {Top}) \cup {Bot})
  BY <1>2, FS_AddElement
<1>4. Nums = (Cons \cup {Top}) \cup {Bot}
  BY DEF Nums
<1>. QED  BY <1>3, <1>4

LEMMA MeetRight ==
  ASSUME NEW V \in SUBSET Nums
  PROVE  IsMeet(Meet(V), V)
<1>. DEFINE W == V \ {Top}
<1>1. IsFiniteSet(W)
  BY NumsFinite, FS_Subset
<1>2. Cardinality(W) = 1 <=> \E m : W = {m}
  BY <1>1, FS_Singleton
<1>3. CASE V \subseteq {Top}
  BY <1>3 DEF Meet, IsMeet
<1>4. CASE ~ (V \subseteq {Top}) /\ \E m : W = {m}
  <2>1. PICK m : W = {m}
    BY <1>4
  <2>2. (CHOOSE v \in V : v # Top) = m
    BY <2>1
  <2>3. Meet(V) = m
    BY <1>2, <1>4, <2>2 DEF Meet
  <2>. QED  BY <2>1, <2>3 DEF IsMeet
<1>5. CASE ~ (V \subseteq {Top}) /\ ~ \E m : W = {m}
  <2>1. Meet(V) = Bot
    BY <1>2, <1>5 DEF Meet
  <2>2. PICK v \in W : TRUE
    BY <1>5
  <2>3. PICK w \in W : w # v
    BY <1>5, <2>2
  <2>. QED  BY <2>1, <2>2, <2>3 DEF IsMeet
<1>. QED  BY <1>3, <1>4, <1>5

LEMMA MeetType ==
  ASSUME NEW V \in SUBSET Nums
  PROVE  Meet(V) \in Nums
BY MeetRight DEF IsMeet, Nums

LEMMA RoundOfType ==
  ASSUME NEW s \in States, NEW r \in Operands
  PROVE  RoundOf(s, r) \in Nums
BY DEF States, Operands, RoundOf, Nums

LEMMA RoundOfFalls ==
  ASSUME NEW s, NEW z, Lower(s, z), NEW r
  PROVE  Below(RoundOf(z, r), RoundOf(s, r))
BY BelowFacts DEF RoundOf, Lower

\* The arguments that a phi of block b merges.
RoundArgs(s, p, b) ==
  {RoundOf(s, p.arg[a]) :
     a \in {a \in DOMAIN p.arg : \E e \in s.taken : e[1] = a /\ Dest(e) = b}}

LEMMA RoundPhiMeet ==
  ASSUME fn \in Programs, NEW s \in States, NEW b \in Blocks, NEW i \in DOMAIN fn.phi[b]
  PROVE  /\ IsMeet(RoundPhi(s, fn.phi[b][i], b), RoundArgs(s, fn.phi[b][i], b))
         /\ RoundPhi(s, fn.phi[b][i], b) \in Nums
<1>. DEFINE p == fn.phi[b][i]
<1>1. \A a \in DOMAIN p.arg : p.arg[a] \in Operands
  BY PhiFacts
<1>. HIDE DEF p
<1>2. RoundArgs(s, p, b) \in SUBSET Nums
  BY <1>1, RoundOfType DEF RoundArgs
<1>3. RoundPhi(s, p, b) = Meet(RoundArgs(s, p, b))
  BY DEF RoundPhi, RoundArgs
<1>4. IsMeet(RoundPhi(s, p, b), RoundArgs(s, p, b)) /\ RoundPhi(s, p, b) \in Nums
  BY <1>2, <1>3, MeetRight, MeetType
<1>. QED  BY <1>4 DEF p

LEMMA RoundInsType ==
  ASSUME fn \in Programs, NEW s \in States, NEW b \in Blocks, NEW i \in DOMAIN fn.ins[b]
  PROVE  RoundIns(s, fn.ins[b][i]) \in Nums
<1>. DEFINE x == fn.ins[b][i]
            l == RoundOf(s, x.arg[1])
            r == RoundOf(s, x.arg[2])
<1>1. CASE CanFold(x.op) /\ l # Bot /\ r # Bot /\ l # Top /\ r # Top
  <2>1. x.arg[1] \in Operands /\ x.arg[2] \in Operands
    BY <1>1, InsFacts
  <2>2. l \in Nums /\ r \in Nums
    BY <2>1, RoundOfType
  <2>3. l \in Cons /\ r \in Cons
    BY <1>1, <2>2 DEF Nums
  <2>4. OpFold(x.op, l, r) \in Cons \cup {Bot}
    BY <1>1, <2>3, OpFoldType
  <2>5. RoundIns(s, x) = OpFold(x.op, l, r)
    BY <1>1 DEF RoundIns
  <2>. QED  BY <2>4, <2>5 DEF Nums
<1>2. CASE ~ (CanFold(x.op) /\ l # Bot /\ r # Bot /\ l # Top /\ r # Top)
  <2>1. RoundIns(s, x) \in {Bot, Top}
    BY <1>2 DEF RoundIns
  <2>. QED  BY <2>1 DEF Nums
<1>. QED  BY <1>1, <1>2

LEMMA RoundValType ==
  ASSUME fn \in Programs, NEW s \in States, NEW u \in Defs
  PROVE  RoundVal(s, u) \in Nums
BY DefForm, RoundPhiMeet, RoundInsType DEF RoundVal, PhiOf, InsOf

LEMMA RoundValFalls ==
  ASSUME fn \in Programs, NEW s \in States, NEW z \in States, Leq(s, z), NEW u \in Defs
  PROVE  Below(RoundVal(z, u), RoundVal(s, u))
<1>1. CASE u[1] = "phi"
  <2>. DEFINE b == u[2]
              p == PhiOf(u)
  <2>1. b \in Blocks /\ u[3] \in DOMAIN fn.phi[b] /\ p = fn.phi[b][u[3]]
    BY <1>1, DefForm DEF PhiOf
  <2>2. IsMeet(RoundPhi(s, p, b), RoundArgs(s, p, b)) /\ IsMeet(RoundPhi(z, p, b), RoundArgs(z, p, b))
    BY <2>1, RoundPhiMeet
  <2>3. \A v \in RoundArgs(s, p, b) : \E w \in RoundArgs(z, p, b) : Below(w, v)
    <3>. SUFFICES ASSUME NEW a \in DOMAIN p.arg, NEW e \in s.taken, e[1] = a, Dest(e) = b
                  PROVE  \E w \in RoundArgs(z, p, b) : Below(w, RoundOf(s, p.arg[a]))
      BY DEF RoundArgs
    <3>1. RoundOf(z, p.arg[a]) \in RoundArgs(z, p, b)
      BY DEF RoundArgs, Leq
    <3>. QED  BY <3>1, RoundOfFalls DEF Leq
  <2>4. RoundVal(s, u) = RoundPhi(s, p, b) /\ RoundVal(z, u) = RoundPhi(z, p, b)
    BY <1>1 DEF RoundVal
  <2>. HIDE DEF p, b
  <2>. QED  BY <2>2, <2>3, <2>4, MeetFalls
<1>2. CASE u[1] # "phi"
  <2>. DEFINE x == InsOf(u)
              l == RoundOf(s, x.arg[1])
              r == RoundOf(s, x.arg[2])
              m == RoundOf(z, x.arg[1])
              q == RoundOf(z, x.arg[2])
  <2>1. Below(m, l) /\ Below(q, r)
    BY RoundOfFalls DEF Leq
  <2>2. RoundVal(s, u) = IF ~ CanFold(x.op) \/ Bot \in {l, r} THEN Bot
                         ELSE IF Top \in {l, r} THEN Top ELSE OpFold(x.op, l, r)
    BY <1>2 DEF RoundVal, RoundIns
  <2>3. RoundVal(z, u) = IF ~ CanFold(x.op) \/ Bot \in {m, q} THEN Bot
                         ELSE IF Top \in {m, q} THEN Top ELSE OpFold(x.op, m, q)
    BY <1>2 DEF RoundVal, RoundIns
  <2>. HIDE DEF x, l, r, m, q
  <2>. QED  BY <2>1, <2>2, <2>3 DEF Below, Top, Bot
<1>. QED  BY <1>1, <1>2

\* A jump that goes one way goes there when more is known too.
LEMMA GoesMore ==
  ASSUME NEW s, NEW z, Lower(s, z), NEW b, NEW side, Goes(s, b, side)
  PROVE  Goes(z, b, side)
<1>. DEFINE a == RoundOf(s, fn.arg[b])
            c == RoundOf(z, fn.arg[b])
<1>1. Below(c, a)
  BY RoundOfFalls
<1>2. \/ fn.jmp[b] = "jmp" /\ side = 0
      \/ fn.jmp[b] = "jnz" /\ (a = Bot \/ (a # Top /\ (side = 1 <=> IsZero(a))))
  BY DEF Goes
<1>3. (\/ fn.jmp[b] = "jmp" /\ side = 0
       \/ fn.jmp[b] = "jnz" /\ (c = Bot \/ (c # Top /\ (side = 1 <=> IsZero(c))))) => Goes(z, b, side)
  BY DEF Goes
<1>. HIDE DEF a, c
<1>. QED  BY <1>1, <1>2, <1>3 DEF Below, Bot, Top

\* What the definitions of t compute, in the blocks that are reached.
FoundFor(s, t) == {RoundVal(s, u) : u \in {u \in Defs : u[2] \in Reached(s) /\ ToOf(u) = t}}

LEMMA RoundIs ==
  ASSUME NEW s
  PROVE  /\ Round(s) = [val |-> Round(s).val, taken |-> Round(s).taken]
         /\ DOMAIN Round(s).val = Temps
         /\ \A t \in Temps : Round(s).val[t] = Meet(FoundFor(s, t))
         /\ \A e : e \in Round(s).taken <=>
              e = Start \/ (e \in Blocks \X Sides /\ e[1] \in Reached(s) /\ Goes(s, e[1], e[2]))
BY DEF Round, FoundFor

LEMMA FoundForType ==
  ASSUME fn \in Programs, NEW s \in States, NEW t
  PROVE  FoundFor(s, t) \in SUBSET Nums
BY RoundValType DEF FoundFor

LEMMA RoundType ==
  ASSUME fn \in Programs, NEW s \in States
  PROVE  Round(s) \in States
<1>1. \A t \in Temps : Round(s).val[t] \in Nums
  BY RoundIs, FoundForType, MeetType
<1>2. Round(s).taken \subseteq Edges
  BY RoundIs DEF Edges
<1>. DEFINE r == Round(s)
<1>3. r = [val |-> r.val, taken |-> r.taken] /\ r.val = [t \in Temps |-> r.val[t]]
  BY DEF Round
<1>. HIDE DEF r
<1>4. r.val \in [Temps -> Nums] /\ r.taken \in SUBSET Edges
  BY <1>1, <1>2, <1>3 DEF r
<1>. QED  BY <1>3, <1>4 DEF States, r

LEMMA RoundFalls ==
  ASSUME fn \in Programs, NEW s \in States, NEW z \in States, Leq(s, z)
  PROVE  Leq(Round(s), Round(z))
<1>1. Reached(s) \subseteq Reached(z)
  BY DEF Reached, Leq
<1>2. ASSUME NEW t \in Temps
      PROVE  Below(Round(z).val[t], Round(s).val[t])
  <2>1. IsMeet(Round(s).val[t], FoundFor(s, t)) /\ IsMeet(Round(z).val[t], FoundFor(z, t))
    BY RoundIs, FoundForType, MeetRight
  <2>2. \A v \in FoundFor(s, t) : \E w \in FoundFor(z, t) : Below(w, v)
    <3>. SUFFICES ASSUME NEW u \in Defs, u[2] \in Reached(s), ToOf(u) = t
                  PROVE  \E w \in FoundFor(z, t) : Below(w, RoundVal(s, u))
      BY DEF FoundFor
    <3>1. RoundVal(z, u) \in FoundFor(z, t)
      BY <1>1 DEF FoundFor
    <3>. QED  BY <3>1, RoundValFalls
  <2>. QED  BY <2>1, <2>2, MeetFalls
<1>3. Round(s).taken \subseteq Round(z).taken
  BY <1>1, RoundIs, GoesMore DEF Leq
<1>. QED  BY <1>2, <1>3 DEF Leq, Lower

-----------------------------------------------------------------------------
(* The rounds.                                                              *)

IsRounds(n, g) == g[0] = Nothing /\ \A k \in 1 .. n : g[k] = Round(g[k - 1])

LEMMA RoundsExist ==
  ASSUME NEW n \in Nat
  PROVE  \E g : IsRounds(n, g)
<1>. DEFINE bad == {k \in Nat : ~ \E g : IsRounds(k, g)}
<1>. SUFFICES ASSUME bad # {} PROVE FALSE
  OBVIOUS
<1>1. PICK m \in bad : \A k \in bad : m <= k
  BY LeastNat
<1>2. CASE m = 0
  <2>. DEFINE g == [k \in {0} |-> Nothing]
  <2>1. IsRounds(0, g)
    BY DEF IsRounds
  <2>. HIDE DEF g
  <2>. QED  BY <1>1, <1>2, <2>1
<1>3. CASE m # 0
  <2>1. m - 1 \in Nat /\ m \in Nat /\ m - 1 \notin bad
    BY <1>1, <1>3
  <2>2. PICK h : IsRounds(m - 1, h)
    BY <2>1
  <2>. DEFINE g == [k \in 0 .. m |-> IF k = m THEN Round(h[m - 1]) ELSE h[k]]
  <2>3. g[0] = Nothing
    BY <1>3, <2>1, <2>2 DEF IsRounds
  <2>4. ASSUME NEW k \in 1 .. m
        PROVE  g[k] = Round(g[k - 1])
    <3>1. k - 1 \in 0 .. m /\ k - 1 # m /\ k \in 0 .. m
      BY <2>1
    <3>2. g[k - 1] = h[k - 1] /\ g[k] = IF k = m THEN Round(h[m - 1]) ELSE h[k]
      BY <3>1
    <3>3. k # m => k \in 1 .. m - 1 /\ h[k] = Round(h[k - 1])
      BY <2>1, <2>2 DEF IsRounds
    <3>. HIDE DEF g
    <3>. QED  BY <3>2, <3>3
  <2>5. IsRounds(m, g)
    <3>. HIDE DEF g
    <3>. QED  BY <2>3, <2>4 DEF IsRounds
  <2>. HIDE DEF g
  <2>. QED  BY <1>1, <2>5
<1>. QED  BY <1>2, <1>3

LEMMA RoundsUnique ==
  ASSUME NEW n \in Nat, NEW m \in Nat, NEW g, NEW h, IsRounds(n, g), IsRounds(m, h),
         NEW k \in Nat, k <= n, k <= m
  PROVE  g[k] = h[k]
<1>. DEFINE bad == {i \in Nat : i <= k /\ g[i] # h[i]}
<1>. SUFFICES ASSUME bad # {} PROVE FALSE
  OBVIOUS
<1>1. PICK i \in bad : \A j \in bad : i <= j
  BY LeastNat
<1>2. i # 0
  BY <1>1 DEF IsRounds
<1>3. i \in Nat /\ i <= k /\ i \in 1 .. n /\ i \in 1 .. m
  BY <1>1, <1>2
<1>4. i - 1 \in Nat /\ i - 1 <= k /\ i - 1 \notin bad
  BY <1>1, <1>2, <1>3
<1>5. g[i - 1] = h[i - 1]
  BY <1>4
<1>6. g[i] = Round(g[i - 1]) /\ h[i] = Round(h[i - 1])
  BY <1>3 DEF IsRounds
<1>. QED  BY <1>1, <1>5, <1>6

LEMMA RoundsAre ==
  Rounds[0] = Nothing /\ \A k \in Nat : Rounds[k + 1] = Round(Rounds[k])
<1>. DEFINE g(n) == CHOOSE h : IsRounds(n, h)
            f == [n \in Nat |-> g(n)[n]]
            next(h, k) == IF k = 0 THEN Nothing ELSE Round(h[k - 1])
            eq(h) == h = [k \in Nat |-> next(h, k)]
            c == CHOOSE h : eq(h)
<1>1. \A n \in Nat : IsRounds(n, g(n))
  <2>. SUFFICES ASSUME NEW n \in Nat PROVE IsRounds(n, g(n))
    OBVIOUS
  <2>1. \E h : IsRounds(n, h)
    BY RoundsExist
  <2>. QED  BY <2>1, Zenon
<1>. HIDE DEF g
<1>2. ASSUME NEW k \in Nat PROVE f[k] = next(f, k)
  <2>1. CASE k = 0
    BY <1>1, <2>1 DEF IsRounds
  <2>2. CASE k # 0
    <3>1. k - 1 \in Nat /\ k \in 1 .. k /\ k - 1 <= k
      BY <2>2
    <3>2. g(k)[k] = Round(g(k)[k - 1])
      BY <1>1, <3>1 DEF IsRounds
    <3>3. g(k)[k - 1] = g(k - 1)[k - 1]
      BY <1>1, <3>1, RoundsUnique
    <3>4. f[k] = g(k)[k] /\ f[k - 1] = g(k - 1)[k - 1]
      BY <3>1
    <3>. HIDE DEF f
    <3>. QED  BY <2>2, <3>2, <3>3, <3>4
  <2>. QED  BY <2>1, <2>2
<1>3. eq(f)
  <2>1. f = [k \in Nat |-> f[k]]
    OBVIOUS
  <2>. HIDE DEF f, next
  <2>. QED  BY <1>2, <2>1
<1>4. eq(c)
  <2>. HIDE DEF f
  <2>. QED  BY <1>3, Zenon
<1>5. Rounds = c
  BY Zenon DEF Rounds
<1>. HIDE DEF c
<1>6. \A k \in Nat : c[k] = next(c, k)
  <2>. HIDE DEF next
  <2>. QED  BY <1>4
<1>7. \A k \in Nat : k + 1 \in Nat /\ k + 1 # 0 /\ (k + 1) - 1 = k
  OBVIOUS
<1>. QED  BY <1>5, <1>6, <1>7

LEMMA RoundsType ==
  ASSUME fn \in Programs
  PROVE  \A k \in Nat : Rounds[k] \in States
<1>. DEFINE bad == {k \in Nat : Rounds[k] \notin States}
<1>. SUFFICES ASSUME bad # {} PROVE FALSE
  OBVIOUS
<1>1. PICK m \in bad : \A k \in bad : m <= k
  BY LeastNat
<1>2. Nothing \in States
  BY EdgeFacts DEF Nothing, States, Nums
<1>3. m # 0
  BY <1>1, <1>2, RoundsAre
<1>4. m - 1 \in Nat /\ m - 1 \notin bad /\ (m - 1) + 1 = m
  BY <1>1, <1>3
<1>5. Rounds[m - 1] \in States /\ Rounds[(m - 1) + 1] = Round(Rounds[m - 1])
  BY <1>4, RoundsAre
<1>. QED  BY <1>1, <1>4, <1>5, RoundType

LEMMA NothingLeast ==
  ASSUME NEW s, Start \in s.taken
  PROVE  Leq(Nothing, s)
BY BelowFacts DEF Nothing, Leq, Lower

\* Each round knows what the one before knew.
LEMMA RoundsRise ==
  ASSUME fn \in Programs
  PROVE  \A k \in Nat : Leq(Rounds[k], Rounds[k + 1])
<1>. DEFINE bad == {k \in Nat : ~ Leq(Rounds[k], Rounds[k + 1])}
<1>. SUFFICES ASSUME bad # {} PROVE FALSE
  OBVIOUS
<1>1. PICK m \in bad : \A k \in bad : m <= k
  BY LeastNat
<1>2. m # 0
  <2>1. Start \in Round(Nothing).taken
    BY RoundIs
  <2>2. Leq(Nothing, Round(Nothing))
    BY <2>1, NothingLeast
  <2>3. Rounds[0] = Nothing /\ Rounds[0 + 1] = Round(Rounds[0])
    BY RoundsAre
  <2>. QED  BY <1>1, <2>2, <2>3
<1>3. m - 1 \in Nat /\ m - 1 \notin bad /\ (m - 1) + 1 = m /\ m \in Nat
  BY <1>1, <1>2
<1>4. Leq(Rounds[m - 1], Rounds[m])
  BY <1>3
<1>5. Rounds[m] = Round(Rounds[m - 1]) /\ Rounds[m + 1] = Round(Rounds[m])
  BY <1>3, RoundsAre
<1>6. Rounds[m - 1] \in States /\ Rounds[m] \in States
  BY <1>3, RoundsType
<1>. QED  BY <1>1, <1>4, <1>5, <1>6, RoundFalls

\* How much a state knows: each temporary can fall twice, each edge be taken
\* once.
Fallen(s) == {t \in Temps : s.val[t] # Top}
Lowest(s) == {t \in Temps : s.val[t] = Bot}
Size(s) == Cardinality(Fallen(s)) + Cardinality(Lowest(s)) + Cardinality(s.taken)
Bound == 2 * Cardinality(Temps) + Cardinality(Edges)

LEMMA SizeFacts ==
  ASSUME fn \in Programs, NEW s \in States
  PROVE  /\ Size(s) \in Nat /\ Bound \in Nat /\ Size(s) <= Bound
         /\ IsFiniteSet(Fallen(s)) /\ IsFiniteSet(Lowest(s)) /\ IsFiniteSet(s.taken)
         /\ Cardinality(Fallen(s)) \in Nat /\ Cardinality(Lowest(s)) \in Nat
         /\ Cardinality(s.taken) \in Nat
<1>1. IsFiniteSet(Temps) /\ IsFiniteSet(Edges)
  BY TempsAssumption, EdgeFacts
<1>2. Fallen(s) \in SUBSET Temps /\ Lowest(s) \in SUBSET Temps /\ s.taken \in SUBSET Edges
  BY DEF Fallen, Lowest, States
<1>3. /\ IsFiniteSet(Fallen(s)) /\ IsFiniteSet(Lowest(s)) /\ IsFiniteSet(s.taken)
      /\ Cardinality(Fallen(s)) <= Cardinality(Temps)
      /\ Cardinality(Lowest(s)) <= Cardinality(Temps)
      /\ Cardinality(s.taken) <= Cardinality(Edges)
  BY <1>1, <1>2, FS_Subset
<1>4. /\ Cardinality(Fallen(s)) \in Nat /\ Cardinality(Lowest(s)) \in Nat
      /\ Cardinality(s.taken) \in Nat /\ Cardinality(Temps) \in Nat /\ Cardinality(Edges) \in Nat
  BY <1>1, <1>3, FS_CardinalityType
<1>. QED  BY <1>3, <1>4 DEF Size, Bound

LEMMA SizeGrows ==
  ASSUME fn \in Programs, NEW s \in States, NEW z \in States, Leq(s, z), s # z
  PROVE  Size(s) < Size(z)
<1>1. /\ Fallen(s) \in SUBSET Fallen(z) /\ Lowest(s) \in SUBSET Lowest(z)
      /\ s.taken \in SUBSET z.taken
  BY DEF Fallen, Lowest, Leq, Lower, Below, Top, Bot
<1>2. ASSUME Fallen(s) = Fallen(z), Lowest(s) = Lowest(z), s.taken = z.taken
      PROVE  FALSE
  <2>1. \A t \in Temps : s.val[t] = z.val[t]
    BY <1>2 DEF Fallen, Lowest, Leq, Lower, Below, Top, Bot
  <2>2. Leq(z, s)
    BY <1>2, <2>1, BelowFacts DEF Leq, Lower
  <2>. QED  BY <2>2, LeqFacts
<1>3. /\ Cardinality(Fallen(s)) <= Cardinality(Fallen(z))
      /\ Cardinality(Fallen(z)) = Cardinality(Fallen(s)) => Fallen(s) = Fallen(z)
      /\ Cardinality(Lowest(s)) <= Cardinality(Lowest(z))
      /\ Cardinality(Lowest(z)) = Cardinality(Lowest(s)) => Lowest(s) = Lowest(z)
      /\ Cardinality(s.taken) <= Cardinality(z.taken)
      /\ Cardinality(z.taken) = Cardinality(s.taken) => s.taken = z.taken
  <2>1. IsFiniteSet(Fallen(z)) /\ IsFiniteSet(Lowest(z)) /\ IsFiniteSet(z.taken)
    BY SizeFacts
  <2>. QED  BY <1>1, <2>1, FS_Subset
<1>4. /\ Cardinality(Fallen(s)) \in Nat /\ Cardinality(Lowest(s)) \in Nat
      /\ Cardinality(s.taken) \in Nat
      /\ Cardinality(Fallen(z)) \in Nat /\ Cardinality(Lowest(z)) \in Nat
      /\ Cardinality(z.taken) \in Nat
  BY SizeFacts
<1>. DEFINE a == Cardinality(Fallen(s))
            b == Cardinality(Lowest(s))
            c == Cardinality(s.taken)
            x == Cardinality(Fallen(z))
            y == Cardinality(Lowest(z))
            w == Cardinality(z.taken)
<1>5. ~ (a = x /\ b = y /\ c = w) /\ a <= x /\ b <= y /\ c <= w
  BY <1>2, <1>3
<1>6. a \in Nat /\ b \in Nat /\ c \in Nat /\ x \in Nat /\ y \in Nat /\ w \in Nat
  BY <1>4
<1>7. Size(s) = a + b + c /\ Size(z) = x + y + w
  BY DEF Size
<1>. HIDE DEF a, b, c, x, y, w
<1>. QED  BY <1>5, <1>6, <1>7

\* Some round changes nothing.
LEMMA RoundsEnd ==
  ASSUME fn \in Programs
  PROVE  \E k \in 0 .. Bound : Rounds[k] = Rounds[k + 1]
<1>. SUFFICES ASSUME \A k \in 0 .. Bound : Rounds[k] # Rounds[k + 1] PROVE FALSE
  OBVIOUS
<1>0. Bound \in Nat
  <2>1. Rounds[0] \in States
    BY RoundsType
  <2>. QED  BY <2>1, SizeFacts
<1>. DEFINE bad == {k \in 0 .. Bound + 1 : Size(Rounds[k]) < k}
<1>1. bad = {}
  <2>. SUFFICES ASSUME bad # {} PROVE FALSE
    OBVIOUS
  <2>1. bad \in SUBSET Nat
    BY <1>0
  <2>2. PICK m \in bad : \A k \in bad : m <= k
    BY <2>1, LeastNat
  <2>3. m \in Nat /\ m <= Bound + 1 /\ Size(Rounds[m]) < m
    BY <1>0, <2>2
  <2>4. Size(Rounds[m]) \in Nat
    BY <2>3, RoundsType, SizeFacts
  <2>5. m - 1 \in Nat /\ m - 1 \in 0 .. Bound /\ (m - 1) + 1 = m
    BY <1>0, <2>3, <2>4
  <2>6. Size(Rounds[m - 1]) >= m - 1 /\ Size(Rounds[m - 1]) \in Nat
    <3>1. Rounds[m - 1] \in States
      BY <2>5, RoundsType
    <3>2. Size(Rounds[m - 1]) \in Nat /\ m - 1 \notin bad /\ m - 1 \in 0 .. Bound + 1
      BY <1>0, <2>2, <2>3, <2>5, <3>1, SizeFacts
    <3>. QED  BY <2>3, <3>2
  <2>7. Size(Rounds[m - 1]) < Size(Rounds[m])
    <3>1. Rounds[m - 1] \in States /\ Rounds[m] \in States /\ Leq(Rounds[m - 1], Rounds[m])
      BY <2>3, <2>5, RoundsType, RoundsRise
    <3>2. Rounds[m - 1] # Rounds[m]
      BY <2>5
    <3>. QED  BY <3>1, <3>2, SizeGrows
  <2>. QED  BY <2>3, <2>4, <2>6, <2>7
<1>2. Bound + 1 \in Nat /\ Bound + 1 \in 0 .. Bound + 1
  BY <1>0
<1>3. Size(Rounds[Bound + 1]) <= Bound /\ Size(Rounds[Bound + 1]) \in Nat
  <2>1. Rounds[Bound + 1] \in States
    BY <1>2, RoundsType
  <2>. QED  BY <2>1, SizeFacts
<1>4. ~ (Size(Rounds[Bound + 1]) < Bound + 1)
  BY <1>1, <1>2
<1>. QED  BY <1>0, <1>3, <1>4

LEMMA LastFixed ==
  ASSUME fn \in Programs
  PROVE  LastRound \in States /\ Round(LastRound) = LastRound
<1>1. PICK k \in 0 .. Bound : Rounds[k] = Rounds[k + 1]
  BY RoundsEnd
<1>2. Bound \in Nat /\ k \in Nat /\ k <= Bound
  <2>1. Rounds[0] \in States
    BY RoundsType
  <2>2. Bound \in Nat
    BY <2>1, SizeFacts
  <2>. QED  BY <2>2
<1>. DEFINE bad == {n \in Nat : n >= k /\ Rounds[n] # Rounds[k]}
<1>3. bad = {}
  <2>. SUFFICES ASSUME bad # {} PROVE FALSE
    OBVIOUS
  <2>1. PICK m \in bad : \A n \in bad : m <= n
    BY LeastNat
  <2>2. m \in Nat /\ m > k /\ Rounds[m] # Rounds[k]
    BY <1>2, <2>1
  <2>3. m - 1 \in Nat /\ m - 1 >= k /\ m - 1 \notin bad /\ (m - 1) + 1 = m
    BY <1>2, <2>1, <2>2
  <2>4. Rounds[m - 1] = Rounds[k]
    BY <2>3
  <2>5. Rounds[m] = Round(Rounds[m - 1]) /\ Rounds[k + 1] = Round(Rounds[k])
    BY <1>2, <2>3, RoundsAre
  <2>. QED  BY <1>1, <2>2, <2>4, <2>5
<1>4. Rounds[Bound] = Rounds[k]
  BY <1>2, <1>3
<1>5. LastRound = Rounds[k]
  BY <1>4 DEF LastRound, Bound
<1>6. Rounds[k + 1] = Round(Rounds[k]) /\ Rounds[k] \in States
  BY <1>2, RoundsAre, RoundsType
<1>. QED  BY <1>1, <1>5, <1>6

-----------------------------------------------------------------------------
(* The analysis and the rounds.                                             *)

LEMMA NowType ==
  ASSUME Typed
  PROVE  Now \in States
BY DEF Typed, TypeOK, Now, States, Nums

\* What an item computes for the analysis it computes for the rounds.
LEMMA NowVal ==
  ASSUME Typed, NEW u \in Defs
  PROVE  RoundVal(Now, u) = ValOf(u)
<1>0. fn \in Programs /\ Now \in States
  BY NowType DEF Typed, TypeOK
<1>1. \A r : RoundOf(Now, r) = LatVal(r)
  BY DEF RoundOf, LatVal, Now
<1>2. CASE u[1] = "phi"
  <2>. DEFINE b == u[2]
              p == PhiOf(u)
  <2>1. b \in Blocks /\ u[3] \in DOMAIN fn.phi[b] /\ p = fn.phi[b][u[3]]
    BY <1>0, <1>2, DefForm DEF PhiOf
  <2>2. IsMeet(RoundPhi(Now, p, b), RoundArgs(Now, p, b)) /\ IsMeet(PhiVal(p, b), ArgVals(p, b))
    BY <1>0, <2>1, RoundPhiMeet, PhiMeet
  <2>3. ASSUME NEW a \in DOMAIN p.arg
        PROVE  (\E e \in Now.taken : e[1] = a /\ Dest(e) = b) <=> ~ DeadEdge(a, b)
    <3>1. a \in Blocks /\ None \notin Blocks
      BY <1>0, <2>1, PhiFacts, FnTypes
    <3>2. Now.taken = {e \in Edges : ~ dead[e]}
      BY DEF Now
    <3>3. /\ \A i \in {0, 1} : <<a, i>> \in Edges /\ Dest(<<a, i>>) = Succ(fn, a, i)
          /\ \A e \in Edges : e[1] = a => \E i \in {0, 1} : e = <<a, i>>
      <4>1. Start[1] = None
        BY DEF Start
      <4>. QED  BY <1>0, <3>1, <4>1, EdgeFacts DEF Dest
    <3>. HIDE DEF p, b
    <3>. QED  BY <3>2, <3>3 DEF DeadEdge, Sides
  <2>4. RoundArgs(Now, p, b) = ArgVals(p, b)
    <3>. HIDE DEF p, b
    <3>. QED  BY <1>1, <2>3 DEF RoundArgs, ArgVals
  <2>5. RoundPhi(Now, p, b) = PhiVal(p, b)
    <3>. HIDE DEF p, b
    <3>. QED  BY <2>2, <2>4, MeetUnique
  <2>. QED  BY <1>2, <2>5 DEF RoundVal, ValOf
<1>3. CASE u[1] # "phi"
  <2>1. RoundIns(Now, InsOf(u)) = InsVal(InsOf(u))
    BY <1>1 DEF RoundIns, InsVal
  <2>. QED  BY <1>3, <2>1 DEF RoundVal, ValOf
<1>. QED  BY <1>2, <1>3

LEMMA NowGoes ==
  ASSUME NEW b, NEW side \in {0, 1}
  PROVE  /\ Goes(Now, b, side) => \E i \in DOMAIN Jumps(b) : Jumps(b)[i] = side
         /\ (fn.jmp[b] = "jnz" => LatVal(fn.arg[b]) # Top)
              /\ (\E i \in DOMAIN Jumps(b) : Jumps(b)[i] = side) => Goes(Now, b, side)
<1>. DEFINE a == LatVal(fn.arg[b])
<1>1. RoundOf(Now, fn.arg[b]) = a
  BY DEF RoundOf, LatVal, Now
<1>2. Goes(Now, b, side) <=>
        \/ fn.jmp[b] = "jmp" /\ side = 0
        \/ fn.jmp[b] = "jnz" /\ (a = Bot \/ (a # Top /\ (side = 1 <=> IsZero(a))))
  BY <1>1 DEF Goes
<1>3. Jumps(b) = CASE fn.jmp[b] = "jmp" -> <<0>>
                   [] fn.jmp[b] = "jnz" -> IF a = Bot THEN <<0, 1>>
                                           ELSE IF IsZero(a) THEN <<1>> ELSE <<0>>
                   [] OTHER -> << >>
  BY DEF Jumps
<1>. HIDE DEF a
<1>4. CASE fn.jmp[b] = "jmp"
  BY <1>2, <1>3, <1>4
<1>5. CASE fn.jmp[b] = "jnz"
  <2>1. CASE a = Bot
    <3>1. Jumps(b) = <<0, 1>>
      BY <1>3, <1>5, <2>1
    <3>2. \E i \in DOMAIN Jumps(b) : Jumps(b)[i] = side
      BY <3>1
    <3>. QED  BY <1>2, <1>5, <2>1, <3>2
  <2>2. CASE a # Bot
    <3>1. Jumps(b) = <<IF IsZero(a) THEN 1 ELSE 0>>
      BY <1>3, <1>5, <2>2
    <3>2. (\E i \in DOMAIN Jumps(b) : Jumps(b)[i] = side) <=> side = IF IsZero(a) THEN 1 ELSE 0
      BY <3>1
    <3>. QED  BY <1>2, <1>5, <2>2, <3>2 DEF a
  <2>. QED  BY <2>1, <2>2
<1>6. CASE fn.jmp[b] \notin {"jmp", "jnz"}
  <2>1. Jumps(b) = << >>
    BY <1>3, <1>6
  <2>. QED  BY <1>2, <1>6, <2>1
<1>. QED  BY <1>4, <1>5, <1>6

LEMMA MeetBelow ==
  ASSUME NEW m, NEW V, IsMeet(m, V), NEW v \in V
  PROVE  Below(m, v)
BY DEF IsMeet, Below, Top, Bot

\* What the analysis ends with, one more round does not change: it knows all
\* that any round does.
LEMMA AboveRound ==
  ASSUME Typed, Found, ~ dead[Start]
  PROVE  Leq(Round(Now), Now)
<1>0. fn \in Programs /\ Now \in States /\ visit \subseteq Blocks
  BY NowType DEF Typed, TypeOK
<1>1. Reached(Now) \subseteq visit
  BY DEF Reached, Now, Found
<1>2. ASSUME NEW t \in Temps
      PROVE  Below(val[t], Round(Now).val[t])
  <2>1. IsMeet(Round(Now).val[t], FoundFor(Now, t))
    BY <1>0, RoundIs, FoundForType, MeetRight
  <2>2. \A v \in FoundFor(Now, t) : v = val[t]
    BY <1>1, NowVal DEF FoundFor, Found
  <2>3. Round(Now).val[t] \in {Top, val[t]}
    BY <2>1, <2>2 DEF IsMeet
  <2>. QED  BY <2>3, BelowFacts
<1>3. ASSUME NEW e \in Round(Now).taken
      PROVE  e \in Now.taken
  <2>1. CASE e = Start
    BY <1>0, <2>1, EdgeFacts DEF Now
  <2>2. CASE e # Start
    <3>1. e \in Blocks \X Sides /\ e[1] \in visit /\ Goes(Now, e[1], e[2])
      BY <1>1, <1>3, <2>2, RoundIs
    <3>2. e = <<e[1], e[2]>> /\ e[2] \in {0, 1} /\ e \in Edges
      BY <3>1 DEF Sides, Edges
    <3>3. PICK i \in DOMAIN Jumps(e[1]) : Jumps(e[1])[i] = e[2]
      BY <3>1, <3>2, NowGoes
    <3>4. ~ dead[<<e[1], e[2]>>]
      BY <3>1, <3>3 DEF Found
    <3>. QED  BY <3>2, <3>4 DEF Now
  <2>. QED  BY <2>1, <2>2
<1>. QED  BY <1>2, <1>3 DEF Leq, Lower, Now

LEMMA AboveRounds ==
  Typed /\ Found /\ ~ dead[Start] => \A k \in Nat : Leq(Rounds[k], Now)
<1>. SUFFICES ASSUME Typed, Found, ~ dead[Start]
              PROVE  \A k \in Nat : Leq(Rounds[k], Now)
  OBVIOUS
<1>0. fn \in Programs /\ Now \in States
  BY NowType DEF Typed, TypeOK
<1>. DEFINE bad == {k \in Nat : ~ Leq(Rounds[k], Now)}
<1>. SUFFICES ASSUME bad # {} PROVE FALSE
  OBVIOUS
<1>1. PICK m \in bad : \A k \in bad : m <= k
  BY LeastNat
<1>2. m # 0
  <2>1. Start \in Now.taken
    BY <1>0, EdgeFacts DEF Now
  <2>2. Leq(Nothing, Now)
    BY <2>1, NothingLeast
  <2>. QED  BY <1>1, <2>2, RoundsAre
<1>3. m - 1 \in Nat /\ m - 1 \notin bad /\ (m - 1) + 1 = m
  BY <1>1, <1>2
<1>4. Leq(Rounds[m - 1], Now) /\ Rounds[m - 1] \in States /\ Rounds[m] = Round(Rounds[m - 1])
  BY <1>0, <1>3, RoundsAre, RoundsType
<1>5. Leq(Rounds[m], Round(Now))
  BY <1>0, <1>4, RoundFalls
<1>6. Leq(Rounds[m], Now)
  BY <1>5, AboveRound, LeqFacts
<1>. QED  BY <1>1, <1>6

LEMMA AboveRoundsNext ==
  (Typed /\ Found /\ ~ dead[Start] => \A k \in Nat : Leq(Rounds[k], Now))'
BY AboveRounds, PTL

-----------------------------------------------------------------------------
(* A step of the analysis stays behind the last round.                      *)

\* An edge that is on the list or was taken, the last round has taken.
LEMMA KnownTaken ==
  ASSUME FindOK, Defined, NEW L \in States, Round(L) = L, Behind(L),
         NEW e \in Edges, Known(e)
  PROVE  e \in L.taken
<1>1. /\ fn \in Programs /\ None \notin Blocks /\ EdgesShape /\ JumpsAgree
      /\ Start \in L.taken
  BY FindFacts, RoundIs DEF FindOK, FindInv
<1>. SUFFICES ASSUME e # Start PROVE e \in L.taken
  BY <1>1
<1>. DEFINE b == e[1]
            side == e[2]
<1>2. b \in Blocks /\ side \in {0, 1} /\ e = <<b, side>>
  BY <1>1, EdgeFacts
<1>3. Done(JmpOf(b)) /\ Dest(e) \in Blocks
  BY <1>1 DEF EdgesShape
<1>4. b \in Reached(L)
  BY <1>1, <1>2, <1>3 DEF Done, JmpOf, Behind
<1>5. Lower(Now, L)
  BY DEF Behind, Lower, Now
<1>6. Goes(Now, b, side)
  <2>1. CASE fn.jmp[b] = "jnz"
    <3>1. LatVal(fn.arg[b]) # Top /\ \E i \in DOMAIN Jumps(b) : side = Jumps(b)[i]
      BY <1>1, <2>1 DEF JumpsAgree
    <3>. QED  BY <1>2, <3>1, NowGoes
  <2>2. CASE fn.jmp[b] # "jnz"
    <3>1. fn.s2[b] = None
      BY <1>1, <1>2, <2>2, JmpFacts
    <3>2. Dest(e) = Succ(fn, b, side)
      BY DEF Dest
    <3>3. side = 0 /\ fn.s1[b] # None
      BY <1>1, <1>2, <1>3, <3>1, <3>2 DEF Succ
    <3>4. fn.jmp[b] = "jmp"
      BY <1>1, <1>2, <2>2, <3>3, JmpFacts
    <3>. QED  BY <3>3, <3>4 DEF Goes
  <2>. QED  BY <2>1, <2>2
<1>7. Goes(L, b, side)
  BY <1>5, <1>6, GoesMore
<1>8. e \in Round(L).taken
  BY <1>2, <1>4, <1>7, RoundIs DEF Sides
<1>. QED  BY <1>8

LEMMA NowBehind ==
  ASSUME FindOK, Defined, NEW L \in States, Round(L) = L, Behind(L)
  PROVE  Leq(Now, L)
<1>1. \A e \in Edges : ~ dead[e] => e \in L.taken
  BY KnownTaken DEF Known
<1>. QED  BY <1>1 DEF Now, Leq, Lower, Behind

LEMMA ReachedSame ==
  ASSUME fn' = fn, NEW L
  PROVE  Reached(L)' = Reached(L)
BY SameFn DEF Reached

\* A step that computes nothing.
LEMMA QuietStep ==
  ASSUME NEW L, Behind(L), fn' = fn, val' = val,
         visit' \cup {blk'} \subseteq visit \cup {blk, None} \cup Reached(L)
  PROVE  Behind(L)'
BY ReachedSame DEF Behind

LEMMA ValStepBehind ==
  ASSUME FindOK, Defined, NEW L \in States, Round(L) = L, Behind(L), NEW u, ValStep(u)
  PROVE  Behind(L)'
<1>1. /\ fn \in Programs /\ None \notin Blocks /\ todo \in Seq(Items) /\ TodoShape
      /\ Typed /\ Now \in States
  BY FindFacts, NowType DEF FindOK, FindInv
<1>2. fn' = fn /\ visit' = visit /\ blk' = blk /\ Reached(L)' = Reached(L)
  BY ReachedSame DEF ValStep
<1>3. u[2] \in visit \cup {blk}
  <2>1. u = todo[1] /\ 1 \in DOMAIN todo
    BY <1>1, TodoFacts DEF ValStep
  <2>2. CASE blk = None
    <3>1. todo[1][2] \in visit
      BY <1>1, <2>2 DEF TodoShape, ValStep
    <3>. QED  BY <2>1, <3>1
  <2>3. CASE blk # None
    <3>1. todo[1][2] = blk
      BY <1>1, <2>1, <2>3 DEF TodoShape
    <3>. QED  BY <2>1, <3>1
  <2>. QED  BY <2>2, <2>3
<1>4. ASSUME NEW t \in Temps
      PROVE  Below(L.val[t], val'[t])
  <2>1. CASE val'[t] = val[t]
    BY <2>1 DEF Behind
  <2>2. CASE val'[t] # val[t]
    <3>1. u \in Defs /\ t = ToOf(u) /\ val'[t] = ValOf(u)
      BY <2>2 DEF ValStep
    <3>2. u[2] \in Blocks
      BY <1>1, <3>1, DefForm
    <3>3. u[2] \in Reached(L)
      BY <1>1, <1>3, <3>2 DEF Behind
    <3>4. RoundVal(L, u) \in FoundFor(L, t)
      BY <3>1, <3>3 DEF FoundFor
    <3>5. IsMeet(Round(L).val[t], FoundFor(L, t))
      BY <1>1, RoundIs, FoundForType, MeetRight
    <3>6. Below(L.val[t], RoundVal(L, u))
      BY <3>4, <3>5, MeetBelow
    <3>7. Below(RoundVal(L, u), RoundVal(Now, u))
      BY <1>1, <3>1, NowBehind, RoundValFalls
    <3>8. RoundVal(Now, u) = val'[t]
      BY <1>1, <3>1, NowVal
    <3>9. Below(RoundVal(L, u), val'[t])
      BY <3>7, <3>8, Zenon
    <3>. QED  BY <3>6, <3>9, BelowTrans
  <2>. QED  BY <2>1, <2>2
<1>. QED  BY <1>2, <1>4 DEF Behind

LEMMA TakeEdgeBehind ==
  ASSUME FindOK, Defined, NEW L \in States, Round(L) = L, Behind(L), TakeEdge
  PROVE  Behind(L)'
<1>1. fn' = fn /\ val' = val /\ visit' = visit /\ blk' \in {None, Dest(flowrk)}
  BY DEF TakeEdge
<1>2. flowrk \in OnList /\ flowrk \in Edges
  BY ListEmpty DEF TakeEdge, FindOK
<1>3. flowrk \in L.taken
  BY <1>2, KnownTaken DEF Known
<1>4. Dest(flowrk) \in Reached(L)
  BY <1>3 DEF Reached
<1>. QED  BY <1>1, <1>4, QuietStep

\* The two visits that compute something.
LEMMA VisitsAreSteps ==
  ASSUME FindOK, VisitPhi \/ VisitIns
  PROVE  \E u : ValStep(u)
<1>. DEFINE u == Head(todo)
<1>1. CASE VisitPhi
  <2>1. todo # << >> /\ u[1] = "phi" /\ u \in Items
    BY <1>1, FindFacts, TodoFacts DEF VisitPhi, Todo
  <2>2. u \in Defs /\ ToOf(u) = PhiOf(u).to /\ ValOf(u) = PhiVal(PhiOf(u), u[2])
    BY <2>1 DEF Defs, ToOf, ValOf
  <2>3. ValStep(u)
    BY <1>1, <2>1, <2>2, UpdateStep DEF VisitPhi
  <2>. QED  BY <2>3
<1>2. CASE VisitIns
  <2>1. todo # << >> /\ u[1] = "ins" /\ u \in Items
    BY <1>2, FindFacts, TodoFacts DEF VisitIns, Todo
  <2>2. CASE InsOf(u).to # R
    <3>1. u \in Defs /\ ToOf(u) = InsOf(u).to /\ ValOf(u) = InsVal(InsOf(u))
      BY <2>1, <2>2 DEF Defs, ToOf, ValOf
    <3>2. ValStep(u)
      BY <1>2, <2>1, <2>2, <3>1, UpdateStep DEF VisitIns
    <3>. QED  BY <3>2
  <2>3. CASE InsOf(u).to = R
    <3>1. u \notin Defs
      BY <2>1, <2>3 DEF Defs
    <3>2. val' = val /\ usewrk' = usewrk /\ val \in [Temps -> Nums] /\ usewrk \subseteq Items
      BY <1>2, <2>3 DEF VisitIns, FindOK, Typed, TypeOK, Nums
    <3>3. ValStep(u)
      BY <1>2, <2>1, <3>1, <3>2 DEF ValStep, VisitIns
    <3>. QED  BY <3>3
  <2>. QED  BY <2>2, <2>3
<1>. QED  BY <1>1, <1>2

LEMMA StepBehind ==
  ASSUME FindOK, Defined, NEW L \in States, Round(L) = L, Behind(L), pc = "find",
         [Next]_vars, pc' = "find"
  PROVE  Behind(L)'
<1>1. CASE UNCHANGED vars
  <2>1. fn' = fn /\ val' = val /\ visit' = visit /\ blk' = blk
    BY <1>1 DEF vars, findvars
  <2>. QED  BY <2>1, QuietStep
<1>2. CASE TakeEdge
  BY <1>2, TakeEdgeBehind
<1>3. CASE VisitPhi \/ VisitIns
  BY <1>3, VisitsAreSteps, ValStepBehind
<1>4. CASE VisitJmp
  <2>1. fn' = fn /\ val' = val /\ visit' = visit /\ blk' = blk
    BY <1>4 DEF VisitJmp, Abort
  <2>. QED  BY <2>1, QuietStep
<1>5. CASE EndVisit
  <2>1. fn' = fn /\ val' = val /\ visit' = visit \cup {blk} /\ blk' = None
    BY <1>5 DEF EndVisit, Abort
  <2>. QED  BY <2>1, QuietStep
<1>6. CASE \E u \in usewrk : TakeUse(u)
  <2>1. fn' = fn /\ val' = val /\ visit' = visit /\ blk' = blk
    BY <1>6 DEF TakeUse
  <2>. QED  BY <2>1, QuietStep
<1>7. CASE EndFind \/ TrimBlk \/ EndTrim \/ RunPhis \/ RunJmp \/ \E x \in Cons : RunIns(x)
  BY <1>7 DEF EndFind, TrimBlk, EndTrim, RunPhis, RunJmp, RunIns
<1>. QED  BY <1>1, <1>2, <1>3, <1>4, <1>5, <1>6, <1>7 DEF Next, Fold

-----------------------------------------------------------------------------
(* The theorem.                                                             *)

\* The rounds are those of the function.
LEMMA SameRound ==
  ASSUME fn' = fn, NEW s
  PROVE  Round(s)' = Round(s)
<1>1. /\ Blocks' = Blocks /\ Defs' = Defs
      /\ \A u : ToOf(u)' = ToOf(u) /\ PhiOf(u)' = PhiOf(u) /\ InsOf(u)' = InsOf(u)
      /\ \A e : Dest(e)' = Dest(e)
  BY SameFn
<1>2. Reached(s)' = Reached(s)
  BY ReachedSame
<1>3. \A p, b : RoundPhi(s, p, b)' = RoundPhi(s, p, b)
  BY <1>1 DEF RoundPhi
<1>4. \A u : RoundVal(s, u)' = RoundVal(s, u)
  BY <1>1, <1>3 DEF RoundVal
<1>5. \A b, side : Goes(s, b, side)' <=> Goes(s, b, side)
  BY DEF Goes
<1>. QED  BY <1>1, <1>2, <1>4, <1>5 DEF Round

LEMMA RoundsAreNext ==
  (Rounds[0] = Nothing /\ \A k \in Nat : Rounds[k + 1] = Round(Rounds[k]))'
BY RoundsAre, PTL

LEMMA SameRounds ==
  ASSUME fn' = fn
  PROVE  \A k \in Nat : (Rounds[k])' = Rounds[k]
<1>1. Rounds'[0] = Nothing /\ \A k \in Nat : Rounds'[k + 1] = Round(Rounds'[k])
  <2>1. Nothing' = Nothing
    BY DEF Nothing
  <2>2. Rounds'[0] = Nothing' /\ \A k \in Nat : Rounds'[k + 1] = (Round(Rounds[k]))'
    BY RoundsAreNext
  <2>3. \A s : Round(s)' = Round(s)
    BY SameRound
  <2>. QED  BY <2>1, <2>2, <2>3
<1>. DEFINE r == Rounds'
            bad == {k \in Nat : r[k] # Rounds[k]}
<1>. SUFFICES ASSUME bad # {} PROVE FALSE
  OBVIOUS
<1>2. PICK m \in bad : \A k \in bad : m <= k
  BY LeastNat
<1>3. m # 0
  BY <1>1, <1>2, RoundsAre
<1>4. m - 1 \in Nat /\ m - 1 \notin bad /\ (m - 1) + 1 = m
  BY <1>2, <1>3
<1>5. r[m - 1] = Rounds[m - 1] /\ r[m] = Round(r[m - 1]) /\ Rounds[m] = Round(Rounds[m - 1])
  BY <1>1, <1>4, RoundsAre
<1>. QED  BY <1>2, <1>5

LEMMA SameLast ==
  ASSUME fn \in Programs, fn' = fn
  PROVE  LastRound' = LastRound
<1>. DEFINE n == 2 * Cardinality(Temps) + Cardinality(Edges)
<1>1. n \in Nat
  <2>1. Rounds[0] \in States
    BY RoundsType
  <2>. QED  BY <2>1, SizeFacts DEF Bound
<1>2. Edges' = Edges
  BY SameFn
<1>3. LastRound' = (Rounds')[n]
  BY <1>2 DEF LastRound
<1>4. LastRound = Rounds[n]
  BY DEF LastRound
<1>5. (Rounds')[n] = Rounds[n]
  <2>. HIDE DEF n
  <2>. QED  BY <1>1, SameRounds
<1>. QED  BY <1>3, <1>4, <1>5

\* The search ends with no less than any round, and with no more than the last.
LEMMA EndFindExact ==
  ASSUME FindOK, Defined, EndFind, Behind(LastRound)
  PROVE  Exact(LastRound)'
<1>1. /\ Typed' /\ Found'
      /\ UNCHANGED <<fn, val, dead, work, flowrk, usewrk, visit, todo, out, run>>
  BY EndFindFound
<1>2. fn \in Programs /\ Typed /\ Edges' = Edges /\ LastRound' = LastRound
  BY <1>1, FindFacts, SameFn, SameLast DEF FindOK
<1>3. Now' = Now
  BY <1>1, <1>2 DEF Now
<1>4. ~ dead'[Start]
  <2>1. flowrk = NoEdge /\ Known(Start)
    BY DEF EndFind, FindOK, FindInv, EdgesShape
  <2>2. OnList = {}
    BY <2>1, ListEmpty DEF FindOK
  <2>3. ~ dead[Start]
    BY <2>1, <2>2 DEF Known
  <2>. QED  BY <1>1, <2>3
<1>5. LastRound \in States /\ Round(LastRound) = LastRound /\ Now \in States
  BY <1>2, LastFixed, NowType
<1>6. Leq(LastRound, Now)
  <2>. DEFINE n == 2 * Cardinality(Temps) + Cardinality(Edges)
  <2>1. n \in Nat
    <3>1. Rounds[0] \in States
      BY <1>2, RoundsType
    <3>. QED  BY <1>2, <3>1, SizeFacts DEF Bound
  <2>2. \A k \in Nat : Leq(Rounds'[k], Now')
    BY <1>1, <1>4, AboveRoundsNext DEF Leq, Lower
  <2>3. Rounds'[n] = Rounds[n]
    BY <1>1, <2>1, SameRounds
  <2>4. LastRound = Rounds[n]
    BY DEF LastRound
  <2>. HIDE DEF n
  <2>. QED  BY <1>3, <2>1, <2>2, <2>3, <2>4
<1>7. Leq(Now, LastRound)
  BY <1>5, NowBehind
<1>8. Now = LastRound
  BY <1>5, <1>6, <1>7, LeqFacts
<1>9. Now.val = val /\ Now.taken = {e \in Edges : ~ dead[e]}
  BY DEF Now
<1>. QED  BY <1>1, <1>2, <1>8, <1>9 DEF Exact

\* What a step can do before the executions.
LEMMA PhaseSteps ==
  ASSUME [Next]_vars
  PROVE  /\ fn' = fn
         /\ pc' = "find" => pc = "find"
         /\ pc' = "trim" => \/ pc = "find" /\ EndFind
                            \/ pc = "trim" /\ UNCHANGED <<val, dead>>
<1>1. CASE UNCHANGED vars
  BY <1>1 DEF vars, findvars
<1>2. CASE TakeEdge \/ VisitPhi \/ VisitIns \/ VisitJmp \/ EndVisit \/ EndFind
           \/ \E u \in usewrk : TakeUse(u)
  BY <1>2 DEF TakeEdge, VisitPhi, VisitIns, VisitJmp, EndVisit, EndFind, TakeUse, Todo, Abort
<1>3. CASE TrimBlk \/ EndTrim
  BY <1>3 DEF TrimBlk, EndTrim, findvars
<1>4. CASE RunPhis \/ RunJmp \/ \E x \in Cons : RunIns(x)
  BY <1>4 DEF RunPhis, RunJmp, RunIns, findvars
<1>. QED  BY <1>1, <1>2, <1>3, <1>4 DEF Next, Fold

LEMMA NextLast ==
  ASSUME IInv, LastInv, [Next]_vars
  PROVE  LastInv'
<1>1. fn \in Programs /\ fn' = fn /\ LastRound' = LastRound /\ Defined' = Defined
  <2>1. fn \in Programs /\ fn' = fn
    BY PhaseSteps DEF IInv, SccpInv, Typed
  <2>. QED  BY <2>1, SameLast, SameFn
<1>2. LastRound \in States /\ Round(LastRound) = LastRound
  BY <1>1, LastFixed
<1>. SUFFICES ASSUME Defined
              PROVE  /\ pc' = "find" => Behind(LastRound)'
                     /\ pc' = "trim" => Exact(LastRound)'
  BY <1>1 DEF LastInv
<1>3. ASSUME pc' = "find"
      PROVE  Behind(LastRound)'
  <2>1. pc = "find" /\ FindOK /\ Behind(LastRound)
    BY <1>3, PhaseSteps DEF IInv, SccpInv, FindOK, LastInv
  <2>2. PICK L : L = LastRound
    OBVIOUS
  <2>3. Behind(L)'
    BY <1>2, <1>3, <2>1, <2>2, StepBehind
  <2>. QED  BY <1>1, <2>2, <2>3 DEF Behind, Reached
<1>4. ASSUME pc' = "trim"
      PROVE  Exact(LastRound)'
  <2>1. CASE pc = "find" /\ EndFind
    <3>1. FindOK /\ Behind(LastRound)
      BY <2>1 DEF IInv, SccpInv, FindOK, LastInv
    <3>. QED  BY <2>1, <3>1, EndFindExact
  <2>2. CASE pc = "trim" /\ UNCHANGED <<val, dead>>
    <3>1. Exact(LastRound) /\ Edges' = Edges
      BY <1>1, <2>2, SameFn DEF LastInv
    <3>. QED  BY <1>1, <2>2, <3>1 DEF Exact
  <2>. QED  BY <1>4, <2>1, <2>2, PhaseSteps
<1>. QED  BY <1>3, <1>4

LEMMA InitLast ==
  ASSUME Init
  PROVE  LastInv
<1>1. visit = {} /\ blk = None /\ val = [t \in Temps |-> Top] /\ pc = "find"
  BY DEF Init
<1>2. Behind(LastRound)
  BY <1>1, BelowFacts DEF Behind
<1>. QED  BY <1>1, <1>2 DEF LastInv

\* The search is never ahead of the rounds, and what is trimmed is trimmed with
\* what they end with.
THEOREM LastInvariant == Spec => [](IInv /\ LastInv)
<1>1. Init => IInv /\ LastInv
  BY InitFind, FindIntact, InitLast DEF IInv, SccpInv, FindOK, Init
<1>2. IInv /\ LastInv /\ [Next]_vars => IInv' /\ LastInv'
  BY NextKeeps, NextLast
<1>. QED  BY <1>1, <1>2, PTL DEF Spec

\* The worklists of fold() forget nothing: no edge that was pushed, no use of a
\* temporary that changed, and in the end no constant and no dead edge that
\* computing everything again and again would find.
THEOREM NothingLostCorrect == Spec => []NothingLost
<1>1. LastInv => Precise
  BY DEF LastInv, Precise
<1>2. ListIntact /\ UpToDate /\ Precise => NothingLost
  BY DEF NothingLost
<1>. QED  BY <1>1, <1>2, LastInvariant, ListsCorrect, PTL

=============================================================================
