---------------------------------- MODULE Copy ----------------------------------
(***************************************************************************)
(* Copy elimination: copy.c.  One walk over the blocks in reverse          *)
(* postorder makes cpy, the operand that every temporary is a copy of; a   *)
(* cluster of phis that only read each other and one operand counts as     *)
(* copies of it.  Then the copies go and their uses are rewritten.         *)
(***************************************************************************)
EXTENDS Mem

\* filluse(): how a temporary of an extension or a short load is extended.
WidthOf(f, t) ==
  LET is == {f.ins[d[1]][d[2]] : d \in DefIns(f, t)}
  IN  IF is = {} THEN "full"
      ELSE LET i == CHOOSE i \in is : TRUE
               w == IF IsExt(i.op) THEN i.op
                    ELSE IF i.op \in DOMAIN LoadBytes THEN Ext[i.op] ELSE "full"
           IN  IF w \in {"extsw", "extuw"} /\ i.cls = "w" THEN "full" ELSE w

\* extcpy: the extensions that do nothing to a value of a width.
ExtCopies == [full  |-> {},
              extsb |-> {"extsb", "extsh", "extsw"}, extub |-> {"extub", "extuh", "extuw"},
              extsh |-> {"extsh", "extsw"},          extuh |-> {"extuh", "extuw"},
              extsw |-> {"extsw"},                   extuw |-> {"extuw"}]

\* i makes a copy of its first operand, which is a copy of r.
IsCopyOf(f, cls, i, r) ==
  CASE i.op = "copy" -> TRUE
    [] i.op \in {"mul", "div", "udiv"} -> i.arg[2] = Num(1)
    [] i.op \in {"add", "sub", "or", "xor", "sar", "shl", "shr"} -> i.arg[2] = Num(0)
    [] IsExt(i.op) /\ IsTmp(r) ->
         \/ i.op \in {"extsw", "extuw"} /\ i.cls = "w"
         \/ ~ (i.cls = "l" /\ cls[Id(r)] = "w") /\ i.op \in ExtCopies[WidthOf(f, Id(r))]
    [] OTHER -> FALSE

CopyOf(cpy, r) == IF IsTmp(r) /\ cpy[Id(r)] # R THEN cpy[Id(r)] ELSE r

\* The phis and copies that read t.
Followers(f, cls, t, r) ==
  {Id(f.phi[u[2]][u[3]].to) : u \in {u \in Uses(f, t) : u[1] = "phi"}} \cup
  {Id(At(f, u).to) : u \in {u \in Uses(f, t) : u[1] = "ins" /\ IsCopyOf(f, cls, At(f, u), r)}}

\* phisimpl(): all that follows from p is r, unless a phi among it reads
\* something else.
PhiSimpl(f, cls, cpy, p, r) ==
  LET more(s) == s \cup UNION {Followers(f, cls, t, r) : t \in s}
      ts   == FoldLeft(LAMBDA s, n : more(s), {Id(p.to)}, [n \in DOMAIN cls |-> n])
      phis == {q \in UNION {ToSet(f.phi[b]) : b \in Blocks(f)} : Id(q.to) \in ts}
      as   == UNION {{CopyOf(cpy, a[2]) : a \in ToSet(q.arg)} : q \in phis}
  IN  IF as \subseteq {r} \cup {Tm(t) : t \in ts}
      THEN [t \in DOMAIN cpy |-> IF t \in ts THEN r ELSE cpy[t]] ELSE cpy

\* The operand that the earlier predecessors bring, and whether all do.
Agreed(cpy, p, b) ==
  LET meet(s, a) ==
        LET v == CopyOf(cpy, a[2])
            r == IF s.r \in {R, UNDEF} THEN v ELSE s.r
        IN  IF a[1] >= b THEN [s EXCEPT !.all = FALSE]
            ELSE [r |-> r, all |-> s.all /\ v \in {r, UNDEF}]
  IN  FoldLeft(meet, [r |-> R, all |-> TRUE], p.arg)

CopyPhi(f, cls, cpy, p, b) ==
  LET g == Agreed(cpy, p, b)
      self == [cpy EXCEPT ![Id(p.to)] = p.to]
  IN  IF cpy[Id(p.to)] # R THEN cpy
      ELSE IF IsTmp(g.r) /\ ~ Dom(f, BlockOf(f, Id(g.r)), b) THEN self
      ELSE IF g.all THEN [cpy EXCEPT ![Id(p.to)] = g.r]
      ELSE PhiSimpl(f, cls, self, p, g.r)

CopyIns(f, cls, cpy, i) ==
  LET r == CopyOf(cpy, i.arg[1])
  IN  IF ~ IsTmp(i.to) \/ cpy[Id(i.to)] # R THEN cpy
      ELSE [cpy EXCEPT ![Id(i.to)] = IF IsCopyOf(f, cls, i, r) THEN r ELSE i.to]

CopyMap(f) ==
  LET cls == ClassOf(f)
      block(c, b) == FoldLeft(LAMBDA d, i : CopyIns(f, cls, d, i),
                              FoldLeft(LAMBDA d, p : CopyPhi(f, cls, d, p, b), c, f.phi[b]),
                              f.ins[b])
  IN  FoldLeft(block, [t \in DOMAIN cls |-> R], InOrder(f))

\* A use of a temporary that was never given a copy fails an assertion.
CopyElim(f) ==
  LET cpy  == CopyMap(f)
      keep(x) == ~ IsTmp(x.to) \/ cpy[Id(x.to)] = x.to
      sub(r) == CopyOf(cpy, r)
      phi(b) == SelectSeq(f.phi[b], keep)
      refs(b) == UNION {{a[2] : a \in ToSet(p.arg)} : p \in ToSet(phi(b))} \cup
                 UNION {ToSet(i.arg) : i \in {i \in ToSet(f.ins[b]) : keep(i)}} \cup
                 {f.jmp[b].arg}
  IN  [f EXCEPT
        !.phi = [b \in Blocks(f) |-> [n \in DOMAIN phi(b) |->
                   [phi(b)[n] EXCEPT !.arg = [m \in DOMAIN @ |-> <<@[m][1], sub(@[m][2])>>]]]],
        !.ins = [b \in Blocks(f) |-> [n \in DOMAIN f.ins[b] |->
                   IF keep(f.ins[b][n])
                   THEN [f.ins[b][n] EXCEPT !.arg = <<sub(@[1]), sub(@[2])>>] ELSE Nop]],
        !.jmp = [b \in Blocks(f) |-> [f.jmp[b] EXCEPT !.arg = sub(@)]],
        !.err = @ \/ \E b \in Blocks(f) : \E r \in refs(b) : IsTmp(r) /\ cpy[Id(r)] = R]
=================================================================================
