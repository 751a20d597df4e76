-------------------------------- MODULE Spill --------------------------------
(***************************************************************************)
(* What comes between the instruction selection and the choice of          *)
(* registers: filllive() (live.c), fillcost() and spill() (spill.c).       *)
(*                                                                         *)
(* Functions are those of Il after isel(): registers are the temporaries   *)
(* below Tmp0, and an instruction has besides the number mem of operands   *)
(* that it may read from memory (T.memargs) and, for a call, the registers *)
(* rets that it sets and args that it reads.  An operand may be a memory   *)
(* reference with a base and an index, 0 when there is none.  f.fp are the *)
(* temporaries of class s or d, f.reg the registers of the parameters.     *)
(* The slot of a temporary is named by the temporary; see Frame for where  *)
(* it is.                                                                  *)
(***************************************************************************)
EXTENDS Il

CONSTANTS
  Gpr, Fpr,    \* the registers of the two classes
  RGlob,       \* T.rglob, those that are always live
  RSave,       \* T.rsave, those that a call overwrites
  Tmp0         \* the first number that is no register's

Regs == Gpr \cup Fpr

ASSUME RegsAssumption ==
  /\ Tmp0 \in Nat /\ Gpr \cap Fpr = {} /\ Regs \subseteq 1 .. Tmp0 - 1
  /\ RGlob \subseteq Gpr /\ RSave \subseteq Regs \ RGlob

\* Operands and instructions; "op" is any that is not told apart.
Kinds == {"none", "tmp", "con", "sym", "mem", "slot"}
Refs  == Kinds \X Int \X Int
Ops   == {"op", "copy", "call", "load", "store"}
Dests == {r \in Refs : r[1] # "mem"}
Instr == [op : Ops, to : Dests, arg : Refs \X Refs, mem : Int,
          rets : SUBSET Regs, args : SUBSET Regs, tag : Int \X Int]

Slot(t)     == <<"slot", t, 0>>
MemAt(t, u) == <<"mem", t, u>>
IsMem(r)    == r[1] = "mem"
IsReg(r)    == IsTmp(r) /\ Id(r) < Tmp0

Named(r) == CASE IsTmp(r) -> {Id(r)} [] IsMem(r) -> {r[2], r[3]} \ {0} [] OTHER -> {}
Results(i) == Named(i.to)
Operands(i) == Named(i.arg[1]) \cup Named(i.arg[2])

-----------------------------------------------------------------------------
\* Numbers for the two classes of registers.
IsFp(f, t)  == t \in Fpr \cup f.fp
Mask(f, k, s) == {t \in s : IsFp(f, t) = (k = 2)}
Counts(f, s) == <<Cardinality(Mask(f, 1, s)), Cardinality(Mask(f, 2, s))>>
Size  == <<Cardinality(Gpr), Cardinality(Fpr)>>
NSave == <<Cardinality(RSave \cap Gpr), Cardinality(RSave \cap Fpr)>>
Zero  == <<0, 0>>
Plus(a, b)  == <<a[1] + b[1], a[2] + b[2]>>
Minus(a, b) == <<a[1] - b[1], a[2] - b[2]>>
Upper(a, b) == [k \in 1 .. 2 |-> IF a[k] < b[k] THEN b[k] ELSE a[k]]

-----------------------------------------------------------------------------
(***************************************************************************)
(* filllive().  l has the in, out, gen and nlive of every block.           *)
(***************************************************************************)
\* Mutant: constants are taken for temporaries.
PhiArgsAny(f, b, s) ==
  UNION {{Id(a[2]) : a \in {a \in ToSet(p.arg) : a[1] = b}} : p \in ToSet(f.phi[s])}
PhiArgs(f, b, s) ==
  UNION {{Id(a[2]) : a \in {a \in ToSet(p.arg) : a[1] = b /\ IsTmp(a[2])}} : p \in ToSet(f.phi[s])}
LiveOn(f, in, b, s) ==
  (in[s] \ UNION {Named(p.to) : p \in ToSet(f.phi[s])}) \cup PhiArgs(f, b, s)

\* bset() of the names s in the walk w.
BSet(f, w, s) ==
  [w EXCEPT !.gen = @ \cup s, !.in = @ \cup s, !.nlv = Plus(@, Counts(f, s \ w.in))]

\* The registers that a call may overwrite are live in the middle of it.
LiveCall(f, w, i) ==
  LET busy == Plus(Minus(w.nlv, Counts(f, i.rets)), NSave)
  IN  [w EXCEPT !.in = (@ \ i.rets) \cup i.args, !.top = Upper(@, busy),
                !.nlv = Plus(Minus(busy, NSave), Counts(f, i.args))]

LiveIns(f, w, i) ==
  LET w1 == IF i.op = "call" THEN LiveCall(f, w, i) ELSE w
      w2 == [w1 EXCEPT !.nlv = Minus(@, Counts(f, Results(i) \cap w1.in)),
                       !.gen = @ \cup Results(i), !.in = @ \ Results(i)]
      w3 == BSet(f, w2, Operands(i))
  IN  [w3 EXCEPT !.top = Upper(@, w3.nlv)]

\* retregs() at the end of a function overwrites the counts.
LiveAtEnd(f, b, out, gen) ==
  LET w == [in |-> out, gen |-> gen, nlv |-> Counts(f, out), top |-> Zero]
  IN  IF f.jmp[b].type = "ret"
      THEN [w EXCEPT !.in = @ \cup f.jmp[b].rets, !.nlv = Counts(f, f.jmp[b].rets)]
      ELSE BSet(f, w, Named(f.jmp[b].arg))

LiveBlock(f, l, b) ==
  LET out == l.out[b] \cup RGlob \cup UNION {LiveOn(f, l.in, b, s) : s \in Succs(f, b)}
      gen == l.gen[b] \cup UNION {PhiArgs(f, b, s) : s \in Succs(f, b)}
      w   == LiveAtEnd(f, b, out, gen)
      end == FoldRight(LAMBDA i, z : LiveIns(f, z, i), f.ins[b], [w EXCEPT !.top = w.nlv])
  IN  [l EXCEPT !.out[b] = out, !.in[b] = end.in, !.gen[b] = end.gen, !.nlive[b] = end.top]

NoLive(f) == [in |-> [b \in Blocks(f) |-> {}], out |-> [b \in Blocks(f) |-> {}],
              gen |-> [b \in Blocks(f) |-> {}], nlive |-> [b \in Blocks(f) |-> Zero]]

LiveRound(f, l) == Once(FoldRight(LAMBDA b, z : Once(LiveBlock(f, z, b)), InOrder(f), l))

-----------------------------------------------------------------------------
(***************************************************************************)
(* fillcost().                                                             *)
(***************************************************************************)
Product(g) == FoldFunction(LAMBDA m, n : m * n, 1, g)

\* multloop() for the loops around b.
LoopOf(f) ==
  [b \in Blocks(f) |->
     Product([h \in Blocks(f) |-> IF b \in LoopBody(f, h) THEN 10 ELSE 1])]

\* aggreg(): a header stands for all of its loop.
Aggregated(f, l) ==
  [l EXCEPT
     !.gen = [b \in Blocks(f) |-> @[b] \cup UNION {@[x] : x \in LoopBody(f, b)}],
     !.nlive = [b \in Blocks(f) |->
        [k \in 1 .. 2 |-> Max({l.nlive[x][k] : x \in LoopBody(f, b) \cup {b}})]]]

Dearest == 1000000      \* UINT_MAX, the cost of a register
Mentions(t, r) == IF IsMem(r) THEN (IF r[2] = t THEN 1 ELSE 0) + (IF r[3] = t THEN 1 ELSE 0)
                  ELSE IF r = Tm(t) THEN 1 ELSE 0
InsCost(t, i) == Mentions(t, i.to) + Mentions(t, i.arg[1]) + Mentions(t, i.arg[2])

\* A phi costs where its arguments come from, for itself and for them.
PhiCost(t, loop, p) ==
  SumFunction([n \in DOMAIN p.arg |->
           loop[p.arg[n][1]] * (Mentions(t, p.to) + Mentions(t, p.arg[n][2]))])
BlockCost(f, t, loop, b) ==
  SumFunction([n \in DOMAIN f.phi[b] |-> PhiCost(t, loop, f.phi[b][n])])
    + loop[b] * (SumFunction([n \in DOMAIN f.ins[b] |-> InsCost(t, f.ins[b][n])])
                   + Mentions(t, f.jmp[b].arg))

AllTemps(f) == {t \in Temps(f) : t >= Tmp0}
FillCost(f) ==
  LET loop == Once(LoopOf(f))
  IN  [t \in AllTemps(f) \cup Regs |->
         IF t < Tmp0 THEN Dearest
         ELSE SumFunction([b \in Blocks(f) |-> BlockCost(f, t, loop, b)])]

-----------------------------------------------------------------------------
(***************************************************************************)
(* spill() of one block.  c has what it goes by: the costs, the loops, the *)
(* liveness of all blocks, and how qsort() leaves equal temporaries.       *)
(*                                                                         *)
(* s is the state of the walk: v has the temporaries in registers at this  *)
(* point, slot all that have a slot, code what was emitted, and bad says   *)
(* that an assertion failed or an instruction went out of the buffer.      *)
(***************************************************************************)
\* limit() keeps the first k of b.
First(c, fst, t, u) ==
  IF (t \in fst) # (u \in fst) THEN t \in fst
  ELSE IF c.cost[t] # c.cost[u] THEN c.cost[t] > c.cost[u]
  ELSE IF c.up THEN t < u ELSE t > u
Limit(c, b, k, fst) == {t \in b : Cardinality({u \in b \ {t} : First(c, fst, u, t)}) < k}
\* Mutant: one more than there are.
Limit2Over(f, c, b, used, fst) ==
  UNION {Limit(c, Mask(f, k, b), Size[k] - used[k] + 1, fst) : k \in 1 .. 2}
Limit2(f, c, b, used, fst) ==
  UNION {Limit(c, Mask(f, k, b), Size[k] - used[k], fst) : k \in 1 .. 2}

\* slot() of what had to go.
Spilled(s, gone) ==
  [s EXCEPT !.slot = @ \cup {t \in gone : t >= Tmp0},
            !.bad = @ \/ \E t \in gone : t < Tmp0]

MIns(op, t, r) == [op |-> op, to |-> t, arg |-> <<r, R>>, mem |-> 1,
                   rets |-> {}, args |-> {}, tag |-> NoTag]
Reloads(ts) == [n \in 1 .. Cardinality(ts) |->
                  LET t == SetToSeq(ts)[n] IN MIns("load", Tm(t), Slot(t))]
Stores(ts)  == [n \in 1 .. Cardinality(ts) |->
                  LET t == SetToSeq(ts)[n] IN MIns("store", Slot(t), Tm(t))]
Above(ts) == {t \in ts : t >= Tmp0}

\* Mutant: global registers that the loop does not name may be spilled.
LoopGenOnly(c, hd) == c.live.gen[hd]
LoopGen(c, hd)     == c.live.gen[hd] \cup RGlob

\* 1. the temporaries in registers at the end of b.  The header of a loop
\* keeps room for what the loop uses; what only lives through it comes last.
AtBackEdge(f, c, b, hd) ==
  UNION {LET n == Size[k]
             gen == LoopGen(c, hd)
             u == Mask(f, k, c.live.out[b]) \cap gen
             w == Mask(f, k, c.live.out[b]) \ gen
         IN  IF Cardinality(u) < n
             THEN u \cup Limit(c, w, n - (c.live.nlive[hd][k] - Cardinality(w)), {})
             ELSE Limit(c, u, n, {})
         : k \in 1 .. 2}

\* merge(): out of a loop, what already has a slot is reloaded later.
Merged(c, slot, b, w, x) == IF c.loop[b] <= c.loop[x] THEN w ELSE w \ slot

AtExit(f, c, slot, b) ==
  LET on(x) == LiveOn(f, c.live.in, b, x)
      both == {t \in UNION {on(x) : x \in Succs(f, b)} : \A x \in Succs(f, b) : t \in on(x)}
  IN  Limit2(f, c, UNION {Merged(c, slot, b, on(x), x) : x \in Succs(f, b)}, Zero, both)

Back(f, b) == {x \in Succs(f, b) : x <= b}
AtEnd(f, c, slot, b) ==
  IF Back(f, b) # {} THEN AtBackEdge(f, c, b, Max(Back(f, b)))
  ELSE IF Succs(f, b) # {} THEN AtExit(f, c, slot, b)
  ELSE c.live.out[b] \cup f.jmp[b].rets

\* The argument of a jump.  Nothing can be reloaded after the jump: the
\* buffer of instructions is not open yet.
SpillJump(f, c, s, b) ==
  LET a    == Named(f.jmp[b].arg)
      kept == IF a = {} THEN s.v ELSE Limit2(f, c, s.v \cup a, Zero, {})
      gone == (s.v \cup a) \ kept
      lost == Above(gone \ (a \ s.v))
      z    == Spilled(s, gone)
  IN  [z EXCEPT !.v = kept, !.jmp = a # {} /\ a \subseteq gone, !.bad = @ \/ lost # {}]

-----------------------------------------------------------------------------
\* 2. the instructions.  A group of copies from registers is taken as one.
RegCpy(i) == i.op = "copy" /\ IsReg(i.arg[1])
GroupAt(ins, n) == {k \in 1 .. n : \A m \in k .. n : RegCpy(ins[m])}
GroupEnd(ins, n) == RegCpy(ins[n]) /\ (n = Len(ins) \/ ~ RegCpy(ins[n + 1]))

\* dopm()
DoPm(f, c, s, ins, n) ==
  LET g    == GroupAt(ins, n)
      res  == UNION {Results(ins[k]) : k \in g}
      u    == (s.v \ res) \cup UNION {Operands(ins[k]) : k \in g}
      prev == Min(g) - 1
      call == prev > 0 /\ ins[prev].op = "call"
      in   == IF call THEN u \ ins[prev].rets ELSE u
      kept == Limit2(f, c, in, IF call THEN NSave ELSE Zero, {})
      z    == Spilled(s, in \ kept)
  IN  [z EXCEPT !.v = kept \cup (IF call THEN ins[prev].args ELSE {}),
         !.code = SubSeq(ins, Min(g), n) \o Reloads(Above(u \ kept))
                    \o Stores(res \cap s.v \cap s.slot) \o @]

\* The operands that i cannot read from memory.
InRegs(i) ==
  LET j    == i.mem - Cardinality({n \in 1 .. 2 : IsMem(i.arg[n])})
      tmps == {n \in 1 .. 2 : IsTmp(i.arg[n])}
      rank(n) == Cardinality({m \in tmps : m < n})
  IN  UNION {IF IsMem(i.arg[n]) \/ j - rank(n) <= 0 THEN Named(i.arg[n]) ELSE {} : n \in 1 .. 2}

\* Any other instruction.  The argument that dies here is not reloaded.
SpillIns(f, c, s, i) ==
  LET to   == Results(i)
      w    == (to \ s.v) \cup InRegs(i)
      after == SymDiff(s.v, to)       \* a dead result needs a register too
      u    == after \cup Operands(i)
      kept == Limit2(f, c, u, Zero, w)
      at(r) == IF IsTmp(r) /\ Id(r) \notin kept THEN Slot(Id(r)) ELSE r
      dies == (UNION {Named(r) : r \in {r \in ToSet(i.arg) : IsTmp(r)}}) \ after
      z    == Spilled(s, u \ kept)
  IN  [z EXCEPT !.v = kept \ Above(to), !.bad = @ \/ \E t \in to \ s.v : t < Tmp0,
         !.code = <<[i EXCEPT !.arg = <<at(i.arg[1]), at(i.arg[2])>>]>>
                    \o Stores(Above(to) \cap z.slot) \o Reloads(Above(u \ (kept \cup dies))) \o @]

SpillAt(f, c, s, ins, n) ==
  IF RegCpy(ins[n]) THEN IF GroupEnd(ins, n) THEN DoPm(f, c, s, ins, n) ELSE s
  ELSE SpillIns(f, c, s, ins[n])

\* What is changed in b: the instructions, the phis whose results are in mem,
\* which get their slots, and the argument of the jump if it has no register.
PhiAt(mem, p) == IF Named(p.to) \subseteq mem THEN [p EXCEPT !.to = Slot(Id(p.to))] ELSE p
Changed(f, b, code, mem, jmp) ==
  LET phis == [n \in DOMAIN f.phi[b] |-> PhiAt(mem, f.phi[b][n])]
      arg  == f.jmp[b].arg
  IN  [f EXCEPT !.ins[b] = code, !.phi[b] = phis,
                !.jmp[b].arg = IF jmp THEN Slot(Id(arg)) ELSE arg]

\* All of the block, and its phis: one that is in no register, but live, gets
\* its slot as the result.
SpillBlock(f, c, slot, b) ==
  LET v0  == AtEnd(f, c, slot, b)
      s0  == Spilled([v |-> v0, slot |-> slot, code |-> << >>, jmp |-> FALSE, bad |-> FALSE],
                     c.live.out[b] \ v0)
      s1  == Once(SpillJump(f, c, s0, b))
      s2  == Once(FoldRight(LAMBDA n, s : Once(SpillAt(f, c, s, f.ins[b], n)),
                            [n \in 1 .. Len(f.ins[b]) |-> n], s1))
      tos == UNION {Named(p.to) : p \in ToSet(f.phi[b])}
      mem == (tos \cap c.live.in[b]) \ s2.v
      fixed == RGlob \cup IF b = 0 THEN f.reg ELSE {}
  IN  [f |-> Changed(f, b, Stores(tos \cap s2.v \cap s2.slot) \o s2.code, mem, s1.jmp),
       live |-> [c.live EXCEPT !.out[b] = v0, !.in[b] = s2.v \ tos],
       slot |-> s2.slot \cup mem,
       bad |-> s2.bad \/ s2.v \cap Regs # fixed]
===============================================================================
