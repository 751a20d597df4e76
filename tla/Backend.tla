------------------------------- MODULE Backend -------------------------------
(***************************************************************************)
(* From the selected instructions to registers: liveness, spilling and     *)
(* the moves between blocks of the register allocator, for the functions   *)
(* of Programs, and the execution of what comes out beside what went in.   *)
(*                                                                         *)
(* The registers that rega() chooses in a block are in module Rega; here   *)
(* its doblk() and dopm() are followed as far as they do not depend on the *)
(* choice: what is live, what is emitted, and whether there is room.  The  *)
(* moves between blocks are for any maps that the blocks may have got.     *)
(***************************************************************************)
EXTENDS Spill

CONSTANT Programs

\* The predecessors of b.
PredSet(p, b) == {a \in Blocks(p) : b \in Succs(p, a)}

(***************************************************************************)
(* The functions that isel() leaves.  A phi has a temporary of its own as  *)
(* result, and an argument for each predecessor.                           *)
(***************************************************************************)
Pool(p)   == AllTemps(p) \cup Regs
PhiArg(r) == r[1] # "slot" /\ (IsTmp(r) => r = Tm(Id(r)))
PhiSet(p)  == [to : Refs, cls : STRING, arg : Seq(Blocks(p) \X Refs)]
PhisGiven(p, b) ==
  /\ p.phi[b] \in Seq(PhiSet(p))
  /\ \A i \in DOMAIN p.phi[b] :
       LET q == p.phi[b][i]
       IN  /\ q.to = Tm(Id(q.to)) /\ Id(q.to) >= Tmp0
           /\ \A k \in DOMAIN p.phi[b] : p.phi[b][k].to = q.to => k = i
           /\ \A a \in PredSet(p, b) : \E x \in ToSet(q.arg) : x[1] = a
           /\ \A x \in ToSet(q.arg) :
                PhiArg(x[2]) /\ (IsTmp(x[2]) => Id(x[2]) \in AllTemps(p))

\* An instruction reads nothing that it sets but registers, and what of it
\* must be in registers finds enough of them.
InsGiven(p, i) ==
  /\ i.op \in {"op", "copy", "call"}
  /\ i.to = R \/ IsTmp(i.to)
  /\ Results(i) \cup Operands(i) \subseteq Pool(p)
  /\ Above(Results(i)) \cap Operands(i) = {}
  /\ \A k \in 1 .. 2 : Cardinality(Mask(p, k, Results(i) \cup InRegs(i))) <= Size[k]
  /\ RegCpy(i) => i.arg[2] = R
  /\ i.op = "call" => i.to = R /\ i.args \cup i.rets \subseteq RSave

JmpGiven(p, b) ==
  /\ p.jmp[b] \in [type : STRING, arg : Refs, rets : SUBSET Regs]
  /\ ~ IsMem(p.jmp[b].arg) /\ Named(p.jmp[b].arg) \subseteq Pool(p)
  /\ p.jmp[b].type = "ret" => Succs(p, b) = {}

ASSUME ProgramsAssumption ==
  \A p \in Programs :
    /\ DOMAIN p = {"s1", "s2", "phi", "ins", "jmp", "fp", "reg"}
    /\ IsFiniteSet(Blocks(p)) /\ Blocks(p) = 0 .. Cardinality(Blocks(p)) - 1
    /\ p.s1 \in [Blocks(p) -> Blocks(p) \cup {None}]
    /\ p.s2 \in [Blocks(p) -> Blocks(p) \cup {None}]
    /\ DOMAIN p.phi = Blocks(p) /\ DOMAIN p.jmp = Blocks(p)
    /\ p.ins \in [Blocks(p) -> Seq(Instr)]
    /\ p.fp \subseteq AllTemps(p)
    /\ \A b \in Blocks(p) : /\ PhisGiven(p, b) /\ JmpGiven(p, b)
                           /\ \A n \in DOMAIN p.ins[b] : InsGiven(p, p.ins[b][n])

VARIABLES
  pc,          (* "live", "spill", "rega", "edges" or "run"                *)
  orig,        (* the function given                                       *)
  f,           (* the function now                                         *)
  c,           (* live, cost, loop and up, what spill() goes by            *)
  slot,        (* the temporaries with a slot                              *)
  bad,         (* an assertion failed                                      *)
  at,          (* the blocks left to spill, or the block that is executed  *)
  walk,        (* of each block, what doblk() finds live and emits         *)
  join,        (* the edges to one block: their register maps              *)
  x, z         (* the executions of orig and of f                          *)

vars == <<pc, orig, f, c, slot, bad, at, walk, join, x, z>>

-----------------------------------------------------------------------------
Init ==
  /\ pc = "live"
  /\ orig \in Programs /\ f = orig
  /\ \E up \in BOOLEAN : c = [live |-> NoLive(f), cost |-> << >>, loop |-> << >>, up |-> up]
  /\ slot = {} /\ bad = FALSE /\ at = None /\ walk = << >> /\ join = << >>
  /\ x = << >> /\ z = << >>

\* filllive() goes round until no block has more live at its end; fillloop()
\* and fillcost() follow.
Live ==
  /\ pc = "live"
  /\ LET l == LiveRound(f, c.live)
     IN  IF l.out # c.live.out
         THEN c' = [c EXCEPT !.live = l] /\ UNCHANGED <<pc, at>>
         ELSE /\ c' = [c EXCEPT !.live = Aggregated(f, l), !.cost = FillCost(f), !.loop = LoopOf(f)]
              /\ pc' = "spill" /\ at' = Cardinality(Blocks(f)) - 1
  /\ UNCHANGED <<orig, f, slot, bad, walk, join, x, z>>

\* spill() of the blocks, the last one first.
SpillNext ==
  /\ pc = "spill" /\ at >= 0 /\ ~ bad
  /\ LET s == Once(SpillBlock(f, c, slot, at))
     IN  /\ f' = s.f /\ c' = [c EXCEPT !.live = s.live]
         /\ slot' = s.slot /\ bad' = (bad \/ s.bad)
  /\ at' = at - 1
  /\ UNCHANGED <<pc, orig, walk, join, x, z>>

-----------------------------------------------------------------------------
(***************************************************************************)
(* rega() of a block, from its end: w.live is what is in the map, w.code   *)
(* what is emitted; w.fits says that there were registers enough.          *)
(***************************************************************************)
Fits(names) == \A k \in 1 .. 2 : Cardinality(Mask(f, k, names)) <= Size[k]

\* Mutant: these are not stored.
StoredNone(w, res) == << >>
Stored(w, res) == Stores((res \ w.live) \cap slot)

\* dopm() with the registers that the call before it overwrites.  Results that
\* are dead and have a slot are stored with the moves.
WalkGroup(w, ins, n) ==
  LET g    == GroupAt(ins, n)
      res  == UNION {Results(ins[k]) : k \in g}
      srcs == UNION {Operands(ins[k]) : k \in g}
      call == Min(g) > 1 /\ ins[Min(g) - 1].op = "call"
      rest == w.live \ res
      held == IF call THEN RSave \ ins[Min(g) - 1].rets ELSE {}
  IN  [w EXCEPT !.live = rest \cup srcs \cup held,
                !.code = SubSeq(ins, Min(g), n) \o Stored(w, res) \o @,
                !.fits = @ /\ Fits(rest \cup srcs \cup held)]

\* A result that is not in the map is dead: nothing is emitted.
WalkIns(w, i) ==
  LET freed == IF i.op = "call" THEN RSave \ i.args ELSE Results(i)
      l     == (w.live \ freed) \cup Operands(i)
  IN  IF i.op # "call" /\ ~ Results(i) \subseteq w.live
      THEN [w EXCEPT !.bad = @ \/ IsReg(i.to)]
      ELSE [w EXCEPT !.live = l, !.code = <<i>> \o @, !.fits = @ /\ Fits(l)]

WalkAt(w, ins, n) ==
  IF RegCpy(ins[n]) THEN IF GroupEnd(ins, n) THEN WalkGroup(w, ins, n) ELSE w
  ELSE WalkIns(w, ins[n])

WalkBlock(b) ==
  LET end == c.live.out[b] \cup Named(f.jmp[b].arg)
      w   == [live |-> end, code |-> << >>, fits |-> Fits(end), bad |-> FALSE]
  IN  FoldRight(LAMBDA n, y : Once(WalkAt(y, f.ins[b], n)),
                [n \in 1 .. Len(f.ins[b]) |-> n], w)

PhiTos(b) == UNION {Named(p.to) : p \in ToSet(f.phi[b])}
InOf(b)   == Above(walk[b].live \ PhiTos(b))
OutOf(b)  == Above(c.live.out[b])

Walk ==
  /\ pc = "spill" /\ at < 0 /\ ~ bad
  /\ walk' = [b \in Blocks(f) |-> WalkBlock(b)]
  /\ pc' = "rega"
  /\ UNCHANGED <<orig, f, c, slot, bad, at, join, x, z>>

-----------------------------------------------------------------------------
(***************************************************************************)
(* The moves between blocks.  join.end has the maps that the predecessors  *)
(* of join.to ended with, join.beg the one it began with; its m is beg     *)
(* after the moves that all edges share, and shared are these moves.       *)
(***************************************************************************)
Free(k) == (IF k = 1 THEN Gpr ELSE Fpr) \ RGlob
Maps(names) ==
  {m \in [names -> Regs \ RGlob] :
     /\ \A t \in names : m[t] \in Free(IF IsFp(f, t) THEN 2 ELSE 1)
     /\ \A t, u \in names : m[t] = m[u] => t = u}

PickJoin(s) ==
  /\ pc = "rega"
  /\ PredSet(f, s) # {}
  /\ join' = [to |-> s, end |-> << >>, beg |-> << >>, m |-> << >>, shared |-> {}]
  /\ pc' = "edges"
  /\ UNCHANGED <<orig, f, c, slot, bad, at, walk, x, z>>

PickEnd(b) ==
  /\ pc = "edges" /\ b \in PredSet(f, join.to) \ DOMAIN join.end
  /\ \E m \in Maps(OutOf(b)) :
       join' = [join EXCEPT
         !.end = [a \in DOMAIN @ \cup {b} |-> IF a = b THEN m ELSE @[a]]]
  /\ UNCHANGED <<pc, orig, f, c, slot, bad, at, walk, x, z>>

\* 3. the register that t comes from in the predecessors where it has one.
ArgFrom(p, b) == (CHOOSE a \in ToSet(p.arg) : a[1] = b)[2]
PhiOf(t) == {p \in ToSet(f.phi[join.to]) : p.to = Tm(t)}
ValueOn(b, t) ==
  IF PhiOf(t) = {} THEN Tm(t) ELSE ArgFrom(CHOOSE p \in PhiOf(t) : TRUE, b)
SourcesOf(end, t) ==
  {end[b][Id(ValueOn(b, t))] :
     b \in {b \in DOMAIN end : IsTmp(ValueOn(b, t)) /\ Id(ValueOn(b, t)) \in DOMAIN end[b]}}
Sources(end, beg) == [t \in DOMAIN beg |-> SourcesOf(end, t)]

\* Mutant: whether the register is taken at the beginning is not looked at.
CandidatesTaken(src, beg) == {t \in DOMAIN beg : Cardinality(src[t]) = 1}

Candidates(src, beg) ==
  {t \in DOMAIN beg : /\ Cardinality(src[t]) = 1
                      /\ src[t] \cap {beg[u] : u \in DOMAIN beg} = {}}

\* One of those that come from one register is moved, the first of the map.
Shares(src, beg) ==
  {w \in SUBSET Candidates(src, beg) :
     \A t \in Candidates(src, beg) : Cardinality({u \in w : src[u] = src[t]}) = 1}

\* beg once the temporaries in w come from elsewhere, and the moves of these.
SharedFrom(src, t) == CHOOSE r \in src[t] : TRUE
Moved(src, beg, w) == [t \in DOMAIN beg |-> IF t \in w THEN SharedFrom(src, t) ELSE beg[t]]
SharedMoves(src, beg, w) == {<<SharedFrom(src, t), beg[t]>> : t \in w}

PickBeg ==
  /\ pc = "edges" /\ DOMAIN join.end = PredSet(f, join.to) /\ join.m = << >>
  /\ \E beg \in Maps(Above(walk[join.to].live)) :
       LET src == Sources(join.end, beg)
       IN  \E w \in IF Cardinality(DOMAIN join.end) <= 1 THEN {{}} ELSE Shares(src, beg) :
             join' = [join EXCEPT !.beg = beg, !.m = Moved(src, beg, w),
                                  !.shared = SharedMoves(src, beg, w)]
  /\ pc' = "joined"
  /\ UNCHANGED <<orig, f, c, slot, bad, at, walk, x, z>>

\* 4. rref(): where t is; what is added to the parallel move of the edge from b.
RRef(m, t) == IF t \in DOMAIN m THEN Tm(m[t]) ELSE Slot(t)
EdgeMoves(b) ==
  LET from(r) == IF IsTmp(r) THEN RRef(join.end[b], Id(r)) ELSE r
      dead(p) == IsTmp(p.to) /\ Id(p.to) \notin DOMAIN join.m
      to(p)   == IF IsTmp(p.to) THEN RRef(join.m, Id(p.to)) ELSE p.to
  IN  {<<from(ArgFrom(p, b)), to(p)>> : p \in {p \in ToSet(f.phi[join.to]) : ~ dead(p)}}
        \cup {<<RRef(join.end[b], t), RRef(join.m, t)>> : t \in InOf(join.to)}

-----------------------------------------------------------------------------
(***************************************************************************)
(* Executions.  A value is the label <<block, index, register, step>> of   *)
(* where it was made.  A function is given its registers; a temporary that *)
(* neither has a register nor a slot is lost.                              *)
(***************************************************************************)
Junk    == <<-1, 0, 0, 0>>
Lost    == <<-2, 0, 0, 0>>
Con(r)  == <<-3, r[2], 0, 0>>
Made(i, r, now) == <<i.tag[1], i.tag[2], r, now>>
Names == AllTemps(orig) \cup Regs

StartRun == [env |-> [t \in Names |-> IF t < Tmp0 THEN <<-4, t, 0, 0>> ELSE Lost],
             mem |-> [t \in AllTemps(orig) |-> Lost], now |-> 0, seen |-> {}]

Value(y, r) == CASE IsTmp(r) -> y.env[Id(r)]
                 [] r[1] = "slot" -> y.mem[Id(r)]
                 [] OTHER -> Con(r)
Reads(y, i) ==
  << UNION {{<<n, t, y.env[t]>> : t \in Named(i.arg[n])} : n \in {n \in 1 .. 2 : IsMem(i.arg[n])}},
     [n \in 1 .. 2 |-> IF IsMem(i.arg[n]) THEN Junk ELSE Value(y, i.arg[n])],
     {<<r, y.env[r]>> : r \in i.args} >>

Does(y, i) ==
  LET r == IF i.tag = NoTag THEN y ELSE [y EXCEPT !.seen = @ \cup {<<i.tag, Reads(y, i)>>}]
  IN  CASE i.op = "store" -> [r EXCEPT !.mem[Id(i.to)] = Value(y, i.arg[1])]
        [] i.op \in {"load", "copy"} -> [r EXCEPT !.env[Id(i.to)] = Value(y, i.arg[1])]
        [] OTHER -> [r EXCEPT !.env = [t \in DOMAIN @ |->
             IF t \in i.rets \cup Results(i) THEN Made(i, t, y.now)
             ELSE IF i.op = "call" /\ t \in RSave THEN Junk ELSE @[t]]]

\* Copies from registers with no result keep them live, and do nothing.
Executed(code) == SelectSeq(code, LAMBDA i : i.to # R \/ i.op # "copy")
RunCode(y, g, b, code) ==
  LET e == FoldLeft(LAMBDA s, i : Does(s, i), [y EXCEPT !.seen = {}], Executed(code))
  IN  [e EXCEPT !.now = (@ + 1) % Steps,
                !.seen = @ \cup {<<<<b, 0>>, Value(e, g.jmp[b].arg)>>}
                           \cup {<<<<b, 0>>, r, e.env[r]>> : r \in g.jmp[b].rets}]

\* The edge from p to b, before and after register allocation.
EdgeOrig(y, p, b) ==
  LET phi(t) == {q \in ToSet(orig.phi[b]) : q.to = Tm(t)}
  IN  [y EXCEPT !.env = [t \in DOMAIN @ |->
         IF phi(t) = {} THEN @[t]
         ELSE Value(y, ArgFrom(CHOOSE q \in phi(t) : TRUE, p))]]

EdgeSpilled(y, p, b) ==
  LET held(r) == IF IsTmp(r) /\ Id(r) \notin OutOf(p) THEN y.mem[Id(r)] ELSE Value(y, r)
      phi(r)  == {q \in ToSet(f.phi[b]) : q.to = r}
      arg(r)  == held(ArgFrom(CHOOSE q \in phi(r) : TRUE, p))
  IN  [y EXCEPT
        !.env = [t \in DOMAIN @ |->
           IF t < Tmp0 THEN @[t] ELSE IF phi(Tm(t)) # {} THEN arg(Tm(t))
           ELSE IF t \in InOf(b) THEN held(Tm(t)) ELSE Lost],
        !.mem = [t \in DOMAIN @ |-> IF phi(Slot(t)) # {} THEN arg(Slot(t)) ELSE @[t]]]

Run(y, w, b) ==
  /\ x' = RunCode(y, orig, b, orig.ins[b])
  /\ z' = RunCode(w, f, b, walk[b].code)
  /\ at' = b
  /\ UNCHANGED <<orig, f, c, slot, bad, walk, join>>

Begin == pc = "rega" /\ pc' = "run" /\ Run(StartRun, StartRun, 0)

Step(b) ==
  /\ pc = "run" /\ b \in Succs(f, at)
  /\ Run(EdgeOrig(x, at, b), EdgeSpilled(z, at, b), b)
  /\ UNCHANGED pc

Next == \/ Live \/ SpillNext \/ Walk \/ PickBeg \/ Begin
        \/ \E b \in Blocks(f) : PickJoin(b) \/ PickEnd(b) \/ Step(b)

Spec == Init /\ [][Next]_vars

-----------------------------------------------------------------------------
\* Phis, jumps and slots name temporaries of the function, and only these.
TypeOK ==
  /\ pc \in {"live", "spill", "rega", "edges", "joined", "run"}
  /\ slot \subseteq AllTemps(orig) /\ bad \in BOOLEAN
  /\ \A b \in Blocks(f) : /\ c.live.in[b] \cup c.live.out[b] \subseteq Names
                          /\ c.live.nlive[b] \in Nat \X Nat
  /\ DOMAIN f.ins = Blocks(orig) /\ f.s1 = orig.s1 /\ f.s2 = orig.s2

\* rega() never runs out of registers: "no more regs" of pickreg(), after
\* spill() made room at every instruction, copy group, call and block end.
FitsRega == pc = "rega" => \A b \in Blocks(f) : walk[b].fits

\* Nothing that is assumed of the code in comments and assertions fails: no
\* register is spilled, no instruction has a dead register as result, blocks
\* begin with the global registers alone, what an edge needs has a register or
\* a slot, and jumps read registers.
NoAbort ==
  /\ ~ bad
  /\ pc = "rega" =>
       \A b \in Blocks(f) :
         /\ ~ walk[b].bad
         /\ f.jmp[b].arg[1] # "slot"
         /\ \A s \in Succs(f, b) :
              InOf(s) \cup PhiArgs(f, b, s) \subseteq OutOf(b) \cup slot

\* Every instruction that is executed reads, in registers and slots, the
\* values that it read before spilling, on every path; all that have no result
\* are executed.
SameReads ==
  pc = "run" =>
    /\ z.seen \subseteq x.seen
    /\ \A n \in DOMAIN orig.ins[at] :
         LET i == orig.ins[at][n] IN i.to = R /\ i.op # "copy" => \E o \in z.seen : o[1] = i.tag

\* What a register or slot holds at the end of b, after the moves of the edge
\* and after those that all edges share.
Held(b, r) ==
  CASE IsTmp(r) -> {Tm(t) : t \in {t \in DOMAIN join.end[b] : join.end[b][t] = Id(r)}}
    [] r[1] = "slot" -> {Tm(Id(r))}
    [] OTHER -> {r}
After(b, d) ==
  LET moves == {e \in EdgeMoves(b) : e[2] = d}
  IN  IF moves = {} THEN Held(b, d) ELSE UNION {Held(b, e[1]) : e \in moves}
Final(b, r) ==
  LET moves == {e \in join.shared : e[2] = r}
  IN  IF moves = {} THEN After(b, Tm(r)) ELSE UNION {After(b, Tm(e[1])) : e \in moves}

\* Over every edge, whatever registers the blocks around it got, the moves of
\* the edge and those at the beginning of the block bring each value to the
\* register or slot where the block expects it.
EdgesRight ==
  pc = "joined" =>
    \A b \in DOMAIN join.end :
      /\ \A t \in DOMAIN join.beg : Final(b, join.beg[t]) = {ValueOn(b, t)}
      /\ \A p \in ToSet(f.phi[join.to]) :
           p.to[1] = "slot" => After(b, p.to) = {ArgFrom(p, b)}

-----------------------------------------------------------------------------
(***************************************************************************)
(* Why the moves are right.  The phis are those of the function given, but *)
(* for results in slots; maps are one to one, and those that the shared    *)
(* moves leave too.                                                        *)
(***************************************************************************)
SamePhi(p, q) ==
  /\ DOMAIN q = {"to", "cls", "arg"} /\ q.arg = p.arg
  /\ q.to \in {p.to, Slot(Id(p.to))}
SamePhis ==
  /\ DOMAIN f = DOMAIN orig /\ f.s1 = orig.s1 /\ f.s2 = orig.s2
  /\ DOMAIN f.phi = Blocks(orig)
  /\ \A b \in Blocks(orig) :
       /\ DOMAIN f.phi[b] = DOMAIN orig.phi[b]
       /\ \A i \in DOMAIN f.phi[b] : SamePhi(orig.phi[b][i], f.phi[b][i])

Ends ==
  /\ DOMAIN join = {"to", "end", "beg", "m", "shared"}
  /\ join.to \in Blocks(f)
  /\ DOMAIN join.end \subseteq PredSet(f, join.to)
  /\ \A b \in DOMAIN join.end : join.end[b] \in Maps(OutOf(b))
Joined ==
  LET src == Sources(join.end, join.beg)
  IN  /\ join.beg \in Maps(Above(walk[join.to].live))
      /\ \E w \in Shares(src, join.beg) \cup {{}} :
           /\ join.m = Moved(src, join.beg, w)
           /\ join.shared = SharedMoves(src, join.beg, w)

EdgesInv ==
  /\ orig \in Programs
  /\ SamePhis
  /\ pc \in {"edges", "joined"} => Ends
  /\ pc = "joined" => Joined
===============================================================================
