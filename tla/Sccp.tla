-------------------------------- MODULE Sccp --------------------------------
(***************************************************************************)
(* fold() of fold.c: sparse conditional constant propagation and the       *)
(* trimming of what it proves dead.                                        *)
(*                                                                         *)
(* The analysis works on two lists: flowrk, the edges to follow, linked    *)
(* through Edge.work, and usewrk, the uses of temporaries that changed.    *)
(* An item is a phi, an instruction or the jump of a block; uses are items *)
(* and todo holds the items that are being visited.  usewrk is a set taken *)
(* from in any order: its order and duplicates are the only data left out. *)
(*                                                                         *)
(* Constants are numbered as in fn->con: 0 is UNDEF, which the lattice     *)
(* takes for Top, and c > 0 stands for the value c - 1.  Values are below  *)
(* Modulus and a jnz looks at their word, the value modulo Word, as iscon()*)
(* does with w = 0.                                                        *)
(*                                                                         *)
(* Once the function is trimmed, the run part executes it and the original *)
(* side by side, as the machine would; it models no code of fold().        *)
(***************************************************************************)
EXTENDS Integers, Sequences, FiniteSets, Functions

CONSTANTS
  Programs,    (* the functions that fold() may get, in ssa form           *)
  Temps,       (* the temporaries they use                                 *)
  Modulus, Word

Bot == -1
Top == 0       \* also UNDEF
None == -1     \* no block
R == -2        \* no operand

Value(c) == c - 1
Con(v)   == v + 1
Cons     == {Con(v) : v \in 0 .. Modulus - 1}

ASSUME WidthAssumption == /\ Modulus \in Nat \ {0} /\ Word \in 1 .. Modulus
ASSUME TempsAssumption ==
  IsFiniteSet(Temps) /\ Temps \cap ({Bot, Top, R} \cup Cons) = {}

(***************************************************************************)
(* The functions.  blks are the blocks that are left, all at first; a phi  *)
(* has an argument for each predecessor; only an instruction has no result *)
(* and only a jmp or a ret no argument.                                    *)
(***************************************************************************)
Operands == Temps \cup Cons \cup {Top}
PhiRecs(B) == [to : Temps, arg : UNION {[A -> Operands] : A \in SUBSET B}]
InsRecs == [op : {"add", "div", "load", "store", "nop"}, to : Temps \cup {R},
            arg : [1 .. 2 -> Operands \cup {R}]]

WellTyped(p, B) ==
  /\ IsFiniteSet(B) /\ B = 0 .. Cardinality(B) - 1 /\ 0 \in B
  /\ p \in [blks : {B}, jmp : [B -> {"jmp", "jnz", "ret"}],
             s1 : [B -> B \cup {None}], s2 : [B -> B \cup {None}],
             arg : [B -> Operands \cup {R}],
             phi : [B -> Seq(PhiRecs(B))], ins : [B -> Seq(InsRecs)]]
  /\ p.phi[0] = << >>
  /\ \A b \in B :
       /\ p.s1[b] = None <=> p.jmp[b] = "ret"
       /\ p.s2[b] # None <=> p.jmp[b] = "jnz"
       /\ p.jmp[b] = "jnz" => p.arg[b] # R
       /\ p.jmp[b] = "jmp" => p.arg[b] = R
       /\ \A i \in DOMAIN p.phi[b] :
            DOMAIN p.phi[b][i].arg = {a \in B : b \in {p.s1[a], p.s2[a]}}
       /\ \A i \in DOMAIN p.ins[b] :
            /\ p.ins[b][i].op = "store" => p.ins[b][i].to = R
            /\ p.ins[b][i].op \in {"add", "div"} =>
                 p.ins[b][i].to # R /\ \A k \in 1 .. 2 : p.ins[b][i].arg[k] # R

\* Each temporary is the result of one phi or instruction.
OneDef(p, B) ==
  \A b, c \in B :
    /\ \A i \in DOMAIN p.phi[b], k \in DOMAIN p.phi[c] :
         p.phi[b][i].to = p.phi[c][k].to => b = c /\ i = k
    /\ \A i \in DOMAIN p.phi[b], k \in DOMAIN p.ins[c] : p.phi[b][i].to # p.ins[c][k].to
    /\ \A i \in DOMAIN p.ins[b], k \in DOMAIN p.ins[c] :
         p.ins[b][i].to = p.ins[c][k].to /\ p.ins[b][i].to # R => b = c /\ i = k

\* Every way from the entry to b goes through a: without a, it stays in S.
Within(p, B, S, a) ==
  /\ S \subseteq B \ {a}
  /\ a # 0 => 0 \in S
  /\ \A x \in S : {p.s1[x], p.s2[x]} \subseteq S \cup {a, None}
Dominates(p, B, a, b) == a = b \/ \E S \in SUBSET (B \ {a}) : Within(p, B, S, a) /\ b \notin S

\* t has its value before instruction k of block b, or at the end of it.
HasBefore(p, B, t, b, k) ==
  \E a \in B : /\ \/ \E i \in DOMAIN p.phi[a] : p.phi[a][i].to = t
                  \/ \E i \in DOMAIN p.ins[a] : p.ins[a][i].to = t /\ (a = b => i < k)
               /\ Dominates(p, B, a, b)
HasAfter(p, B, t, b) == HasBefore(p, B, t, b, Len(p.ins[b]) + 1)

\* Definitions dominate uses, as ssa() leaves them.
Strict(p, B) ==
  \A b \in B :
    /\ \A i \in DOMAIN p.phi[b] : \A a \in DOMAIN p.phi[b][i].arg :
         p.phi[b][i].arg[a] \in Temps => HasAfter(p, B, p.phi[b][i].arg[a], a)
    /\ \A i \in DOMAIN p.ins[b], k \in 1 .. 2 :
         p.ins[b][i].arg[k] \in Temps => HasBefore(p, B, p.ins[b][i].arg[k], b, i)
    /\ p.arg[b] \in Temps => HasAfter(p, B, p.arg[b], b)

ASSUME ProgramsAssumption ==
  \A p \in Programs :
    LET B == DOMAIN p.jmp IN WellTyped(p, B) /\ OneDef(p, B) /\ Strict(p, B)

VARIABLES
  pc,          (* "find", "trim", "run", "end" or "abort"                  *)
  fn,          (* the function                                             *)
  val, dead, work, flowrk, usewrk, visit,
  blk, todo,   (* the block being visited, what is left to visit           *)
  out,         (* the function as trimmed so far                           *)
  run          (* the executions                                           *)

findvars == <<val, dead, work, flowrk, usewrk, visit, blk, todo>>
vars     == <<pc, fn, findvars, out, run>>

-----------------------------------------------------------------------------
Blocks == DOMAIN fn.jmp
Sides  == {0, 1}
Start  == <<None, 0>>
NoEdge == <<None, 1>>
Edges  == (Blocks \X Sides) \cup {Start}

Succ(p, b, side) == IF side = 0 THEN p.s1[b] ELSE p.s2[b]
Dest(e) == IF e = Start THEN 0 ELSE Succ(fn, e[1], e[2])

Phis(b) == {<<"phi", b, i>> : i \in DOMAIN fn.phi[b]}
Inss(b) == {<<"ins", b, i>> : i \in DOMAIN fn.ins[b]}
Items   == UNION {Phis(b) \cup Inss(b) \cup {<<"jmp", b, 1>>} : b \in Blocks}

PhiOf(u) == fn.phi[u[2]][u[3]]
InsOf(u) == fn.ins[u[2]][u[3]]

Reads(u) ==
  CASE u[1] = "phi" -> {PhiOf(u).arg[b] : b \in DOMAIN PhiOf(u).arg}
    [] u[1] = "ins" -> {InsOf(u).arg[i] : i \in 1 .. 2}
    [] u[1] = "jmp" -> {fn.arg[u[2]]}
Uses(t) == {u \in Items : t \in Reads(u)}

\* The items that have a result.
Defs == {u \in Items : u[1] = "phi" \/ (u[1] = "ins" /\ InsOf(u).to # R)}
ToOf(u) == IF u[1] = "phi" THEN PhiOf(u).to ELSE InsOf(u).to

CanFold(op) == op \in {"add", "div"}

-----------------------------------------------------------------------------
LatVal(r) == IF r \in Temps THEN val[r] ELSE r

\* Mutant: the last value wins.
LatMergeLast(v, m) == IF m = Top THEN v ELSE m

LatMerge(v, m) ==
  IF m = Top THEN v ELSE IF v \in {Top, m} THEN m ELSE Bot

\* Mutant: only the first successor is looked at.
DeadEdgeFirst(s, d) == Succ(fn, s, 0) = d => dead[<<s, 0>>]

\* No edge from the block s to d was taken.
DeadEdge(s, d) == \A i \in Sides : Succ(fn, s, i) = d => dead[<<s, i>>]

\* What visitphi() merges, for a phi of block n.
PhiVal(p, n) ==
  LET live == {b \in DOMAIN p.arg : ~ DeadEdge(b, n)}
  IN  FoldFunctionOnSet(LatMerge, Top, [b \in live |-> LatVal(p.arg[b])], live)

\* Mutant: the result is not cut to its width.
OpFoldWide(op, l, r) ==
  CASE op = "add" -> Con(Value(l) + Value(r))
    [] op = "div" -> IF Value(r) = 0 THEN Bot ELSE Con(Value(l) \div Value(r))

\* opfold(): Bot when there is no constant to compute.
OpFold(op, l, r) ==
  CASE op = "add" -> Con((Value(l) + Value(r)) % Modulus)
    [] op = "div" -> IF Value(r) = 0 THEN Bot ELSE Con(Value(l) \div Value(r))

\* What visitins() computes.
InsVal(i) ==
  LET l == LatVal(i.arg[1])
      r == LatVal(i.arg[2])
  IN  IF ~ CanFold(i.op) \/ l = Bot \/ r = Bot THEN Bot
      ELSE IF l = Top \/ r = Top THEN Top
      ELSE OpFold(i.op, l, r)

\* iscon(c, 0, 0); con[0] holds a number that is not zero.
IsZero(c) == c # Top /\ Value(c) % Word = 0

\* The sides of the jump of b that visitjmp() pushes, last one first.
Jumps(b) ==
  LET l == LatVal(fn.arg[b])
  IN  CASE fn.jmp[b] = "jmp" -> <<0>>
        [] fn.jmp[b] = "jnz" -> IF l = Bot THEN <<0, 1>>
                                ELSE IF IsZero(l) THEN <<1>> ELSE <<0>>
        [] OTHER -> << >>

-----------------------------------------------------------------------------
Idle == [at |-> None]

Init ==
  /\ pc = "find"
  /\ fn \in Programs
  /\ val = [t \in Temps |-> Top]
  /\ dead = [e \in Edges |-> TRUE]
  /\ work = [e \in Edges |-> NoEdge]
  /\ flowrk = Start
  /\ usewrk = {}
  /\ visit = {}
  /\ blk = None /\ todo = << >>
  /\ out = fn
  /\ run = Idle

Abort == /\ pc' = "abort"
         /\ UNCHANGED <<fn, findvars, out, run>>

\* The items of n, in the order in which an edge to it visits them.
Visits(n) ==
  LET phis == [i \in DOMAIN fn.phi[n] |-> <<"phi", n, i>>]
      inss == [i \in DOMAIN fn.ins[n] |-> <<"ins", n, i>>]
  IN  IF n \in visit THEN phis ELSE phis \o inss \o << <<"jmp", n, 1>> >>

\* The first edge of flowrk; it is skipped if it was taken before.
TakeEdge ==
  /\ pc = "find" /\ blk = None /\ todo = << >>
  /\ flowrk # NoEdge
  /\ flowrk' = work[flowrk]
  /\ work' = [work EXCEPT ![flowrk] = NoEdge]
  /\ LET n == Dest(flowrk)
     IN  IF n = None \/ ~ dead[flowrk]
         THEN UNCHANGED <<dead, blk, todo>>
         ELSE /\ dead' = [dead EXCEPT ![flowrk] = FALSE]
              /\ blk' = n
              /\ todo' = Visits(n)
  /\ UNCHANGED <<pc, fn, val, usewrk, visit, out, run>>

\* Mutant: uses are taken while there are edges to follow.
TakeUseEarly(u) ==
  /\ pc = "find" /\ blk = None /\ todo = << >>
  /\ u \in usewrk
  /\ usewrk' = usewrk \ {u}
  /\ todo' = IF u[2] \in visit THEN <<u>> ELSE << >>
  /\ UNCHANGED <<pc, fn, val, dead, work, flowrk, visit, blk, out, run>>

\* A use, when there is no edge to follow; those in blocks that no edge
\* reached yet are left for that edge.
TakeUse(u) ==
  /\ pc = "find" /\ blk = None /\ todo = << >>
  /\ flowrk = NoEdge
  /\ u \in usewrk
  /\ usewrk' = usewrk \ {u}
  /\ todo' = IF u[2] \in visit THEN <<u>> ELSE << >>
  /\ UNCHANGED <<pc, fn, val, dead, work, flowrk, visit, blk, out, run>>

\* Mutant: the uses are put on usewrk though nothing changed.
UpdateAlways(t, m) ==
  /\ val' = [val EXCEPT ![t] = LatMerge(val[t], m)]
  /\ usewrk' = usewrk \cup Uses(t)

Update(t, m) ==
  LET v == LatMerge(val[t], m)
  IN  /\ val' = [val EXCEPT ![t] = v]
      /\ usewrk' = IF v # val[t] THEN usewrk \cup Uses(t) ELSE usewrk

Todo(type) ==
  /\ pc = "find"
  /\ todo # << >>
  /\ Head(todo)[1] = type

VisitPhi ==
  /\ Todo("phi")
  /\ Update(PhiOf(Head(todo)).to, PhiVal(PhiOf(Head(todo)), Head(todo)[2]))
  /\ todo' = Tail(todo)
  /\ UNCHANGED <<pc, fn, dead, work, flowrk, visit, blk, out, run>>

VisitIns ==
  /\ Todo("ins")
  /\ LET i == InsOf(Head(todo))
     IN  IF i.to = R THEN UNCHANGED <<val, usewrk>> ELSE Update(i.to, InsVal(i))
  /\ todo' = Tail(todo)
  /\ UNCHANGED <<pc, fn, dead, work, flowrk, visit, blk, out, run>>

\* The edges of sides are pushed, the last one first; a jump on a constant
\* asserts that the other edge was not taken.
Push(b, sides) ==
  /\ work' = [e \in Edges |->
       IF sides = << >> \/ e[1] # b THEN work[e]
       ELSE IF e = <<b, sides[Len(sides)]>> THEN flowrk
       ELSE IF e = <<b, sides[1]>> THEN <<b, sides[2]>>
       ELSE work[e]]
  /\ flowrk' = IF sides = << >> THEN flowrk ELSE <<b, sides[1]>>

VisitJmp ==
  /\ Todo("jmp")
  /\ LET b     == Head(todo)[2]
         sides == Jumps(b)
     IN  IF fn.jmp[b] = "jnz" /\ Len(sides) = 1 /\ ~ dead[<<b, 1 - sides[1]>>]
         THEN Abort
         ELSE /\ Push(b, sides)
              /\ todo' = Tail(todo)
              /\ UNCHANGED <<pc, fn, val, dead, usewrk, visit, blk, out, run>>

\* The end of the visit of a block.
EndVisit ==
  /\ pc = "find"
  /\ blk # None /\ todo = << >>
  /\ IF fn.jmp[blk] = "jmp" /\ dead[<<blk, 0>>] /\ flowrk # <<blk, 0>>
     THEN Abort
     ELSE /\ visit' = visit \cup {blk}
          /\ blk' = None
          /\ UNCHANGED <<pc, fn, val, dead, work, flowrk, usewrk, todo, out, run>>

EndFind ==
  /\ pc = "find" /\ blk = None /\ todo = << >>
  /\ flowrk = NoEdge
  /\ usewrk = {}
  /\ pc' = "trim"
  /\ blk' = 0
  /\ UNCHANGED <<fn, val, dead, work, flowrk, usewrk, visit, todo, out, run>>

-----------------------------------------------------------------------------
(***************************************************************************)
(* Trimming.  The blocks are rewritten one after the other; each step only *)
(* depends on val, dead and visit, so that their order is of no account.   *)
(***************************************************************************)
RenRef(r) == IF r \in Temps /\ val[r] # Bot THEN val[r] ELSE r

DropArg(phis, b) ==
  [i \in DOMAIN phis |->
     [phis[i] EXCEPT !.arg = [x \in DOMAIN @ \ {b} |-> @[x]]]]

\* edgedel() of cfg.c: the phi arguments go with the last edge from b.
EdgeDel(p, b, side) ==
  LET d == Succ(p, b, side)
      q == IF side = 0 THEN [p EXCEPT !.s1[b] = None] ELSE [p EXCEPT !.s2[b] = None]
  IN  IF d = None \/ p.s1[b] = p.s2[b] THEN q ELSE [q EXCEPT !.phi[d] = DropArg(@, b)]

\* The phis that are kept keep their place: their order is of no account.
RenPhis(phis, n) ==
  LET ren(p) == [p EXCEPT !.arg = [b \in DOMAIN @ |->
                  IF DeadEdge(b, n) THEN @[b] ELSE RenRef(@[b])]]
      kept == {i \in DOMAIN phis : val[phis[i].to] = Bot}
  IN  [i \in kept |-> ren(phis[i])]

Nop == [op |-> "nop", to |-> R, arg |-> <<R, R>>]

RenIns(i) ==
  IF RenRef(i.to) # i.to THEN Nop
  ELSE LET j == [i EXCEPT !.arg = [k \in 1 .. 2 |-> RenRef(@[k])]]
       IN  IF j.op = "store" /\ j.arg[1] = Top THEN Nop ELSE j

\* A jnz on a constant becomes a jmp.
RenJmp(p, n) ==
  LET a == RenRef(p.arg[n])
      q == [p EXCEPT !.arg[n] = a]
      r == IF IsZero(a)
           THEN [EdgeDel(q, n, 0) EXCEPT !.s1[n] = p.s2[n], !.s2[n] = None]
           ELSE EdgeDel(q, n, 1)
  IN  IF p.jmp[n] = "jnz" /\ a \notin Temps
      THEN [r EXCEPT !.jmp[n] = "jmp", !.arg[n] = R]
      ELSE q

TrimBlk ==
  /\ pc = "trim" /\ blk \in Blocks
  /\ out' = IF blk \notin visit
            THEN [EdgeDel(EdgeDel(out, blk, 0), blk, 1) EXCEPT !.blks = @ \ {blk}]
            ELSE RenJmp([out EXCEPT !.phi[blk] = RenPhis(@, blk),
                                    !.ins[blk] = [i \in DOMAIN @ |-> RenIns(@[i])]], blk)
  /\ blk' = blk + 1
  /\ UNCHANGED <<pc, fn, val, dead, work, flowrk, usewrk, visit, todo, run>>

-----------------------------------------------------------------------------
(***************************************************************************)
(* The executions.  A value is the number of a constant, Top if undefined. *)
(* An execution is left when its next step is undefined: a jump on an      *)
(* undefined value, a division by zero.                                    *)
(***************************************************************************)
Of(env, r) == IF r \in Temps THEN env[r] ELSE r

EndTrim ==
  /\ pc = "trim" /\ blk \notin Blocks
  /\ pc' = "run"
  /\ run' = [at |-> 0, from |-> None, i |-> 0,
             env |-> [t \in Temps |-> Top], env2 |-> [t \in Temps |-> Top]]
  /\ UNCHANGED <<fn, findvars, out>>

\* The phis of a block, all at once.
AfterPhis(p, env, b, from) ==
  [t \in Temps |->
     IF \E i \in DOMAIN p.phi[b] : p.phi[b][i].to = t
     THEN LET i == CHOOSE i \in DOMAIN p.phi[b] : p.phi[b][i].to = t
          IN  Of(env, p.phi[b][i].arg[from])
     ELSE env[t]]

RunPhis ==
  /\ pc = "run" /\ run.i = 0
  /\ run' = [run EXCEPT !.i = 1,
               !.env  = AfterPhis(fn, @, run.at, run.from),
               !.env2 = AfterPhis(out, @, run.at, run.from)]
  /\ UNCHANGED <<pc, fn, findvars, out>>

\* What the instruction computes, when a load gives x.
Computed(env, i, x) ==
  LET l == Of(env, i.arg[1])
      r == Of(env, i.arg[2])
  IN  IF ~ CanFold(i.op) THEN x
      ELSE IF l = Top \/ r = Top THEN Top
      ELSE OpFold(i.op, l, r)

After(env, i, x) ==
  IF i.to = R THEN env ELSE [env EXCEPT ![i.to] = Computed(env, i, x)]

RunIns(x) ==
  /\ pc = "run" /\ run.i \in DOMAIN fn.ins[run.at]
  /\ LET i == fn.ins[run.at][run.i]
         j == out.ins[run.at][run.i]
         traps == CanFold(i.op) /\ Computed(run.env, i, x) = Bot
     IN  IF traps
         THEN /\ pc' = "end"
              /\ run' = Idle
         ELSE /\ run' = [run EXCEPT !.i = @ + 1, !.env = After(@, i, x),
                                    !.env2 = After(@, j, x)]
              /\ UNCHANGED pc
  /\ UNCHANGED <<fn, findvars, out>>

Target(p, env, b) ==
  IF p.jmp[b] = "jnz" /\ IsZero(Of(env, p.arg[b])) THEN p.s2[b] ELSE p.s1[b]

RunJmp ==
  /\ pc = "run" /\ run.i # 0 /\ run.i \notin DOMAIN fn.ins[run.at]
  /\ IF \/ fn.jmp[run.at] = "ret"
        \/ fn.jmp[run.at] = "jnz" /\ Of(run.env, fn.arg[run.at]) = Top
     THEN /\ pc' = "end"
          /\ run' = Idle
     ELSE /\ run' = [run EXCEPT !.at = Target(fn, run.env, @), !.from = run.at, !.i = 0]
          /\ UNCHANGED pc
  /\ UNCHANGED <<fn, findvars, out>>

Fold == \/ TakeEdge \/ VisitPhi \/ VisitIns \/ VisitJmp \/ EndVisit \/ EndFind
        \/ \E u \in usewrk : TakeUse(u)
        \/ TrimBlk \/ EndTrim

Next == \/ Fold
        \/ RunPhis \/ RunJmp
        \/ \E x \in Cons : RunIns(x)

\* fold() is a sequential procedure: it goes on until it returns.
Spec == Init /\ [][Next]_vars /\ WF_vars(Fold)

-----------------------------------------------------------------------------
\* Types of the state of the analysis.
TypeOK ==
  /\ pc \in {"find", "trim", "run", "end", "abort"}
  /\ val \in [Temps -> {Bot, Top} \cup Cons]
  /\ dead \in [Edges -> BOOLEAN] /\ work \in [Edges -> Edges \cup {NoEdge}]
  /\ flowrk \in Edges \cup {NoEdge}
  /\ usewrk \subseteq Items /\ visit \subseteq Blocks
  /\ \A i \in DOMAIN todo : todo[i] \in Items

\* The list through Edge.work loses nothing: every edge that was pushed and
\* not taken is reached from flowrk, though visitjmp() pushes edges without
\* asking whether they are in the list already.
Chain[k \in Nat] ==
  IF k = 0 THEN <<flowrk>>
  ELSE LET c == Chain[k - 1] IN IF c[k] = NoEdge THEN c \o <<NoEdge>> ELSE c \o <<work[c[k]]>>

OnList ==
  LET n == Cardinality(Edges)
  IN  {Chain[n][i] : i \in 1 .. n + 1} \ {NoEdge}

ListIntact ==
  LET n == Cardinality(Edges)
  IN  /\ Chain[n][n + 1] = NoEdge
      /\ \A e \in Edges : work[e] # NoEdge => e \in OnList
      /\ \A b \in visit : \A i \in DOMAIN Jumps(b) :
           <<"jmp", b, 1>> \notin usewrk /\ todo = << >>
             => LET e == <<b, Jumps(b)[i]>> IN ~ dead[e] \/ e \in OnList

\* Every value is up to date with what it is computed from, or what it is
\* computed by is still on one of the lists: no use that changed, and no edge
\* that was taken, is forgotten.
UpToDate ==
  LET waiting == usewrk \cup {todo[i] : i \in DOMAIN todo}
  IN  pc = "find" => \A b \in visit :
        /\ \A u \in Phis(b) \ waiting : val[PhiOf(u).to] = PhiVal(PhiOf(u), b)
        /\ \A u \in Inss(b) \ waiting : InsOf(u).to # R =>
             val[InsOf(u).to] = InsVal(InsOf(u))

\* The phis of the trimmed function have an argument for each of the blocks
\* that jump to theirs, and no other.
PhisMatch ==
  pc = "run" => \A b \in out.blks : \A i \in DOMAIN out.phi[b] :
    DOMAIN out.phi[b][i].arg = {a \in out.blks : b \in {out.s1[a], out.s2[a]}}

\* Whatever the original function reads from, stores and returns, the trimmed
\* one does too, and goes the same way: constants are right and dead code is
\* dead, in every execution.
Refines(r, r2) == Of(run.env, r) \in {Top, Of(run.env2, r2)}

SameRun ==
  pc = "run" =>
    /\ run.at \in out.blks
    /\ run.i \in DOMAIN fn.ins[run.at] =>
         LET i == fn.ins[run.at][run.i]
             j == out.ins[run.at][run.i]
         IN  IF i.op = "store" /\ j.op = "nop" THEN Of(run.env, i.arg[1]) = Top
             ELSE j.op # "nop" => \A k \in 1 .. 2 : Refines(i.arg[k], j.arg[k])
    /\ run.i # 0 /\ run.i \notin DOMAIN fn.ins[run.at] =>
         CASE fn.jmp[run.at] = "ret" -> Refines(fn.arg[run.at], out.arg[run.at])
           [] fn.jmp[run.at] = "jnz" ->
                Of(run.env, fn.arg[run.at]) = Top
                  \/ Target(fn, run.env, run.at) = Target(out, run.env2, run.at)
           [] OTHER -> TRUE

\* Every execution of the trimmed function is one of the original.
TrimRight == PhisMatch /\ SameRun

\* The function reads no undefined value.
Defined == \A u \in Items : Top \notin Reads(u)

\* The lists find what computing everything again and again would find: the
\* values and the edges are those that the rounds of a plain analysis, which
\* starts with nothing known and no edge taken, arrive at.
RoundOf(s, r) == IF r \in Temps THEN s.val[r] ELSE r

Meet(vs) ==
  IF vs \subseteq {Top} THEN Top
  ELSE IF Cardinality(vs \ {Top}) = 1 THEN CHOOSE v \in vs : v # Top
  ELSE Bot

Reached(s) == {Dest(e) : e \in s.taken}

RoundPhi(s, p, b) ==
  Meet({RoundOf(s, p.arg[a]) :
          a \in {a \in DOMAIN p.arg : \E e \in s.taken : e[1] = a /\ Dest(e) = b}})

RoundIns(s, i) ==
  LET l == RoundOf(s, i.arg[1])
      r == RoundOf(s, i.arg[2])
  IN  IF ~ CanFold(i.op) \/ Bot \in {l, r} THEN Bot
      ELSE IF Top \in {l, r} THEN Top
      ELSE OpFold(i.op, l, r)

RoundVal(s, u) ==
  IF u[1] = "phi" THEN RoundPhi(s, PhiOf(u), u[2]) ELSE RoundIns(s, InsOf(u))

Goes(s, b, side) ==
  LET a == RoundOf(s, fn.arg[b])
  IN  \/ fn.jmp[b] = "jmp" /\ side = 0
      \/ fn.jmp[b] = "jnz" /\ (a = Bot \/ (a # Top /\ (side = 1 <=> IsZero(a))))

Round(s) ==
  LET reached == Reached(s)
      found(t) == {RoundVal(s, u) : u \in {u \in Defs : u[2] \in reached /\ ToOf(u) = t}}
  IN  [val   |-> [t \in Temps |-> Meet(found(t))],
       taken |-> {Start} \cup {e \in Blocks \X Sides : e[1] \in reached /\ Goes(s, e[1], e[2])}]

Nothing == [val |-> [t \in Temps |-> Top], taken |-> {Start}]

Rounds[k \in Nat] ==
  IF k = 0 THEN Nothing ELSE Round(Rounds[k - 1])

LastRound == Rounds[2 * Cardinality(Temps) + Cardinality(Edges)]

Exact(s) == val = s.val /\ {e \in Edges : ~ dead[e]} = s.taken

Precise == pc = "trim" /\ blk = 0 /\ Defined => Exact(LastRound)

\* The two worklists forget nothing on the way, so that the analysis ends where
\* it should.
NothingLost == ListIntact /\ UpToDate /\ Precise

\* The assertions of visitjmp() and fold(): a jump that went one way for a
\* constant never goes the other way for another one.
NoAbort == pc # "abort"

\* They hold when nothing is undefined.
NoAbortDefined == Defined => NoAbort

\* The two lists run empty, and fold() returns.
Returns == <>(pc \in {"run", "abort"})

-----------------------------------------------------------------------------
(***************************************************************************)
(* Why it works.  An item is done when it was visited once.                *)
(***************************************************************************)
Typed == fn \in Programs /\ TypeOK

InTodo  == {todo[i] : i \in DOMAIN todo}
Waiting == usewrk \cup InTodo
Done(u) == u[2] \in visit \/ (u[2] = blk /\ u \notin InTodo)
JmpOf(b) == <<"jmp", b, 1>>

\* What the items that have a result compute now.
ValOf(u) == IF u[1] = "phi" THEN PhiVal(PhiOf(u), u[2]) ELSE InsVal(InsOf(u))

\* Values only fall: from Top to a constant, from there to Bot.
Below(v, w) == w = Top \/ v = w \/ v = Bot
ValuesFall == \A u \in Defs : Below(ValOf(u), val[ToOf(u)])

\* What is done is up to date or waits.
DoneRight ==
  /\ \A u \in Defs \ Waiting : Done(u) => val[ToOf(u)] = ValOf(u)
  /\ \A b \in Blocks : Done(JmpOf(b)) /\ JmpOf(b) \notin Waiting =>
       \A i \in DOMAIN Jumps(b) :
         LET e == <<b, Jumps(b)[i]>> IN ~ dead[e] \/ e \in OnList

\* Items are visited in their order.
Before(u, v) ==
  \/ u[1] = "phi" /\ v[1] # "phi"
  \/ u[1] = "ins" /\ v[1] = "jmp"
  \/ u[1] = v[1] /\ u[3] < v[3]

TodoShape ==
  /\ todo \in Seq(Items) /\ blk \in Blocks \cup {None}
  /\ blk = None /\ todo # << >> =>
       flowrk = NoEdge /\ Len(todo) = 1 /\ todo[1][2] \in visit
  /\ blk # None =>
       /\ \A i, k \in DOMAIN todo : i < k => Before(todo[i], todo[k])
       /\ \A i \in DOMAIN todo : todo[i][2] = blk /\ (blk \in visit => todo[i][1] = "phi")
       /\ blk \notin visit /\ todo # << >> => todo[Len(todo)] = JmpOf(blk)

\* Edges come from blocks that are done, and lead to blocks that are visited.
Known(e) == ~ dead[e] \/ e \in OnList
EdgesShape ==
  /\ Known(Start)
  /\ \A e \in Edges : Known(e) /\ e # Start => Done(JmpOf(e[1])) /\ Dest(e) \in Blocks
  /\ \A e \in Edges : ~ dead[e] =>
       /\ e # Start => e[1] \in visit
       /\ Dest(e) \in visit \cup {blk}
  /\ blk # None => \E e \in Edges : ~ dead[e] /\ Dest(e) = blk

\* The edge of a jmp is taken right after it was pushed.
JmpsTaken ==
  \A b \in Blocks : fn.jmp[b] = "jmp" /\ Done(JmpOf(b)) =>
    \/ ~ dead[<<b, 0>>]
    \/ todo = << >> /\ flowrk = <<b, 0>> /\ (blk # None => blk = b)

\* Where nothing is undefined, what is done is not Top, since what dominates
\* it was done before; a jump leads where it led before.
VisitedWithin ==
  \A a \in Blocks : \A S \in SUBSET (Blocks \ {a}) :
    Within(fn, Blocks, S, a) => a \in visit \/ visit \subseteq S
DoneKnown == Defined => \A u \in Defs : Done(u) => val[ToOf(u)] # Top
JumpsAgree ==
  Defined => \A e \in Edges \ {Start} : Known(e) /\ fn.jmp[e[1]] = "jnz" =>
    /\ LatVal(fn.arg[e[1]]) # Top
    /\ \E i \in DOMAIN Jumps(e[1]) : e[2] = Jumps(e[1])[i]

FindInv ==
  /\ out = fn
  /\ ValuesFall /\ DoneRight /\ TodoShape /\ EdgesShape
  /\ JmpsTaken /\ VisitedWithin /\ DoneKnown /\ JumpsAgree

\* What the analysis ends with.
Found ==
  /\ 0 \in visit
  /\ \A u \in Defs : u[2] \in visit => val[ToOf(u)] = ValOf(u)
  /\ \A b \in visit : \A i \in DOMAIN Jumps(b) : ~ dead[<<b, Jumps(b)[i]>>]
  /\ \A e \in Edges : ~ dead[e] => Dest(e) \in visit
  /\ flowrk = NoEdge /\ usewrk = {} /\ todo = << >>

\* A block that was trimmed, one that was not.
TrimmedJmp(b) ==
  LET a == RenRef(fn.arg[b])
  IN  IF fn.jmp[b] = "jnz" /\ a \notin Temps
      THEN [jmp |-> "jmp", arg |-> R, s2 |-> None,
            s1 |-> IF IsZero(a) THEN fn.s2[b] ELSE fn.s1[b]]
      ELSE [jmp |-> fn.jmp[b], arg |-> a, s1 |-> fn.s1[b], s2 |-> fn.s2[b]]

\* A function whose phis have an argument for each predecessor.
Shape(p) ==
  /\ DOMAIN p = {"blks", "jmp", "s1", "s2", "arg", "phi", "ins"}
  /\ DOMAIN p.jmp = Blocks /\ DOMAIN p.arg = Blocks
  /\ DOMAIN p.phi = Blocks /\ DOMAIN p.ins = Blocks
  /\ p.s1 \in [Blocks -> Blocks \cup {None}]
  /\ p.s2 \in [Blocks -> Blocks \cup {None}]
  /\ \A b \in Blocks : \A i \in DOMAIN p.phi[b] :
       /\ DOMAIN p.phi[b][i] = {"to", "arg"}
       /\ DOMAIN p.phi[b][i].arg = {a \in Blocks : b \in {p.s1[a], p.s2[a]}}

\* A block that is still to trim, one that was, and the phis of one.
BlkKept(o, b) ==
  /\ o.ins[b] = fn.ins[b] /\ DOMAIN o.phi[b] = DOMAIN fn.phi[b]
  /\ o.jmp[b] = fn.jmp[b] /\ o.arg[b] = fn.arg[b]
  /\ o.s1[b] = fn.s1[b] /\ o.s2[b] = fn.s2[b]
BlkTrimmed(o, b) ==
  /\ o.ins[b] = [i \in DOMAIN fn.ins[b] |-> RenIns(fn.ins[b][i])]
  /\ [jmp |-> o.jmp[b], arg |-> o.arg[b], s1 |-> o.s1[b], s2 |-> o.s2[b]] = TrimmedJmp(b)
  /\ DOMAIN o.phi[b] = {i \in DOMAIN fn.phi[b] : val[fn.phi[b][i].to] = Bot}
ArgsAre(o, b, trimmed) ==
  \A i \in DOMAIN o.phi[b] :
    /\ o.phi[b][i].to = fn.phi[b][i].to
    /\ \A a \in DOMAIN o.phi[b][i].arg :
         o.phi[b][i].arg[a] = IF trimmed /\ b \in visit /\ ~ DeadEdge(a, b)
                              THEN RenRef(fn.phi[b][i].arg[a]) ELSE fn.phi[b][i].arg[a]
Trimmed(o, k) ==
  /\ k \in Nat /\ Shape(o)
  /\ o.blks = {b \in Blocks : b < k => b \in visit}
  /\ \A b \in Blocks :
       /\ b < k /\ b \in visit => BlkTrimmed(o, b)
       /\ b < k /\ b \notin visit => o.s1[b] = None /\ o.s2[b] = None
       /\ ~ (b < k) => BlkKept(o, b)
       /\ ArgsAre(o, b, b < k)

TrimInv == Trimmed(out, blk)

\* A temporary has the value that was found, or the same in both executions.
RunInv ==
  /\ DOMAIN run = {"at", "from", "i", "env", "env2"}
  /\ DOMAIN run.env = Temps /\ DOMAIN run.env2 = Temps
  /\ run.at \in visit
  /\ run.i \in Nat
  /\ run.i = 0 => IF run.from = None THEN run.at = 0
                  ELSE /\ run.from \in visit /\ ~ DeadEdge(run.from, run.at)
                       /\ run.at \in {out.s1[run.from], out.s2[run.from]}
  /\ \A t \in Temps :
       /\ run.env[t] \in Cons \cup {Top}
       /\ run.env[t] # Top =>
            val[t] = run.env[t] \/ (val[t] = Bot /\ run.env2[t] = run.env[t])

\* The worklists are never ahead of the last round: what they found so far, it
\* found too.  That they do not end too early is what Found says.
Behind(s) ==
  /\ visit \cup {blk} \subseteq Reached(s) \cup {None}
  /\ \A t \in Temps : Below(s.val[t], val[t])

SccpInv ==
  /\ Typed
  /\ pc = "find" => FindInv
  /\ pc = "abort" => ~ Defined
  /\ pc \in {"trim", "run"} => Found /\ TrimInv
  /\ pc = "run" => blk \notin Blocks /\ RunInv

\* What the search needs besides, to end with what the rounds end with.
LastInv ==
  Defined => /\ pc = "find" => Behind(LastRound)
             /\ pc = "trim" => Exact(LastRound)

=============================================================================
