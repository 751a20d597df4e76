--------------------------------- MODULE Ssa ---------------------------------
(***************************************************************************)
(* The construction of ssa form: filluse(), ssa(), ssacheck() of ssa.c and *)
(* filllive() of live.c as ssa() needs it, on the graph of Cfg.            *)
(*                                                                         *)
(* Temporaries are 1, 2, ...; an instruction writes one, or R, and reads   *)
(* two operands.  The function may have phis of its own; what they define  *)
(* and read must be in ssa form already, as the manual says.  Types are    *)
(* left out, and so are promote(), which comes between the first filluse() *)
(* and ssa(), and operands other than temporaries.                         *)
(*                                                                         *)
(* The run part executes the function as it was and as it became side by   *)
(* side; it models no code.  Of all the values that are ever computed one  *)
(* may be marked, and held and held2 are the temporaries that hold it:     *)
(* two functions that always read the mark together read the same values.  *)
(***************************************************************************)
EXTENDS Cfg

CONSTANT NTmp     (* the temporaries of the functions are 1 .. NTmp *)

R     == 0        \* no operand
UNDEF == -1

ASSUME NTmpAssumption == NTmp \in Nat

VARIABLES
  pass,           (* the next pass on the function, once the graph is known *)
  use,            (* what filluse() found                                   *)
  live,           (* Blk.in and Blk.out                                     *)
  todo,           (* the temporaries, then the blocks, that are left        *)
  visit,          (* Tmp.visit of every temporary                           *)
  stk,            (* the stacks of names, the last one first                *)
  verdict,        (* of ssacheck()                                          *)
  run             (* the executions                                         *)

ssavars == <<pass, use, live, todo, visit, stk, verdict, run>>
vars    == <<cfgvars, ssavars>>

-----------------------------------------------------------------------------
Temps == DOMAIN visit
NoUse == [def |-> << >>, uses |-> << >>, cls |-> << >>]
Idle  == [at |-> None]

SsaInit ==
  /\ Init
  /\ pass = "use"
  /\ use = NoUse
  /\ live = [in |-> [b \in AllBlocks |-> {}], out |-> [b \in AllBlocks |-> {}]]
  /\ todo = << >>
  /\ visit = [t \in 1 .. NTmp |-> 0]
  /\ stk = [t \in 1 .. NTmp |-> << >>]
  /\ verdict = "none"
  /\ run = Idle

\* The passes of ssa() that do not touch the graph start when it is known.
Ready(name) ==
  /\ pc = "loop" /\ pass = name
  /\ UNCHANGED <<pc, given, id, rpo, pred, idom, dom, fron, loop, empty>>

PhiArgs(p) == {p.arg[n][2] : n \in DOMAIN p.arg}
InsArgs(i) == {i.arg[1], i.arg[2]}

\* The places of a block where t is defined and read; those of a phi are 0.
DefsIn(f, b, t) ==
  {<<b, 0>> : i \in {i \in DOMAIN f.phi[b] : f.phi[b][i].to = t}} \cup
  {<<b, i>> : i \in {i \in DOMAIN f.ins[b] : f.ins[b][i].to = t}}
UsesIn(f, b, t) ==
  {<<"phi", b, i>> : i \in {i \in DOMAIN f.phi[b] : t \in PhiArgs(f.phi[b][i])}} \cup
  {<<"ins", b, i>> : i \in {i \in DOMAIN f.ins[b] : t \in InsArgs(f.ins[b][i])}} \cup
  {<<"jmp", b, 0>> : x \in {f.arg[b]} \cap {t}}

\* phicls() of every temporary, after the phis of the function.
PhiClasses(f) ==
  LET join(c, p) == FoldLeft(LAMBDA d, a : IF a[2] \notin Temps THEN d
                       ELSE [t \in Temps |-> IF d[t] = d[a[2]] THEN d[p.to] ELSE d[t]],
                       c, p.arg)
  IN  FoldLeft(LAMBDA c, b : FoldLeft(join, c, f.phi[b]), [t \in Temps |-> t], f.link)

FillUse ==
  /\ \/ Ready("use") /\ pass' = "live"
     \/ Ready("use2") /\ pass' = "check"
  /\ use' = [def  |-> [t \in Temps |-> UNION {DefsIn(fn, b, t) : b \in Linked}],
             uses |-> [t \in Temps |-> UNION {UsesIn(fn, b, t) : b \in Linked}],
             cls  |-> PhiClasses(fn)]
  /\ UNCHANGED <<fn, live, todo, visit, stk, verdict, run>>

-----------------------------------------------------------------------------
\* liveon(): what is live on the edge from b to s, with in as computed.
LiveOn(in, b, s) ==
  LET phis == ToSet(fn.phi[s])
  IN  (in[s] \ {p.to : p \in phis}) \cup
      {a[2] : a \in {a \in UNION {ToSet(p.arg) : p \in phis} : a[1] = b /\ a[2] \in Temps}}

\* Mutant: a definition does not end the life of what it writes.
LiveBeforeKept(b, out) ==
  FoldRight(LAMBDA i, v : v \cup (InsArgs(i) \cap Temps),
            fn.ins[b], out \cup ({fn.arg[b]} \cap Temps))

LiveBefore(b, out) ==
  FoldRight(LAMBDA i, v : (v \ {i.to}) \cup (InsArgs(i) \cap Temps),
            fn.ins[b], out \cup ({fn.arg[b]} \cap Temps))

\* A round of filllive(), from the last block to the first.
LiveRound ==
  /\ Ready("live")
  /\ LET step(v, b) ==
           LET out == v.out[b] \cup UNION {LiveOn(v.in, b, s) : s \in Succs(fn, b)}
           IN  [in |-> [v.in EXCEPT ![b] = LiveBefore(b, out)],
                out |-> [v.out EXCEPT ![b] = out]]
     IN  live' = FoldLeft(step, live, Reverse(rpo))
  /\ IF live' = live
     THEN pass' = "phi" /\ todo' = [t \in 1 .. NTmp |-> t]
     ELSE UNCHANGED <<pass, todo>>
  /\ UNCHANGED <<fn, use, visit, stk, verdict, run>>

-----------------------------------------------------------------------------
\* A temporary that phiins() leaves alone: a phi reads it, or one definition
\* is before all uses.
Skipped(t) ==
  \/ use.cls[t] # t
  \/ /\ Cardinality(use.def[t]) = 1
     /\ \E d \in use.def[t] :
          d[1] = Start \/ \A u \in use.uses[t] : u[2] = d[1]

\* The values of t that do not leave b get names of their own; s has the
\* names of all temporaries so far and the instructions rewritten.
Localise(b, t, s) ==
  LET r(q) == IF q.r # R THEN q.r ELSE t
      arg(q, i) == [k \in 1 .. 2 |-> IF i.arg[k] = t THEN r(q) ELSE i.arg[k]]
      step(q, i) ==
        IF i.to = t /\ t \notin live.out[b]
        THEN [visit |-> Append(q.visit, 0), r |-> Len(q.visit) + 1,
              ins |-> Append(q.ins, [to |-> Len(q.visit) + 1, arg |-> arg(q, i)])]
        ELSE [q EXCEPT !.ins = Append(@, [i EXCEPT !.arg = arg(q, i)])]
      q == FoldLeft(step, [visit |-> s.visit, r |-> R, ins |-> << >>], s.fn.ins[b])
  IN  [visit |-> q.visit,
       fn |-> [s.fn EXCEPT !.ins[b] = q.ins,
                           !.arg[b] = IF @ = t THEN r(q) ELSE @]]

\* The blocks that get a phi for t when those of bs define it.
RECURSIVE PhiBlocks(_, _, _)
PhiBlocks(bs, seen, t) ==
  IF bs = {} THEN {}
  ELSE LET b   == CHOOSE b \in bs : TRUE
           new == {a \in fron[b] \ seen : t \in live.in[a]}
       IN  new \cup PhiBlocks((bs \ {b}) \cup new, seen \cup fron[b], t)

\* Mutant: the blocks that get a phi do not count as definitions.
NewPhisOnce(bs, t) == UNION {{a \in fron[b] : t \in live.in[a]} : b \in bs}

NewPhis(bs, t) == PhiBlocks(bs, {}, t)

PhiIns ==
  /\ Ready("phi")
  /\ IF todo = << >>
     THEN /\ pass' = "ren" /\ todo' = <<Start>>
          /\ UNCHANGED <<fn, visit>>
     ELSE LET t == Head(todo)
              s == FoldLeft(LAMBDA q, b : Localise(b, t, q),
                            [visit |-> visit, fn |-> fn], fn.link)
              defs == {b \in Linked : t \in live.out[b]
                                      /\ \E i \in DOMAIN fn.ins[b] : fn.ins[b][i].to = t}
              phis == NewPhis(defs, t)
          IN  /\ todo' = Tail(todo)
              /\ UNCHANGED pass
              /\ IF Skipped(t) THEN UNCHANGED <<fn, visit>>
                 ELSE /\ visit' = [s.visit EXCEPT ![t] = IF defs = {} THEN 0 ELSE t]
                      /\ fn' = [s.fn EXCEPT !.phi = [b \in AllBlocks |->
                           IF b \in phis THEN <<[to |-> t, arg |-> << >>]>> \o @[b] ELSE @[b]]]
  /\ UNCHANGED <<use, live, stk, verdict, run>>

-----------------------------------------------------------------------------
(***************************************************************************)
(* renblk().  In what follows s has the function, the names and the stacks *)
(* as they are, and r is the operand just renamed.                         *)
(***************************************************************************)
\* Mutant: the names of other branches stay on the stack.
GetStkAny(s, t, b) ==
  [s EXCEPT !.r = IF s.stk[t] = << >> THEN UNDEF ELSE Head(s.stk[t]).r]

\* getstk(): names that were given in blocks that do not dominate b are done.
GetStk(s, t, b) ==
  LET n == SelectInSeq(s.stk[t], LAMBDA name : Dom(name.b, b))
      names == IF n = 0 THEN << >> ELSE SubSeq(s.stk[t], n, Len(s.stk[t]))
  IN  [s EXCEPT !.stk[t] = names,
                !.r = IF names = << >> THEN UNDEF ELSE Head(names).r]

Renamed(s, t) == t \in DOMAIN s.visit /\ s.visit[t] # 0

RenUse(s, t, b) == IF Renamed(s, t) THEN GetStk(s, t, b) ELSE [s EXCEPT !.r = t]

\* Mutant: the new name does not tell which temporary it stands for.
RenDefUnmarked(s, t, b) ==
  LET new == Len(s.visit) + 1
  IN  IF ~ Renamed(s, t) THEN [s EXCEPT !.r = t]
      ELSE [s EXCEPT !.visit = Append(@, 0), !.r = new,
                     !.stk[t] = <<[r |-> new, b |-> b]>> \o @]

RenDef(s, t, b) ==
  LET new == Len(s.visit) + 1
  IN  IF ~ Renamed(s, t) THEN [s EXCEPT !.r = t]
      ELSE [s EXCEPT !.visit = Append(@, t), !.r = new,
                     !.stk[t] = <<[r |-> new, b |-> b]>> \o @]

RenPhi(s, b, i) ==
  LET q == RenDef(s, s.fn.phi[b][i].to, b)
  IN  [q EXCEPT !.fn.phi[b][i].to = q.r]

RenIns(s, b, i) ==
  LET ins == s.fn.ins[b][i]
      q1 == RenUse(s, ins.arg[1], b)
      q2 == RenUse(q1, ins.arg[2], b)
      q3 == RenDef(q2, ins.to, b)
  IN  [q3 EXCEPT !.fn.ins[b][i] = [to |-> q3.r, arg |-> <<q1.r, q2.r>>]]

RenJmp(s, b) ==
  LET q == RenUse(s, s.fn.arg[b], b) IN [q EXCEPT !.fn.arg[b] = q.r]

\* What phi i of a successor d reads when control comes from b.
RenEdge(s, b, d, i) ==
  LET t == s.fn.phi[d][i].to
      q == GetStk(s, s.visit[t], b)
  IN  IF ~ Renamed(s, t) THEN s
      ELSE [q EXCEPT !.fn.phi[d][i].arg = Append(@, <<b, q.r>>)]

\* Mutant: the second edge to the same block is followed again.
RenSuccsTwice(f, b) == SelectSeq(<<f.s1[b], f.s2[b]>>, LAMBDA d : d # None)

RenSuccs(f, b) ==
  IF f.s1[b] = f.s2[b] THEN SelectSeq(<<f.s1[b]>>, LAMBDA d : d # None)
  ELSE SelectSeq(<<f.s1[b], f.s2[b]>>, LAMBDA d : d # None)

RenBlk ==
  /\ Ready("ren")
  /\ IF todo = << >>
     THEN /\ pass' = "use2"
          /\ stk' = [t \in 1 .. NTmp |-> << >>]
          /\ UNCHANGED <<fn, visit, todo>>
     ELSE LET b  == Head(todo)
              q0 == [fn |-> fn, visit |-> visit, stk |-> stk, r |-> R]
              q1 == FoldLeftDomain(LAMBDA s, i : RenPhi(s, b, i), q0, fn.phi[b])
              q2 == FoldLeftDomain(LAMBDA s, i : RenIns(s, b, i), q1, fn.ins[b])
              edge(s, d) == FoldLeftDomain(LAMBDA q, i : RenEdge(q, b, d, i), s, fn.phi[d])
              q3 == FoldLeft(edge, RenJmp(q2, b), RenSuccs(fn, b))
          IN  /\ fn' = q3.fn /\ visit' = q3.visit /\ stk' = q3.stk
              /\ todo' = dom[b] \o Tail(todo)
              /\ UNCHANGED pass
  /\ UNCHANGED <<use, live, verdict, run>>

-----------------------------------------------------------------------------
\* The block where the definition of t does not dominate the use u.
Misplaced(t, d, u) ==
  LET b == d[1]
  IN  IF u[1] = "phi"
      THEN \E a \in ToSet(fn.phi[u[2]][u[3]].arg) :
             a[2] = t /\ a[1] # b /\ ~ SDom(b, a[1])
      ELSE IF u[2] = b THEN u[1] = "ins" /\ d[2] # 0 /\ u[3] <= d[2]
      ELSE ~ SDom(b, u[2])

Bad(t) ==
  \/ Cardinality(use.def[t]) > 1
  \/ use.def[t] = {} /\ use.uses[t] # {}
  \/ \E d \in use.def[t], u \in use.uses[t] : Misplaced(t, d, u)

\* ssacheck(): an error of the user, or of the compiler when it named the
\* temporary itself.  (Which of several errors is told is left out.)
SsaCheck ==
  /\ Ready("check")
  /\ LET bad == {t \in Temps : Bad(t)}
     IN  verdict' = IF bad = {} THEN "ok"
                    ELSE IF \E t \in bad : visit[t] # 0 THEN "die" ELSE "err"
  /\ pass' = "end"
  /\ UNCHANGED <<fn, use, live, todo, visit, stk, run>>

-----------------------------------------------------------------------------
\* The executions.
StartRun ==
  /\ Ready("end")
  /\ pass' = "run"
  /\ run' = [at |-> Start, from |-> None, i |-> 0, marked |-> FALSE,
             held |-> {}, held2 |-> {}]
  /\ UNCHANGED <<fn, use, live, todo, visit, stk, verdict>>

\* What holds the mark after the phis of b, all of which read at once.
AfterPhis(f, held, b, from) ==
  LET phis == ToSet(f.phi[b])
      marks(p) == \E a \in ToSet(p.arg) : a[1] = from /\ a[2] \in held
  IN  (held \ {p.to : p \in phis}) \cup {p.to : p \in {p \in phis : marks(p)}}

RunPhis ==
  /\ Ready("run") /\ run.i = 0
  /\ run' = [run EXCEPT !.i = 1,
               !.held  = AfterPhis(given, @, run.at, run.from),
               !.held2 = AfterPhis(fn, @, run.at, run.from)]
  /\ UNCHANGED <<fn, pass, use, live, todo, visit, stk, verdict>>

AfterIns(held, i, mark) == (held \ {i.to}) \cup (IF mark THEN {i.to} ELSE {})

\* An instruction; mark says that its result is the one that is marked.
RunIns(mark) ==
  /\ Ready("run") /\ run.i \in DOMAIN given.ins[run.at]
  /\ mark => ~ run.marked /\ given.ins[run.at][run.i].to # R
  /\ run' = [run EXCEPT !.i = @ + 1, !.marked = @ \/ mark,
               !.held  = AfterIns(@, given.ins[run.at][run.i], mark),
               !.held2 = AfterIns(@, fn.ins[run.at][run.i], mark)]
  /\ UNCHANGED <<fn, pass, use, live, todo, visit, stk, verdict>>

RunJmp ==
  /\ Ready("run") /\ run.i > Len(given.ins[run.at])
  /\ \E s \in Succs(given, run.at) :
       run' = [run EXCEPT !.at = s, !.from = run.at, !.i = 0]
  /\ UNCHANGED <<fn, pass, use, live, todo, visit, stk, verdict>>

\* Once the function is accepted the passes on the graph go on.
Compile ==
  \/ GraphPass /\ (pc = "loop" => pass = "end" /\ verdict = "ok") /\ UNCHANGED ssavars
  \/ FillUse \/ LiveRound \/ PhiIns \/ RenBlk \/ SsaCheck

Next == \/ Compile
        \/ StartRun \/ RunPhis \/ RunJmp
        \/ \E mark \in BOOLEAN : RunIns(mark)

Spec == SsaInit /\ [][Next]_vars

-----------------------------------------------------------------------------
Passes == {"use", "live", "phi", "ren", "use2", "check", "end", "run"}

\* The shape of the state.
TypeOK ==
  /\ pc \in {After[p] : p \in DOMAIN After} \cup {"rpo"} /\ pass \in Passes
  /\ Linked \subseteq AllBlocks
  /\ id \in [AllBlocks -> -1 .. Cardinality(AllBlocks) - 1]
  /\ ToSet(rpo) \subseteq AllBlocks
  /\ live.in \in [DOMAIN given.s1 -> SUBSET Temps]
  /\ live.out \in [DOMAIN given.s1 -> SUBSET Temps]
  /\ \A t \in Temps : visit[t] \in 0 .. NTmp
  /\ \A t \in 1 .. NTmp : \A name \in ToSet(stk[t]) :
       name.b \in Linked /\ visit[name.r] = t
  /\ verdict \in {"none", "ok", "err", "die"}

Writes(f, b)    == {f.ins[b][i].to : i \in DOMAIN f.ins[b]}
PhiWrites(f, b) == {p.to : p \in ToSet(f.phi[b])}

\* t is read in b, or by a phi after it, before b writes it.
Exposed(f, b, t) ==
  \/ \E i \in DOMAIN f.ins[b] :
       t \in InsArgs(f.ins[b][i]) /\ \A j \in 1 .. i - 1 : f.ins[b][j].to # t
  \/ /\ t \notin Writes(f, b)
     /\ \/ f.arg[b] = t
        \/ \E s \in Succs(f, b) : \E p \in ToSet(f.phi[s]) : <<b, t>> \in ToSet(p.arg)

\* A temporary is live into the blocks from which some path reads it before
\* anything writes it; the sets that filllive() reaches by rounds are those.
LiveRight ==
  pass = "phi" /\ Len(todo) = NTmp =>
    \A t \in Temps, b \in Linked :
      LET es == {e \in Edges(fn, Linked) :
                   t \notin Writes(fn, e[1]) /\ t \notin PhiWrites(fn, e[2])}
      IN  t \in live.in[b] <=> \E c \in Reach({b}, es) : Exposed(fn, c, t)

\* What the passes on the graph compute is what the paths of it say, before
\* and after ssa() and in the end.
PassesRight == GraphRight /\ LiveRight /\ Threaded

\* ssa() is done and the graph is still that of the function.
Built == pc = "loop" /\ pass = "end"

\* The paths on which t has no value at the start of a block.
Unset(f, t) ==
  {b \in Linked : t \notin PhiWrites(f, b)} \cap
  Reach({Start}, {e \in Edges(f, Linked) :
                    t \notin Writes(f, e[1]) \cup PhiWrites(f, e[1])})

\* No path of the function reads what it has not written.
Strict(f) == \A t \in 1 .. NTmp : \A b \in Unset(f, t) : ~ Exposed(f, b, t)

\* A function that never reads what it has not written is accepted, and no
\* phi or instruction of it reads UNDEF: renblk() found a name for each use.
StrictAccepted ==
  Built /\ Strict(given) =>
    /\ verdict = "ok"
    /\ \A b \in Linked :
         /\ fn.arg[b] # UNDEF
         /\ \A i \in DOMAIN fn.ins[b] : UNDEF \notin InsArgs(fn.ins[b][i])
         /\ \A p \in ToSet(fn.phi[b]) : UNDEF \notin PhiArgs(p)

\* The definition at d reaches the place u on every path.
Before(d, u) == IF d[1] = u[1] THEN d[2] < u[2]
                ELSE Dominates(fn, Linked, d[1], u[1])

\* The places where t is read; a phi reads at the end of its predecessors.
UsePlaces(b, t) ==
  {<<b, i>> : i \in {i \in DOMAIN fn.ins[b] : t \in InsArgs(fn.ins[b][i])}} \cup
  (IF \/ fn.arg[b] = t
      \/ \E s \in Succs(fn, b) : \E p \in ToSet(fn.phi[s]) : <<b, t>> \in ToSet(p.arg)
   THEN {<<b, Len(fn.ins[b]) + 1>>} ELSE {})

\* What ssacheck() accepts is in ssa form: one definition each, on every path
\* to every use, and phis with one argument for each predecessor.  What
\* renblk() named never fails the check.
SsaForm ==
  Built =>
    /\ verdict # "die"
    /\ verdict = "ok" =>
         \A t \in Temps :
           LET defs == UNION {DefsIn(fn, b, t) : b \in Linked}
               uses == UNION {UsePlaces(b, t) : b \in Linked}
           IN  /\ Cardinality(defs) <= 1
               /\ \A u \in uses : \E d \in defs : Before(d, u)
    /\ \A b \in Linked : \A p \in ToSet(fn.phi[b]) :
         /\ {p.arg[n][1] : n \in DOMAIN p.arg} = {c \in Linked : b \in Succs(fn, c)}
         /\ \A m, n \in DOMAIN p.arg : p.arg[m][1] = p.arg[n][1] => m = n

\* Whatever way the function runs, it reads the same values as before.
SameRun ==
  pass = "run" /\ run.i > 0 =>
    LET same(r, r2) == r \in run.held <=> r2 \in run.held2
    IN  IF run.i \in DOMAIN given.ins[run.at]
        THEN \A k \in 1 .. 2 : same(given.ins[run.at][run.i].arg[k],
                                    fn.ins[run.at][run.i].arg[k])
        ELSE same(given.arg[run.at], fn.arg[run.at])

=============================================================================
