--------------------------------- MODULE Cfg ---------------------------------
(***************************************************************************)
(* The flow graph of a function: cfg.c.                                    *)
(*                                                                         *)
(* A function has its blocks in the order of Blk.link, their successors,   *)
(* those that end with hlt, and what ssa.c works on: phis with a sequence  *)
(* of <<block, operand>>, instructions, and the operand of each jump.  A   *)
(* block with no successor returns or halts.  Ids count from 0.            *)
(*                                                                         *)
(* The passes are taken in the order of func() in main.c; passes that do   *)
(* not touch the graph are left out, and so is what the passes between     *)
(* fillfron and fillloop do to it: every graph is an input.                *)
(***************************************************************************)
EXTENDS Integers, Sequences, FiniteSets, SequencesExt

CONSTANT Inputs   (* the functions *)

Start == 0
None  == -1
Ret   == -2       \* the block that simpljmp() adds
NoId  == -1

VARIABLES
  pc,             (* the next pass                                         *)
  given, fn,      (* the function as it was read and as it is              *)
  id, rpo, pred, idom, dom, fron, loop,
  empty           (* the blocks without instructions after lowering        *)

cfgvars == <<pc, given, fn, id, rpo, pred, idom, dom, fron, loop, empty>>

-----------------------------------------------------------------------------
Succs(f, b) == {f.s1[b], f.s2[b]} \ {None}
AllBlocks   == DOMAIN fn.s1
Linked      == ToSet(fn.link)

\* fillpreds(): a block is listed once, also when both edges come from it.
Preds(f) ==
  [b \in DOMAIN f.s1 |-> SelectSeq(f.link, LAMBDA p : b \in Succs(f, p))]

Init ==
  /\ pc = "rpo"
  /\ given \in Inputs
  /\ fn = given
  /\ id = [b \in AllBlocks |-> NoId]
  /\ rpo = << >>
  /\ pred = Preds(fn)
  /\ idom = [b \in AllBlocks |-> None]
  /\ dom = [b \in AllBlocks |-> << >>]
  /\ fron = [b \in AllBlocks |-> {}]
  /\ loop = [b \in AllBlocks |-> 0]
  /\ empty = {}

\* The pass that comes after one that ends.
After == [rpo |-> "preds", preds |-> "dom", dom |-> "fron", fron |-> "loop",
          loop |-> "rpo2", rpo2 |-> "jmp", jmp |-> "preds2", preds2 |-> "rpo3",
          rpo3 |-> "done"]

Pass(names) == pc \in names /\ pc' = After[pc]

-----------------------------------------------------------------------------
\* edgedel(): the phis and predecessors of the target lose bs with its last
\* edge.
EdgeDel(g, bs, side) ==
  LET bd == IF side = 1 THEN g.fn.s1[bs] ELSE g.fn.s2[bs]
      h  == IF side = 1 THEN [g EXCEPT !.fn.s1[bs] = None]
            ELSE [g EXCEPT !.fn.s2[bs] = None]
      cut(p) == [p EXCEPT !.arg = RemoveFirstMatch(@, LAMBDA a : a[1] = bs)]
  IN  IF bd = None \/ g.fn.s1[bs] = g.fn.s2[bs] THEN h
      ELSE [h EXCEPT !.fn.phi[bd] = [i \in DOMAIN @ |-> cut(@[i])],
                     !.pred[bd] = RemoveFirst(@, bs)]

\* rporec(): s has the ids given so far and the next one; a successor in an
\* inner loop is numbered after the other one, so that it comes first.
RECURSIVE RpoRec(_, _)
RpoRec(b, s) ==
  LET inner == Cardinality(Succs(fn, b)) = 2 /\ loop[fn.s1[b]] > loop[fn.s2[b]]
      t == RpoRec(IF inner THEN fn.s1[b] ELSE fn.s2[b],
                  RpoRec(IF inner THEN fn.s2[b] ELSE fn.s1[b],
                         [s EXCEPT !.id[b] = 1]))
  IN  IF b = None THEN s
      ELSE IF s.id[b] # NoId THEN s
      ELSE [id |-> [t.id EXCEPT ![b] = t.x], x |-> t.x - 1]

\* Numbers the blocks that can be reached and removes the others.
FillRpo ==
  /\ Pass({"rpo", "rpo2", "rpo3"})
  /\ LET s == RpoRec(Start, [id |-> [b \in AllBlocks |-> NoId], x |-> Len(fn.link) - 1])
         n == 1 + s.x
         kept == SelectSeq(fn.link, LAMBDA b : s.id[b] # NoId)
         gone == SelectSeq(fn.link, LAMBDA b : s.id[b] = NoId)
         g == FoldLeft(LAMBDA h, b : EdgeDel(EdgeDel(h, b, 1), b, 2),
                       [fn |-> fn, pred |-> pred], gone)
     IN  /\ id' = [b \in AllBlocks |-> IF s.id[b] = NoId THEN NoId ELSE s.id[b] - n]
         /\ rpo' = [i \in 1 .. Len(kept) |->
                     CHOOSE b \in ToSet(kept) : s.id[b] - n = i - 1]
         /\ fn' = [g.fn EXCEPT !.link = kept]
         /\ pred' = g.pred
  /\ UNCHANGED <<given, idom, dom, fron, loop, empty>>

FillPreds ==
  /\ Pass({"preds", "preds2"})
  /\ pred' = Preds(fn)
  /\ UNCHANGED <<given, fn, id, rpo, idom, dom, fron, loop, empty>>

-----------------------------------------------------------------------------
\* inter(), with im the dominators found so far.
RECURSIVE Inter(_, _, _)
Inter(im, b1, b2) ==
  IF b1 = None THEN b2
  ELSE IF b1 = b2 THEN b1
  ELSE IF id[b1] < id[b2] THEN Inter(im, b1, im[b2])
  ELSE Inter(im, im[b1], b2)

IdomOf(im, b) ==
  LET ps == SelectSeq(pred[b], LAMBDA p : im[p] # None \/ p = Start)
  IN  FoldLeft(LAMBDA d, p : Inter(im, d, p), None, ps)

\* A round of filldom(); the last one, which changes nothing, is followed by
\* the lists of the blocks that each one dominates, last one first.
DomRound ==
  /\ pc = "dom"
  /\ idom' = FoldLeft(LAMBDA im, b : [im EXCEPT ![b] = IdomOf(im, b)],
                      idom, Tail(rpo))
  /\ IF idom' = idom
     THEN /\ pc' = After[pc]
          /\ dom' = [d \in AllBlocks |->
                       Reverse(SelectSeq(fn.link, LAMBDA b : idom[b] = d))]
     ELSE UNCHANGED <<pc, dom>>
  /\ UNCHANGED <<given, fn, id, rpo, pred, fron, loop, empty>>

\* The first block numbered n or less on the way up from b.
RECURSIVE Up(_, _)
Up(b, n) == IF id[b] <= n THEN b ELSE Up(idom[b], n)

SDom(b1, b2) == b1 # b2 /\ Up(b2, id[b1]) = b1
Dom(b1, b2)  == b1 = b2 \/ SDom(b1, b2)

\* The blocks that get s in their frontier for an edge from a.
RECURSIVE Climb(_, _)
Climb(a, s) == IF SDom(a, s) THEN {} ELSE {a} \cup Climb(idom[a], s)

FillFron ==
  /\ Pass({"fron"})
  /\ fron' = [a \in AllBlocks |->
                {s \in Linked : \E b \in Linked : s \in Succs(fn, b) /\ a \in Climb(b, s)}]
  /\ UNCHANGED <<given, fn, id, rpo, pred, idom, dom, loop, empty>>

-----------------------------------------------------------------------------
\* loopmark() with multloop(): what is below hd, going backwards from b.
RECURSIVE LoopMark(_, _, _)
LoopMark(hd, b, s) ==
  IF id[b] < id[hd] \/ s.visit[b] = id[hd] THEN s
  ELSE FoldLeft(LAMBDA t, p : LoopMark(hd, p, t),
                [visit |-> [s.visit EXCEPT ![b] = id[hd]],
                 loop  |-> [s.loop EXCEPT ![b] = 10 * @]],
                pred[b])

FillLoop ==
  /\ Pass({"loop"})
  /\ LET backs(hd) == SelectSeq(pred[hd], LAMBDA p : id[p] >= id[hd])
         head(s, hd) == FoldLeft(LAMBDA t, p : LoopMark(hd, p, t), s, backs(hd))
     IN  loop' = FoldLeft(head, [visit |-> [b \in AllBlocks |-> NoId],
                                 loop  |-> [b \in AllBlocks |-> 1]], rpo).loop
  /\ UNCHANGED <<given, fn, id, rpo, pred, idom, dom, fron, empty>>

\* uffind(); the paths that it shortens lead to the same block.
RECURSIVE UfFind(_, _)
UfFind(b, uf) ==
  IF b = None THEN None ELSE IF uf[b] = None THEN b ELSE UfFind(uf[b], uf)

Follow(f, uf) == [f EXCEPT !.s1 = [b \in DOMAIN @ |-> UfFind(@[b], uf)],
                           !.s2 = [b \in DOMAIN @ |-> UfFind(@[b], uf)]]

\* simpljmp(): empty is any set of blocks that end with a jump or a return,
\* since lowering and allocation add and remove instructions.
SimplJmp ==
  /\ Pass({"jmp"})
  /\ empty' \in SUBSET {b \in Linked : fn.s2[b] = None /\ b \notin fn.hlt}
  /\ LET goes(b) == IF fn.s1[b] = None /\ b \notin fn.hlt THEN Ret ELSE fn.s1[b]
         step(uf, b) == LET s == UfFind(goes(b), uf)
                        IN  IF b \in empty' /\ s # b THEN [uf EXCEPT ![b] = s] ELSE uf
         blks == AllBlocks \cup {Ret}
         f == [fn EXCEPT !.link = Append(@, Ret),
                 !.s1 = [b \in blks |-> IF b \in Linked THEN goes(b) ELSE None],
                 !.s2 = [b \in blks |-> IF b \in Linked THEN @[b] ELSE None]]
         g == Follow(f, FoldLeft(step, [b \in blks |-> None], fn.link))
         add(fun, x) == [b \in blks |-> IF b = Ret THEN x ELSE fun[b]]
     IN  /\ fn' = [g EXCEPT !.s2 = [b \in blks |-> IF @[b] = g.s1[b] THEN None ELSE @[b]],
                            !.phi = [b \in blks |-> << >>]]
         /\ id' = add(id, Len(fn.link))
         /\ pred' = add(pred, << >>)
         /\ loop' = add(loop, 0)
  /\ UNCHANGED <<given, rpo, idom, dom, fron>>

GraphPass ==
  \/ FillRpo \/ FillPreds \/ DomRound \/ FillFron \/ FillLoop \/ SimplJmp

-----------------------------------------------------------------------------
(***************************************************************************)
(* What the passes should compute, defined on the paths of the graph.      *)
(***************************************************************************)
Edges(f, bs) == {<<b, s>> \in bs \X bs : s \in Succs(f, b)}

RECURSIVE Reach(_, _)
Reach(bs, es) ==
  LET more == bs \cup {e[2] : e \in {e \in es : e[1] \in bs}}
  IN  IF more = bs THEN bs ELSE Reach(more, es)

\* d is on every path from the start to b.
Dominates(f, bs, d, b) ==
  \/ d = b
  \/ d = Start
  \/ b \notin Reach({Start}, {e \in Edges(f, bs) : d \notin {e[1], e[2]}})

\* The blocks numbered from h on, and the edges among them.
Below(h)      == {b \in Linked : id[b] >= id[h]}
BelowEdges(h) == Edges(fn, Below(h))

\* The list, the order and the ids have the same blocks, those that can be
\* reached; an edge that goes up in the order closes a cycle below its target.
Numbered ==
  pc \notin {"rpo", "preds2", "rpo3"} =>
    /\ Linked = Reach({Start}, Edges(fn, AllBlocks))
    /\ Linked = {b \in AllBlocks : id[b] # NoId} /\ Linked = ToSet(rpo)
    /\ rpo[1] = Start /\ \A i \in DOMAIN rpo : id[rpo[i]] = i - 1
    /\ \A e \in Edges(fn, Linked) :
         id[e[2]] <= id[e[1]] => e[1] \in Reach({e[2]}, BelowEdges(e[2]))

\* idom and sdom() are dominance.
DomRight ==
  pc = "fron" =>
    LET doms == [b \in Linked |-> {d \in Linked : Dominates(fn, Linked, d, b)}]
    IN  \A b \in Linked :
          /\ {d \in Linked : Dom(d, b)} = doms[b]
          /\ b # Start => doms[b] = {b} \cup doms[idom[b]]
          /\ ToSet(dom[b]) = {c \in Linked : idom[c] = b}

\* The frontier of a block: where what it dominates ends.
FronRight ==
  pc = "loop" =>
    \A a, s \in Linked :
      s \in fron[a] <=>
        /\ \E b \in Linked : s \in Succs(fn, b) /\ Dominates(fn, Linked, a, b)
        /\ a = s \/ ~ Dominates(fn, Linked, a, s)

\* A block counts ten times for each head below which it is on a cycle with
\* the head.
LoopRight ==
  pc = "rpo2" =>
    \A b \in Linked :
      LET heads == {h \in Linked :
            /\ b \in Reach(Succs(fn, h) \cap Below(h), BelowEdges(h))
            /\ h \in Reach(Succs(fn, b) \cap Below(h), BelowEdges(h))}
      IN  loop[b] = 10 ^ Cardinality(heads)

\* The graph is numbered, and dominators, frontiers and loops are what paths
\* say, whatever the graph: irreducible, with double edges or dead blocks.
\* The code computes them by rounds, climbs and marks that rely on the ids.
GraphRight == Numbered /\ DomRight /\ FronRight /\ LoopRight

\* Where a jump to b ends, if empty blocks do not count.
RECURSIVE Landing(_, _, _)
Landing(f, b, seen) ==
  IF b \in seen THEN "spin"
  ELSE IF b = Ret \/ (b \in empty /\ f.s1[b] = None) THEN "ret"
  ELSE IF b \in empty /\ f.s2[b] = None THEN Landing(f, f.s1[b], seen \cup {b})
  ELSE "block " \o ToString(b)

\* simpljmp() keeps where every jump leads, past the blocks that are empty,
\* and leaves no edge to an empty block but on a cycle of empty blocks.
Threaded ==
  pc = "preds2" =>
    LET lands(f, b) == {Landing(f, s, {}) : s \in Succs(f, b)}
    IN  \A b \in Linked \ {Ret} :
          /\ lands(fn, b) = IF given.s1[b] = None /\ b \notin fn.hlt THEN {"ret"}
                            ELSE lands(given, b)
          /\ \A s \in Succs(fn, b) \cap empty : Landing(fn, s, {}) = "spin"

=============================================================================
