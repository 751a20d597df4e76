--------------------------------- MODULE Alias ---------------------------------
(***************************************************************************)
(* What every address may point to: alias.c.  The record of a temporary    *)
(* has its type, the temporary (or the symbol) it is an offset from, and   *)
(* for the addresses of slots the temporary of the slot, whose own record  *)
(* says whether the slot's address is let out, and which of its bytes are  *)
(* stored to.                                                              *)
(***************************************************************************)
EXTENDS Il

CONSTANT NBit     (* the bytes of the largest slot that coalesce() handles *)

ASSUME NBitAssumption == NBit \in Nat

Stack == {"Loc", "Esc"}                              \* astack()
Rec(type, base, off, slot) ==
  [type |-> type, base |-> base, off |-> off, slot |-> slot, sz |-> -1, m |-> {}]
Bot == Rec("Bot", 0, 0, 0)

GetAlias(al, r) ==
  CASE IsTmp(r) -> IF al[Id(r)].type \in Stack
                   THEN [al[Id(r)] EXCEPT !.type = al[al[Id(r)].slot].type]
                   ELSE al[Id(r)]
    [] r[1] = "sym" -> Rec("Sym", r[2], r[3], 0)
    [] r[1] = "con" -> Rec("Con", 0, r[2], 0)
    [] OTHER -> Rec("Con", 0, 0, 0)

\* alias(): the answer, and the distance of the two addresses.
AliasOf(al, p, op, sp, q, sq) ==
  LET ap == [GetAlias(al, p) EXCEPT !.off = @ + op]
      aq == GetAlias(al, q)
      overlap == ap.off < aq.off + sq /\ aq.off < ap.off + sp
      must == IF overlap THEN "Must" ELSE "No"
      how == CASE ap.type \in Stack /\ aq.type \in Stack ->
                    IF ap.base = aq.base THEN must ELSE "No"
               [] ap.type = "Sym" /\ aq.type = "Sym" ->
                    IF ap.base = aq.base THEN must ELSE "May"
               [] ap.type = aq.type /\ (ap.type = "Con" \/ ap.base = aq.base) -> must
               [] OTHER ->
                    IF \/ ap.type = "Unk" /\ aq.type # "Loc"
                       \/ aq.type = "Unk" /\ ap.type # "Loc"
                    THEN "May" ELSE "No"
  IN  [how |-> how, delta |-> ap.off - aq.off]

Escapes(al, r) ==
  \/ ~ IsTmp(r)
  \/ al[Id(r)].type \notin Stack
  \/ al[al[Id(r)].slot].type = "Esc"

Esc(al, r) ==
  IF IsTmp(r) /\ al[Id(r)].type \in Stack
  THEN [al EXCEPT ![al[Id(r)].slot].type = "Esc"] ELSE al

\* store(): sz bytes at r are written.
Stored(al, r, sz) ==
  IF ~ IsTmp(r) \/ al[Id(r)].slot = 0 THEN al
  ELSE LET off == al[Id(r)].off
           m   == IF sz >= NBit \/ off < 0 \/ off >= NBit THEN 0 .. NBit - 1
                  ELSE (off .. off + sz - 1) \cap (0 .. NBit - 1)
       IN  [al EXCEPT ![al[Id(r)].slot].m = @ \cup m]

\* What an instruction makes of its result.
Result(al, i) ==
  LET t  == Id(i.to)
      a0 == GetAlias(al, i.arg[1])
      a1 == GetAlias(al, i.arg[2])
      sz == IF i.arg[1][1] = "con" /\ i.arg[1][2] \in 0 .. NBit THEN i.arg[1][2] ELSE -1
  IN  CASE i.op = "alloc" -> [Rec("Loc", t, 0, t) EXCEPT !.sz = sz]
        [] i.op = "copy"  -> a0
        [] i.op = "add" /\ a0.type = "Con" -> [a1 EXCEPT !.off = @ + a0.off]
        [] i.op = "add" /\ a0.type # "Con" /\ a1.type = "Con" ->
             [a0 EXCEPT !.off = @ + a1.off]
        [] OTHER -> Rec("Unk", t, 0, 0)

\* Mutant: a stored address does not get out.
AliasInsNoValue(al, i, sz) ==
  LET x == IF IsTmp(i.to) THEN [al EXCEPT ![Id(i.to)] = Result(al, i)] ELSE al
      lets == ~ IsTmp(i.to) \/ x[Id(i.to)].type = "Unk"
  IN  CASE i.op = "blit0" -> Stored(x, i.arg[2], sz)
        [] IsStore(i.op)  -> Stored(x, i.arg[2], StoreSz(i))
        [] lets /\ i.op \notin {"blit0", "argc"} /\ ~ IsLoad(i.op) /\ ~ IsStore(i.op) ->
             Esc(Esc(x, i.arg[1]), i.arg[2])
        [] OTHER -> x

\* One instruction of fillalias(); a blit is one with the size of its second
\* half, which is passed as sz.
AliasIns(al, i, sz) ==
  LET x == IF IsTmp(i.to) THEN [al EXCEPT ![Id(i.to)] = Result(al, i)] ELSE al
      lets == (~ IsTmp(i.to) \/ x[Id(i.to)].type = "Unk") /\ i.op # "blit0"
      y == IF lets /\ ~ IsLoad(i.op) THEN Esc(x, i.arg[1]) ELSE x
      z == IF lets /\ ~ IsStore(i.op) /\ i.op # "argc" THEN Esc(y, i.arg[2]) ELSE y
  IN  CASE i.op = "blit0" -> Stored(z, i.arg[2], sz)
        [] IsStore(i.op)  -> Stored(z, i.arg[2], StoreSz(i))
        [] OTHER          -> z

\* Mutant: what phis read does not get out.
AliasPhisKeep(al, f, b) ==
  FoldLeft(LAMBDA x, p : [x EXCEPT ![Id(p.to)] = Rec("Unk", Id(p.to), 0, 0)], al, f.phi[b])

\* The phis of a block, and what they read.  An operand that is defined
\* further on has no record yet, and does not escape.
AliasPhis(al, f, b) ==
  FoldLeft(LAMBDA x, p : [FoldLeft(LAMBDA y, a : Esc(y, a[2]), x, p.arg)
                            EXCEPT ![Id(p.to)] = Rec("Unk", Id(p.to), 0, 0)],
           al, f.phi[b])

FillAlias(f) ==
  LET block(al, b) ==
        LET is == f.ins[b]
            size(n) == IF is[n].op = "blit0" THEN Abs(Id(is[n + 1].arg[1])) ELSE 0
            x == FoldLeft(LAMBDA y, n : AliasIns(y, is[n], size(n)),
                          AliasPhis(al, f, b), [n \in DOMAIN is |-> n])
        IN  IF f.jmp[b].type = "retc" THEN x ELSE Esc(x, f.jmp[b].arg)
  IN  FoldLeft(block, [t \in Temps(f) |-> Bot], InOrder(f))
===============================================================================
