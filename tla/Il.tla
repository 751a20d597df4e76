---------------------------------- MODULE Il ----------------------------------
(***************************************************************************)
(* The intermediate language that the optimisation passes of func() take   *)
(* and give, and what a program in it does.                                *)
(*                                                                         *)
(* A function has its blocks numbered in reverse postorder from 0, their   *)
(* successors, phis [to, cls, arg] with a sequence of <<block, operand>>,  *)
(* instructions [op, cls, to, arg, tag] with two operands, and jumps       *)
(* [type, arg].  Sizes and shifts count bytes, never bits.                 *)
(*                                                                         *)
(* Executing a function is no code of the program: it says what the passes *)
(* must preserve.  Every byte that the environment gives has a label; all  *)
(* that the instructions which the passes know can do to bytes is to move, *)
(* clear, extend or mix them.                                              *)
(***************************************************************************)
EXTENDS Integers, Sequences, FiniteSets, SequencesExt

None == -1        \* no block

R       == <<"none", 0, 0>>
UNDEF   == <<"undef", 0, 0>>
Tm(t)   == <<"tmp", t, 0>>
Num(n)  == <<"con", n, 0>>
Bits(s) == <<"bits", s, 0>>       \* the constant with ones in the bytes s
Sym(s, o) == <<"sym", s, o>>
IsTmp(r)  == r[1] = "tmp"
Id(r)     == r[2]

Blocks(f)   == DOMAIN f.s1
Succs(f, b) == {f.s1[b], f.s2[b]} \ {None}
Preds(f, b) == SelectSeq([n \in 1 .. Cardinality(Blocks(f)) |-> n - 1],
                         LAMBDA p : b \in Succs(f, p))
InOrder(f)  == [n \in 1 .. Cardinality(Blocks(f)) |-> n - 1]

\* What dom() answers from the tree of filldom(), see Cfg.
Dom(f, a, b) ==
  LET grow(s) == s \cup ((UNION {Succs(f, x) : x \in s}) \ {a})
  IN  b \notin FoldLeft(LAMBDA s, n : grow(s), {0} \ {a}, InOrder(f))

\* What loopmark() visits from the back edges to h.
LoopBody(f, h) ==
  LET inside(s) == s \cup {p \in Blocks(f) : p >= h /\ Succs(f, p) \cap s # {}}
  IN  FoldLeft(LAMBDA s, n : inside(s),
               {p \in Blocks(f) : p >= h /\ h \in Succs(f, p)}, InOrder(f))

Wide(cls)    == cls \in {"l", "d"}
IntBase(cls) == cls \in {"w", "l"}
Wd(cls)      == IF Wide(cls) THEN 8 ELSE 4

LoadBytes  == [loadsb |-> 1, loadub |-> 1, loadsh |-> 2, loaduh |-> 2,
               loadsw |-> 4, loaduw |-> 4]
StoreBytes == [storeb |-> 1, storeh |-> 2, storew |-> 4, stores |-> 4,
               storel |-> 8, stored |-> 8]
ExtBytes   == [extsb |-> 1, extub |-> 1, extsh |-> 2, extuh |-> 2,
               extsw |-> 4, extuw |-> 4]
Ext        == [loadsb |-> "extsb", loadub |-> "extub", loadsh |-> "extsh",
               loaduh |-> "extuh", loadsw |-> "extsw", loaduw |-> "extuw"]
Signed     == {"loadsb", "loadsh", "loadsw", "extsb", "extsh", "extsw"}

IsLoad(op)  == op = "load" \/ op \in DOMAIN LoadBytes
IsStore(op) == op \in DOMAIN StoreBytes
IsExt(op)   == op \in DOMAIN ExtBytes

LoadSz(i)  == IF i.op = "load" THEN Wd(i.cls) ELSE LoadBytes[i.op]
StoreSz(i) == StoreBytes[i.op]

NoTag == <<0, 0>>
Ins(op, cls, to, a0, a1) ==
  [op |-> op, cls |-> cls, to |-> to, arg |-> <<a0, a1>>, tag |-> NoTag]
Nop == Ins("nop", "w", R, R, R)

\* e, which TLC then computes once and not at every use.
Once(e) == CHOOSE v \in {e} : v = v

\* The temporaries that a function defines, the blocks that do, and classes.
Defs(f, b) == {Id(f.phi[b][n].to) : n \in DOMAIN f.phi[b]} \cup
              {Id(f.ins[b][n].to) : n \in {n \in DOMAIN f.ins[b] : IsTmp(f.ins[b][n].to)}}
Temps(f)     == UNION {Defs(f, b) : b \in Blocks(f)}
TopTemp(f)   == Max(Temps(f) \cup {0})
BlockOf(f, t) == CHOOSE b \in Blocks(f) : t \in Defs(f, b)
DefIns(f, t) == {e \in UNION {{b} \X DOMAIN f.ins[b] : b \in Blocks(f)} :
                   f.ins[e[1]][e[2]].to = Tm(t)}
ClassOf(f) ==
  LET phis == UNION {ToSet(f.phi[b]) : b \in Blocks(f)}
      ins  == UNION {ToSet(f.ins[b]) : b \in Blocks(f)}
  IN  [t \in Temps(f) |-> (CHOOSE x \in {p \in phis : p.to = Tm(t)} \cup
                                        {i \in ins : i.to = Tm(t)} : TRUE).cls]

-----------------------------------------------------------------------------
(***************************************************************************)
(* Values: eight bytes <<kind, ...>>, a label saying which byte of what     *)
(* instruction, memory or address it is and in which step it was made.     *)
(***************************************************************************)
Bytes == 0 .. 7
Abs(n) == IF n < 0 THEN - n ELSE n
UndefByte   == <<"unset", 0, 0, 0, 0>>
ZeroByte    == <<"zero", 0, 0, 0, 0>>
MixedByte   == <<"mixed", 0, 0, 0, 0>>
Cst(n)  == <<"con", n, 0, 0, 0>>

Undefined  == [n \in Bytes |-> UndefByte]
Number(k)  == [n \in Bytes |-> IF n = 0 /\ k # 0 THEN Cst(k) ELSE ZeroByte]
Addr(b, o) == [n \in Bytes |-> <<"addr", b, o, n, 0>>]
Given(tag, now) == [n \in Bytes |-> <<"given", tag[1], tag[2], n, now>>]

IsAddr(v) == v[0][1] = "addr" /\ v = Addr(v[0][2], v[0][3])
Base(v)   == IF IsAddr(v) THEN v[0][2] ELSE 0
Off(v)    == v[0][3]

\* A value of class cls: the upper half of a word is anything.
Cut(cls, v) == IF Wide(cls) THEN v ELSE [n \in Bytes |-> IF n < 4 THEN v[n] ELSE UndefByte]

SignOf(k) == IF k[1] = "given" THEN [k EXCEPT ![1] = "sign"] ELSE k
Extend(v, sz, signed) ==
  [n \in Bytes |-> IF n < sz THEN v[n] ELSE IF signed THEN SignOf(v[sz - 1]) ELSE ZeroByte]

Shift(v, k) == [n \in Bytes |-> IF n - k \in Bytes THEN v[n - k] ELSE ZeroByte]

OrByte(a, b) == IF a = ZeroByte THEN b ELSE IF b = ZeroByte THEN a
                ELSE IF UndefByte \in {a, b} THEN UndefByte ELSE MixedByte

-----------------------------------------------------------------------------
(***************************************************************************)
(* Executions.  x has the values of the temporaries, the bytes of memory   *)
(* at <<base, offset>>, the objects whose address was let out, what was    *)
(* seen in this step by what the passes know nothing of, and the step,     *)
(* modulo Steps.                                                           *)
(***************************************************************************)
Steps == 3

Val(x, r) == CASE r[1] = "tmp"   -> x.env[r[2]]
               [] r[1] = "sym"   -> Addr(r[2], r[3])
               [] r[1] = "con"   -> Number(r[2])
               [] OTHER          -> Undefined

\* Bytes outside of every object are undefined to read and to write.
Peek(x, v, sz) ==
  [n \in Bytes |-> IF n < sz /\ IsAddr(v) /\ <<Base(v), Off(v) + n>> \in DOMAIN x.mem
                   THEN x.mem[<<Base(v), Off(v) + n>>] ELSE UndefByte]
Poke(x, v, sz, by) ==
  LET at(c) == c[1] = Base(v) /\ c[2] - Off(v) \in 0 .. sz - 1
  IN  [x EXCEPT !.mem = [c \in DOMAIN x.mem |-> IF at(c) THEN by[c[2] - Off(v)] ELSE x.mem[c]],
                !.ub = @ \/ ~ IsAddr(v) \/ <<Base(v), Off(v)>> \notin DOMAIN x.mem
                         \/ <<Base(v), Off(v) + sz - 1>> \notin DOMAIN x.mem]

\* An aggregate is seen byte by byte, wherever it is.
Whole(x, v) == LET cs == {c \in DOMAIN x.mem : c[1] = Base(v)}
               IN  [o \in {c[2] - Off(v) : c \in cs} |-> x.mem[<<Base(v), o + Off(v)>>]]

\* All that the callees can reach.
Reached(x)   == [c \in {c \in DOMAIN x.mem : c[1] \in x.out} |-> x.mem[c]]
LetOut(x, s) == [x EXCEPT !.out = @ \cup (s \ {0})]

Sees(x, tag, what) == [x EXCEPT !.obs = Append(@, <<tag, what>>)]
Sets(x, i, v)      == [x EXCEPT !.env[Id(i.to)] = Cut(i.cls, v)]

\* The blit of sz bytes from s to d, at once: its operands do not overlap.
Blit(x, s, d, sz) ==
  Poke(x, d, sz, [n \in 0 .. sz - 1 |->
         LET c == <<Base(s), Off(s) + n>>
         IN  IF IsAddr(s) /\ c \in DOMAIN x.mem THEN x.mem[c] ELSE UndefByte])

\* The callee sees and changes what it can reach.
Call(x, i, a, b) ==
  LET y == LetOut(x, {Base(a), Base(b)})
      z == [Sees(y, i.tag, <<a, b, Reached(y)>>) EXCEPT
              !.mem = [c \in DOMAIN @ |->
                 IF c[1] \in y.out THEN <<"cell", c[1], c[2], i.tag[2], x.now>> ELSE @[c]]]
  IN  IF IsTmp(i.to) THEN Sets(z, i, Given(i.tag, x.now)) ELSE z

\* Arithmetic that only occurs with the operand that makes it a copy.
Neutral == {"mul", "div", "udiv", "sub", "xor", "sar"}

Exec(par, x, i) ==
  LET a == Val(x, i.arg[1])
      b == Val(x, i.arg[2])
      k == IF i.arg[2][1] = "con" THEN Id(i.arg[2]) ELSE 0
  IN  CASE i.op = "nop" -> x
        [] i.op = "alloc" -> Sets(x, i, Addr(Id(i.to), 0))
        [] i.op \in {"copy", "cast"} \cup Neutral -> Sets(x, i, a)
        [] i.op = "add" -> Sets(x, i, IF IsAddr(a) THEN Addr(Base(a), Off(a) + k) ELSE a)
        [] i.op = "shl" -> Sets(x, i, Shift(a, k))
        [] i.op = "shr" -> Sets(x, i, Shift(Extend(a, Wd(i.cls), FALSE), - k))
        [] i.op = "and" -> Sets(x, i, [n \in Bytes |-> IF n \in Id(i.arg[2]) THEN a[n] ELSE ZeroByte])
        [] i.op = "or" -> Sets(x, i, [n \in Bytes |-> OrByte(a[n], b[n])])
        [] IsExt(i.op) -> Sets(x, i, Extend(a, ExtBytes[i.op], i.op \in Signed))
        [] IsLoad(i.op) -> Sets(x, i, Extend(Peek(x, a, 8), LoadSz(i), i.op \in Signed))
        [] IsStore(i.op) -> LetOut(Poke(x, b, StoreSz(i), a), {Base(a)})
        [] i.op = "blit0" -> [x EXCEPT !.from = <<a, b>>]
        [] i.op = "blit1" -> Blit(x, x.from[1], x.from[2], Abs(Id(i.arg[1])))
        [] i.op = "par" -> Sets(x, i, par)
        [] i.op = "argc" -> Sees(x, i.tag, <<Undefined, Undefined, Whole(x, b)>>)
        [] i.op = "op" -> Sets(Sees(x, i.tag, <<a, b, << >> >>), i, Given(i.tag, x.now))
        [] i.op = "call" -> Call(x, i, a, b)

\* The phis of b on the edge from p, all at once, and the instructions.
Phis(x, f, p, b) ==
  [x EXCEPT !.env = [t \in DOMAIN @ |->
     IF \E n \in DOMAIN f.phi[b] : f.phi[b][n].to = Tm(t)
     THEN LET q == CHOOSE q \in ToSet(f.phi[b]) : q.to = Tm(t)
              v == Val(x, (CHOOSE a \in ToSet(q.arg) : a[1] = p)[2])
          IN  Cut(q.cls, v)
     ELSE @[t]]]

RunBlock(par, x, f, p, b) ==
  LET y == FoldLeft(LAMBDA z, i : Exec(par, z, i),
                    IF p = None THEN x ELSE Phis(x, f, p, b), f.ins[b])
      a == Val(y, f.jmp[b].arg)
      z == Sees(y, <<b, 0>>, IF f.jmp[b].type = "retc" THEN <<Undefined, Undefined, Whole(y, a)>>
                             ELSE <<a, Undefined, << >> >>)
  IN  [z EXCEPT !.now = (@ + 1) % Steps]

\* The slots of a function, with their sizes.
Allocs(f) == {i \in UNION {ToSet(f.ins[b]) : b \in Blocks(f)} : i.op = "alloc"}
Cell(f)   == UNION {{Id(i.to)} \X (0 .. Id(i.arg[1]) - 1) : i \in Allocs(f)}

\* Globals are as the program left them, slots are undefined.
Start(f, top, globals) ==
  [env |-> [t \in 1 .. top |-> Undefined],
   mem |-> [c \in Cell(f) \cup globals |->
              IF c \in globals THEN <<"cell", c[1], c[2], -1, 0>> ELSE UndefByte],
   out |-> {c[1] : c \in globals}, from |-> << >>, obs |-> << >>, ub |-> FALSE, now |-> 0]

\* What was seen in one execution is what was seen in another.  A value that
\* was loaded from undefined bytes is anything, the upper half of a word too.
SameByte(k, k2)   == k = UndefByte \/ k = k2
SameValue(v, v2)  == (\E n \in 0 .. 3 : v[n] = UndefByte) \/ \A n \in Bytes : SameByte(v[n], v2[n])
SameMemory(m, m2) == \A c \in DOMAIN m : SameByte(m[c], IF c \in DOMAIN m2 THEN m2[c] ELSE UndefByte)
SameTags(o, o2)   == [n \in DOMAIN o |-> o[n][1]] = [n \in DOMAIN o2 |-> o2[n][1]]
===============================================================================
