------------------------------- MODULE Rv64Abi -------------------------------
(***************************************************************************)
(* The calling convention of rv64, rv64/abi.c: lp64d, with floats in       *)
(* integer registers when those of floats are used up or after the dots,   *)
(* and aggregates that may be half in the last register.                   *)
(***************************************************************************)
EXTENDS Typ

NInt == 8
NFlt == 8
T5 == <<"t5", 0>>

(***************************************************************************)
(* fpstruct(): one or two members, of which one is a float, go each to a   *)
(* register.  p.off is not moved on past a member that is a type.          *)
(***************************************************************************)
RECURSIVE FpStruct(_, _, _)
FpField(types, p, f) ==
  IF p.fail THEN p
  ELSE IF f.type = "pad" THEN [p EXCEPT !.off = @ + f.len]
  ELSE IF IsTyp(f.type) THEN [FpStruct(types, p, f.type[2]) EXCEPT !.off = p.off]
  ELSE IF Len(p.parts) = 2 THEN [p EXCEPT !.fail = TRUE]
  ELSE LET cls == IF f.type \in {"b", "h"} THEN "w" ELSE f.type
       IN  [p EXCEPT !.parts = Append(@, [cls |-> cls, off |-> p.off, size |-> Bytes(cls)]),
                     !.off = @ + f.len]
FpStruct(types, p, t) ==
  IF types[t].isunion THEN [p EXCEPT !.fail = TRUE]
  ELSE FoldLeft(LAMBDA q, f : FpField(types, q, f), p, types[t].fields[1])

CountFloats(parts) == Cardinality({n \in DOMAIN parts : IsFloat(parts[n].cls)})

\* typclass(): the parts of a type, or a pointer.
Eightbyte(n) == [cls |-> "l", off |-> 8 * (n - 1), size |-> 8]
ByWords(ty) == [n \in 1 .. RoundUp(ty.size, 8) \div 8 |-> Eightbyte(n)]
ClassOf(ty, fp) ==
  IF ty.isdark \/ ty.size > 16 \/ ty.size = 0 THEN [ptr |-> TRUE, parts |-> <<Eightbyte(1)>>]
  ELSE [ptr |-> FALSE, parts |-> IF ~ fp.fail /\ CountFloats(fp.parts) > 0 THEN fp.parts ELSE ByWords(ty)]
TypClass(types, t) ==
  ClassOf(types[t], FpStruct(types, [off |-> 0, fail |-> FALSE, parts |-> << >>], t))

SplitOf(c) == IF c.ptr THEN << >> ELSE c.parts
Split(types, t) == SplitOf(TypClass(types, t))

\* The registers of the parts when gp and fp registers are used.
InRegs(parts, gp, fp) ==
  LET before(n, flt) == Cardinality({m \in 1 .. n - 1 : IsFloat(parts[m].cls) = flt})
      reg(n) == IF IsFloat(parts[n].cls) THEN <<"flt", fp + before(n, TRUE)>>
                ELSE <<"int", gp + before(n, FALSE)>>
  IN  [n \in DOMAIN parts |-> Part(reg(n), parts[n].off, parts[n].size)]

-----------------------------------------------------------------------------
(***************************************************************************)
(* argsclass(): p.gp and p.fp registers are used.  Each argument has its   *)
(* registers, and whether 8 bytes of it, or 8 more, are on the stack.      *)
(***************************************************************************)
Put(p, regs, stk1, stk2) ==
  [p EXCEPT !.ca = Append(@, [regs |-> regs, stk1 |-> stk1, stk2 |-> stk2])]
InReg(p, at, n) == Put(p, <<Part(at, 0, n)>>, FALSE, FALSE)

Scalar(p, cls, va) ==
  IF ~ va /\ IsFloat(cls) /\ p.fp < NFlt
    THEN [InReg(p, <<"flt", p.fp>>, Bytes(cls)) EXCEPT !.fp = @ + 1]
  ELSE IF p.gp < NInt THEN [InReg(p, <<"int", p.gp>>, Bytes(cls)) EXCEPT !.gp = @ + 1]
  ELSE Put(p, << >>, TRUE, FALSE)

\* An aggregate with floats goes by words when one more register of a class is
\* not left; one of two words may be half on the stack.
Tight(p, parts) ==
  LET nf == CountFloats(parts) IN nf > 0 /\ (nf >= NFlt - p.fp \/ Len(parts) - nf >= NInt - p.gp)
Aggregate(p, parts) ==
  LET nf == CountFloats(parts)
      ng == Len(parts) - nf
  IN  IF ng <= NInt - p.gp
        THEN [Put(p, InRegs(parts, p.gp, p.fp), FALSE, FALSE) EXCEPT !.gp = @ + ng, !.fp = @ + nf]
      ELSE IF p.gp < NInt
        THEN [Put(p, InRegs(<<parts[1]>>, p.gp, p.fp), FALSE, TRUE) EXCEPT !.gp = @ + 1]
      ELSE Put(p, << >>, TRUE, Len(parts) > 1)
Agg(p, ty, parts) == Aggregate(p, IF Tight(p, parts) THEN ByWords(ty) ELSE parts)

ClassArg(types, p, i, va) ==
  CASE i[1] = "arge" -> InReg(p, T5, 8)
    [] IsAgg(i) -> Agg(p, types[i[2]], TypClass(types, i[2]).parts)
    [] OTHER -> Scalar(p, i[2], va)

ByPointer(types, ret) == IsAgg(ret) /\ TypClass(types, ret[2]).ptr
Hidden(types, ret) == IF ByPointer(types, ret) THEN {<<"int", 0>>} ELSE {}

\* The word has, from its low bits, the registers returned (2 bits each) and
\* passed (4 bits each), and whether T5 has the environment.
Describe(p, env) ==
  [ca |-> p.ca, word |-> (IF env THEN 2 ^ 12 ELSE 0) + p.gp * 2 ^ 4 + p.fp * 2 ^ 8]
ArgsClass(types, args, named, ret) ==
  Describe(FoldLeft(LAMBDA q, n : ClassArg(types, q, args[n], n > named),
                    [gp |-> Cardinality(Hidden(types, ret)), fp |-> 0, ca |-> << >>],
                    [n \in DOMAIN args |-> n]),
           HasEnv(args))

ArgRegs(word) ==
  Ints((word \div 2 ^ 4) % 16) \cup Floats((word \div 2 ^ 8) % 16)
    \cup (IF (word \div 2 ^ 12) % 2 = 1 THEN {T5} ELSE {})
RetRegs(word) == Ints(word % 4) \cup Floats((word \div 4) % 4)

RetPlaces(types, ret) ==
  CASE ret[1] = "none" -> << >>
    [] ret[1] = "arg" -> InRegs(<<[cls |-> ret[2], off |-> 0, size |-> Bytes(ret[2])]>>, 0, 0)
    [] OTHER -> InRegs(Split(types, ret[2]), 0, 0)
RetWord(parts) ==
  LET nf == Cardinality({n \in DOMAIN parts : parts[n].at[1] = "flt"})
  IN  Len(parts) - nf + 4 * nf

-----------------------------------------------------------------------------
\* "alignments larger than 16 are not supported"
TooAligned(types, args, ret) ==
  \E i \in ToSet(args) \cup {ret} : IsAgg(i) /\ types[i[2]].align > 4

\* What selcall() sets aside on the stack, and what it puts there: off bytes
\* are taken by the arguments before.
Words(c) == (IF c.stk1 THEN 1 ELSE 0) + IF c.stk2 THEN 1 ELSE 0
Room(ca) == FoldLeft(LAMBDA n, c : n + 8 * Words(c), 0, ca)

\* Mutant: the second half has no place of its own.
PassHalf(p, c) ==
  LET off2 == IF c.stk1 THEN p.off + 8 ELSE p.off
  IN  [off |-> off2,
       all |-> Append(p.all, c.regs \o (IF c.stk1 THEN <<Part(<<"stk", p.off>>, 0, 8)>> ELSE << >>)
                                    \o (IF c.stk2 THEN <<Part(<<"stk", off2>>, 8, 8)>> ELSE << >>))]

Pass(p, c) ==
  LET off2 == IF c.stk1 THEN p.off + 8 ELSE p.off
  IN  [off |-> p.off + 8 * Words(c),
       all |-> Append(p.all, c.regs \o (IF c.stk1 THEN <<Part(<<"stk", p.off>>, 0, 8)>> ELSE << >>)
                                    \o (IF c.stk2 THEN <<Part(<<"stk", off2>>, 8, 8)>> ELSE << >>))]
Passed(ca) == FoldLeft(Pass, [off |-> 0, all |-> << >>], ca).all

Call(at, room, hidden, back, word, err) ==
  [at |-> at, stk |-> room + (room % 16), hidden |-> hidden,
   back |-> back, dummy |-> hidden, vec |-> None,
   word |-> word, pass |-> ArgRegs(word), returns |-> RetRegs(word),
   sets |-> AllRegs(at) \cup hidden, err |-> err]
CallWith(c, hidden, back, err) ==
  Call(Passed(c.ca), Room(c.ca), hidden, back, c.word + IF hidden # {} THEN 1 ELSE RetWord(back), err)
SelCall(types, s) ==
  CallWith(ArgsClass(types, s.args, s.named, s.ret), Hidden(types, s.ret),
           IF s.ret[1] = "none" THEN <<Part(<<"int", 0>>, 0, 4)>> ELSE RetPlaces(types, s.ret),
           TooAligned(types, s.args, s.ret))

\* selpar(): slot -s is 8 * s bytes from the frame pointer, above the saved one,
\* the return address and, when variadic, the registers that are saved.
FirstSlot(vararg) == 2 + IF vararg THEN 8 ELSE 0
Slot(s, vararg) == <<"stk", 8 * s - 16 - IF vararg THEN 64 ELSE 0>>
Receive(p, c, vararg) ==
  IF c.regs = << >>
    THEN LET k == IF c.stk2 THEN 2 ELSE 1
         IN  [s |-> p.s + k,
              all |-> Append(p.all, [n \in 1 .. k |-> Part(Slot(p.s + n - 1, vararg), 8 * (n - 1), 8)])]
  ELSE IF c.stk2
    THEN [s |-> p.s + 1, all |-> Append(p.all, Append(c.regs, Part(Slot(p.s, vararg), 8, 8)))]
  ELSE [p EXCEPT !.all = Append(@, c.regs)]
Received(ca, vararg) ==
  FoldLeft(LAMBDA p, c : Receive(p, c, vararg), [s |-> FirstSlot(vararg), all |-> << >>], ca)

Function(p, word, hidden, ret, err) ==
  [at |-> p.all, hidden |-> hidden, word |-> word, off |-> p.s,
   reg |-> ArgRegs(word), ret |-> ret, returns |-> RetRegs(RetWord(ret)), err |-> err]
FunctionWith(c, vararg, hidden, ret, err) ==
  Function(Received(c.ca, vararg), c.word, hidden, ret, err)
SelPar(types, s) ==
  FunctionWith(ArgsClass(types, Pars(s), s.named, s.ret), Variadic(s), Hidden(types, s.ret),
               RetPlaces(types, s.ret), TooAligned(types, Pars(s), s.ret))

\* selvastart() and selvaarg(): the saved registers lie below the stack.
VaStart(c, s) == IF c.off > FirstSlot(Variadic(s)) THEN c.off ELSE 2 + ((c.word \div 2 ^ 4) % 16)
VaPlace(v, cls) == IF v < 10 THEN <<"int", v - 2>> ELSE <<"stk", 8 * (v - 10)>>
VaNext(v, cls) == v + 1
===============================================================================
