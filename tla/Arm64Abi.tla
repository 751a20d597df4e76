------------------------------- MODULE Arm64Abi -------------------------------
(***************************************************************************)
(* The calling conventions of arm64 and of arm64_apple, arm64/abi.c.  On   *)
(* Apple an argument takes no more of the stack than it has bytes, those   *)
(* after the dots are all on the stack, and arguments smaller than a word, *)
(* <<"argb", "b">> and <<"argb", "h">>, stay what they are.                *)
(***************************************************************************)
EXTENDS Typ

CONSTANT apple       \* T.apple

NInt == 8
NFlt == 8
X8 == <<"x8", 0>>
X9 == <<"x9", 0>>

(***************************************************************************)
(* isfloatv(): the class that all members have, "x" if there are none and  *)
(* "no" if they differ, are not floats or have padding between them.       *)
(***************************************************************************)
RECURSIVE IsFloatV(_, _, _)
\* Mutant: the members of a member may be of another class than the others.
FloatFieldApart(types, cls, f) ==
  IF cls = "no" \/ f.type = "pad" THEN "no"
  ELSE IF IsTyp(f.type) THEN IsFloatV(types, "x", f.type[2])
  ELSE IF IsFloat(f.type) /\ cls \in {"x", f.type} THEN f.type ELSE "no"
FloatField(types, cls, f) ==
  IF cls = "no" \/ f.type = "pad" THEN "no"
  ELSE IF IsTyp(f.type) THEN IsFloatV(types, cls, f.type[2])
  ELSE IF IsFloat(f.type) /\ cls \in {"x", f.type} THEN f.type ELSE "no"
IsFloatV(types, cls, t) ==
  FoldLeft(LAMBDA c, fld : FoldLeft(LAMBDA k, f : FloatField(types, k, f), c, fld),
           cls, types[t].fields)

\* typclass(): the registers that a type takes, by class, or a pointer.
ClassOf(ty, base) ==
  [ptr |-> FALSE, size |-> RoundUp(ty.size, 8), align |-> 8,
   cls |-> IF base = "no" THEN [n \in 1 .. RoundUp(ty.size, 8) \div 8 |-> "l"]
           ELSE [n \in 1 .. ty.size \div Bytes(base) |-> base]]
TypClass(types, t) ==
  IF types[t].isdark \/ RoundUp(types[t].size, 8) \notin {8, 16}
    THEN [ptr |-> TRUE, size |-> 8, align |-> 8, cls |-> <<"l">>]
  ELSE ClassOf(types[t], IsFloatV(types, "x", t))

\* sttmps() and ldregs() put the registers one after the other.
Offset(cls, n) == (n - 1) * Bytes(cls[n])
SplitOf(c) ==
  IF c.ptr THEN << >>
  ELSE [n \in DOMAIN c.cls |-> [cls |-> c.cls[n], off |-> Offset(c.cls, n), size |-> Bytes(c.cls[n])]]
Split(types, t) == SplitOf(TypClass(types, t))
InRegs(cls, gp, fp) ==
  [n \in DOMAIN cls |-> Part(IF IsFloat(cls[n]) THEN <<"flt", fp + n - 1>> ELSE <<"int", gp + n - 1>>,
                             Offset(cls, n), Bytes(cls[n]))]

-----------------------------------------------------------------------------
(***************************************************************************)
(* argsclass(): p.gp and p.fp registers are used, p.ngp and p.nfp are      *)
(* left.  An aggregate that does not fit leaves none for those after it.   *)
(***************************************************************************)
Put(p, stk, size, align, at) ==
  [p EXCEPT !.ac = Append(@, [stk |-> stk, size |-> size, align |-> align, at |-> at])]

Scalar(p, size, cls, va) ==
  IF va THEN Put(p, TRUE, 8, 8, << >>)
  ELSE IF (IF IsFloat(cls) THEN p.nfp ELSE p.ngp) = 0 THEN Put(p, TRUE, size, size, << >>)
  ELSE IF IsFloat(cls)
    THEN [Put(p, FALSE, size, size, InRegs(<<cls>>, p.gp, p.fp)) EXCEPT !.fp = @ + 1, !.nfp = @ - 1]
  ELSE [Put(p, FALSE, size, size, InRegs(<<cls>>, p.gp, p.fp)) EXCEPT !.gp = @ + 1, !.ngp = @ - 1]

Aggregate(p, c) ==
  LET nf == Cardinality({n \in DOMAIN c.cls : IsFloat(c.cls[n])})
      ng == Len(c.cls) - nf
  IN  IF ng > p.ngp THEN [Put(p, TRUE, c.size, c.align, << >>) EXCEPT !.ngp = 0]
      ELSE IF nf > p.nfp THEN [Put(p, TRUE, c.size, c.align, << >>) EXCEPT !.nfp = 0]
      ELSE [Put(p, FALSE, c.size, c.align, InRegs(c.cls, p.gp, p.fp))
              EXCEPT !.gp = @ + ng, !.fp = @ + nf, !.ngp = @ - ng, !.nfp = @ - nf]

ScalarSize(i) == CASE i[1] = "argb" -> SizeOf[i[2]]
                   [] apple /\ ~ Wide(i[2]) -> 4
                   [] OTHER -> 8

ClassArg(types, p, i, va) ==
  CASE i[1] = "arge" -> Put(p, FALSE, 8, 8, <<Part(X9, 0, 8)>>)
    [] IsAgg(i) -> Aggregate(p, TypClass(types, i[2]))
    [] OTHER -> Scalar(p, ScalarSize(i), IF i[1] = "argb" THEN "w" ELSE i[2], va)

\* The word has, from its low bits, the registers returned (2 and 3 bits) and
\* passed (4 bits each), whether X8 has the place of the result, and X9 the
\* environment.
Describe(p, env) == [ac |-> p.ac, word |-> (IF env THEN 2 ^ 14 ELSE 0) + p.gp * 2 ^ 5 + p.fp * 2 ^ 9]
ArgsClass(types, args, named) ==
  Describe(FoldLeft(LAMBDA q, n : ClassArg(types, q, args[n], apple /\ n > named),
                    [gp |-> 0, fp |-> 0, ngp |-> NInt, nfp |-> NFlt, ac |-> << >>],
                    [n \in DOMAIN args |-> n]),
           HasEnv(args))

ArgRegs(word) ==
  Ints((word \div 2 ^ 5) % 16) \cup Floats((word \div 2 ^ 9) % 16)
    \cup (IF (word \div 2 ^ 13) % 2 = 1 THEN {X8} ELSE {})
    \cup (IF (word \div 2 ^ 14) % 2 = 1 THEN {X9} ELSE {})
RetRegs(word) == Ints(word % 4) \cup Floats((word \div 4) % 8)

ByPointer(types, ret) == IsAgg(ret) /\ TypClass(types, ret[2]).ptr
RetAgg(c) == IF c.ptr THEN << >> ELSE InRegs(c.cls, 0, 0)
RetPlaces(types, ret) ==
  CASE ret[1] = "none" -> << >>
    [] ret[1] = "arg" -> InRegs(<<ret[2]>>, 0, 0)
    [] OTHER -> RetAgg(TypClass(types, ret[2]))
RetWord(parts) ==
  LET nf == Cardinality({n \in DOMAIN parts : parts[n].at[1] = "flt"})
  IN  Len(parts) - nf + 4 * nf

-----------------------------------------------------------------------------
\* selcall(): what is set aside on the stack, and the offsets there.
Room(ac) == FoldLeft(LAMBDA n, c : IF c.stk THEN RoundUp(n, c.align) + c.size ELSE n, 0, ac)
Pass(p, c) ==
  IF ~ c.stk THEN [p EXCEPT !.all = Append(@, c.at)]
  ELSE LET off == RoundUp(p.off, c.align)
       IN  [p EXCEPT !.all = Append(@, <<Part(<<"stk", off>>, 0, c.size)>>), !.off = off + c.size]
Passed(ac) == FoldLeft(Pass, [off |-> 0, all |-> << >>], ac).all

\* selpar(): slot s, below -1, is -(s + 2) bytes above the saved registers.
Slot(s) == <<"stk", - (s + 2)>>
Receive(p, c) ==
  IF ~ c.stk THEN [p EXCEPT !.all = Append(@, c.at)]
  ELSE LET off == RoundUp(p.off, c.align)
       IN  [p EXCEPT !.all = Append(@, <<Part(Slot(- (off + 2)), 0, c.size)>>), !.off = off + c.size]
Received(ac) == FoldLeft(Receive, [off |-> 0, all |-> << >>], ac)

\* "alignments larger than 8 are not supported"
TooAligned(types, args, ret) ==
  \E i \in ToSet(args) \cup {ret} : IsAgg(i) /\ types[i[2]].align > 3

\* at: the places; ptr: whether the result is in memory; back: where it is.
\* What is copied to registers are words, aggregates and the environment; of
\* an argument smaller than a word there is no copy.
Copied(args, n) == args[n][1] # "argb"
Call(s, at, room, ptr, back, word, err) ==
  [at |-> at, stk |-> RoundUp(room, 16), hidden |-> IF ptr THEN {X8} ELSE {},
   back |-> back, dummy |-> IF ptr THEN {<<"int", 0>>} ELSE {}, vec |-> None,
   word |-> word, pass |-> ArgRegs(word), returns |-> RetRegs(word),
   sets |-> UNION {RegsOf(at[n]) : n \in {m \in DOMAIN at : Copied(s.args, m)}}
              \cup (IF ptr THEN {X8} ELSE {}),
   err |-> err]
CallWith(s, c, ptr, back, err) ==
  Call(s, Passed(c.ac), Room(c.ac), ptr, back, c.word + IF ptr THEN 2 ^ 13 + 1 ELSE RetWord(back), err)
SelCall(types, s) ==
  CallWith(s, ArgsClass(types, s.args, s.named), ByPointer(types, s.ret),
           IF s.ret[1] = "none" THEN <<Part(<<"int", 0>>, 0, 4)>> ELSE RetPlaces(types, s.ret),
           TooAligned(types, s.args, s.ret))

Function(p, word, hidden, ret, err) ==
  [at |-> p.all, hidden |-> hidden, word |-> word, off |-> RoundUp(p.off, 8),
   reg |-> ArgRegs(word) \cup hidden, ret |-> ret, returns |-> RetRegs(RetWord(ret)), err |-> err]
FunctionWith(c, hidden, ret, err) == Function(Received(c.ac), c.word, hidden, ret, err)
SelPar(types, s) ==
  FunctionWith(ArgsClass(types, Pars(s), s.named), IF ByPointer(types, s.ret) THEN {X8} ELSE {},
               RetPlaces(types, s.ret), TooAligned(types, Pars(s), s.ret))

-----------------------------------------------------------------------------
(***************************************************************************)
(* arm64_selvastart(), with offsets from the ends of the saved registers,  *)
(* and apple_selvastart().                                                 *)
(***************************************************************************)
VaStart(c, s) == [gr |-> (((c.word \div 2 ^ 5) % 16) - 8) * 8,
                  vr |-> (((c.word \div 2 ^ 9) % 16) - 8) * 16, stk |-> c.off]

\* Mutant: the test of the offset has the wrong limit.
VaPlaceOver(v, cls) ==
  CASE ~ apple /\ ~ IsFloat(cls) /\ v.gr <= 0 -> <<"int", (64 + v.gr) \div 8>>
    [] ~ apple /\ IsFloat(cls) /\ v.vr < 0 -> <<"flt", (128 + v.vr) \div 16>>
    [] OTHER -> <<"stk", v.stk>>
VaPlace(v, cls) ==
  CASE ~ apple /\ ~ IsFloat(cls) /\ v.gr < 0 -> <<"int", (64 + v.gr) \div 8>>
    [] ~ apple /\ IsFloat(cls) /\ v.vr < 0 -> <<"flt", (128 + v.vr) \div 16>>
    [] OTHER -> <<"stk", v.stk>>
VaNext(v, cls) ==
  IF VaPlace(v, cls)[1] = "stk" THEN [v EXCEPT !.stk = @ + 8]
  ELSE IF IsFloat(cls) THEN [v EXCEPT !.vr = @ + 16] ELSE [v EXCEPT !.gr = @ + 8]
===============================================================================
