-------------------------------- MODULE Sysv --------------------------------
(***************************************************************************)
(* The calling convention of amd64_sysv, amd64/sysv.c: how arguments and   *)
(* results are divided among registers and the stack by selcall() for the  *)
(* caller, by selpar() and selret() for the callee, and by selvastart()    *)
(* and selvaarg() for the arguments after the dots.                        *)
(***************************************************************************)
EXTENDS Typ

(***************************************************************************)
(* typclass() and classify(): the two eightbytes of a small type.          *)
(***************************************************************************)
RECURSIVE Classify(_, _, _, _)
ClassifyField(types, p, f) ==
  LET n == p.at \div 8
  IN  [at  |-> p.at + f.len,
       cls |-> IF f.type = "pad" THEN p.cls
               ELSE IF IsTyp(f.type) THEN Classify(types, p.cls, f.type[2], p.at)
               ELSE IF ~ IsFloat(f.type) THEN [p.cls EXCEPT ![n] = "l"]
               ELSE IF p.cls[n] = "x" THEN [p.cls EXCEPT ![n] = "d"] ELSE p.cls]
Classify(types, cls, t, s) ==
  FoldLeft(LAMBDA c, fld : FoldLeft(LAMBDA p, f : ClassifyField(types, p, f),
                                    [at |-> s, cls |-> c], fld).cls,
           cls, types[t].fields)

TypClass(types, t) ==
  LET ty == types[t]
      sz == RoundUp(ty.size, Larger(8, 2 ^ ty.align))
      none == [n \in 0 .. 1 |-> "x"]
  IN  IF ty.isdark \/ sz > 16 \/ sz = 0
        THEN [inmem |-> 1, size |-> sz, align |-> ty.align, cls |-> none]
      ELSE [inmem |-> 0, size |-> sz, align |-> ty.align, cls |-> Classify(types, none, t, 0)]

\* The classes of the eightbytes that a has.  KBASE(Kx) is not 0, so that a
\* class that is neither of integers nor of floats counts as a float.
Words(a) == [n \in 1 .. a.size \div 8 |-> a.cls[n - 1]]
IsInt(cls) == cls \in {"w", "l"}
CountInts(cs)   == Cardinality({n \in DOMAIN cs : IsInt(cs[n])})
CountFloats(cs) == Cardinality({n \in DOMAIN cs : ~ IsInt(cs[n])})

\* How a type is split, when it is not in memory.
SplitOf(a) == IF a.inmem = 1 THEN << >>
              ELSE [n \in DOMAIN Words(a) |-> [cls |-> Words(a)[n], off |-> 8 * (n - 1), size |-> 8]]
Split(types, t) == SplitOf(TypClass(types, t))

-----------------------------------------------------------------------------
NInt == 6
NFlt == 8
Rax == <<"rax", 0>>
Rdx == <<"int", 2>>

ClassOf(types, i) ==
  IF IsAgg(i) THEN TypClass(types, i[2])
  ELSE [inmem |-> 0, size |-> 8, align |-> 3,
        cls |-> [n \in 0 .. 1 |-> IF n = 0 /\ i[1] = "arg" THEN i[2] ELSE "x"]]

(***************************************************************************)
(* argsclass(): p.nint and p.nflt registers are left, p.ac are the classes *)
(* so far; a is the class of the argument i.                               *)
(***************************************************************************)
PutClass(p, i, a) ==
  LET ni == CountInts(Words(a))
      nf == CountFloats(Words(a))
  IN  IF i[1] = "arge" \/ a.inmem = 1 THEN [p EXCEPT !.ac = Append(@, a)]
      ELSE IF p.nint >= ni /\ p.nflt >= nf
        THEN [p EXCEPT !.ac = Append(@, a), !.nint = @ - ni, !.nflt = @ - nf]
      ELSE [p EXCEPT !.ac = Append(@, [a EXCEPT !.inmem = IF IsAgg(i) THEN 1 ELSE 2])]

Hidden(types, ret) == IF IsAgg(ret) /\ TypClass(types, ret[2]).inmem = 1 THEN {<<"int", 0>>} ELSE {}

\* The word has, from its low bits, the registers returned (2 bits for each
\* class) and passed (4 bits), and whether RAX passes something.
Describe(p, hidden, rax) ==
  [ac |-> p.ac, hidden |-> hidden,
   word |-> (IF rax THEN 4096 ELSE 0) + (NFlt - p.nflt) * 256 + (NInt - p.nint) * 16]
ArgsClass(types, args, ret, varc) ==
  Describe(FoldLeft(LAMBDA q, i : PutClass(q, i, ClassOf(types, i)),
                    [nint |-> NInt - Cardinality(Hidden(types, ret)), nflt |-> NFlt, ac |-> << >>], args),
           Hidden(types, ret), varc \/ HasEnv(args))

RetRegs(word) ==
  LET ni == word % 4
      nf == (word \div 4) % 4
  IN  (IF ni >= 1 THEN {Rax} ELSE {}) \cup (IF ni >= 2 THEN {Rdx} ELSE {})
        \cup Floats(IF nf > 2 THEN 2 ELSE nf)
ArgRegs(word) ==
  Ints((word \div 16) % 16) \cup Floats((word \div 256) % 16)
    \cup (IF (word \div 4096) % 2 = 1 THEN {Rax} ELSE {})

\* rarg(): the next register of a class, p.ni and p.nf being used.
RArg(p, cls) ==
  IF IsInt(cls)
    THEN [p EXCEPT !.at = Append(@, Part(<<"int", p.ni>>, 8 * Len(@), Bytes(cls))), !.ni = @ + 1]
  ELSE [p EXCEPT !.at = Append(@, Part(<<"flt", p.nf>>, 8 * Len(@), Bytes(cls))), !.nf = @ + 1]
Put(p, parts) == [p EXCEPT !.all = Append(@, parts), !.at = << >>]
PutRegs(p) == Put(p, p.at)
InRegs(p, a, i) == PutRegs(FoldLeft(RArg, p, IF IsAgg(i) THEN Words(a) ELSE <<a.cls[0]>>))

\* retr(): the registers of the eightbytes that are returned.  No input returns
\* an eightbyte of padding only, whose class is none of the two.
RetR(a) ==
  LET same(n) == Cardinality({m \in 1 .. n - 1 : IsInt(Words(a)[m]) = IsInt(Words(a)[n])})
      reg(n)  == IF ~ IsInt(Words(a)[n]) THEN <<"flt", same(n)>>
                 ELSE IF same(n) = 0 THEN Rax ELSE Rdx
  IN  [n \in DOMAIN Words(a) |-> Part(reg(n), 8 * (n - 1), 8)]
RetWord(parts) ==
  LET ints == Cardinality({n \in DOMAIN parts : parts[n].at \in {Rax, Rdx}})
  IN  ints + 4 * (Len(parts) - ints)
RetAgg(a) == IF a.inmem = 1 THEN <<Part(Rax, 0, 8)>> ELSE RetR(a)
RetPlaces(types, ret) ==
  CASE ret[1] = "none" -> << >>
    [] ret[1] = "arg" -> <<Part(IF IsInt(ret[2]) THEN Rax ELSE <<"flt", 0>>, 0, Bytes(ret[2]))>>
    [] OTHER -> RetAgg(TypClass(types, ret[2]))

-----------------------------------------------------------------------------
(***************************************************************************)
(* selcall().  The stack that is allocated for the arguments is summed up  *)
(* from the last one, and they are stored there from the first one on.     *)
(***************************************************************************)
StackFor(stk, a) == IF a.align = 4 THEN stk + a.size + ((stk + a.size) % 16) ELSE stk + a.size
Padded(stk) == stk + (stk % 16)
ArgBytes(ac) == Padded(FoldRight(LAMBDA a, stk : IF a.inmem = 0 THEN stk ELSE StackFor(stk, a), ac, 0))

\* p: registers used, offset in the stack, place of the last argument and all.
NoPlaces(c, off) == [ni |-> Cardinality(c.hidden), nf |-> 0, off |-> off, at |-> << >>, all |-> << >>]
CallPlace(p, a, i) ==
  IF i[1] = "arge" THEN Put(p, <<Part(Rax, 0, 8)>>)
  ELSE IF a.inmem = 0 THEN InRegs(p, a, i)
  ELSE LET off == IF IsAgg(i) /\ a.align = 4 THEN p.off + (p.off % 16) ELSE p.off
       IN  [Put(p, <<Part(<<"stk", off>>, 0, a.size)>>) EXCEPT !.off = off + a.size]

\* "sysv abi requires alignments of 16 or less"
TooAligned(ac) == \E n \in DOMAIN ac : ac[n].inmem > 0 /\ ac[n].align > 4

\* c: the classes; p: the places; back: where the result is; vec: the number of
\* registers of floats, given to variadic functions in RAX.
Call(s, c, p, back, word, vec) ==
  [at |-> p.all, stk |-> ArgBytes(c.ac), hidden |-> c.hidden, back |-> back, dummy |-> {},
   vec |-> vec, word |-> word, pass |-> ArgRegs(word), returns |-> RetRegs(word),
   sets |-> AllRegs(p.all) \cup c.hidden \cup (IF vec # None THEN {Rax} ELSE {}),
   \* "sysv abi does not support variadic env calls"
   err |-> TooAligned(c.ac) \/ (Variadic(s) /\ HasEnv(s.args))]
CallWith(s, c, back) ==
  Call(s, c, FoldLeft(LAMBDA q, n : CallPlace(q, c.ac[n], s.args[n]), NoPlaces(c, 0),
                      [n \in DOMAIN s.args |-> n]),
       back, c.word + RetWord(back),
       IF Variadic(s) /\ ~ HasEnv(s.args) THEN (c.word \div 256) % 16 ELSE None)

\* The results of a call are always taken; a call without a type has class w.
SelCall(types, s) ==
  CallWith(s, ArgsClass(types, s.args, s.ret, Variadic(s)),
           IF s.ret[1] = "none" THEN <<Part(Rax, 0, 4)>> ELSE RetPlaces(types, s.ret))

\* selpar(): s counts four bytes from the frame pointer, above the saved one
\* and the return address.
\* Mutant: the parameter is not aligned.
ParPlaceLoose(p, a, i) ==
  IF i[1] = "arge" THEN Put(p, <<Part(Rax, 0, 8)>>)
  ELSE IF a.inmem = 0 THEN InRegs(p, a, i)
  ELSE [Put(p, <<Part(<<"stk", 4 * p.off - 16>>, 0, a.size)>>)
          EXCEPT !.off = @ + IF a.inmem = 2 THEN 2 ELSE a.size \div 4]

ParPlace(p, a, i) ==
  IF i[1] = "arge" THEN Put(p, <<Part(Rax, 0, 8)>>)
  ELSE IF a.inmem = 0 THEN InRegs(p, a, i)
  ELSE LET s == IF a.inmem = 1 /\ a.align = 4 THEN RoundUp(p.off, 4) ELSE p.off
       IN  [Put(p, <<Part(<<"stk", 4 * s - 16>>, 0, a.size)>>)
              EXCEPT !.off = s + IF a.inmem = 2 THEN 2 ELSE a.size \div 4]

Function(c, p, ret) ==
  [at |-> p.all, hidden |-> c.hidden, word |-> c.word, off |-> 4 * p.off,
   reg |-> ArgRegs(c.word), ret |-> ret, returns |-> RetRegs(RetWord(ret)), err |-> TooAligned(c.ac)]
FunctionWith(c, pars, ret) ==
  Function(c, FoldLeft(LAMBDA q, n : ParPlace(q, c.ac[n], pars[n]), NoPlaces(c, 4), [n \in DOMAIN pars |-> n]), ret)
SelPar(types, s) == FunctionWith(ArgsClass(types, Pars(s), s.ret, FALSE), Pars(s), RetPlaces(types, s.ret))

-----------------------------------------------------------------------------
(***************************************************************************)
(* selvastart() and selvaarg(): the registers were saved in the order of   *)
(* their numbers, 8 bytes for the integers and 16 for the others.          *)
(***************************************************************************)
VaStart(c, s) == [gp |-> ((c.word \div 16) % 16) * 8,
                  fp |-> 48 + ((c.word \div 256) % 16) * 16,
                  sp |-> c.off + c.word \div 4096]

VaPlace(v, cls) ==
  IF IsFloat(cls) THEN IF v.fp < 176 THEN <<"flt", (v.fp - 48) \div 16>> ELSE <<"stk", v.sp - 16>>
  ELSE IF v.gp < 48 THEN <<"int", v.gp \div 8>> ELSE <<"stk", v.sp - 16>>
VaNext(v, cls) ==
  IF VaPlace(v, cls)[1] = "stk" THEN [v EXCEPT !.sp = @ + 8]
  ELSE IF IsFloat(cls) THEN [v EXCEPT !.fp = @ + 16] ELSE [v EXCEPT !.gp = @ + 8]
===============================================================================
