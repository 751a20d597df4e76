--------------------------------- MODULE Abi ---------------------------------
(***************************************************************************)
(* A function and a call of it, under one of the four conventions: whether *)
(* the caller, the callee and the va_list of the callee agree, on what is  *)
(* made of the types that the parser laid out.                             *)
(*                                                                         *)
(* A signature has the arguments, the number of those that are named (all, *)
(* when not variadic) and what is returned.  An argument is <<"arg", cls>>,*)
(* <<"argb", type>> if smaller than a word, <<"argc", type>> if an         *)
(* aggregate, or <<"arge">>, the environment.                              *)
(***************************************************************************)
EXTENDS Typ

CONSTANT Units       \* families of programs: targets, types, and what signatures have

S == INSTANCE Sysv
A == INSTANCE Arm64Abi WITH apple <- FALSE
P == INSTANCE Arm64Abi WITH apple <- TRUE
V == INSTANCE Rv64Abi

VARIABLES
  pc,          \* "types", "abi0", "callee", "caller", "va" or "err"
  target,      \* "amd64", "arm64", "apple" or "rv64"
  decls, sig,  \* what the program declares
  typ,         \* the types that were parsed
  callee,      \* what selpar() and selret() do
  caller,      \* what selcall() does
  ap, got      \* the va_list, and the places that vaarg fetched from

vars == <<pc, target, decls, sig, typ, callee, caller, ap, got>>

-----------------------------------------------------------------------------
\* The functions of T, and selvastart() and selvaarg() of its abi1().
SelCall == CASE target = "amd64" -> S!SelCall(typ, sig) [] target = "rv64" -> V!SelCall(typ, sig)
             [] target = "arm64" -> A!SelCall(typ, sig) [] target = "apple" -> P!SelCall(typ, sig)
SelPar == CASE target = "amd64" -> S!SelPar(typ, sig) [] target = "rv64" -> V!SelPar(typ, sig)
            [] target = "arm64" -> A!SelPar(typ, sig) [] target = "apple" -> P!SelPar(typ, sig)
VaStart == CASE target = "amd64" -> S!VaStart(callee, sig) [] target = "rv64" -> V!VaStart(callee, sig)
             [] target = "arm64" -> A!VaStart(callee, sig) [] target = "apple" -> P!VaStart(callee, sig)
VaPlace(cls) == CASE target = "amd64" -> S!VaPlace(ap, cls) [] target = "rv64" -> V!VaPlace(ap, cls)
                  [] target = "arm64" -> A!VaPlace(ap, cls) [] target = "apple" -> P!VaPlace(ap, cls)
VaNext(cls) == CASE target = "amd64" -> S!VaNext(ap, cls) [] target = "rv64" -> V!VaNext(ap, cls)
                 [] target = "arm64" -> A!VaNext(ap, cls) [] target = "apple" -> P!VaNext(ap, cls)

Init ==
  /\ pc = "types"
  /\ \E u \in Units :
       /\ target \in u.targets /\ decls \in u.types
       /\ \E first \in u.first, last \in u.last, dots \in u.dots, ret \in u.rets :
            sig = [args |-> first \o last \o dots, named |-> Len(first) + Len(last), ret |-> ret]
  /\ typ = << >> /\ callee = << >> /\ caller = << >> /\ ap = << >> /\ got = << >>

Parse ==
  /\ pc = "types" /\ Len(typ) < Len(decls)
  /\ typ' = Append(typ, ParseTyp(typ, decls[Len(typ) + 1]))
  /\ UNCHANGED <<pc, target, decls, sig, callee, caller, ap, got>>

\* T.abi0: arguments smaller than a word become words, but on Apple, where
\* apple_extsb() extends what is passed and leaves the arguments.
Abi0 ==
  /\ pc = "types" /\ Len(typ) = Len(decls)
  /\ sig' = IF target = "apple" THEN sig
            ELSE [sig EXCEPT !.args = [n \in DOMAIN @ |-> IF @[n][1] = "argb" THEN <<"arg", "w">> ELSE @[n]]]
  /\ pc' = "callee"
  /\ UNCHANGED <<target, decls, typ, callee, caller, ap, got>>

Callee ==
  /\ pc = "callee"
  /\ \E c \in {SelPar} : callee' = c /\ pc' = IF c.err THEN "err" ELSE "caller"
  /\ UNCHANGED <<target, decls, sig, typ, caller, ap, got>>

Caller ==
  /\ pc = "caller"
  /\ \E c \in {SelCall} : caller' = c /\ pc' = IF c.err THEN "err" ELSE "va"
  /\ ap' = VaStart
  /\ UNCHANGED <<target, decls, sig, typ, callee, got>>

VaArg ==
  /\ pc = "va" /\ sig.named + Len(got) < Len(sig.args)
  /\ LET cls == sig.args[sig.named + Len(got) + 1][2]
     IN  got' = Append(got, VaPlace(cls)) /\ ap' = VaNext(cls)
  /\ UNCHANGED <<pc, target, decls, sig, typ, callee, caller>>

Next == Parse \/ Abi0 \/ Callee \/ Caller \/ VaArg

Spec == Init /\ [][Next]_vars

-----------------------------------------------------------------------------
\* Types have sizes that are multiples of their alignments, calls a word with
\* a value for each of its bits.
TypeOK ==
  /\ pc \in {"types", "abi0", "callee", "caller", "va", "err"}
  /\ target \in {"amd64", "arm64", "apple", "rv64"}
  /\ \A t \in DOMAIN typ : typ[t].align \in 0 .. 5 /\ typ[t].size % 2 ^ typ[t].align = 0
  /\ callee # << >> => callee.word \in 0 .. 2 ^ 15 - 1
  /\ caller # << >> => caller.word \in 0 .. 2 ^ 15 - 1 /\ caller.stk \in Nat

\* The numbers in a value of type t that begins at off, with their offsets.
RECURSIVE Scalars(_, _)
Scalars(t, off) ==
  LET put(p, m) ==
        LET a  == 2 ^ FieldAlign(typ, m[1])
            sz == FieldSize(typ, m[1])
            o  == CHOOSE o \in p.end .. p.end + a - 1 : o % a = 0
            at(n) == off + o + n * sz
        IN  [end |-> o + m[2] * sz,
             is |-> p.is \cup IF IsTyp(m[1]) THEN UNION {Scalars(m[1][2], at(n)) : n \in 0 .. m[2] - 1}
                              ELSE {[kind |-> m[1], off |-> at(n)] : n \in 0 .. m[2] - 1}]
  IN  UNION {FoldLeft(put, [end |-> 0, is |-> {}], decls[t].members[u]).is :
               u \in DOMAIN decls[t].members}
RECURSIVE HasUnion(_)
HasUnion(t) ==
  \/ decls[t].union
  \/ \E u \in DOMAIN decls[t].members : \E n \in DOMAIN decls[t].members[u] :
       IsTyp(decls[t].members[u][n][1]) /\ HasUnion(decls[t].members[u][n][1][2])

SplitOf(t) == CASE target = "amd64" -> S!Split(typ, t) [] target = "rv64" -> V!Split(typ, t)
                [] target = "arm64" -> A!Split(typ, t) [] target = "apple" -> P!Split(typ, t)
Extent(off, size) == off .. off + size - 1
Bytewise(s) == Extent(s.off, SizeOf[s.kind])
\* in: the numbers that the part p has of all those of the type t.
IsPassed(t, p, in, all) ==
  in # {} =>
    /\ \A s \in in : Bytewise(s) \subseteq Extent(p.off, p.size)
    /\ target # "amd64" /\ IsFloat(p.cls) => \A s \in in : s.kind = p.cls /\ s.off = p.off
    /\ IsFloat(p.cls) =
         CASE target = "amd64" -> \A s \in in : IsFloat(s.kind)
           [] target = "rv64" -> ~ HasUnion(t) /\ Cardinality(all) <= 2 /\ \A s \in in : IsFloat(s.kind)
           [] OTHER -> {s.kind : s \in all} \in {{"s"}, {"d"}}

\* Whatever nesting, unions, arrays and paddings there are, each number of an
\* aggregate that is passed in registers is in just one of them, whole, and in
\* one for floats exactly when the convention says so: on amd64 when its
\* eightbyte has floats only, on arm64 when all are floats of one class, on
\* rv64 when it is one of at most two and there is no union.
ClassesRight ==
  \A t \in DOMAIN typ : \A parts \in {SplitOf(t)} : parts # << >> =>
    \A all \in {Scalars(t, 0)} :
      /\ \A s \in all :
           Cardinality({n \in DOMAIN parts : Bytewise(s) \cap Extent(parts[n].off, parts[n].size) # {}}) = 1
      /\ \A n \in DOMAIN parts :
           IsPassed(t, parts[n], {s \in all : Bytewise(s) \cap Extent(parts[n].off, parts[n].size) # {}}, all)

\* Caller and callee agree on where each parameter and the result are, and the
\* words that describe the call to the later passes have just the registers
\* that the copies around it set and read.
CallAgrees ==
  pc = "va" =>
    /\ \A n \in 1 .. sig.named : caller.at[n] = callee.at[n]
    /\ caller.hidden = callee.hidden
    /\ caller.pass = caller.sets
    /\ callee.reg = AllRegs(callee.at) \cup callee.hidden
    /\ caller.returns = RegsOf(caller.back) \cup caller.dummy
    /\ callee.returns = RegsOf(callee.ret)
    /\ sig.ret[1] # "none" => callee.ret = caller.back
    /\ caller.vec \in {None, Cardinality({r \in caller.sets : r[1] = "flt"})}

\* The registers of the arguments exist and no two arguments share one, or a
\* byte of the stack; what is in the stack is aligned and within what was
\* allocated, which keeps the stack aligned.
PlaceBytes(p) == IF OnStack(p) THEN {<<"stk", k>> : k \in Extent(p.at[2], p.size)} ELSE {p.at}
Taken(n) == UNION {PlaceBytes(p) : p \in ToSet(caller.at[n])}
SizeTaken(n) == FoldLeft(LAMBDA k, p : k + IF OnStack(p) THEN p.size ELSE 1, 0, caller.at[n])
StackAlign(n, p) ==
  CASE target = "amd64" /\ IsAgg(sig.args[n]) -> IF typ[sig.args[n][2]].align = 4 THEN 16 ELSE 8
    [] target = "apple" /\ ~ IsAgg(sig.args[n]) -> p.size
    [] OTHER -> 8
PlacesApart ==
  pc = "va" =>
    /\ \A m, n \in DOMAIN caller.at : m # n => Taken(m) \cap Taken(n) = {}
    /\ \A n \in DOMAIN caller.at : Cardinality(Taken(n)) = SizeTaken(n) /\ caller.hidden \cap Taken(n) = {}
    /\ \A r \in AllRegs(caller.at) :
         (r[1] = "int" => r[2] < IF target = "amd64" THEN 6 ELSE 8) /\ (r[1] = "flt" => r[2] < 8)
    /\ \A n \in DOMAIN caller.at : \A p \in ToSet(caller.at[n]) : OnStack(p) =>
         p.at[2] + p.size <= caller.stk /\ p.at[2] % StackAlign(n, p) = 0
    /\ caller.stk % 16 = 0

\* Each vaarg fetches the next of the arguments that the caller passed after
\* the named ones.
VaInOrder ==
  \A n \in DOMAIN got : caller.at[sig.named + n][1].at = got[n]
===============================================================================
