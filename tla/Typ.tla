--------------------------------- MODULE Typ ---------------------------------
(***************************************************************************)
(* Aggregate types as parsetyp() and parsefields() of parse.c lay them     *)
(* out.  A declaration has its alignment (the logarithm, None when it is   *)
(* not given), its size when it is opaque, whether it is a union, and the  *)
(* members <<type, count>> of each of its parts.  A type is a letter or    *)
(* <<"typ", number>>.  What is passed is in parts: so many bytes at an     *)
(* offset of the value are in a register or on the stack.                  *)
(***************************************************************************)
EXTENDS Integers, Sequences, FiniteSets, SequencesExt

CONSTANT NField       \* the members of a type that are kept

None == -1

SizeOf  == [b |-> 1, h |-> 2, w |-> 4, s |-> 4, l |-> 8, d |-> 8]
AlignOf == [b |-> 0, h |-> 1, w |-> 2, s |-> 2, l |-> 3, d |-> 3]
IsTyp(k) == k \notin DOMAIN SizeOf
Larger(a, b) == IF a < b THEN b ELSE a
RoundUp(n, a) == ((n + a - 1) \div a) * a

FieldSize(types, k)  == IF IsTyp(k) THEN types[k[2]].size ELSE SizeOf[k]
FieldAlign(types, k) == IF IsTyp(k) THEN types[k[2]].align ELSE AlignOf[k]

\* The member of c times the type k after the fields p.fld of p.sz bytes.
AddField(types, p, k, c) ==
  LET a    == FieldAlign(types, k)
      pad  == RoundUp(p.sz, 2 ^ a) - p.sz
      room == NField - Len(p.fld) - IF pad > 0 THEN 1 ELSE 0
      one  == [type |-> k, len |-> FieldSize(types, k)]
  IN  [fld |-> p.fld \o (IF pad > 0 THEN <<[type |-> "pad", len |-> pad]>> ELSE << >>)
                 \o [n \in 1 .. (IF c < room THEN c ELSE room) |-> one],
       sz |-> p.sz + pad + c * FieldSize(types, k),
       al |-> Larger(p.al, a)]

\* Mutant: the size is not rounded up to the alignment.
ParseFieldsTight(types, ty, mem) ==
  LET p == FoldLeft(LAMBDA q, m : AddField(types, q, m[1], m[2]),
                    [fld |-> << >>, sz |-> 0, al |-> ty.align], mem)
  IN  [ty EXCEPT !.fields = Append(@, p.fld), !.align = p.al, !.size = Larger(p.sz, @)]

ParseFields(types, ty, mem) ==
  LET p == FoldLeft(LAMBDA q, m : AddField(types, q, m[1], m[2]),
                    [fld |-> << >>, sz |-> 0, al |-> ty.align], mem)
  IN  [ty EXCEPT !.fields = Append(@, p.fld), !.align = p.al,
                 !.size = RoundUp(Larger(p.sz, @), 2 ^ p.al)]

ParseTyp(types, d) ==
  LET ty == [align |-> d.align, size |-> d.dark, isdark |-> d.dark > 0,
             isunion |-> d.union, fields |-> << >>]
  IN  FoldLeft(LAMBDA t, mem : ParseFields(types, t, mem), ty, d.members)

-----------------------------------------------------------------------------
IsFloat(cls) == cls \in {"s", "d"}
Wide(cls) == cls \notin {"w", "s"}
Bytes(cls) == IF Wide(cls) THEN 8 ELSE 4

\* size bytes at off are in the register or the place of the stack at.
Part(at, off, size) == [at |-> at, off |-> off, size |-> size]
OnStack(p) == p.at[1] = "stk"
RegsOf(parts) == {p.at : p \in {q \in ToSet(parts) : ~ OnStack(q)}}
AllRegs(places) == UNION {RegsOf(places[n]) : n \in DOMAIN places}

Ints(n)   == {<<"int", j>> : j \in 0 .. n - 1}
Floats(n) == {<<"flt", j>> : j \in 0 .. n - 1}

\* The parameters of a function whose call has the arguments s.args.
Pars(s) == SubSeq(s.args, 1, s.named)
Variadic(s) == s.named < Len(s.args)
HasEnv(args) == \E n \in DOMAIN args : args[n][1] = "arge"
IsAgg(i) == i[1] = "argc"
===============================================================================
