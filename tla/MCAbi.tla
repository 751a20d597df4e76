-------------------------------- MODULE MCAbi --------------------------------
(* All small types in a few calls, and all calls, around the limits of the   *)
(* registers, with a type of each kind.                                     *)
EXTENDS Abi

Decl(al, ms)  == [align |-> al, dark |-> 0, union |-> Len(ms) > 1, members |-> ms]
Opaque(al, n) == [align |-> al, dark |-> n, union |-> FALSE, members |-> << >>]
T(n) == <<"typ", n>>
Arg(c)  == <<"arg", c>>
Argb(c) == <<"argb", c>>
Argc(n) == <<"argc", n>>
Times(n, c) == [m \in 1 .. n |-> Arg(c)]
Nothing == <<"none">>
NoArgs == {<< >>}
Targets == {"amd64", "arm64", "apple", "rv64"}
Arms    == {"arm64", "apple"}

\* Three members, an array, a union.
Kinds  == {"b", "h", "w", "l", "s", "d"}
Small  == {<<Decl(None, <<<<<<a, 1>>, <<b, 1>>, <<c, 1>>>>>>)>> : a, b, c \in Kinds}
Pairs  == {<<Decl(None, <<<<<<a, 1>>, <<b, 1>>>>>>)>> : a, b \in Kinds}
Arrays == {<<Decl(al, <<<<<<a, n>>, <<b, 1>>>>>>)>> :
             al \in {None, 3}, a, b \in {"b", "w", "s", "d"}, n \in {2, 5}}
Unions == {<<Decl(None, <<<<<<a, 1>>, <<b, 1>>>>, <<<<c, n>>>>>>)>> :
             a, b, c \in {"b", "l", "s", "d"}, n \in {1, 3}}

\* A type in a type: of two members anywhere, of one or a union at the end.
Inside == {<<Decl(None, <<<<<<a, 1>>, <<b, 1>>>>>>),
             Decl(None, <<<<<<c, 1>>, <<T(1), n>>, <<d, 1>>>>>>)>> :
             a, b \in {"b", "w", "s"}, c, d \in {"b", "s"}, n \in {1, 2}}
OneOrUnion == {Decl(None, <<<<<<a, 1>>>>>>) : a \in {"w", "s", "d"}} \cup
              {Decl(None, <<<<<<a, 1>>>>, <<<<b, 1>>>>>>) : a, b \in {"w", "s"}}
AtEnd == {<<t, Decl(None, <<m \o <<<<T(1), 1>>>>>>)>> :
            t \in OneOrUnion, m \in {<< >>} \cup {<<<<a, 1>>>> : a \in {"s", "d", "l"}}}
\* ... or followed by another member.
Before == {<<t, Decl(None, <<<<<<T(1), 1>>, <<"s", 1>>>>>>)>> : t \in OneOrUnion}

TypeUnits ==
  {[targets |-> Targets, types |-> Small \cup Pairs \cup Arrays \cup Unions,
    first |-> {<<Argc(1), Arg("d")>>}, last |-> {<<Argc(1)>>}, dots |-> NoArgs, rets |-> {Argc(1)}],
   [targets |-> Targets, types |-> Inside \cup AtEnd,
    first |-> {<<Argc(2), Arg("d")>>}, last |-> {<<Argc(1)>>}, dots |-> NoArgs, rets |-> {Argc(2)}]}

\* Integers, floats, both, large, aligned, opaque, floats again; on amd64 the
\* last is a type that ends in padding.
Mixed(al) ==
  <<Decl(None, <<<<<<"w", 3>>>>>>), Decl(None, <<<<<<"s", 3>>>>>>),
    Decl(None, <<<<<<"d", 1>>, <<"b", 1>>>>>>), Decl(None, <<<<<<"l", 3>>>>>>),
    Decl(al, <<<<<<"l", 4>>>>>>), Opaque(3, 8), Decl(None, <<<<<<"s", 2>>>>>>),
    Decl(al, <<<<<<"l", 1>>>>>>)>>

Some  == {Arg("l"), Arg("s")} \cup {Argc(n) : n \in 1 .. 8}
Calls(arch, al, ints) ==
  {[targets |-> arch, types |-> {Mixed(al)},
    first |-> {Times(i, "w") \o e \o Times(f, "d") : e \in {<< >>, <<<<"arge">>>>}, i \in ints, f \in {0, 7}},
    last |-> {<<a, b, c>> : a, b \in Some, c \in {Arg("l"), Argc(5)}},
    dots |-> NoArgs, rets |-> {Nothing, Argc(4)}],
   [targets |-> arch, types |-> {Mixed(al)}, first |-> NoArgs, last |-> {<<Arg("w")>>}, dots |-> NoArgs,
    rets |-> {Nothing, Arg("s"), Arg("l")} \cup {Argc(n) : n \in 1 .. 7}],
   \* Arguments smaller than a word, on Apple on the stack.
   [targets |-> arch, types |-> {Mixed(al)}, first |-> {Times(8, "w")},
    last |-> {<<a, b, c, Argc(1)>> : a, b, c \in {Argb("b"), Argb("h"), Arg("w"), Arg("l")}},
    dots |-> NoArgs, rets |-> {Nothing}]}
CallUnits == Calls({"amd64"}, 4, {0, 4, 5}) \cup Calls(Arms, 3, {0, 6, 7}) \cup Calls({"rv64"}, 4, {0, 6, 7})

\* Variadic calls; on arm64 no named aggregate is too large for the registers
\* that are left.
VaCalls(arch, al, ints) ==
  {[targets |-> arch, types |-> {Mixed(al)},
    first |-> {Times(i, "w") \o Times(f, "d") : i \in ints, f \in {0, 6, 8}},
    last |-> {<<a>> : a \in {Arg("l"), Argc(3), Argc(5), Argc(4)}},
    dots |-> {<<Arg(x), Arg(y), Arg("d"), Arg(z)>> : x, y, z \in {"l", "d"}},
    rets |-> {Nothing, Argc(4)}]}
VaUnits == VaCalls({"amd64"}, 4, {0, 5, 6}) \cup VaCalls(Arms, 3, {0, 6, 8})
             \cup VaCalls({"rv64"}, 4, {0, 6, 7, 8})

MCUnits == TypeUnits \cup CallUnits \cup VaUnits

(* Where the convention is not met: a member after a nested type on rv64, an *)
(* argument smaller than a word in a register on Apple, a named aggregate    *)
(* that goes to the stack on arm64 though registers are left.                *)
NestedBug ==
  {[targets |-> {"rv64"}, types |-> Before, first |-> NoArgs, last |-> {<<Argc(2)>>}, dots |-> NoArgs,
    rets |-> {Nothing}]}
SubwordBug ==
  {[targets |-> {"apple"}, types |-> {<< >>}, first |-> NoArgs, last |-> {<<Argb("b")>>}, dots |-> NoArgs,
    rets |-> {Nothing}]}
VaBug ==
  {[targets |-> {"arm64"}, types |-> {Mixed(3)}, first |-> {Times(7, "w")}, last |-> {<<Argc(3)>>},
    dots |-> {<<Arg("l")>>}, rets |-> {Nothing}]}
===============================================================================
