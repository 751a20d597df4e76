-------------------------------- MODULE MCSsa --------------------------------
(***************************************************************************)
(* All graphs of four blocks, with one body; and the graphs that matter    *)
(* with every choice of what their blocks do to one or two variables.      *)
(***************************************************************************)
EXTENDS Ssa

No == None

Ins(to, x) == <<[to |-> to, arg |-> <<x, R>>]>>
Read   == Ins(R, 1)
Write  == Ins(1, R)
Update == Ins(1, 1)

Function(g, ins, phi, hlt) ==
  LET bs == 0 .. Len(g) - 1
  IN  [link |-> [i \in 1 .. Len(g) |-> i - 1],
       s1 |-> [b \in bs |-> g[b + 1][1]], s2 |-> [b \in bs |-> g[b + 1][2]],
       ins |-> ins, arg |-> [b \in bs |-> IF b = 2 THEN 1 ELSE R],
       phi |-> phi, hlt |-> hlt]

NoPhis(g) == [b \in 0 .. Len(g) - 1 |-> << >>]

\* The graphs of four blocks, the last of which returns or jumps back or to
\* itself; the start block is never jumped to.
Exits == {<<No, No>>} \cup {<<b, No>> : b \in 1 .. 3} \cup {<<b, c>> : b, c \in 1 .. 3}

AllGraphs ==
  {Function(<<g0, g1, g2, g3>>, <<Update, << >>, Read>> @@ (0 :> Write),
            NoPhis(<<g0, g1, g2, g3>>), {}) :
     g0 \in {<<1, No>>, <<1, 2>>, <<2, 1>>, <<3, No>>, <<3, 3>>},
     g1 \in Exits, g2 \in Exits, g3 \in {<<No, No>>, <<2, 3>>}}

Loop        == << <<1, No>>, <<2, 3>>, <<1, No>>, <<No, No>> >>
Diamond     == << <<1, 2>>, <<3, No>>, <<3, No>>, <<No, No>> >>
Irreducible == << <<1, 2>>, <<2, 3>>, <<1, 3>>, <<No, No>> >>
Nested      == << <<1, No>>, <<2, No>>, <<2, 3>>, <<1, 4>>, <<No, No>> >>
Twice       == << <<2, 2>>, <<2, No>>, <<3, 3>>, <<No, No>> >>

\* What the blocks may do to a variable, and the last one, which may halt.
OneVariable(g, bodies, last) ==
  {Function(g, ins, NoPhis(g), IF ins[Len(g) - 1] = << >> THEN {Len(g) - 1} ELSE {}) :
     ins \in {f \in [0 .. Len(g) - 1 -> bodies \cup last] :
                /\ f[Len(g) - 1] \in last
                /\ \A b \in 0 .. Len(g) - 2 : f[b] \in bodies}}

\* Two variables that are copied to each other round a loop.
TwoVariables ==
  {Function(Loop, ins, NoPhis(Loop), {}) :
     ins \in [0 .. 3 -> {<< >>, Write, Ins(2, 1), Ins(1, 2), Ins(2, 1) \o Ins(1, 2)}]}

\* Phis in the input: temporary 1 is one, and reads 2; 3 is assigned freely.
WithPhis ==
  {Function(g, ins, [b \in 0 .. 3 |->
      IF b = p[1] THEN <<[to |-> 1, arg |-> << <<0, R>>, <<p[2], 2>> >>]>> ELSE << >>], {}) :
     <<g, p>> \in {<<Loop, <<1, 2>>>>},
     ins \in {<<a, Ins(2, 1) \o b, c>> @@ (0 :> d) :
                a \in {<< >>, Ins(3, 1), Ins(R, 3)}, b \in {<< >>, Ins(3, 1), Ins(3, 2)},
                c \in {<< >>, Ins(R, 3)}, d \in {<< >>, Ins(3, R)}}} \cup
  {Function(Twice, <<Ins(2, R), a, Ins(R, 1)>> @@ (0 :> << >>), [b \in 0 .. 3 |->
      IF b = 2 THEN <<[to |-> 1, arg |-> << <<0, R>>, <<1, 2>> >>]>> ELSE << >>], {}) :
     a \in {<< >>, Ins(3, 1)}}

Bodies == {<< >>, Read, Write, Update, Write \o Update}

MCInputs ==
  AllGraphs \cup TwoVariables \cup WithPhis \cup
  UNION {OneVariable(g, Bodies, {<< >>, Read}) : g \in {Loop, Diamond, Irreducible, Twice}} \cup
  OneVariable(Nested, {<< >>, Write, Update}, {Read})
=============================================================================
