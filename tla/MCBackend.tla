------------------------------ MODULE MCBackend ------------------------------
(* Registers 1 to 4 and 5 to 7 of the two classes: 1 is always live, 4 is    *)
(* kept by calls, the others are not.  Temporaries are 10 and more, those    *)
(* from 30 of class d.                                                       *)
EXTENDS Backend

MCGpr  == 1 .. 4
MCFpr  == 5 .. 7
MCGlob == {1}
MCSave == {2, 3, 5, 6, 7}

I(op, to, a, b, mem) == [op |-> op, to |-> to, arg |-> <<a, b>>, mem |-> mem,
                         rets |-> {}, args |-> {}, tag |-> NoTag]
Op(t, a, b, mem) == I("op", Tm(t), a, b, mem)
Use(a, b, mem)   == I("op", R, a, b, mem)
From(t, r)       == I("copy", IF t = 0 THEN R ELSE Tm(t), Tm(r), R, 1)
To(r, a)         == I("copy", Tm(r), a, R, 1)
TheCall(rets, args, a) == [I("call", R, a, R, 0) EXCEPT !.rets = rets, !.args = args]

\* Calls with an argument and a result, of one class or the other.
CallG(t, a) == <<To(2, a), TheCall({2}, {2}, Sym(1, 0)), From(t, 2)>>
CallF(t, a) == <<To(5, a), TheCall({5}, {5}, Sym(1, 0)), From(t, 5)>>
Callee(t, a, g) == <<To(3, a), TheCall({2, 5}, {3}, g), From(t, 2), From(0, 5)>>
\* A division in registers 2 and 3.
Div(t, a, b) == <<To(2, a), To(3, Num(0)),
                  [Use(b, R, 1) EXCEPT !.rets = {2, 3}, !.args = {2, 3}],
                  From(t, 2), From(0, 3)>>

Params == <<From(10, 2), From(11, 3)>>
Ret(t)  == [type |-> "ret", arg |-> R, rets |-> IF t < 30 THEN {2} ELSE {5}]
Leave(t) == <<To(IF t < 30 THEN 2 ELSE 5, Tm(t))>>
Go == [type |-> "jmp", arg |-> R, rets |-> {}]
If(a) == [type |-> "jnz", arg |-> a, rets |-> {}]

\* Blocks are numbered from 0.
From0(s) == [b \in 0 .. Len(s) - 1 |-> s[b + 1]]
Fn(s1, s2, phi, ins, jmp) ==
  LET tagged(b, s) == [n \in DOMAIN s |-> [s[n] EXCEPT !.tag = <<b, n>>]]
      g == [s1 |-> From0(s1), s2 |-> From0(s2), phi |-> From0(phi),
            ins |-> [b \in 0 .. Len(ins) - 1 |-> tagged(b, ins[b + 1])], jmp |-> From0(jmp)]
  IN  [s1 |-> g.s1, s2 |-> g.s2, phi |-> g.phi, ins |-> g.ins, jmp |-> g.jmp,
       fp |-> {t \in Temps(g) : t >= 30}, reg |-> {Id(ins[1][n].arg[1]) : n \in GroupAt(ins[1], 2) \cup GroupAt(ins[1], 3)}]
Phi(t, a) == [to |-> Tm(t), cls |-> "l", arg |-> a]

-----------------------------------------------------------------------------
\* One block under pressure, with or without a call or a division.
OneBlock ==
  UNION {{Fn(<<None>>, <<None>>, << << >> >>,
      <<Params \o <<Op(12, Tm(10), a, m)>> \o mid \o <<Op(14, b, Tm(12), m)>>
          \o last \o Leave(14)>>, <<Ret(14)>>) :
     a \in {Tm(11), Num(5)}, b \in {Tm(11), Tm(13)}, 
     mid \in {<<Op(13, Tm(11), Tm(12), 1)>>,
              CallG(13, Tm(12)), CallG(13, Tm(10)), Callee(13, Tm(10), Tm(11)),
              Div(13, Tm(12), Tm(11)), Div(13, Tm(10), Num(7)),
              <<Op(15, Tm(10), Tm(11), 0)>> \o CallG(13, Tm(15)) \o CallG(15, Tm(13))},
     last \in {<<Use(Tm(10), Tm(11), m)>>, <<Use(Tm(12), MemAt(10, 13), 1)>>,
               <<Use(Tm(13), Tm(10), m), Use(Tm(11), Tm(12), m)>>,
               <<Op(16, Tm(10), Tm(11), m), Use(Tm(13), Tm(12), m)>>}} : m \in 0 .. 2}

\* Values of both classes around calls.
Floats ==
  UNION {{Fn(<<None>>, <<None>>, << << >> >>,
      <<<<From(10, 2), From(30, 5), From(31, 6)>> \o <<Op(32, Tm(30), a, m)>> \o mid
          \o <<Use(Tm(30), Tm(31), m), Use(Tm(32), b, m)>> \o Leave(r)>>, <<Ret(r)>>) :
     a \in {Tm(31), MemAt(10, 0)}, b \in {Tm(33), Tm(10)}, r \in {10, 33},
     mid \in {CallF(33, Tm(32)), CallF(33, Tm(31)) \o CallF(34, Tm(33)),
              CallG(11, Tm(10)) \o CallF(33, Tm(30)),
              <<Op(33, Tm(32), Tm(31), m)>>}} : m \in 0 .. 2}

\* Two ways that meet, with phis and what lives on.
Branch ==
  UNION {{Fn(<<1, 3, 3, None>>, <<2, None, None, None>>,
      << << >>, << >>, << >>, phis >>,
      <<Params \o <<Op(12, Tm(10), Tm(11), m), Op(13, Tm(11), Tm(12), m), Use(Tm(12), Tm(13), m)>>,
        one, two, last \o <<Use(Tm(20), Tm(19 + Len(phis)), m)>> \o Leave(20)>>,
      <<If(R), Go, Go, Ret(20)>>) :
     one \in {<<Op(14, Tm(10), Tm(11), 1)>>, CallG(14, Tm(13)), <<Op(14, Tm(12), Tm(13), 0)>>},
     two \in {<<Op(15, Tm(13), Tm(13), 1)>>, CallG(15, Tm(12)) \o <<Use(Tm(10), Tm(15), 1)>>},
     phis \in {<<Phi(20, << <<1, Tm(14)>>, <<2, Tm(15)>> >>)>>,
               <<Phi(20, << <<1, Tm(14)>>, <<2, Num(40)>> >>),
                 Phi(21, << <<1, Tm(14)>>, <<2, Tm(15)>> >>)>>,
               <<Phi(20, << <<1, Tm(12)>>, <<2, Tm(13)>> >>),
                 Phi(21, << <<1, Tm(13)>>, <<2, Tm(12)>> >>)>>},
     last \in {<< >>, <<Use(Tm(20), Tm(10), 0)>>, <<Use(Tm(10), Tm(11), m), Use(Tm(13), Tm(12), m)>>}} : m \in {0, 2}}

\* A loop, of one block or more, with its own phis, and what lives through it.
Loops ==
  UNION {{Fn(<<1, 2, 1, None>>, <<None, 3, None, None>>,
      << << >>, phis, << >>, << >> >>,
      <<Params \o <<Op(12, Tm(10), Num(5), 0), Op(13, Tm(11), Tm(12), 1)>>,
        head, body, <<Use(Tm(20), a, m), Use(b, Tm(10), m)>> \o Leave(20)>>,
      <<Go, If(R), Go, Ret(20)>>) :
     a \in {Tm(13), Num(5)}, b \in {Tm(11), Tm(12)},
     head \in {<< >>, <<Use(Tm(20), Tm(12), 1)>>},
     body \in {<<Op(14, Tm(20), Tm(10), 1)>>, CallG(14, Tm(20)),
               <<Op(15, Tm(20), Tm(12), 0), Op(16, Tm(13), Tm(15), 0), Op(14, Tm(16), Tm(15), 0)>>},
     phis \in {<<Phi(20, << <<0, Tm(12)>>, <<2, Tm(14)>> >>)>>,
               <<Phi(20, << <<0, Tm(10)>>, <<2, Tm(21)>> >>),
                 Phi(21, << <<0, Num(40)>>, <<2, Tm(14)>> >>)>>,
               <<Phi(20, << <<0, Tm(10)>>, <<2, Tm(14)>> >>),
                 Phi(22, << <<0, Tm(12)>>, <<2, Tm(20)>> >>)>>}} : m \in {0, 2}}

\* A loop in a loop, with a jump that reads a register.
Nested ==
  UNION {{Fn(<<1, 2, 2, 1, None>>, <<None, None, 3, 4, None>>,
      << << >>, <<Phi(20, << <<0, Tm(10)>>, <<3, Tm(14)>> >>)>>,
         <<Phi(21, << <<1, Tm(20)>>, <<2, Tm(15)>> >>)>>, << >>, << >> >>,
      <<Params \o <<Op(12, Tm(10), Tm(11), 0)>>,
        outer, inner, <<Op(14, Tm(15), a, 1)>>, <<Use(Tm(12), Tm(11), m)>> \o Leave(14)>>,
      <<Go, Go, If(j), If(R), Ret(14)>>) :
     j \in {R, Tm(15)}, a \in {Num(5), Tm(20), Tm(12)},
     outer \in {<< >>, <<Use(Tm(20), Tm(11), 1)>>, <<Use(Tm(12), Tm(20), 1)>>},
     inner \in {<<Op(15, Tm(21), Num(5), 1)>>, CallG(15, Tm(21)),
                <<Op(16, Tm(21), Tm(10), 1), Op(15, Tm(16), Tm(21), 1)>>}} : m \in {0, 2}}

MCPrograms == OneBlock \cup Floats \cup Branch \cup Loops \cup Nested

\* A jump that reads a register, with all registers needed after it.
Jumps ==
  {Fn(<<1, None, None>>, <<2, None, None>>, << << >>, << >>, << >> >>,
      <<Params \o <<Op(12, Tm(10), Tm(11), 0), Op(13, Tm(10), Tm(11), 0)>> \o use,
        <<Op(14, Tm(10), Tm(11), 0), Op(15, Tm(14), Tm(12), 0)>> \o Leave(15),
        <<Op(16, Tm(11), Tm(12), 0), Op(17, Tm(16), Tm(10), 0)>> \o Leave(17)>>,
      <<If(Tm(13)), Ret(15), Ret(17)>>) :
     use \in {<< >>, <<Use(Tm(13), Num(5), 0), Use(Tm(13), Num(5), 0)>>}}
===============================================================================
