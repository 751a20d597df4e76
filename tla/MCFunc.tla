--------------------------------- MODULE MCFunc ---------------------------------
(***************************************************************************)
(* Families of small functions for the passes: every short sequence of     *)
(* accesses to two slots in one block, accesses spread over a branch and   *)
(* over a loop, blits from slot to slot, and clusters of phis and copies.  *)
(***************************************************************************)
EXTENDS Func

Fn(s1, s2, phi, ins, jmp) ==
  LET bs == 0 .. Len(s1) - 1
      tagged(b, n) == IF ins[b + 1][n].op \in {"op", "call", "argc"}
                      THEN [ins[b + 1][n] EXCEPT !.tag = <<b, n>>] ELSE ins[b + 1][n]
  IN  [s1 |-> [b \in bs |-> s1[b + 1]], s2 |-> [b \in bs |-> s2[b + 1]],
       phi |-> [b \in bs |-> phi[b + 1]],
       ins |-> [b \in bs |-> [n \in DOMAIN ins[b + 1] |-> tagged(b, n)]],
       jmp |-> [b \in bs |-> jmp[b + 1]], err |-> FALSE]
Ret(r) == [type |-> "ret", arg |-> r]
No == None

Op(t)         == Ins("op", "l", Tm(t), Num(1), Num(1))
See(t, u)     == Ins("op", "l", Tm(t), Tm(u), Num(1))
Alloc(t, n)   == Ins("alloc", "l", Tm(t), Num(n), R)
Add(t, u, n)  == Ins("add", "l", Tm(t), Tm(u), Num(n))
Store(op, v, p)   == Ins(op, "w", R, Tm(v), Tm(p))
Ld(op, c, t, p)   == Ins(op, c, Tm(t), Tm(p), R)
BlitOf(s, d, n)   == <<Ins("blit0", "w", R, Tm(s), Tm(d)), Ins("blit1", "w", R, Num(n), R)>>

\* One block: 1 and 2 are slots of eight bytes, 3 and 4 point four and two
\* bytes into slot 1, 5 is a value; three accesses, what they load is seen.
Entry == <<Alloc(1, 8), Alloc(2, 8), Add(3, 1, 4), Add(4, 1, 2), Op(5)>>
Writes ==
  {<<Store("storew", 5, 1)>>, <<Store("storew", 5, 3)>>, <<Store("storel", 5, 1)>>,
   <<Store("storeb", 5, 4)>>, <<Store("storel", 5, 2)>>, BlitOf(1, 2, 8), BlitOf(2, 1, 4)}
Reads(t) ==
  {<<Ld("loadsw", "l", t, 1), See(t + 1, t)>>, <<Ld("load", "l", t, 1), See(t + 1, t)>>,
   <<Ld("load", "l", t, 2), See(t + 1, t)>>, <<Ld("loaduh", "w", t, 4), See(t + 1, t)>>}

OneBlock0 ==
  {Fn(<<No>>, <<No>>, << << >> >>, << Entry \o a \o b \o c \o d >>, <<Ret(R)>>) :
     a \in Writes, b \in Writes, c \in {<<Store("storeb", 5, 4)>>, BlitOf(1, 2, 8)} \cup Reads(6),
     d \in Reads(8)}

\* The same accesses on the sides of a branch and round a loop.
Few == {<< >>, <<Store("storew", 5, 3)>>, <<Store("storel", 5, 1)>>, BlitOf(1, 2, 8)}
Branch0 ==
  {Fn(<<1, 3, 3, No>>, <<2, No, No, No>>, [n \in 1 .. 4 |-> << >>],
      <<Entry \o a, b, c, d>>, <<Ret(Tm(5)), Ret(R), Ret(R), Ret(R)>>) :
     a \in {<< >>, <<Store("storel", 5, 1)>>, <<Store("storel", 5, 2)>>},
     b \in Few, c \in Few, d \in Reads(8)}
Loop0 ==
  {Fn(<<1, 2, 1, No>>, <<No, 3, No, No>>, [n \in 1 .. 4 |-> << >>],
      <<Entry \o a, d1 \o b, <<See(12, 5)>> \o c, d2>>, <<Ret(R), Ret(Tm(5)), Ret(R), Ret(R)>>) :
     a \in {<<Store("storel", 5, 1)>>, <<Store("storel", 5, 1), Store("storel", 5, 2)>>},
     b \in Few, c \in {<< >>, <<Store("storel", 12, 1)>>, <<Store("storeb", 12, 4)>>},
     d1 \in Reads(6), d2 \in {<< >>, <<Ld("load", "l", 8, 2), See(9, 8)>>}}

\* Slots of 16 bytes that are filled, copied on at an offset, and passed.
Chain ==
  {Fn(<<No>>, <<No>>, << << >> >>,
      << <<Alloc(1, 16), Alloc(2, 16), Alloc(3, 16), Add(4, 1, 8), Add(5, 1, p), Add(6, 2, q),
           Add(7, 3, r), Op(8), Op(9), Store("storel", 8, 1), Store("storel", 9, 4)>> \o
         BlitOf(5, 6, n) \o more \o BlitOf(6, 7, m) \o
         <<Ins("argc", "l", R, Num(1), Tm(3)), Ins("call", "w", R, Num(1), R)>> >>,
      <<[type |-> k, arg |-> IF k = "retc" THEN Tm(2) ELSE R]>>) :
     p \in {0, 2}, q \in {0, 1, 4}, r \in {0, 3}, n \in {8, 11}, m \in {7},
     k \in {"ret", "retc"},
     more \in {<< >>, <<Store("storel", 9, 1), Ld("load", "l", 10, 1), See(11, 10)>>}}

\* Two slots, each filled from a global in one block of a loop and passed in
\* another.
Fill(s, o) == <<Ins("blit0", "w", R, Sym(100, o), Tm(s)), Ins("blit1", "w", R, Num(8), R)>>
Pass1(s)   == <<Ins("argc", "l", R, Num(1), Tm(s)), Ins("call", "w", R, Num(1), R)>>
When(c, is) == IF c THEN is ELSE << >>
Ranges ==
  {Fn(<<1, 2, 1, No>>, <<No, 3, No, No>>, [n \in 1 .. 4 |-> << >>],
      [n \in 1 .. 4 |-> When(n = 1, <<Alloc(1, 8), Alloc(2, 8), Op(3)>>) \o
         When(w1 = n, Fill(1, 0)) \o When(r2 = n, Pass1(2)) \o
         When(w2 = n, Fill(2, 8)) \o When(r1 = n, Pass1(1))],
      <<Ret(R), Ret(Tm(3)), Ret(R), Ret(R)>>) :
     w1 \in 1 .. 4, r1 \in 1 .. 4, w2 \in 1 .. 4, r2 \in 2 .. 4}

\* A large slot that comes after a small one is in its place.
Late ==
  {Fn(<<No>>, <<No>>, << << >> >>,
      << <<Alloc(1, 4), Op(3), Store("storew", 3, 1)>> \o a \o
         <<Alloc(2, 16)>> \o Fill(2, 0) \o Pass1(2) >>, <<Ret(R)>>) :
     a \in {Pass1(1), << >>}}

\* Addresses that get out, by a call, in memory or by a phi, and loads after.
Outlets == {<<Ins("call", "w", R, Num(1), Tm(1))>>,
            <<Store("storel", 1, 2), Ins("call", "w", R, Num(1), Tm(2))>>,
            <<Store("storel", 3, 7), Ins("call", "w", R, Num(1), R)>>,
            <<Ins("or", "l", Tm(10), Tm(1), Num(0)), Store("storel", 5, 10)>>,
            <<Ins("call", "w", R, Num(1), R)>>}
Escape ==
  {Fn(<<1, No>>, <<No, No>>, << << >>, IF phi THEN
         <<[to |-> Tm(11), cls |-> "l", arg |-> << <<0, Tm(1)>> >>]>> ELSE << >> >>,
      <<Entry \o <<Ins("par", "l", Tm(7), R, R), Store("storel", 5, 1), Store("storew", 5, 7)>> \o a,
        (IF phi THEN <<Store("storew", 5, 11)>> ELSE << >>) \o b \o
        <<Ld("load", "l", 8, 1), See(9, 8), Ins("load", "l", Tm(12), Sym(100, 0), R), See(13, 12)>> >>,
      <<Ret(R), Ret(R)>>) :
     phi \in BOOLEAN, a \in Outlets, b \in Outlets}

\* Extensions of extensions and of short loads.
Exts == {"extsb", "extub", "extsh", "extuh", "extsw", "extuw"}
Widths ==
  {Fn(<<No>>, <<No>>, << << >> >>,
      << <<Alloc(1, 8), Op(2), Store("storel", 2, 1),
           IF a[1] = "ext" THEN Ins(a[2], c, Tm(3), Tm(2), R)
           ELSE Ins(a[2], c, Tm(3), Sym(100, 0), R),
           Ins(e, d, Tm(4), Tm(3), R), See(5, 4), Ld("load", "l", 6, 1), See(7, 6)>> >>,
      <<Ret(Tm(4))>>) :
     a \in {<<"ext", e>> : e \in Exts} \cup {<<"load", l>> : l \in DOMAIN LoadBytes},
     c \in {"w", "l"}, d \in {"w", "l"}, e \in Exts}

\* Two phis round a branch in a loop, of each other, copies, arithmetic that
\* copies and two values.
Ph(t, as) == <<[to |-> Tm(t), cls |-> "l", arg |-> as]>>
Phi2 ==
  {Fn(<<1, 2, 4, 4, 1, No>>, <<No, 3, No, No, 5, No>>,
      << << >>, Ph(3, << <<0, Tm(a)>>, <<4, Tm(b)>> >>), << >>, << >>,
         Ph(4, << <<2, Tm(c)>>, <<3, Tm(d)>> >>), << >> >>,
      << <<Op(1), Op(2)>>, <<Ins("copy", "l", Tm(5), Tm(3), R)>>, <<See(6, 3)>>,
         <<Ins(e[1], "l", Tm(7), Tm(3), Num(e[2]))>>, <<See(8, 4)>>, <<See(9, 4), See(10, 3)>> >>,
      <<Ret(R), Ret(Tm(1)), Ret(R), Ret(R), Ret(Tm(2)), Ret(Tm(3))>>) :
     a \in {1}, b \in {1, 2, 3, 4, 5}, c \in {1, 2, 3, 5, 6}, d \in {1, 3, 7},
     e \in {"mul", "div", "udiv"} \X {1} \cup {"sub", "xor", "sar"} \X {0}}

\* A slot that is stored to and loaded in one size only, on a branch.
StoreOp == (1 :> "storeb") @@ (2 :> "storeh") @@ (4 :> "storew") @@ (8 :> "storel")
LoadOps == (1 :> {"loadsb", "loadub"}) @@ (2 :> {"loadsh", "loaduh"}) @@
           (4 :> {"load", "loadsw", "loaduw"}) @@ (8 :> {"load"})
Uniform1(sz, op, c, more) ==
  Fn(<<1, 2, No>>, <<2, No, No>>, [n \in 1 .. 3 |-> << >>],
     << <<Alloc(1, 8), Op(2), Op(3), Store(StoreOp[sz], 2, 1)>>, more,
        <<Ld(op, c, 4, 1), See(5, 4), Ld(op, c, 6, 1)>> >>, <<Ret(Tm(2)), Ret(R), Ret(Tm(6))>>)
Slots1 ==
  UNION {UNION {{Uniform1(sz, op, c, <<Store(StoreOp[sz], 3, 1)>>) :
                   c \in IF op = "load" THEN {IF sz = 8 THEN "l" ELSE "w"} ELSE {"w", "l"}} :
                  op \in LoadOps[sz]} : sz \in {1, 2, 4, 8}}
\* promote() makes a copy of a word that should be extended.
WordExtended(f) == \E i \in ToSet(f.ins[2]) : i.op \in {"loadsw", "loaduw"} /\ i.cls = "l"
PromoteBug == {f \in Slots1 : WordExtended(f)}
Slots == Slots1 \ PromoteBug

\* A byte of a half that was stored, extended as a half (load.c:299).
MaskBug ==
  {Fn(<<No>>, <<No>>, << << >> >>,
      << <<Alloc(1, 8), Op(2), Op(3), Add(4, 1, 1), Add(5, 1, 2), Store("storel", 2, 1),
           Store("storeb", 2, 5), Store("storeh", 3, 1), Ld("loaduh", "w", 6, 4), See(7, 6)>> >>,
      <<Ret(R)>>)}
\* A slot goes round a loop and is stored to through a phi, whose argument is
\* defined further on (alias.c:149).
BackedgeBug ==
  {Fn(<<1, 2, 1, No>>, <<No, 3, No, No>>,
      << << >>, <<[to |-> Tm(4), cls |-> "l", arg |-> << <<0, Sym(100, 0)>>, <<2, Tm(6)>> >>]>>,
         << >>, << >> >>,
      << <<Op(2), Op(3), Alloc(1, 8)>>,
         <<Store("storel", 2, 1), Store("storel", 3, 4), Ld("load", "l", 5, 1), See(7, 5)>>,
         <<Add(6, 1, 0)>>, << >> >>, <<Ret(R), Ret(Tm(2)), Ret(R), Ret(R)>>)}
\* A slot that is read in a loop of one block (mem.c:299).
SelfLoopBug ==
  {Fn(<<1, 1, No>>, <<No, 2, No>>, << << >>, << >>, << >> >>,
      << <<Op(2), Alloc(1, 8), Add(3, 1, 4), Store("storel", 2, 1)>>,
         <<Ins("argc", "l", R, Num(1), Tm(1)), Ins("call", "w", R, Num(1), R)>>, << >> >>,
      <<Ret(R), Ret(Tm(2)), Ret(R)>>)}

\* promote() refuses a slot that is read and never stored to.
OneBlock == {f \in OneBlock0 : ~ Promote(f).err}
Branch   == {f \in Branch0 : ~ Promote(f).err}
Loop     == {f \in Loop0 : ~ Promote(f).err}

MCPrograms == OneBlock \cup Branch \cup Loop \cup Chain \cup Ranges \cup Late \cup Slots \cup Escape \cup Widths \cup Phi2
MCGlobals  == {<<100, n>> : n \in 0 .. 15}
=================================================================================
