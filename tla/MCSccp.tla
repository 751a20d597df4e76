------------------------------- MODULE MCSccp -------------------------------
(***************************************************************************)
(* The functions with one of a few control flow graphs, a phi and an       *)
(* instruction at most in the blocks that matter.  Temporary 10 + b is the *)
(* phi of block b, 20 + b the result of its instruction.                   *)
(***************************************************************************)
EXTENDS Sccp, TLC

MCTemps == {11, 13, 20, 21}
Lits    == {1, 2, 3}         \* the values 0, 1 and 2
NoPhi   == << >>

Ins(ops, to, as) ==
  {<<[op |-> o, to |-> IF o = "store" THEN R ELSE to, arg |-> <<x, y>>]>> :
     o \in ops, x \in as, y \in as}

\* 0: goto 1;  1: x = phi, y = op, jnz 2 or 3;  2: store y, goto 1;  3: ret x
Loops(undef, ops) ==
  {[blks |-> 0 .. 3, jmp |-> (0 :> "jmp" @@ 1 :> "jnz" @@ 2 :> "jmp" @@ 3 :> "ret"),
    s1 |-> (0 :> 1 @@ 1 :> s[1] @@ 2 :> 1 @@ 3 :> None),
    s2 |-> (0 :> None @@ 1 :> s[2] @@ 2 :> None @@ 3 :> None),
    arg |-> (0 :> R @@ 1 :> c @@ 2 :> R @@ 3 :> 11),
    phi |-> (0 :> NoPhi @@ 2 :> NoPhi @@ 3 :> NoPhi @@
             1 :> <<[to |-> 11, arg |-> (0 :> a @@ 2 :> z)]>>),
    ins |-> (0 :> << >> @@ 1 :> i @@ 3 :> << >> @@
             2 :> <<[op |-> "store", to |-> R, arg |-> <<z, 2>>]>>)] :
   s \in {<<2, 3>>, <<3, 2>>}, c \in {11, 21}, a \in {1, 2} \cup undef,
   z \in {1, 11, 21} \cup undef, i \in Ins(ops, 21, {1, 2, 3, 11})}

\* 0: y = op, jnz 1 or 2;  1: goto 3;  2: jnz 3 or 3;  3: x = phi, jnz 4 or 5;
\* 4, 5: ret
Diamonds ==
  {[blks |-> 0 .. 5,
    jmp |-> (0 :> "jnz" @@ 1 :> "jmp" @@ 2 :> "jnz" @@ 3 :> "jnz" @@ 4 :> "ret" @@ 5 :> "ret"),
    s1 |-> (0 :> 1 @@ 1 :> 3 @@ 2 :> 3 @@ 3 :> 4 @@ 4 :> None @@ 5 :> None),
    s2 |-> (0 :> 2 @@ 1 :> None @@ 2 :> 3 @@ 3 :> 5 @@ 4 :> None @@ 5 :> None),
    arg |-> (0 :> c @@ 1 :> R @@ 2 :> d @@ 3 :> 13 @@ 4 :> 20 @@ 5 :> 13),
    phi |-> (0 :> NoPhi @@ 1 :> NoPhi @@ 2 :> NoPhi @@ 4 :> NoPhi @@ 5 :> NoPhi @@
             3 :> <<[to |-> 13, arg |-> (1 :> a @@ 2 :> b)]>>),
    ins |-> (0 :> i @@ 1 :> << >> @@ 2 :> << >> @@ 3 :> << >> @@ 4 :> << >> @@ 5 :> << >>)] :
   c \in {1, 3, 20}, d \in {2, 20}, a \in {1, 2, 20}, b \in {1, 3, 20},
   i \in Ins({"load", "div"}, 20, {1, 2, 3})}

\* 0: y = load, jnz 1 or 2;  1: x = phi, jnz 2 or 3;  2: x = phi, jnz 1 or 3
Crossed ==
  {[blks |-> 0 .. 3,
    jmp |-> (0 :> "jnz" @@ 1 :> "jnz" @@ 2 :> "jnz" @@ 3 :> "ret"),
    s1 |-> (0 :> 1 @@ 1 :> 2 @@ 2 :> 1 @@ 3 :> None),
    s2 |-> (0 :> 2 @@ 1 :> 3 @@ 2 :> 3 @@ 3 :> None),
    arg |-> (0 :> c @@ 1 :> d @@ 2 :> 13 @@ 3 :> 20),
    phi |-> (0 :> NoPhi @@ 3 :> NoPhi @@
             1 :> <<[to |-> 11, arg |-> (0 :> a @@ 2 :> 13)]>> @@
             2 :> <<[to |-> 13, arg |-> (0 :> b @@ 1 :> e)]>>),
    ins |-> (0 :> i @@ 1 :> << >> @@ 2 :> << >> @@ 3 :> << >>)] :
   c \in {2, 20}, d \in {11, 20}, a \in {1, 2}, b \in {1, 2}, e \in {11, 3, 20},
   i \in Ins({"load", "add"}, 20, {1, 2})}

MCPrograms    == Loops({Top}, {"load", "add"}) \cup Diamonds \cup Crossed
UndefPrograms == Loops({Top}, {"add"})

=============================================================================
