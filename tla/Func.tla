---------------------------------- MODULE Func ----------------------------------
(***************************************************************************)
(* The optimisation passes in the order of func() of main.c: promotion of  *)
(* slots, alias analysis, load elimination, alias analysis again, slot     *)
(* coalescing, copy elimination and the expansion of blits, each on what   *)
(* the pass before it left.  ssa() and fold() stand between them and have  *)
(* modules of their own: they leave the inputs here as they are, and a     *)
(* function that promote() takes out of ssa form, for ssa() to bring back, *)
(* goes no further.                                                        *)
(*                                                                         *)
(* After any pass that changed it, the function may be executed beside the *)
(* one that came in.                                                       *)
(***************************************************************************)
EXTENDS Copy

CONSTANTS
  Programs,      (* the functions, checked and in reverse postorder          *)
  Globals        (* the bytes of memory that callees can reach                *)

VARIABLES
  given,         (* the function that came in                                *)
  pc,            (* the next pass, "end", "run" or "abort"                   *)
  fn, al,        (* the function, and the records of fillalias()             *)
  par,           (* what the parameters are                                  *)
  at,            (* the last block, and the one that runs next               *)
  x, x2          (* the execution of the given function, and of fn           *)

vars == <<given, pc, fn, al, par, at, x, x2>>

After == [promote |-> "alias", alias |-> "loadopt", loadopt |-> "realias",
          realias |-> "coalesce", coalesce |-> "copy", copy |-> "simpl", simpl |-> "end"]

Top == Max({TopTemp(given), TopTemp(fn)})

Init ==
  /\ given \in Programs
  /\ pc = "promote" /\ fn = given
  /\ al = << >> /\ par = Undefined /\ at = <<None, 0>> /\ x = << >> /\ x2 = << >>

\* Every temporary has one definition.
OneDef(f) == \A t \in Temps(f) :
               Cardinality(DefIns(f, t)) +
               Cardinality({b \in Blocks(f) : \E p \in ToSet(f.phi[b]) : p.to = Tm(t)}) <= 1

Pass(name, f, next) ==
  /\ pc = name
  /\ fn' = f
  /\ pc' = IF f.err THEN "abort" ELSE next
  /\ UNCHANGED <<given, al, par, at, x, x2>>

\* A slot that is stored to twice becomes a temporary with two definitions:
\* then ssa() comes next, and is not done here.
PromotePass  == \E f \in {Promote(fn)} :
                  Pass("promote", f, IF OneDef(f) THEN After["promote"] ELSE "ssa")
LoadPass     == Pass("loadopt", LoadOpt(fn, al), After["loadopt"])
CoalescePass == Pass("coalesce", Coalesce(fn, al), After["coalesce"])
CopyPass     == Pass("copy", CopyElim(fn), After["copy"])
SimplPass    == Pass("simpl", Simpl(fn), After["simpl"])

AliasPass ==
  /\ pc \in {"alias", "realias"}
  /\ al' = FillAlias(fn) /\ pc' = After[pc]
  /\ UNCHANGED <<given, fn, par, at, x, x2>>

-----------------------------------------------------------------------------
(***************************************************************************)
(* Executions.                                                             *)
(***************************************************************************)
\* A parameter is the address of a global, when the function has one.
Pars == IF \E i \in UNION {ToSet(given.ins[b]) : b \in Blocks(given)} : i.op = "par"
        THEN {Addr(c[1], 0) : c \in Globals} ELSE {Undefined}

\* The passes that come after one that changed the function, and after what
\* fillalias() said of it.
Changed == {"ssa", "loadopt", "coalesce", "copy", "simpl", "end"}

Begin ==
  /\ pc \in Changed /\ pc' = "run"
  /\ par' \in Pars
  /\ x' = Start(given, Top, Globals) /\ x2' = Start(fn, Top, Globals)
  /\ UNCHANGED <<given, fn, al, at>>

\* A block of each function, and any of its successors next.
Step ==
  /\ pc = "run" /\ at[2] # None /\ ~ x.ub
  /\ x'  = RunBlock(par, [x EXCEPT !.obs = << >>], given, at[1], at[2])
  /\ x2' = RunBlock(par, [x2 EXCEPT !.obs = << >>], fn, at[1], at[2])
  /\ \E s \in Succs(given, at[2]) \cup (IF Succs(given, at[2]) = {} THEN {None} ELSE {}) :
       at' = <<at[2], s>>
  /\ UNCHANGED <<given, pc, fn, al, par>>

Next == \/ PromotePass \/ AliasPass \/ LoadPass \/ CoalescePass \/ CopyPass \/ SimplPass
        \/ Begin \/ Step

Spec == Init /\ [][Next]_vars

-----------------------------------------------------------------------------
\* Blits stay pairs.
TypeOK ==
  /\ pc \in DOMAIN After \cup Changed \cup {"run", "abort"}
  /\ Blocks(fn) = Blocks(given) /\ fn.s1 = given.s1 /\ fn.s2 = given.s2
  /\ at \in (Blocks(fn) \cup {None}) \X (Blocks(fn) \cup {None})
  /\ \A b \in Blocks(fn) : \A n \in DOMAIN fn.ins[b] :
       fn.ins[b][n].op = "blit1" => n > 1 /\ fn.ins[b][n - 1].op = "blit0"

Running == pc = "run" /\ ~ x.ub

\* After each pass, whatever way the function runs, the values that leave it,
\* as operands of what the passes do not know or as results, are those of the
\* function given.
SameValues ==
  Running =>
    /\ SameTags(x.obs, x2.obs)
    /\ \A n \in DOMAIN x.obs : \A k \in 1 .. 2 : SameValue(x.obs[n][2][k], x2.obs[n][2][k])

\* And so is the memory that callees and callers see.
SameBytes ==
  Running =>
    /\ ~ x2.ub /\ SameTags(x.obs, x2.obs)
    /\ \A n \in DOMAIN x.obs : SameMemory(x.obs[n][2][3], x2.obs[n][2][3])

\* What fillalias() says of addresses holds whenever the function runs: where
\* they point, that no callee reaches a slot that is not let out, and that
\* only the bytes it lists were ever written.
AliasRight ==
  Running =>
    \A t \in DOMAIN al :
      al[t].type \in Stack =>
        LET v == x.env[t]
            s == al[t].slot
        IN  /\ v # Undefined => IsAddr(v) /\ Base(v) = s /\ Off(v) = al[t].off
            /\ al[s].type = "Loc" =>
                 /\ s \notin x.out
                 /\ \A o \in AllBits : <<s, o>> \in DOMAIN x.mem /\ x.mem[<<s, o>>] # UndefByte
                                        => o \in al[s].m

\* No assertion of the passes fails and no error of theirs is printed.
NoAbort == pc # "abort"

\* The definition of every operand is on all ways to it.
DefinedBefore(f, t, b, n) ==
  LET d == BlockOf(f, t)
  IN  /\ t \in Temps(f)
      /\ IF d = b THEN \/ \E p \in ToSet(f.phi[b]) : p.to = Tm(t)
                       \/ \E k \in 1 .. n - 1 : f.ins[b][k].to = Tm(t)
         ELSE Dom(f, d, b)

\* Every pass after ssa() leaves the function in ssa form: what loadopt(),
\* coalesce(), copy() and simpl() insert, rename and remove gives no temporary
\* a second definition and takes none from before a use.
SsaKept ==
  pc \in (DOMAIN After \ {"promote"}) \cup {"end"} =>
    /\ OneDef(fn)
    /\ \A b \in Blocks(fn) :
         /\ \A n \in DOMAIN fn.ins[b] : \A k \in 1 .. 2 :
              IsTmp(fn.ins[b][n].arg[k]) => DefinedBefore(fn, Id(fn.ins[b][n].arg[k]), b, n)
         /\ IsTmp(fn.jmp[b].arg) =>
              DefinedBefore(fn, Id(fn.jmp[b].arg), b, Len(fn.ins[b]) + 1)
         /\ \A p \in ToSet(fn.phi[b]) : \A a \in ToSet(p.arg) :
              IsTmp(a[2]) => DefinedBefore(fn, Id(a[2]), a[1], Len(fn.ins[a[1]]) + 1)
=================================================================================
