-------------------------------- MODULE Rega --------------------------------
(***************************************************************************)
(* The register allocation of one block: doblk(), dopm(), move() and the   *)
(* RMap operations of rega.c.  The block is walked from its end; cur says  *)
(* in which register every live temporary is at the current point.  Fixed  *)
(* registers (arguments and results of calls) are mapped to themselves.    *)
(*                                                                         *)
(* The instructions are chosen as the walk meets them, among those that    *)
(* the earlier passes can produce.  The register a temporary gets is any   *)
(* free one: hints and divpick() only choose among these.  A parallel move *)
(* is one step, as theorem Refinement of PmovProofs allows.                *)
(*                                                                         *)
(* need is about the emitted code alone: need[r] is the temporary whose    *)
(* value the code from here on expects in r, Nothing if it expects none,   *)
(* Bad if it expects two values, or one that was overwritten.              *)
(***************************************************************************)
EXTENDS Integers, FiniteSets

CONSTANTS
  Temps,       (* temporaries of one class                                 *)
  Regs,        (* the registers of its bank                                *)
  RSave,       (* T.rsave, those a call overwrites                         *)
  NoRef,       (* the R that stands for no operand                         *)
  Nothing, Bad (* see need                                                 *)

ASSUME BankAssumption  == RSave \subseteq Regs
\* A function has finitely many temporaries, a target finitely many registers.
ASSUME FiniteAssumption == IsFiniteSet(Temps) /\ IsFiniteSet(Regs)
ASSUME NamesAssumption ==
  /\ Temps \cap Regs = {}
  /\ {NoRef, Nothing, Bad} \cap (Temps \cup Regs) = {}

Names == Temps \cup Regs

VARIABLES
  pc,          (* "ins", "group", "clobber", "call" or "die"               *)
  cur,         (* the RMap                                                 *)
  need,        (* see above                                                *)
  m0,          (* the map dopm() starts from                               *)
  group,       (* the copies from registers it handles, source to result   *)
  call,        (* is there a call before them                              *)
  def,         (* the result registers of that call                        *)
  left         (* registers dopm() still calls move() for                  *)

dopmvars == <<m0, group, call, def, left>>
vars     == <<pc, cur, need, dopmvars>>

-----------------------------------------------------------------------------
(***************************************************************************)
(* RMap.  Its set b is Live(m) together with Used(m).                      *)
(***************************************************************************)
Live(m) == DOMAIN m
Used(m) == {m[t] : t \in Live(m)}

RAdd(m, t, r) == [x \in Live(m) \cup {t} |-> IF x = t THEN r ELSE m[x]]
RFreeAll(m, ts) == [x \in Live(m) \ ts |-> m[x]]
RFree(m, t) == RFreeAll(m, {t})

\* The maps that ralloc() of the temporaries ts, one after the other, can
\* give; none when pickreg() dies.
RAllocs(m, ts) ==
  LET new  == ts \ Live(m)
      free == Regs \ Used(m)
  IN  {[x \in Live(m) \cup new |-> IF x \in new THEN f[x] ELSE m[x]] :
         f \in {g \in [new -> free] : \A x, y \in new : g[x] = g[y] => x = y}}

\* Mutant: a copy without a result is mapped like the others.
MovesNoResult(m, r, to) ==
  LET m1   == IF to = NoRef THEN m ELSE RFree(m, to)
      user == {t \in Live(m1) : m1[t] = r}
      held == RAdd(RFreeAll(m1, user), NoRef, r)
  IN  {RAdd(RFree(m3, NoRef), to, r) : m3 \in RAllocs(held, user \ {r})}

\* Mutant: the result keeps its register while another one is found.
MovesLate(m, r, to) ==
  LET user == {t \in Live(m) : m[t] = r} \ {to}
      held == RAdd(RFreeAll(m, user), NoRef, r)
  IN  {RAdd(RFree(m3, NoRef), IF to = NoRef THEN r ELSE to, r) :
         m3 \in RAllocs(held, user \ {r})}

\* move(r, to, m): r is given to the result to, or to itself; who used r goes
\* to another register.
Moves(m, r, to) ==
  LET m1   == IF to = NoRef THEN m ELSE RFree(m, to)
      user == {t \in Live(m1) : m1[t] = r}
      m2   == RFreeAll(m1, user)
      held == RAdd(m2, NoRef, r)
  IN  {RAdd(RFree(m3, NoRef), IF to = NoRef THEN r ELSE to, r) :
         m3 \in RAllocs(held, user \ {r})}

-----------------------------------------------------------------------------
(***************************************************************************)
(* What an instruction put before the emitted code does to its needs.      *)
(***************************************************************************)
Both(a, b) == IF a = Nothing THEN b ELSE IF b \in {Nothing, a} THEN a ELSE Bad

\* it writes t to r
Write(nd, r, t) == [nd EXCEPT ![r] = IF @ \in {Nothing, t} THEN Nothing ELSE Bad]

\* it reads every t of ts in m[t]
ReadAll(nd, m, ts) ==
  [r \in Regs |->
     IF \E t \in ts : m[t] = r
     THEN Both(nd[r], CHOOSE t \in ts : m[t] = r)
     ELSE nd[r]]

\* Mutant: the copy goes the other way.
CopyBackwards(nd, d, s) == [nd EXCEPT ![d] = Both(nd[s], nd[d]), ![s] = Nothing]

\* it copies register s to register d
Copy(nd, d, s) == [nd EXCEPT ![s] = Both(nd[s], nd[d]), ![d] = Nothing]

\* it moves all at once what m maps to where m0 maps it; the results that
\* m0 does not map and that have a slot are stored
ParallelMove(nd, m, stored) ==
  LET moved(r) == {t \in Live(m) : m[t] = r /\ t \in Live(m0)}
      kept(r)  == IF \E t \in Live(m) \cap Live(m0) : m0[t] = r THEN Nothing ELSE nd[r]
      wanted(r) ==
        IF moved(r) = {} THEN kept(r)
        ELSE Both(kept(r), nd[m0[CHOOSE t \in moved(r) : TRUE]])
  IN  ReadAll([r \in Regs |-> wanted(r)], m, stored)

-----------------------------------------------------------------------------
\* The end of the block: any injective map of what is live out.
Init ==
  /\ pc = "ins"
  /\ \E out \in SUBSET Names :
       /\ Cardinality(out) <= Cardinality(Regs)
       /\ cur \in RAllocs([r \in out \cap Regs |-> r], out)
  /\ need = [r \in Regs |-> IF r \in Used(cur)
                            THEN CHOOSE t \in Live(cur) : cur[t] = r ELSE Nothing]
  /\ m0 = << >> /\ group = << >> /\ call = FALSE /\ def = {} /\ left = {}

\* spill() leaves no more live temporaries than registers
Fits(names) == Cardinality(names) <= Cardinality(Regs)

Die == /\ pc' = "die"
       /\ UNCHANGED <<cur, need, dopmvars>>

(***************************************************************************)
(* An instruction of doblk() that is neither a call nor a copy from a      *)
(* register: its result to, if any, leaves the map, its arguments enter it.*)
(* If the register of the result stays free, a temporary hinted to it may  *)
(* be moved there, with a copy before the instruction.  (A copy between    *)
(* equal registers is not emitted, and does nothing; nor is an instruction *)
(* with a result that is not in the map, which is dead.)                   *)
(***************************************************************************)
Emit(to, args, m2) ==
  LET rf == IF to = NoRef THEN NoRef ELSE cur[to]
      n1 == IF to = NoRef THEN need ELSE Write(need, rf, to)
  IN  \/ /\ cur' = m2
         /\ need' = ReadAll(n1, m2, args)
      \/ \E t \in Live(m2) \cap Temps :
           /\ to # NoRef
           /\ rf \notin Used(m2)
           /\ cur' = RAdd(m2, t, rf)
           /\ need' = Copy(ReadAll(n1, cur', args), m2[t], rf)

Ins(to, args) ==
  /\ pc = "ins"
  /\ to \in Live(cur) \cup {NoRef}
  /\ args \cap Regs \subseteq Live(cur) \ {to}
  /\ Fits((Live(cur) \ {to}) \cup args)
  /\ LET m1 == RFree(cur, to)
     IN  IF RAllocs(m1, args) = {} THEN Die
         ELSE /\ \E m2 \in RAllocs(m1, args) : Emit(to, args, m2)
              /\ UNCHANGED <<pc, dopmvars>>

-----------------------------------------------------------------------------
(***************************************************************************)
(* dopm(), for the copies g from registers to results, NoRef for a copy    *)
(* that only keeps the register; they come after a call when isCall, whose *)
(* results are in d.  The abi passes put them right after the call and     *)
(* define the arguments right before it, and spill() left room for the     *)
(* registers that are read, or all those that the call overwrites.         *)
(***************************************************************************)
Results(g) == {g[r] : r \in DOMAIN g} \ {NoRef}

Group(g, isCall, d) ==
  /\ \A r, q \in DOMAIN g : g[r] = g[q] /\ g[r] # NoRef => r = q
  /\ isCall => /\ DOMAIN g \subseteq RSave
               /\ \A r \in DOMAIN g : g[r] # NoRef => r \in d
  /\ ~ isCall => d = {}
  /\ Fits((Live(cur) \ Results(g)) \cup IF isCall THEN RSave ELSE DOMAIN g)
  /\ m0' = cur
  /\ group' = g /\ call' = isCall /\ def' = d
  /\ left' = DOMAIN g

StartGroup ==
  /\ pc = "ins"
  /\ Live(cur) \cap Regs = {}
  /\ \E srcs \in (SUBSET Regs) \ {{}} : \E g \in [srcs -> Temps \cup {NoRef}] :
       \E isCall \in BOOLEAN, d \in SUBSET srcs : Group(g, isCall, d)
  /\ pc' = "group"
  /\ UNCHANGED <<cur, need>>

MoveTo(r, to) ==
  IF Moves(cur, r, to) = {} THEN Die
  ELSE /\ cur' \in Moves(cur, r, to)
       /\ left' = left \ {r}
       /\ UNCHANGED <<pc, need, m0, group, call, def>>

GroupCopy(r) ==
  /\ pc = "group"
  /\ r \in left
  /\ MoveTo(r, group[r])

\* Mutant: no move() for the registers of T.rsave.
StartClobberNothing ==
  /\ pc = "group"
  /\ left = {}
  /\ pc' = "clobber"
  /\ UNCHANGED <<cur, need, m0, group, call, def, left>>

\* The registers the call overwrites must hold nothing that lives on.
StartClobber ==
  /\ pc = "group"
  /\ left = {}
  /\ pc' = "clobber"
  /\ left' = IF call THEN RSave \ def ELSE {}
  /\ UNCHANGED <<cur, need, m0, group, call, def>>

ClobberMove(r) ==
  /\ pc = "clobber"
  /\ r \in left
  /\ MoveTo(r, NoRef)

\* pmgen(), and the copies themselves: each reads its register.
EndGroup(slots) ==
  /\ pc = "clobber"
  /\ left = {}
  /\ slots \subseteq Results(group) \ Live(m0)
  /\ LET nd == ParallelMove(need, cur, slots)
         m  == RFreeAll(cur, Results(group))
         sources == DOMAIN group
         result(r) == {t \in Results(group) : group[r] = t}
     IN  /\ cur' = [x \in Live(m) \cup sources |-> IF x \in sources THEN x ELSE m[x]]
         /\ need' = [r \in Regs |->
                      IF r \in sources /\ nd[r] \in result(r) \cup {r} THEN r
                      ELSE nd[r]]
  /\ pc' = IF call THEN "call" ELSE "ins"
  /\ m0' = << >> /\ group' = << >> /\ call' = FALSE
  /\ UNCHANGED <<def, left>>

\* The call, with its arguments in args.
Call(args) ==
  /\ pc = "call"
  /\ args \subseteq RSave
  /\ Fits(Live(RFreeAll(cur, RSave \ args)))
  /\ cur' = RFreeAll(cur, RSave \ args)
  /\ need' = [r \in Regs |->
               IF r \notin RSave THEN need[r]
               ELSE IF need[r] # Nothing /\ ~ (r \in def /\ need[r] = r) THEN Bad
               ELSE IF r \in args THEN r ELSE Nothing]
  /\ pc' = "ins"
  /\ def' = {}
  /\ UNCHANGED <<m0, group, call, left>>

\* An instruction has two operands, of which an address has a base and an index.
Operands == 4

Next ==
  \/ \E to \in Names \cup {NoRef}, args \in SUBSET Names :
       Cardinality(args) <= Operands /\ Ins(to, args)
  \/ StartGroup
  \/ \E r \in Regs : GroupCopy(r) \/ ClobberMove(r)
  \/ StartClobber
  \/ \E slots \in SUBSET Temps : EndGroup(slots)
  \/ \E args \in SUBSET RSave : Call(args)

Spec == Init /\ [][Next]_vars

-----------------------------------------------------------------------------
TypeOK ==
  /\ pc \in {"ins", "group", "clobber", "call", "die"}
  /\ \E s \in SUBSET Names : cur \in [s -> Regs]
  /\ need \in [Regs -> Names \cup {Nothing, Bad}]
  /\ Live(m0) \subseteq Names
  /\ DOMAIN group \subseteq Regs /\ Results(group) \subseteq Temps
  /\ call \in BOOLEAN /\ def \subseteq Regs /\ left \subseteq Regs

\* No two live names share a register, and a fixed register in the map is
\* its own: the assertions of radd(), that dopm() works around by hand.
OneNameEach ==
  /\ \A x, y \in Live(cur) : cur[x] = cur[y] => x = y
  /\ \A r \in Live(cur) \cap Regs : cur[r] = r

\* What the emitted code expects in a register is what the map (while dopm
\* rebuilds it, the map it started from) has there: no instruction, moved
\* temporary, call or parallel move puts a value where another one is read.
NeedsMet ==
  LET m == IF pc \in {"group", "clobber"} THEN m0 ELSE cur
  IN  \A r \in Regs :
        need[r] = Nothing \/ (need[r] \in Live(m) /\ m[need[r]] = r)

\* Whatever is moved for, the map and the registers go on telling the same.
ValuesKept == OneNameEach /\ NeedsMet

\* "no more regs": as long as every point has at most as many live names as
\* registers, pickreg() finds one, also in the middle of a group of copies,
\* where old and new places are both taken.
NeverOut == pc # "die"

\* At a call, no temporary that lives on is in a register it overwrites.
CallSafe ==
  pc = "call" => \A t \in Live(cur) \cap Temps : cur[t] \notin RSave

-----------------------------------------------------------------------------
(***************************************************************************)
(* Why it works.  While dopm() goes on, a register that was moved for      *)
(* belongs to its result, or to itself; the temporaries of m0 that are not *)
(* results are still mapped; and all of this together fits the registers,  *)
(* because a result that is not handled yet stands for its source.         *)
(***************************************************************************)
InGroup == pc \in {"group", "clobber"}

\* What must have a register in the end, besides the temporaries kept.
Kept   == Live(m0) \ Results(group)
Room   == IF call THEN RSave ELSE DOMAIN group
Tag(r) == IF r \in DOMAIN group /\ group[r] # NoRef THEN group[r] ELSE r

Clobbered == IF call THEN RSave \ def ELSE {}
Placed == IF pc = "group" THEN DOMAIN group \ left
          ELSE DOMAIN group \cup (Clobbered \ left)

GroupShape ==
  InGroup =>
    /\ m0 \in [Live(m0) -> Regs] /\ Live(m0) \subseteq Temps
    /\ \A t, u \in Live(m0) : m0[t] = m0[u] => t = u
    /\ group \in [DOMAIN group -> Temps \cup {NoRef}]
    /\ \A r, q \in DOMAIN group : group[r] = group[q] /\ group[r] # NoRef => r = q
    /\ DOMAIN group \subseteq Room /\ def \subseteq DOMAIN group
    /\ call => \A r \in DOMAIN group : group[r] # NoRef => r \in def
    /\ left \subseteq IF pc = "group" THEN DOMAIN group ELSE Clobbered
    /\ Fits(Kept \cup Room)

GroupPlaces ==
  InGroup =>
    /\ Kept \subseteq Live(cur)
    /\ Live(cur) \subseteq Live(m0) \cup {Tag(r) : r \in Placed}
    /\ \A r \in Placed : Tag(r) \in Live(cur) /\ cur[Tag(r)] = r

\* At the call, each register it overwrites is its own, and only results are
\* read after it.
CallPlaces ==
  pc = "call" =>
    /\ def \subseteq RSave
    /\ \A r \in RSave : r \in Live(cur) /\ cur[r] = r
    /\ \A r \in Regs : need[r] \in Regs => need[r] \in def

RegInv == TypeOK /\ ValuesKept /\ NeverOut /\ GroupShape /\ GroupPlaces /\ CallPlaces

=============================================================================
