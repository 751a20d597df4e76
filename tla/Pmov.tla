-------------------------------- MODULE Pmov --------------------------------
(***************************************************************************)
(* The parallel moves of the register allocator: pmadd(), pmgen() and the  *)
(* recursive pmrec() of rega.c.  A parallel move gives several locations   *)
(* the values that several locations had before, all at once; pmgen turns  *)
(* it into copies and swaps that run one after the other.                  *)
(*                                                                         *)
(* The recursion is run step by step: cur is the move pmrec was just       *)
(* called for, stk the moves whose calls wait for their callee.  The code  *)
(* is emitted from its end to its beginning, so every instruction runs     *)
(* before those emitted so far.  Two functions say what these do:          *)
(*   from[x]  where the value x ends up with was when they start;          *)
(*   wid[x]   how wide the narrowest instruction is that carried it.       *)
(***************************************************************************)
EXTENDS Integers, Sequences

CONSTANTS
  Regs,        (* registers of one bank                                    *)
  Slots,       (* spill slots                                              *)
  Sources,     (* what the moves read: locations, immediates of phis       *)
  MaxMoves     (* Tmp0, the size of pm[]                                   *)

Locs == Regs \cup Slots

ASSUME MovesAssumption == MaxMoves \in Nat

Classes == {0, 1}            \* Kw and Kl, or Ks and Kd
Moves   == [src : Sources, dst : Locs, cls : Classes]
None    == 0                 \* the -1 that pmrec returns outside of a cycle

VARIABLES
  pc,          (* "add", "scan", "call", "return" or "done"                *)
  pm,          (* the moves; npm is Len(pm)                                *)
  status,      (* PMStat of every move                                     *)
  cur, stk,    (* the activation that runs, and those that wait            *)
  k,           (* the class every activation under one root ors into       *)
  c,           (* what the last activation returned                        *)
  from, wid,   (* what the code emitted so far does                        *)
  swapped      (* the operands of its swaps                                *)

calls   == <<cur, stk, k, c>>
emitted == <<from, wid, swapped>>
vars    == <<pc, pm, status, calls, emitted>>

Max2(x, y) == IF x > y THEN x ELSE y
Min2(x, y) == IF x < y THEN x ELSE y

Init ==
  /\ pc = "add"
  /\ pm = << >> /\ status = << >>
  /\ cur = None /\ stk = << >> /\ k = 0 /\ c = None
  /\ from = [x \in Locs |-> x]
  /\ wid = [x \in Locs |-> 1]
  /\ swapped = {}

Index == 1..Len(pm)

-----------------------------------------------------------------------------
(***************************************************************************)
(* emit() of the two instructions, in front of the code emitted so far.    *)
(***************************************************************************)
EmitCopy(cl, d, s) ==
  /\ from' = [x \in Locs |-> IF from[x] = d THEN s ELSE from[x]]
  /\ wid' = [x \in Locs |-> IF from[x] = d THEN Min2(wid[x], cl) ELSE wid[x]]
  /\ UNCHANGED swapped

EmitSwap(cl, a, b) ==
  /\ from' = [x \in Locs |-> IF from[x] = a THEN b
                             ELSE IF from[x] = b THEN a ELSE from[x]]
  /\ wid' = [x \in Locs |->
               IF from[x] \in {a, b} THEN Min2(wid[x], cl) ELSE wid[x]]
  /\ swapped' = swapped \cup {a, b}

-----------------------------------------------------------------------------
(***************************************************************************)
(* pmadd().  Its callers give every destination once: the registers of a   *)
(* map, and the slots of different temporaries, are different.             *)
(***************************************************************************)
PmAdd(m) ==
  /\ pc = "add"
  /\ Len(pm) < MaxMoves
  /\ \A i \in Index : pm[i].dst # m.dst
  /\ pm' = Append(pm, m)
  /\ UNCHANGED <<pc, status, calls, emitted>>

PmGen ==
  /\ pc = "add"
  /\ pc' = "scan"
  /\ status' = [i \in Index |-> "ToMove"]
  /\ UNCHANGED <<pm, calls, emitted>>

\* The loop of pmgen: the next call is for the first move still to do.
Root(i) ==
  /\ pc = "scan"
  /\ status[i] = "ToMove"
  /\ \A j \in 1..(i - 1) : status[j] # "ToMove"
  /\ pc' = "call"
  /\ cur' = i /\ stk' = << >> /\ k' = pm[i].cls
  /\ UNCHANGED <<pm, status, c, emitted>>

Finish ==
  /\ pc = "scan"
  /\ \A i \in Index : status[i] # "ToMove"
  /\ pc' = "done"
  /\ UNCHANGED <<pm, status, calls, emitted>>

-----------------------------------------------------------------------------
(***************************************************************************)
(* pmrec(status, i, k), from the call to a return or to its own call.      *)
(***************************************************************************)
IsNoop(m) == m.src = m.dst

\* The move that overwrites what move i reads, if there is one.
Definers(i) == {j \in Index : pm[j].dst = pm[i].src}

Return(i, r) ==
  /\ pc' = "return"
  /\ status' = [status EXCEPT ![i] = "Moved"]
  /\ c' = r
  /\ UNCHANGED <<pm, cur, stk>>

\* Mutant: the classes are added.
JoinedSum(i) == k + pm[i].cls

\* k ored with the class of move i
Joined(i) == Max2(k, pm[i].cls)

\* Mutant: the status is not set.
SkipNoopToMove(i) ==
  /\ pc = "call" /\ cur = i
  /\ IsNoop(pm[i])
  /\ pc' = "return" /\ c' = None
  /\ UNCHANGED <<pm, status, cur, stk, k, emitted>>

SkipNoop(i) ==
  /\ pc = "call" /\ cur = i
  /\ IsNoop(pm[i])
  /\ Return(i, None)
  /\ UNCHANGED <<k, emitted>>

CopyNow(i) ==
  /\ pc = "call" /\ cur = i
  /\ ~ IsNoop(pm[i])
  /\ \A j \in Definers(i) : status[j] = "Moved"
  /\ k' = Joined(i)
  /\ EmitCopy(pm[i].cls, pm[i].dst, pm[i].src)
  /\ Return(i, None)

\* Mutant: the swap has the class of its own move.
StartCycleOwnClass(i) ==
  /\ pc = "call" /\ cur = i
  /\ ~ IsNoop(pm[i])
  /\ \E j \in Definers(i) :
       /\ status[j] = "Moving"
       /\ k' = Joined(i)
       /\ EmitSwap(pm[i].cls, pm[i].src, pm[i].dst)
       /\ Return(i, j)

StartCycle(i) ==
  /\ pc = "call" /\ cur = i
  /\ ~ IsNoop(pm[i])
  /\ \E j \in Definers(i) :
       /\ status[j] = "Moving"
       /\ k' = Joined(i)
       /\ EmitSwap(Joined(i), pm[i].src, pm[i].dst)
       /\ Return(i, j)

Recurse(i) ==
  /\ pc = "call" /\ cur = i
  /\ ~ IsNoop(pm[i])
  /\ \E j \in Definers(i) :
       /\ status[j] = "ToMove"
       /\ cur' = j
  /\ status' = [status EXCEPT ![i] = "Moving"]
  /\ stk' = Append(stk, i)
  /\ k' = Joined(i)
  /\ UNCHANGED <<pc, pm, c, emitted>>

(***************************************************************************)
(* The rest of an activation, with what its callee returned in c.          *)
(***************************************************************************)
Pop == stk' = SubSeq(stk, 1, Len(stk) - 1)

Resume(i, r) ==
  /\ Pop
  /\ status' = [status EXCEPT ![i] = "Moved"]
  /\ c' = r
  /\ UNCHANGED <<pc, pm, cur, k>>

Waiting(i) == pc = "return" /\ stk # << >> /\ i = stk[Len(stk)]

EndCycle(i) ==
  /\ Waiting(i)
  /\ c = i
  /\ Resume(i, None)
  /\ UNCHANGED emitted

SwapOn(i) ==
  /\ Waiting(i)
  /\ c # i /\ c # None
  /\ EmitSwap(k, pm[i].src, pm[i].dst)
  /\ Resume(i, c)

\* Mutant: a swap where a copy is due.
CopyBackSwapped(i) ==
  /\ Waiting(i)
  /\ c = None
  /\ EmitSwap(k, pm[i].src, pm[i].dst)
  /\ Resume(i, None)

CopyBack(i) ==
  /\ Waiting(i)
  /\ c = None
  /\ EmitCopy(pm[i].cls, pm[i].dst, pm[i].src)
  /\ Resume(i, None)

\* The outermost activation returns to pmgen, which ignores what it returns.
BackToScan ==
  /\ pc = "return"
  /\ stk = << >>
  /\ pc' = "scan"
  /\ UNCHANGED <<pm, status, calls, emitted>>

Next ==
  \/ \E m \in Moves : PmAdd(m)
  \/ PmGen
  \/ Finish
  \/ BackToScan
  \/ \E i \in Index :
       Root(i) \/ SkipNoop(i) \/ CopyNow(i) \/ StartCycle(i) \/ Recurse(i)
         \/ EndCycle(i) \/ SwapOn(i) \/ CopyBack(i)

\* pmgen is sequential code that nothing suspends.
Spec == Init /\ [][Next]_vars /\ WF_vars(Next)

-----------------------------------------------------------------------------
Statuses == {"ToMove", "Moving", "Moved"}

TypeOK ==
  /\ pc \in {"add", "scan", "call", "return", "done"}
  /\ pm \in Seq(Moves) /\ Len(pm) <= MaxMoves
  /\ pc # "add" => status \in [Index -> Statuses]
  /\ cur \in Index \cup {None} /\ c \in Index \cup {None}
  /\ stk \in Seq(Index)
  /\ k \in Classes
  /\ from \in [Locs -> Locs \cup Sources]
  /\ wid \in [Locs -> Classes]
  /\ swapped \subseteq Locs

-----------------------------------------------------------------------------
(***************************************************************************)
(* Why it works.  Chain is about the activations, Effect about the code.   *)
(***************************************************************************)
Top        == stk[Len(stk)]
IsMoved(i) == status[i] = "Moved"
InCycle    == pc = "return" /\ c # None

\* The waiting activations are the Moving moves, each once, and every one
\* reads what the next one, in the end the running one, overwrites.
Chain ==
  /\ pc \notin {"call", "return"} => stk = << >>
  /\ \A i, j \in Index : pm[i].dst = pm[j].dst => i = j
  /\ pc = "call" =>
       /\ cur \in Index /\ status[cur] = "ToMove"
       /\ stk # << >> => pm[Top].src = pm[cur].dst
  /\ pc = "done" => \A i \in Index : IsMoved(i)
  /\ pc # "add" =>
       \A i \in Index :
         status[i] = "Moving" <=> \E n \in 1..Len(stk) : stk[n] = i
  /\ \A n \in 1..Len(stk) :
       /\ ~ IsNoop(pm[stk[n]])
       /\ \A p \in 1..Len(stk) : stk[n] = stk[p] => n = p
       /\ n < Len(stk) => pm[stk[n]].src = pm[stk[n + 1]].dst
  /\ pc = "return" /\ stk # << >> =>
       \E j \in Index : IsMoved(j) /\ pm[j].dst = pm[Top].src
  /\ InCycle => c \in Index /\ status[c] = "Moving"

\* The moves that are Moved are done, and they are closed under "overwrites
\* what it reads", but for the move c of an open cycle: its destination
\* holds what the next activation reads, and no move done reads that.
Effect ==
  pc # "add" =>
    /\ \A i \in Index : IsMoved(i) => from[pm[i].dst] = pm[i].src
    /\ \A x \in Locs :
         \/ \E i \in Index : IsMoved(i) /\ pm[i].dst = x
         \/ (InCycle /\ x = pm[c].dst)
         \/ from[x] = x
    /\ \A i, j \in Index :
         IsMoved(i) /\ pm[i].src = pm[j].dst =>
           IsMoved(j) \/ (InCycle /\ j = c)
    /\ InCycle =>
         /\ from[pm[c].dst] = pm[Top].src
         /\ \A i \in Index : IsMoved(i) => pm[i].src # pm[Top].src

\* The classes: k covers every activation under the root, and the swaps of
\* an open cycle carry the value of its destination at class k.
Width ==
  pc # "add" =>
    /\ \A n \in 1..Len(stk) : pm[stk[n]].cls <= k
    /\ \A i \in Index :
         IsMoved(i) /\ ~ IsNoop(pm[i]) => wid[pm[i].dst] >= pm[i].cls
    /\ \A x \in Locs :
         \/ \E i \in Index : IsMoved(i) /\ ~ IsNoop(pm[i]) /\ pm[i].dst = x
         \/ (InCycle /\ x = pm[c].dst)
         \/ wid[x] = 1
    /\ InCycle => wid[pm[c].dst] >= k

\* While nothing was moved, the emitted code does nothing.
Fresh ==
  pc = "add" => from = [x \in Locs |-> x] /\ wid = [x \in Locs |-> 1]

\* The inductive invariant of the sequentialisation.
PmInv == TypeOK /\ Chain /\ Effect /\ Width /\ Fresh

\* The emitted code does the moves all at once, whatever chains and cycles
\* they form (what the "execute the code generated and check" part of
\* tools/pmov.c tests); and no instruction that carries a value to its
\* destination is narrower than the value, though a swap serves several moves
\* of different classes ("this routine might emit too many large instructions"
\* in pmrec).
PM == INSTANCE ParallelMove
        WITH moves <- pm, done <- pc = "done",
             has  <- IF pc = "done" THEN from ELSE [x \in Locs |-> x],
             wide <- IF pc = "done" THEN wid ELSE [x \in Locs |-> 1]
Implements == PM!Spec

\* pmgen ignores what the outermost pmrec returns: a cycle is closed by the
\* activation that started it, so the last return is outside of any cycle.
CycleClosed == pc = "return" /\ stk = << >> => c = None

\* The operands of a swap are registers, as the emitters need: emitf of
\* arm64/emit.c asserts isreg(r) on them, and xchg takes one from memory.
SwapsBetweenRegisters == swapped \subseteq Regs

\* They are when the moves read registers only, as those of dopm() and of the
\* copies that edges share: the destinations in a cycle are read by others.
SwapsKept == (\A i \in Index : pm[i].src \in Regs) => SwapsBetweenRegisters

\* pmgen ends, whatever the moves are: a cycle does not recurse for ever.
Termination == <>(pc = "done")

=============================================================================
