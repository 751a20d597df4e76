----------------------------- MODULE PmovProofs -----------------------------
(***************************************************************************)
(* Proofs about Pmov: for any registers, slots and moves, pmgen's code     *)
(* does the parallel move, at the width of every move.                     *)
(***************************************************************************)
EXTENDS Pmov, SequenceTheorems, TLAPS

-----------------------------------------------------------------------------
(* The stack of waiting activations.                                        *)

LEMMA Prefix ==
  ASSUME NEW S, NEW s \in Seq(S), NEW m \in 1..Len(s)
  PROVE  /\ SubSeq(s, 1, m - 1) \in Seq(S)
         /\ Len(SubSeq(s, 1, m - 1)) = m - 1
         /\ \A n \in 1..(m - 1) : SubSeq(s, 1, m - 1)[n] = s[n]
BY SMT

\* What is left after a pop.
LEMMA PopTop ==
  ASSUME NEW S, NEW s \in Seq(S), s # << >>
  PROVE  /\ Len(s) \in Nat /\ Len(s) >= 1
         /\ s[Len(s)] \in S
         /\ SubSeq(s, 1, Len(s) - 1) \in Seq(S)
         /\ Len(SubSeq(s, 1, Len(s) - 1)) = Len(s) - 1
         /\ \A n \in 1..(Len(s) - 1) : SubSeq(s, 1, Len(s) - 1)[n] = s[n]
<1>1. Len(s) \in Nat /\ Len(s) >= 1
  BY EmptySeq
<1>2. Len(s) \in 1..Len(s)
  BY <1>1
<1>3. s[Len(s)] \in S
  BY <1>2, ElementOfSeq
<1>. QED  BY <1>1, <1>2, <1>3, Prefix, Zenon

-----------------------------------------------------------------------------
(* One lemma for each step of the algorithm: it preserves PmInv.            *)

LEMMA MoveType ==
  ASSUME TypeOK, NEW i \in Index
  PROVE  /\ pm[i] \in Moves
         /\ pm[i].src \in Sources
         /\ pm[i].dst \in Locs
         /\ pm[i].cls \in Classes
<1>1. pm[i] \in Moves
  BY ElementOfSeq DEF TypeOK, Index
<1>. QED  BY <1>1 DEF Moves

LEMMA JoinType ==
  ASSUME TypeOK, NEW i \in Index
  PROVE  /\ Joined(i) \in Classes
         /\ k <= Joined(i)
         /\ pm[i].cls <= Joined(i)
BY MoveType DEF TypeOK, Joined, Max2, Classes

LEMMA InitStep == Init => PmInv
<1>. SUFFICES ASSUME Init PROVE PmInv
  OBVIOUS
<1>. USE DEF Init
<1>1. TypeOK
  BY MovesAssumption DEF TypeOK, Index, Classes, Moves, None
<1>2. Chain
  BY DEF Chain, Index, InCycle
<1>3. Effect /\ Width /\ Fresh
  BY DEF Effect, Width, Fresh
<1>. QED  BY <1>1, <1>2, <1>3 DEF PmInv

LEMMA PmAddStep ==
  ASSUME PmInv, NEW m \in Moves, PmAdd(m)
  PROVE  PmInv'
<1>. USE DEF PmInv, PmAdd, calls, emitted
<1>1. /\ Append(pm, m) \in Seq(Moves)
      /\ Len(Append(pm, m)) = Len(pm) + 1
      /\ \A i \in 1..Len(pm) : Append(pm, m)[i] = pm[i]
      /\ Append(pm, m)[Len(pm) + 1] = m
  BY AppendProperties DEF TypeOK
<1>2. Len(pm) \in Nat
  BY LenProperties DEF TypeOK
<1>3. stk = << >> /\ stk' = << >>
  BY DEF Chain
<1>4. TypeOK'
  BY <1>1, <1>2, <1>3, MovesAssumption DEF TypeOK, Index
<1>5. Chain'
  BY <1>1, <1>2, <1>3 DEF Chain, Index, InCycle
<1>6. Effect' /\ Width' /\ Fresh'
  BY DEF Effect, Width, Fresh
<1>. QED  BY <1>4, <1>5, <1>6

LEMMA PmGenStep ==
  ASSUME PmInv, PmGen
  PROVE  PmInv'
<1>. USE DEF PmInv, PmGen, calls, emitted
<1>1. Len(pm) \in Nat
  BY LenProperties DEF TypeOK
<1>2. stk = << >> /\ stk' = << >> /\ Len(stk) = 0
  BY DEF Chain
<1>3. \A i \in Index : status'[i] = "ToMove"
  OBVIOUS
<1>4. TypeOK'
  BY DEF TypeOK, Index, Statuses
<1>5. Chain'
  BY <1>2, <1>3 DEF Chain, Index, InCycle, IsMoved
<1>6. Effect'
  BY <1>3 DEF Effect, Fresh, Index, InCycle, IsMoved
<1>7. Width'
  BY <1>2, <1>3 DEF Width, Fresh, Index, InCycle, IsMoved
<1>8. Fresh'
  BY DEF Fresh
<1>. QED  BY <1>4, <1>5, <1>6, <1>7, <1>8

LEMMA RootStep ==
  ASSUME PmInv, NEW i \in Index, Root(i)
  PROVE  PmInv'
<1>. USE DEF PmInv, Root, emitted
<1>1. stk = << >> /\ stk' = << >> /\ Len(stk) = 0
  BY DEF Chain
<1>2. TypeOK'
  BY <1>1, MoveType DEF TypeOK, Index
<1>3. Chain'
  BY <1>1 DEF Chain, Index, InCycle, IsMoved
<1>4. Effect'
  BY DEF Effect, Index, InCycle, IsMoved
<1>5. Width'
  BY <1>1 DEF Width, Index, InCycle, IsMoved
<1>6. Fresh'
  BY DEF Fresh
<1>. QED  BY <1>2, <1>3, <1>4, <1>5, <1>6

LEMMA FinishStep ==
  ASSUME PmInv, Finish
  PROVE  PmInv'
<1>. USE DEF PmInv, Finish, calls, emitted
<1>1. stk = << >> /\ Len(stk) = 0
  BY DEF Chain
<1>2. \A i \in Index : status[i] = "Moved"
  BY <1>1 DEF Chain, TypeOK, Statuses
<1>3. TypeOK' /\ Fresh'
  BY DEF TypeOK, Index, Fresh
<1>4. Chain'
  BY <1>1, <1>2 DEF Chain, Index, InCycle, IsMoved
<1>5. Effect' /\ Width'
  BY <1>1 DEF Effect, Width, Index, InCycle, IsMoved
<1>. QED  BY <1>3, <1>4, <1>5

LEMMA BackToScanStep ==
  ASSUME PmInv, BackToScan
  PROVE  PmInv'
<1>. USE DEF PmInv, BackToScan, calls, emitted
<1>1. stk = << >> /\ Len(stk) = 0
  OBVIOUS
<1>2. ~ InCycle
  BY <1>1 DEF Chain, InCycle
<1>3. TypeOK' /\ Fresh'
  BY DEF TypeOK, Index, Fresh
<1>4. Chain'
  BY <1>1, <1>2 DEF Chain, Index, InCycle, IsMoved
<1>5. Effect' /\ Width'
  BY <1>1, <1>2 DEF Effect, Width, Index, InCycle, IsMoved
<1>. QED  BY <1>3, <1>4, <1>5

-----------------------------------------------------------------------------
(* pmrec up to its return or its own call.                                  *)

\* A move that is still to do owns its destination: nothing was put there.
LEMMA Untouched ==
  ASSUME PmInv, pc # "add", ~ InCycle, NEW i \in Index, ~ IsMoved(i)
  PROVE  from[pm[i].dst] = pm[i].dst /\ wid[pm[i].dst] = 1
BY MoveType DEF PmInv, Chain, Effect, Width

\* When no cycle is open, what a move done reads is not the destination of
\* a move still to do, so only that destination holds its own first value.
LEMMA OnlyItself ==
  ASSUME PmInv, pc # "add", ~ InCycle, NEW i \in Index, ~ IsMoved(i),
         NEW x \in Locs, from[x] = pm[i].dst
  PROVE  x = pm[i].dst
BY DEF PmInv, Chain, Effect

\* What a return without a call of its own does to the activations.
LEMMA ReturnStep ==
  ASSUME PmInv, NEW i \in Index, pc = "call", cur = i,
         NEW r, r = None \/ (r \in Index /\ status[r] = "Moving"), Return(i, r)
  PROVE  /\ ~ InCycle /\ ~ IsMoved(i) /\ status[i] = "ToMove"
         /\ status' \in [Index -> Statuses]
         /\ status'[i] = "Moved"
         /\ \A j \in Index : j # i => status'[j] = status[j]
         /\ Chain'
<1>. USE DEF PmInv, Return
<1>1. ~ InCycle /\ ~ IsMoved(i) /\ status[i] = "ToMove"
  BY DEF InCycle, Chain, IsMoved
<1>2. /\ status' \in [Index -> Statuses]
      /\ status'[i] = "Moved"
      /\ \A j \in Index : j # i => status'[j] = status[j]
  BY DEF TypeOK, Statuses
<1>3. Chain'
  <2>1. \A j \in Index' :
          status'[j] = "Moving" <=> \E n \in 1..Len(stk') : stk'[n] = j
    BY <1>1, <1>2 DEF Chain, Index
  <2>2. pc' = "return" /\ stk' # << >> =>
          \E j \in Index' : IsMoved(j)' /\ pm'[j].dst = pm'[Top'].src
    BY <1>2 DEF Chain, Index, IsMoved, Top
  <2>3. InCycle' => c' \in Index' /\ status'[c'] = "Moving"
    BY <1>1, <1>2 DEF InCycle, Index
  <2>4. \A j, l \in Index' : pm'[j].dst = pm'[l].dst => j = l
    BY DEF Chain, Index
  <2>5. \A n \in 1..Len(stk') :
          /\ ~ IsNoop(pm'[stk'[n]])
          /\ \A p \in 1..Len(stk') : stk'[n] = stk'[p] => n = p
          /\ n < Len(stk') => pm'[stk'[n]].src = pm'[stk'[n + 1]].dst
    BY DEF Chain
  <2>. QED  BY <2>1, <2>2, <2>3, <2>4, <2>5 DEF Chain
<1>. QED  BY <1>1, <1>2, <1>3

LEMMA SkipNoopStep ==
  ASSUME PmInv, NEW i \in Index, SkipNoop(i)
  PROVE  PmInv'
<1>. USE DEF PmInv, SkipNoop, Return, emitted
<1>1. ~ InCycle /\ ~ IsMoved(i) /\ status[i] = "ToMove"
  BY ReturnStep
<1>2. from[pm[i].dst] = pm[i].src /\ wid[pm[i].dst] = 1
  BY <1>1, Untouched DEF IsNoop
<1>3. /\ status' \in [Index -> Statuses]
      /\ status'[i] = "Moved"
      /\ \A j \in Index : j # i => status'[j] = status[j]
  BY ReturnStep
<1>4. TypeOK'
  BY <1>3 DEF TypeOK, Index
<1>5. ~ InCycle'
  BY DEF InCycle
<1>6. Chain'
  BY ReturnStep
<1>7. Effect'
  BY <1>1, <1>2, <1>3, <1>5, MoveType
  DEF Effect, Chain, Index, IsMoved, IsNoop
<1>8. Width'
  BY <1>1, <1>2, <1>3, <1>5 DEF Width, Chain, Index, IsMoved, IsNoop
<1>9. Fresh'
  BY DEF Fresh
<1>. QED  BY <1>4, <1>6, <1>7, <1>8, <1>9

LEMMA CopyNowStep ==
  ASSUME PmInv, NEW i \in Index, CopyNow(i)
  PROVE  PmInv'
<1>. USE DEF PmInv, CopyNow, Return
<1>1. ~ InCycle /\ ~ IsMoved(i) /\ status[i] = "ToMove"
  BY ReturnStep
<1>2. wid[pm[i].dst] = 1 /\ from[pm[i].dst] = pm[i].dst
  BY <1>1, Untouched
<1>3. /\ status' \in [Index -> Statuses]
      /\ status'[i] = "Moved"
      /\ \A j \in Index : j # i => status'[j] = status[j]
  BY ReturnStep
<1>4. \A x \in Locs : from[x] = pm[i].dst <=> x = pm[i].dst
  BY <1>1, <1>2, OnlyItself
<1>5. /\ from'[pm[i].dst] = pm[i].src
      /\ wid'[pm[i].dst] = pm[i].cls
      /\ \A x \in Locs \ {pm[i].dst} : from'[x] = from[x] /\ wid'[x] = wid[x]
  BY <1>2, <1>4, MoveType DEF EmitCopy, Min2, Classes
<1>6. TypeOK'
  <2>1. from' \in [Locs -> Locs \cup Sources]
    BY MoveType DEF TypeOK, EmitCopy
  <2>2. wid' \in [Locs -> Classes]
    BY MoveType DEF TypeOK, EmitCopy, Min2
  <2>. QED  BY <1>3, <2>1, <2>2, JoinType DEF TypeOK, Index, EmitCopy
<1>7. ~ InCycle'
  BY DEF InCycle
<1>8. Chain'
  BY ReturnStep
<1>9. Effect'
  BY <1>1, <1>3, <1>5, <1>7, MoveType
  DEF Effect, Chain, Index, IsMoved, Definers
<1>10. Width'
  <2>1. \A n \in 1..Len(stk) : pm[stk[n]].cls <= k'
    BY JoinType, MoveType, ElementOfSeq DEF Width, TypeOK, Classes
  <2>. QED  BY <1>1, <1>3, <1>5, <1>7, <2>1, MoveType
            DEF Width, Chain, Index, IsMoved, Classes
<1>11. Fresh'
  BY DEF Fresh
<1>. QED  BY <1>6, <1>8, <1>9, <1>10, <1>11

\* The first swap of a cycle, between the move i and the move j that waits
\* for it and whose destination i reads.
LEMMA StartCycleStep ==
  ASSUME PmInv, NEW i \in Index, StartCycle(i)
  PROVE  PmInv'
<1>. USE DEF PmInv, StartCycle
<1>1. PICK j \in Index : /\ pm[j].dst = pm[i].src
                         /\ status[j] = "Moving"
                         /\ Return(i, j)
                         /\ EmitSwap(Joined(i), pm[i].src, pm[i].dst)
  BY DEF Definers
<1>2. /\ ~ InCycle /\ ~ IsMoved(i) /\ status[i] = "ToMove"
      /\ status' \in [Index -> Statuses]
      /\ status'[i] = "Moved"
      /\ \A l \in Index : l # i => status'[l] = status[l]
      /\ Chain'
  BY <1>1, ReturnStep
<1>3. i # j /\ pm[i].dst # pm[j].dst /\ ~ IsMoved(j)
  BY <1>1, <1>2 DEF Chain, IsMoved
<1>4. /\ \A x \in Locs : from[x] = pm[i].dst <=> x = pm[i].dst
      /\ \A x \in Locs : from[x] = pm[j].dst <=> x = pm[j].dst
      /\ wid[pm[i].dst] = 1 /\ wid[pm[j].dst] = 1
  BY <1>2, <1>3, Untouched, OnlyItself
<1>5. Joined(i) \in Classes /\ k <= Joined(i) /\ pm[i].cls <= Joined(i)
  BY JoinType
<1>6. /\ from'[pm[i].dst] = pm[i].src /\ from'[pm[j].dst] = pm[i].dst
      /\ wid'[pm[i].dst] = Joined(i) /\ wid'[pm[j].dst] = Joined(i)
      /\ \A x \in Locs \ {pm[i].dst, pm[j].dst} :
           from'[x] = from[x] /\ wid'[x] = wid[x]
  BY <1>1, <1>3, <1>4, <1>5, MoveType DEF EmitSwap, Min2, Classes
<1>7. stk # << >> /\ pm[Top].src = pm[i].dst
  <2>1. PICK n \in 1..Len(stk) : stk[n] = j
    BY <1>1 DEF Chain
  <2>2. stk # << >>
    BY <2>1, EmptySeq
  <2>. QED  BY <2>2 DEF Chain
<1>8. stk' = stk /\ pm' = pm /\ Index' = Index /\ k' = Joined(i) /\ Top' = Top
      /\ InCycle' /\ c' = j /\ pc' = "return"
  BY <1>1, <1>2 DEF Return, InCycle, Index, Top, None
<1>9. TypeOK'
  <2>1. from' \in [Locs -> Locs \cup Sources]
    BY <1>1, MoveType DEF TypeOK, EmitSwap
  <2>2. wid' \in [Locs -> Classes]
    BY <1>1, <1>5 DEF TypeOK, EmitSwap, Min2
  <2>3. swapped' \subseteq Locs
    BY <1>1, MoveType DEF TypeOK, EmitSwap
  <2>. QED  BY <1>1, <1>2, <1>5, <1>8, <2>1, <2>2, <2>3
            DEF TypeOK, Return, Index
<1>10. Effect'
  <2>1. \A l \in Index : IsMoved(l)' <=> IsMoved(l) \/ l = i
    BY <1>2 DEF IsMoved
  <2>2. \A l \in Index : IsMoved(l) =>
          /\ pm[l].dst \notin {pm[i].dst, pm[j].dst}
          /\ pm[l].src # pm[i].dst
    BY <1>2, <1>3 DEF Effect, Chain
  <2>3. \A l \in Index : IsMoved(l)' => from'[pm[l].dst] = pm[l].src
    BY <1>6, <2>1, <2>2, MoveType DEF Effect
  <2>4. \A x \in Locs :
          \/ \E l \in Index : IsMoved(l)' /\ pm[l].dst = x
          \/ x = pm[j].dst
          \/ from'[x] = x
    BY <1>2, <1>6, <2>1 DEF Effect
  <2>5. \A l, m \in Index :
          IsMoved(l)' /\ pm[l].src = pm[m].dst => IsMoved(m)' \/ m = j
    BY <1>1, <1>2, <2>1 DEF Effect, Chain
  <2>6. \A l \in Index : IsMoved(l)' => pm[l].src # pm[i].dst
    BY <2>1, <2>2 DEF IsNoop
  <2>7. from'[pm[j].dst] = pm[i].dst
    BY <1>6
  <2>. QED  BY <1>7, <1>8, <2>3, <2>4, <2>5, <2>6, <2>7 DEF Effect
<1>11. Width'
  <2>1. \A n \in 1..Len(stk) : pm[stk[n]].cls <= Joined(i)
    BY <1>5, MoveType, ElementOfSeq DEF Width, TypeOK, Classes
  <2>2. \A l \in Index : IsMoved(l)' <=> IsMoved(l) \/ l = i
    BY <1>2 DEF IsMoved
  <2>3. \A l \in Index : IsMoved(l) =>
          pm[l].dst \notin {pm[i].dst, pm[j].dst}
    BY <1>2, <1>3 DEF Chain
  <2>4. ~ IsNoop(pm[i])
    OBVIOUS
  <2>5. \A l \in Index : IsMoved(l)' /\ ~ IsNoop(pm[l]) =>
          wid'[pm[l].dst] >= pm[l].cls
    BY <1>5, <1>6, <2>2, <2>3, MoveType DEF Width
  <2>6. \A x \in Locs :
          \/ \E l \in Index : IsMoved(l)' /\ ~ IsNoop(pm[l]) /\ pm[l].dst = x
          \/ x = pm[j].dst
          \/ wid'[x] = 1
    BY <1>2, <1>6, <2>2, <2>4 DEF Width
  <2>7. wid'[pm[j].dst] >= Joined(i)
    BY <1>5, <1>6 DEF Classes
  <2>. QED  BY <1>8, <2>1, <2>5, <2>6, <2>7 DEF Width
<1>12. Fresh'
  BY <1>8 DEF Fresh
<1>. QED  BY <1>2, <1>9, <1>10, <1>11, <1>12

LEMMA RecurseStep ==
  ASSUME PmInv, NEW i \in Index, Recurse(i)
  PROVE  PmInv'
<1>. USE DEF PmInv, Recurse
<1>1. PICK j \in Index : /\ pm[j].dst = pm[i].src
                         /\ status[j] = "ToMove"
                         /\ cur' = j
  BY DEF Definers
<1>2. ~ InCycle /\ status[i] = "ToMove"
  BY DEF InCycle, Chain
<1>3. /\ status' \in [Index -> Statuses]
      /\ status'[i] = "Moving"
      /\ \A l \in Index : l # i => status'[l] = status[l]
  BY DEF TypeOK, Statuses
<1>4. i # j
  BY <1>1 DEF IsNoop
<1>5. /\ stk' \in Seq(Index)
      /\ Len(stk) \in Nat
      /\ Len(stk') = Len(stk) + 1
      /\ stk'[Len(stk) + 1] = i
      /\ stk' # << >>
      /\ \A n \in 1..Len(stk) : stk'[n] = stk[n] /\ stk[n] \in Index
  BY AppendProperties, LenProperties, ElementOfSeq DEF TypeOK
<1>6. Joined(i) \in Classes /\ k <= Joined(i) /\ pm[i].cls <= Joined(i)
  BY JoinType
<1>7. /\ pm' = pm /\ Index' = Index /\ pc' = "call" /\ k' = Joined(i)
      /\ ~ InCycle' /\ Top' = i
      /\ UNCHANGED emitted
  BY <1>5 DEF Index, InCycle, Top
<1>8. TypeOK'
  BY <1>1, <1>3, <1>5, <1>6, <1>7 DEF TypeOK, emitted, Index
<1>9. Chain'
  <2>1. \A n \in 1..Len(stk) : stk[n] # i
    BY <1>2 DEF Chain
  <2>2. \A l \in Index :
          status'[l] = "Moving" <=> \E n \in 1..Len(stk') : stk'[n] = l
    <3>1. \A l \in Index : status'[l] = "Moving" <=> status[l] = "Moving" \/ l = i
      BY <1>3
    <3>2. \A l \in Index : status[l] = "Moving" <=>
            \E n \in 1..Len(stk) : stk[n] = l
      BY DEF Chain
    <3>. QED  BY <1>5, <3>1, <3>2
  <2>3. ASSUME NEW n \in 1..Len(stk')
        PROVE  /\ ~ IsNoop(pm[stk'[n]])
               /\ \A p \in 1..Len(stk') : stk'[n] = stk'[p] => n = p
               /\ n < Len(stk') => pm[stk'[n]].src = pm[stk'[n + 1]].dst
    <3>1. n \in 1..Len(stk) \/ n = Len(stk) + 1
      BY <1>5
    <3>2. stk'[n] \in Index /\ ~ IsNoop(pm[stk'[n]])
      BY <1>5, <3>1 DEF Chain
    <3>3. ASSUME NEW p \in 1..Len(stk'), stk'[n] = stk'[p]
          PROVE  n = p
      <4>1. p \in 1..Len(stk) \/ p = Len(stk) + 1
        BY <1>5
      <4>. QED  BY <1>5, <2>1, <3>1, <3>3, <4>1 DEF Chain
    <3>4. ASSUME n < Len(stk')
          PROVE  pm[stk'[n]].src = pm[stk'[n + 1]].dst
      <4>1. n \in 1..Len(stk) /\ stk'[n] = stk[n]
        BY <1>5, <3>4
      <4>2. CASE n = Len(stk)
        <5>1. stk # << >> /\ stk'[n] = Top /\ stk'[n + 1] = i
          BY <1>5, <4>1, <4>2, EmptySeq DEF Top
        <5>. QED  BY <5>1 DEF Chain
      <4>3. CASE n # Len(stk)
        <5>1. n < Len(stk) /\ n + 1 \in 1..Len(stk)
          BY <1>5, <4>1, <4>3
        <5>2. stk'[n + 1] = stk[n + 1] /\ pm[stk[n]].src = pm[stk[n + 1]].dst
          BY <1>5, <4>1, <5>1 DEF Chain
        <5>. QED  BY <4>1, <5>2
      <4>. QED  BY <4>2, <4>3
    <3>. QED  BY <3>2, <3>3, <3>4
  <2>4. j \in Index /\ status'[j] = "ToMove" /\ pm[i].src = pm[j].dst
    BY <1>1, <1>3, <1>4
  <2>5. \A l, m \in Index : pm[l].dst = pm[m].dst => l = m
    BY DEF Chain
  <2>. QED  BY <1>1, <1>7, <2>2, <2>3, <2>4, <2>5 DEF Chain
<1>10. \A l \in Index : IsMoved(l)' <=> IsMoved(l)
  BY <1>2, <1>3 DEF IsMoved
<1>11. Effect'
  BY <1>2, <1>7, <1>10 DEF Effect, emitted
<1>12. Width'
  <2>1. \A n \in 1..Len(stk') : pm[stk'[n]].cls <= Joined(i)
    <3>1. ASSUME NEW n \in 1..Len(stk')
          PROVE  pm[stk'[n]].cls <= Joined(i)
      <4>1. n \in 1..Len(stk) \/ n = Len(stk) + 1
        BY <1>5
      <4>2. CASE n \in 1..Len(stk)
        <5>1. pm[stk[n]].cls <= k /\ pm[stk[n]].cls \in Classes /\ k \in Classes
          BY <1>5, <4>2, MoveType DEF Width, TypeOK
        <5>. QED  BY <1>5, <1>6, <4>2, <5>1 DEF Classes
      <4>3. CASE n = Len(stk) + 1
        BY <1>5, <1>6, <4>3
      <4>. QED  BY <4>1, <4>2, <4>3
    <3>. QED  BY <3>1
  <2>. QED  BY <1>2, <1>7, <1>10, <2>1 DEF Width, emitted
<1>13. Fresh'
  BY <1>7 DEF Fresh
<1>. QED  BY <1>8, <1>9, <1>11, <1>12, <1>13

-----------------------------------------------------------------------------
(* The rest of a call, after its callee has returned.                       *)

LEMMA ResumeStep ==
  ASSUME PmInv, NEW i \in Index, Waiting(i),
         NEW r, r = None \/ (r = c /\ c # None /\ c # i), Resume(i, r)
  PROVE  /\ ~ IsMoved(i) /\ ~ IsNoop(pm[i]) /\ Top = i /\ pm[i].cls <= k
         /\ \E e \in Index : IsMoved(e) /\ pm[e].dst = pm[i].src
         /\ status' \in [Index -> Statuses]
         /\ \A l \in Index : IsMoved(l)' <=> IsMoved(l) \/ l = i
         /\ stk' \in Seq(Index)
         /\ \A n \in 1..Len(stk') : n \in 1..Len(stk) /\ stk'[n] = stk[n]
         /\ r # None => pm[Top'].src = pm[i].dst
         /\ Chain'
<1>. USE DEF PmInv, Resume, Pop, Waiting
<1>1. /\ Len(stk) \in Nat /\ Len(stk) >= 1
      /\ stk' \in Seq(Index)
      /\ Len(stk') = Len(stk) - 1
      /\ \A n \in 1..(Len(stk) - 1) : stk'[n] = stk[n]
  BY PopTop DEF TypeOK
<1>2. i = stk[Len(stk)] /\ Top = i /\ Len(stk) \in 1..Len(stk)
  BY <1>1 DEF Top
<1>3. status[i] = "Moving" /\ ~ IsMoved(i)
  BY <1>2 DEF Chain, IsMoved
<1>4. ~ IsNoop(pm[i]) /\ pm[i].cls <= k
  BY <1>2 DEF Chain, Width
<1>5. /\ status' \in [Index -> Statuses]
      /\ status'[i] = "Moved"
      /\ \A l \in Index : l # i => status'[l] = status[l]
  BY DEF TypeOK, Statuses
<1>6. \E e \in Index : IsMoved(e) /\ pm[e].dst = pm[i].src
  BY <1>2 DEF Chain
<1>7. /\ pm' = pm /\ Index' = Index /\ pc' = "return"
      /\ c' = r
  BY DEF Index
<1>8. \A n \in 1..Len(stk') :
        n \in 1..Len(stk) /\ n < Len(stk) /\ stk'[n] = stk[n]
  BY <1>1
<1>9. ASSUME stk' # << >>
      PROVE  /\ Len(stk') \in 1..Len(stk') /\ Top' = stk[Len(stk) - 1]
             /\ pm[Top'].src = pm[i].dst
  <2>1. Len(stk') >= 1
    BY <1>1, <1>9, EmptySeq
  <2>2. Len(stk) - 1 \in 1..Len(stk) /\ Len(stk) - 1 < Len(stk)
        /\ Len(stk) - 1 + 1 = Len(stk) /\ Len(stk') \in 1..Len(stk')
    BY <1>1, <2>1
  <2>3. Top' = stk[Len(stk) - 1]
    BY <1>1, <1>8, <2>2 DEF Top
  <2>4. pm[stk[Len(stk) - 1]].src = pm[stk[Len(stk) - 1 + 1]].dst
    BY <2>2 DEF Chain
  <2>. QED  BY <1>2, <2>2, <2>3, <2>4
<1>10. ASSUME r # None
       PROVE  /\ r \in Index /\ status'[r] = "Moving" /\ stk' # << >>
  <2>1. r = c /\ c \in Index /\ status[c] = "Moving" /\ c # i
    BY <1>10 DEF Chain, InCycle
  <2>2. PICK n \in 1..Len(stk) : stk[n] = c
    BY <2>1 DEF Chain
  <2>3. n \in 1..Len(stk')
    BY <1>1, <1>2, <2>1, <2>2
  <2>4. Len(stk') # 0
    BY <1>1, <2>3
  <2>5. stk' # << >>
    BY <2>4
  <2>. QED  BY <1>5, <2>1, <2>5
<1>11. Chain'
  <2>1. \A l \in Index :
          status'[l] = "Moving" <=> \E n \in 1..Len(stk') : stk'[n] = l
    <3>1. ASSUME NEW l \in Index, status'[l] = "Moving"
          PROVE  \E n \in 1..Len(stk') : stk'[n] = l
      <4>1. l # i /\ status[l] = "Moving"
        BY <1>5, <3>1
      <4>2. PICK n \in 1..Len(stk) : stk[n] = l
        BY <4>1 DEF Chain
      <4>3. n \in 1..Len(stk') /\ stk'[n] = l
        BY <1>1, <1>2, <4>1, <4>2
      <4>. QED  BY <4>3
    <3>2. ASSUME NEW l \in Index, NEW n \in 1..Len(stk'), stk'[n] = l
          PROVE  status'[l] = "Moving"
      <4>1. n \in 1..Len(stk) /\ n # Len(stk) /\ stk[n] = l
        BY <1>1, <1>8, <3>2
      <4>2. status[l] = "Moving" /\ l # i
        BY <1>2, <4>1 DEF Chain
      <4>. QED  BY <1>5, <4>2
    <3>. QED  BY <3>1, <3>2
  <2>2. ASSUME NEW n \in 1..Len(stk')
        PROVE  /\ ~ IsNoop(pm[stk'[n]])
               /\ \A p \in 1..Len(stk') : stk'[n] = stk'[p] => n = p
               /\ n < Len(stk') => pm[stk'[n]].src = pm[stk'[n + 1]].dst
    <3>1. ~ IsNoop(pm[stk'[n]])
          /\ \A p \in 1..Len(stk') : stk'[n] = stk'[p] => n = p
      BY <1>8 DEF Chain
    <3>2. ASSUME n < Len(stk')
          PROVE  pm[stk'[n]].src = pm[stk'[n + 1]].dst
      <4>1. n + 1 \in 1..Len(stk') /\ n \in 1..Len(stk) /\ n < Len(stk)
        BY <1>1, <1>8, <3>2
      <4>2. pm[stk[n]].src = pm[stk[n + 1]].dst
        BY <4>1 DEF Chain
      <4>. QED  BY <1>8, <4>1, <4>2
    <3>. QED  BY <3>1, <3>2
  <2>3. \A l, m \in Index : pm[l].dst = pm[m].dst => l = m
    BY DEF Chain
  <2>4. stk' # << >> =>
          \E j \in Index : IsMoved(j)' /\ pm[j].dst = pm[Top'].src
    BY <1>5, <1>9 DEF IsMoved
  <2>5. InCycle' => c' \in Index /\ status'[c'] = "Moving"
    BY <1>7, <1>10 DEF InCycle
  <2>. QED  BY <1>7, <2>1, <2>2, <2>3, <2>4, <2>5 DEF Chain
<1>12. \A l \in Index : IsMoved(l)' <=> IsMoved(l) \/ l = i
  BY <1>5 DEF IsMoved
<1>. QED  BY <1>1, <1>2, <1>3, <1>4, <1>5, <1>6, <1>8, <1>9, <1>10, <1>11, <1>12

LEMMA EndCycleStep ==
  ASSUME PmInv, NEW i \in Index, EndCycle(i)
  PROVE  PmInv'
<1>. USE DEF PmInv, EndCycle
<1>1. /\ ~ IsMoved(i) /\ ~ IsNoop(pm[i]) /\ Top = i /\ pm[i].cls <= k
      /\ \E e \in Index : IsMoved(e) /\ pm[e].dst = pm[i].src
      /\ status' \in [Index -> Statuses]
      /\ \A l \in Index : IsMoved(l)' <=> IsMoved(l) \/ l = i
      /\ stk' \in Seq(Index)
      /\ \A n \in 1..Len(stk') : n \in 1..Len(stk) /\ stk'[n] = stk[n]
      /\ Chain'
  BY ResumeStep
<1>2. /\ InCycle /\ c = i /\ pc = "return" /\ i # None
      /\ pm' = pm /\ Index' = Index /\ pc' = "return" /\ k' = k /\ ~ InCycle'
      /\ UNCHANGED <<from, wid, swapped>>
  BY DEF InCycle, Waiting, Resume, Index, emitted, None
<1>3. TypeOK'
  BY <1>1, <1>2 DEF TypeOK, Resume, None
<1>4. Effect'
  <2>1. from[pm[i].dst] = pm[i].src
    BY <1>1, <1>2 DEF Effect
  <2>2. \A l \in Index : IsMoved(l)' => from[pm[l].dst] = pm[l].src
    BY <1>1, <1>2, <2>1 DEF Effect
  <2>3. \A x \in Locs :
          (\E l \in Index : IsMoved(l)' /\ pm[l].dst = x) \/ from[x] = x
    BY <1>1, <1>2 DEF Effect
  <2>4. \A l, m \in Index : IsMoved(l)' /\ pm[l].src = pm[m].dst => IsMoved(m)'
    BY <1>1, <1>2 DEF Effect, Chain
  <2>. QED  BY <1>2, <2>2, <2>3, <2>4 DEF Effect
<1>5. Width'
  <2>1. wid[pm[i].dst] >= pm[i].cls
    <3>1. wid[pm[i].dst] >= k
      BY <1>2 DEF Width
    <3>2. wid[pm[i].dst] \in Classes /\ pm[i].cls \in Classes /\ k \in Classes
      BY MoveType DEF TypeOK
    <3>. QED  BY <1>1, <3>1, <3>2 DEF Classes
  <2>2. \A l \in Index :
          IsMoved(l)' /\ ~ IsNoop(pm[l]) => wid[pm[l].dst] >= pm[l].cls
    BY <1>1, <1>2, <2>1 DEF Width
  <2>3. \A x \in Locs :
          \/ \E l \in Index : IsMoved(l)' /\ ~ IsNoop(pm[l]) /\ pm[l].dst = x
          \/ wid[x] = 1
    BY <1>1, <1>2 DEF Width
  <2>4. \A n \in 1..Len(stk') : pm[stk'[n]].cls <= k
    BY <1>1, <1>2 DEF Width
  <2>. QED  BY <1>2, <2>2, <2>3, <2>4 DEF Width
<1>6. Fresh'
  BY <1>2 DEF Fresh
<1>. QED  BY <1>1, <1>3, <1>4, <1>5, <1>6

\* A further swap: the destination of c, which held what i reads, gets what
\* the next activation reads, and i gets its value.
LEMMA SwapOnStep ==
  ASSUME PmInv, NEW i \in Index, SwapOn(i)
  PROVE  PmInv'
<1>. USE DEF PmInv, SwapOn
<1>1. /\ ~ IsMoved(i) /\ ~ IsNoop(pm[i]) /\ Top = i /\ pm[i].cls <= k
      /\ \E e \in Index : IsMoved(e) /\ pm[e].dst = pm[i].src
      /\ status' \in [Index -> Statuses]
      /\ \A l \in Index : IsMoved(l)' <=> IsMoved(l) \/ l = i
      /\ stk' \in Seq(Index)
      /\ \A n \in 1..Len(stk') : n \in 1..Len(stk) /\ stk'[n] = stk[n]
      /\ pm[Top'].src = pm[i].dst
      /\ Chain'
  BY ResumeStep
<1>2. /\ InCycle /\ c # i /\ pc = "return" /\ c \in Index /\ ~ IsMoved(c)
      /\ pm' = pm /\ Index' = Index /\ pc' = "return" /\ k' = k /\ c' = c
      /\ InCycle'
      /\ EmitSwap(k, pm[i].src, pm[i].dst)
  BY DEF InCycle, Waiting, Resume, Index, Chain, IsMoved
<1>3. PICK e \in Index : IsMoved(e) /\ pm[e].dst = pm[i].src
  BY <1>1
<1>4. /\ pm[c].dst # pm[i].dst /\ pm[e].dst # pm[i].dst /\ pm[e].dst # pm[c].dst
      /\ pm[i].src \in Locs
  BY <1>1, <1>2, <1>3, MoveType DEF Chain
<1>5. /\ from[pm[c].dst] = pm[i].src
      /\ \A l \in Index : IsMoved(l) => pm[l].src # pm[i].src
      /\ \A l \in Index : IsMoved(l) => pm[l].src # pm[i].dst
  BY <1>1, <1>2 DEF Effect
<1>6. from[pm[i].dst] = pm[i].dst /\ wid[pm[i].dst] = 1
  <2>1. \A l \in Index : IsMoved(l) => pm[l].dst # pm[i].dst
    BY <1>1 DEF Chain
  <2>2. from[pm[i].dst] = pm[i].dst
    BY <1>2, <1>4, <2>1, MoveType DEF Effect
  <2>3. wid[pm[i].dst] = 1
    BY <1>2, <1>4, <2>1, MoveType DEF Width
  <2>. QED  BY <2>2, <2>3
<1>7. \A x \in Locs : from[x] = pm[i].src <=> x = pm[c].dst
  BY <1>2, <1>3, <1>4, <1>5, MoveType DEF Effect
<1>8. \A x \in Locs : from[x] = pm[i].dst <=> x = pm[i].dst
  BY <1>1, <1>2, <1>4, <1>5, <1>6, MoveType DEF Effect, IsNoop
<1>9. /\ k \in Classes /\ wid[pm[c].dst] >= k
      /\ wid[pm[c].dst] \in Classes /\ pm[i].cls \in Classes
  BY <1>2, MoveType DEF TypeOK, Width
<1>10. /\ from'[pm[c].dst] = pm[i].dst /\ from'[pm[i].dst] = pm[i].src
       /\ \A x \in Locs \ {pm[i].dst, pm[c].dst} : from'[x] = from[x]
  BY <1>2, <1>4, <1>5, <1>6, <1>7, <1>8, MoveType DEF EmitSwap
<1>11. /\ wid'[pm[c].dst] = Min2(wid[pm[c].dst], k) /\ wid'[pm[i].dst] = Min2(1, k)
       /\ \A x \in Locs \ {pm[i].dst, pm[c].dst} : wid'[x] = wid[x]
  BY <1>2, <1>4, <1>5, <1>6, <1>7, <1>8, MoveType DEF EmitSwap
<1>12. wid'[pm[c].dst] >= k /\ wid'[pm[i].dst] >= pm[i].cls
  BY <1>1, <1>9, <1>11 DEF Min2, Classes
<1>13. TypeOK'
  <2>1. from' \in [Locs -> Locs \cup Sources]
    BY <1>2, MoveType DEF TypeOK, EmitSwap
  <2>2. wid' \in [Locs -> Classes]
    BY <1>2, <1>9 DEF TypeOK, EmitSwap, Min2
  <2>3. swapped' \subseteq Locs
    BY <1>2, <1>4, MoveType DEF TypeOK, EmitSwap
  <2>. QED  BY <1>1, <1>2, <2>1, <2>2, <2>3 DEF TypeOK, Resume
<1>14. \A l \in Index : IsMoved(l) => pm[l].dst \notin {pm[i].dst, pm[c].dst}
  BY <1>1, <1>2 DEF Chain
<1>15. Effect'
  <2>1. \A l \in Index : IsMoved(l)' => from'[pm[l].dst] = pm[l].src
    BY <1>1, <1>2, <1>10, <1>14, MoveType DEF Effect
  <2>2. \A x \in Locs :
          \/ \E l \in Index : IsMoved(l)' /\ pm[l].dst = x
          \/ x = pm[c].dst
          \/ from'[x] = x
    BY <1>1, <1>2, <1>10 DEF Effect
  <2>3. \A l, m \in Index :
          IsMoved(l)' /\ pm[l].src = pm[m].dst => IsMoved(m)' \/ m = c
    BY <1>1, <1>2, <1>3 DEF Effect, Chain
  <2>4. \A l \in Index : IsMoved(l)' => pm[l].src # pm[i].dst
    BY <1>1, <1>5 DEF IsNoop
  <2>. QED  BY <1>1, <1>2, <1>10, <2>1, <2>2, <2>3, <2>4 DEF Effect
<1>16. Width'
  <2>1. \A n \in 1..Len(stk') : pm[stk'[n]].cls <= k
    BY <1>1, <1>2 DEF Width
  <2>2. \A l \in Index :
          IsMoved(l)' /\ ~ IsNoop(pm[l]) => wid'[pm[l].dst] >= pm[l].cls
    BY <1>1, <1>2, <1>11, <1>12, <1>14, MoveType DEF Width
  <2>3. \A x \in Locs :
          \/ \E l \in Index : IsMoved(l)' /\ ~ IsNoop(pm[l]) /\ pm[l].dst = x
          \/ x = pm[c].dst
          \/ wid'[x] = 1
    BY <1>1, <1>2, <1>11 DEF Width
  <2>. QED  BY <1>2, <1>12, <2>1, <2>2, <2>3 DEF Width
<1>17. Fresh'
  BY <1>2 DEF Fresh
<1>. QED  BY <1>1, <1>13, <1>15, <1>16, <1>17

LEMMA CopyBackStep ==
  ASSUME PmInv, NEW i \in Index, CopyBack(i)
  PROVE  PmInv'
<1>. USE DEF PmInv, CopyBack
<1>1. /\ ~ IsMoved(i) /\ ~ IsNoop(pm[i]) /\ Top = i /\ pm[i].cls <= k
      /\ \E e \in Index : IsMoved(e) /\ pm[e].dst = pm[i].src
      /\ status' \in [Index -> Statuses]
      /\ \A l \in Index : IsMoved(l)' <=> IsMoved(l) \/ l = i
      /\ stk' \in Seq(Index)
      /\ \A n \in 1..Len(stk') : n \in 1..Len(stk) /\ stk'[n] = stk[n]
      /\ Chain'
  BY ResumeStep
<1>2. /\ ~ InCycle /\ ~ InCycle' /\ pc = "return" /\ pc' = "return"
      /\ pm' = pm /\ Index' = Index /\ k' = k /\ c' = None
      /\ EmitCopy(pm[i].cls, pm[i].dst, pm[i].src)
  BY DEF InCycle, Waiting, Resume, Index
<1>3. /\ wid[pm[i].dst] = 1 /\ from[pm[i].dst] = pm[i].dst
      /\ \A x \in Locs : from[x] = pm[i].dst <=> x = pm[i].dst
  BY <1>1, <1>2, Untouched, OnlyItself
<1>4. /\ from'[pm[i].dst] = pm[i].src
      /\ wid'[pm[i].dst] = pm[i].cls
      /\ \A x \in Locs \ {pm[i].dst} : from'[x] = from[x] /\ wid'[x] = wid[x]
  BY <1>2, <1>3, MoveType DEF EmitCopy, Min2, Classes
<1>5. TypeOK'
  <2>1. from' \in [Locs -> Locs \cup Sources]
    BY <1>2, MoveType DEF TypeOK, EmitCopy
  <2>2. wid' \in [Locs -> Classes]
    BY <1>2, MoveType DEF TypeOK, EmitCopy, Min2
  <2>. QED  BY <1>1, <1>2, <2>1, <2>2 DEF TypeOK, Resume, EmitCopy
<1>6. Effect'
  <2>1. \A l \in Index : IsMoved(l)' => from'[pm[l].dst] = pm[l].src
    BY <1>1, <1>2, <1>4, MoveType DEF Effect, Chain
  <2>2. \A x \in Locs :
          (\E l \in Index : IsMoved(l)' /\ pm[l].dst = x) \/ from'[x] = x
    BY <1>1, <1>2, <1>4 DEF Effect
  <2>3. \A l, m \in Index : IsMoved(l)' /\ pm[l].src = pm[m].dst => IsMoved(m)'
    BY <1>1, <1>2 DEF Effect, Chain
  <2>. QED  BY <1>2, <2>1, <2>2, <2>3 DEF Effect
<1>7. Width'
  <2>1. \A n \in 1..Len(stk') : pm[stk'[n]].cls <= k
    BY <1>1, <1>2 DEF Width
  <2>2. \A l \in Index :
          IsMoved(l)' /\ ~ IsNoop(pm[l]) => wid'[pm[l].dst] >= pm[l].cls
    BY <1>1, <1>2, <1>4, MoveType DEF Width, Chain, Classes
  <2>3. \A x \in Locs :
          \/ \E l \in Index : IsMoved(l)' /\ ~ IsNoop(pm[l]) /\ pm[l].dst = x
          \/ wid'[x] = 1
    BY <1>1, <1>2, <1>4 DEF Width
  <2>. QED  BY <1>2, <2>1, <2>2, <2>3 DEF Width
<1>8. Fresh'
  BY <1>2 DEF Fresh
<1>. QED  BY <1>1, <1>5, <1>6, <1>7, <1>8

-----------------------------------------------------------------------------
(* The theorems.                                                            *)

\* PmInv is inductive.
THEOREM PmInvariant == Spec => []PmInv
<1>1. ASSUME PmInv, [Next]_vars
      PROVE  PmInv'
  <2>1. CASE UNCHANGED vars
    BY <1>1, <2>1
    DEF vars, calls, emitted, PmInv, TypeOK, Chain, Effect, Width, Fresh,
        Index, InCycle, IsMoved, Top
  <2>2. CASE \E m \in Moves : PmAdd(m)
    BY <1>1, <2>2, PmAddStep
  <2>3. CASE PmGen
    BY <1>1, <2>3, PmGenStep
  <2>4. CASE Finish
    BY <1>1, <2>4, FinishStep
  <2>5. CASE BackToScan
    BY <1>1, <2>5, BackToScanStep
  <2>6. ASSUME NEW i \in Index,
               Root(i) \/ SkipNoop(i) \/ CopyNow(i) \/ StartCycle(i) \/ Recurse(i)
                 \/ EndCycle(i) \/ SwapOn(i) \/ CopyBack(i)
        PROVE  PmInv'
    BY <1>1, <2>6, RootStep, SkipNoopStep, CopyNowStep, StartCycleStep,
       RecurseStep, EndCycleStep, SwapOnStep, CopyBackStep
  <2>. QED  BY <1>1, <2>1, <2>2, <2>3, <2>4, <2>5, <2>6 DEF Next
<1>. QED  BY InitStep, <1>1, PTL DEF Spec

\* The variables keep their types.
THEOREM TypeCorrect == Spec => []TypeOK
<1>1. PmInv => TypeOK
  BY DEF PmInv
<1>. QED  BY PmInvariant, <1>1, PTL

\* When all is moved, the destinations have what the sources had, all bits
\* of it, and nothing else has changed.
LEMMA AllMoved ==
  ASSUME PmInv, pc = "scan", \A i \in Index : IsMoved(i)
  PROVE  /\ \A i \in Index : from[pm[i].dst] = pm[i].src /\ wid[pm[i].dst] >= pm[i].cls
         /\ \A x \in Locs : (\A i \in Index : pm[i].dst # x) => from[x] = x /\ wid[x] = 1
<1>1. \A i \in Index : IsMoved(i)
  OBVIOUS
<1>2. ~ InCycle
  BY DEF InCycle
<1>3. \A i \in Index : from[pm[i].dst] = pm[i].src
  BY <1>1 DEF PmInv, Effect
<1>4. \A x \in Locs : (\A i \in Index : pm[i].dst # x) => from[x] = x /\ wid[x] = 1
  BY <1>2 DEF PmInv, Effect, Width
<1>5. ASSUME NEW i \in Index
      PROVE  wid[pm[i].dst] >= pm[i].cls
  <2>1. CASE ~ IsNoop(pm[i])
    BY <1>1, <1>5, <2>1 DEF PmInv, Width
  <2>2. CASE IsNoop(pm[i])
    <3>1. pm[i].dst \in Locs /\ pm[i].cls \in {0, 1}
      BY <1>5, MoveType DEF PmInv, Classes
    <3>2. \A j \in Index : pm[j].dst = pm[i].dst => j = i
      BY <1>5 DEF PmInv, Chain
    <3>3. wid[pm[i].dst] = 1
      BY <1>2, <2>2, <3>1, <3>2 DEF PmInv, Width
    <3>. QED  BY <3>1, <3>3
  <2>. QED  BY <2>1, <2>2
<1>. QED  BY <1>3, <1>4, <1>5

\* pmgen does what ParallelMove says: pmadd() collects, the last step of
\* pmgen() makes the move, and no step before it is seen.
THEOREM Refinement == Spec => Implements
<1>1. Init => PM!Init
  BY DEF Init, PM!Init
<1>2. ASSUME PmInv, PmInv', [Next]_vars
      PROVE  [PM!Next]_<<pm, pc = "done", IF pc = "done" THEN from ELSE [x \in Locs |-> x],
                         IF pc = "done" THEN wid ELSE [x \in Locs |-> 1]>>
  <2>1. ASSUME NEW m \in Moves, PmAdd(m)
        PROVE  PM!Add(m)
    BY <2>1 DEF PmAdd, PM!Add, PM!Written, Index
  <2>2. CASE Finish
    <3>1. pc = "scan" /\ pc' = "done" /\ UNCHANGED <<pm, from, wid>>
      BY <2>2 DEF Finish, emitted
    <3>2. /\ \A i \in 1..Len(pm) : from'[pm[i].dst] = pm[i].src /\ wid'[pm[i].dst] >= pm[i].cls
          /\ \A x \in Locs : (\A i \in 1..Len(pm) : pm[i].dst # x) => from'[x] = x /\ wid'[x] = 1
      <4>1. \A i \in Index : status[i] = "Moving" <=> \E n \in 1..Len(stk) : stk[n] = i
        BY <1>2, <3>1 DEF PmInv, Chain
      <4>2. stk = << >>
        BY <1>2, <3>1 DEF PmInv, Chain
      <4>3. \A i \in Index : status[i] # "Moving"
        BY <4>1, <4>2
      <4>4. \A i \in Index : IsMoved(i)
        BY <1>2, <2>2, <3>1, <4>3 DEF Finish, PmInv, TypeOK, Statuses, IsMoved
      <4>. QED  BY <1>2, <3>1, <4>4, AllMoved DEF Index
    <3>3. wid' \in [Locs -> {0, 1}] /\ from' \in [Locs -> Locs \cup Sources]
      BY <1>2 DEF PmInv, TypeOK, Classes
    <3>4. \A x \in Locs : from'[x] \in Locs \cup {pm[i].src : i \in 1..Len(pm)}
      BY <3>2
    <3>5. from' \in [Locs -> Locs \cup {pm[i].src : i \in 1..Len(pm)}]
      BY <3>3, <3>4
    <3>6. PM!MoveAll
      BY <3>1, <3>2, <3>3, <3>5 DEF PM!MoveAll, PM!Written
    <3>. QED  BY <3>6 DEF PM!Next
  <2>3. ASSUME UNCHANGED pm, pc # "done", pc' # "done"
        PROVE  UNCHANGED <<pm, pc = "done", IF pc = "done" THEN from ELSE [x \in Locs |-> x],
                           IF pc = "done" THEN wid ELSE [x \in Locs |-> 1]>>
    BY <2>3
  <2>4. CASE UNCHANGED vars
    BY <2>4 DEF vars, emitted
  <2>5. ASSUME PmGen \/ BackToScan
               \/ \E i \in Index :
                    Root(i) \/ SkipNoop(i) \/ CopyNow(i) \/ StartCycle(i) \/ Recurse(i)
                      \/ EndCycle(i) \/ SwapOn(i) \/ CopyBack(i)
        PROVE  UNCHANGED pm /\ pc # "done" /\ pc' # "done"
    BY <2>5 DEF PmGen, BackToScan, Root, SkipNoop, CopyNow, StartCycle, Recurse,
                EndCycle, SwapOn, CopyBack, Return, Resume, Waiting
  <2>. QED  BY <1>2, <2>1, <2>2, <2>3, <2>4, <2>5 DEF Next, PM!Next
<1>. QED  BY <1>1, <1>2, PmInvariant, PTL DEF Spec, Implements, PM!Spec

\* A cycle is closed by one of the activations that wait: pmgen loses nothing
\* when it ignores the result of the outermost one.
THEOREM CycleClosedCorrect == Spec => []CycleClosed
<1>1. ASSUME PmInv, pc = "return", stk = << >>, c # None
      PROVE  FALSE
  <2>1. status[c] = "Moving" /\ c \in Index
    BY <1>1 DEF PmInv, Chain, InCycle
  <2>2. \E n \in 1..Len(stk) : stk[n] = c
    BY <1>1, <2>1 DEF PmInv, Chain
  <2>. QED  BY <1>1, <2>2
<1>2. PmInv => CycleClosed
  BY <1>1 DEF CycleClosed
<1>. QED  BY PmInvariant, <1>2, PTL

\* When the moves read registers only, as those of dopm() do, swaps only
\* have register operands, though some destinations are slots: a move in a
\* cycle has a destination that another one reads.
THEOREM RegisterSwaps == Spec => []SwapsKept
<1>. DEFINE FewSwaps == pc = "add" => swapped = {}
<1>1. Init => SwapsKept /\ FewSwaps
  BY DEF Init, SwapsKept, SwapsBetweenRegisters
<1>2. ASSUME PmInv, SwapsKept, FewSwaps, [Next]_vars
      PROVE  SwapsKept' /\ FewSwaps'
  <2>. SUFFICES ASSUME pc # "add", UNCHANGED pm, \A i \in Index : pm[i].src \in Regs,
                       SwapsBetweenRegisters
                PROVE  SwapsBetweenRegisters'
    <3>1. CASE pc = "add"
      <4>1. swapped' = {}
        BY <1>2, <3>1 DEF Next, vars, emitted, PmAdd, PmGen, Finish, BackToScan, Root,
             SkipNoop, CopyNow, StartCycle, Recurse, EndCycle, SwapOn, CopyBack, Waiting
      <4>. QED  BY <4>1 DEF SwapsKept, SwapsBetweenRegisters
    <3>2. CASE pc # "add"
      <4>1. UNCHANGED pm /\ pc' # "add"
        BY <1>2, <3>2 DEF Next, vars, PmAdd, PmGen, Finish, BackToScan, Root, SkipNoop,
             CopyNow, StartCycle, Recurse, EndCycle, SwapOn, CopyBack, Waiting, Return, Resume
      <4>2. Index' = Index
        BY <4>1 DEF Index
      <4>. QED  BY <1>2, <3>2, <4>1, <4>2 DEF SwapsKept
    <3>. QED  BY <3>1, <3>2
  <2>1. CASE UNCHANGED swapped
    BY <1>2, <2>1 DEF SwapsBetweenRegisters
  <2>2. ASSUME NEW i \in Index, StartCycle(i)
        PROVE  SwapsBetweenRegisters'
    <3>1. PICK j \in Index : status[j] = "Moving"
      BY <2>2 DEF StartCycle, Definers
    <3>2. stk # << >>
      BY <1>2, <3>1, EmptySeq, <2>2 DEF PmInv, Chain, StartCycle
    <3>3. pm[i].dst = pm[Top].src /\ Top \in Index
      BY <1>2, <2>2, <3>2, PopTop DEF PmInv, Chain, StartCycle, Top, TypeOK
    <3>4. pm[i].dst \in Regs /\ pm[i].src \in Regs
      BY <1>2, <2>2, <3>3
    <3>. QED  BY <1>2, <2>2, <3>4
              DEF StartCycle, EmitSwap, SwapsBetweenRegisters
  <2>3. ASSUME NEW i \in Index, SwapOn(i)
        PROVE  SwapsBetweenRegisters'
    <3>1. SwapOn(i) => Waiting(i) /\ c # None /\ c # i /\ Resume(i, c)
      BY DEF SwapOn
    <3>2. pm[i].dst = pm[Top'].src /\ stk' \in Seq(Index)
      BY <1>2, <2>3, <3>1, ResumeStep
    <3>3. stk' # << >> /\ Index' = Index /\ pm' = pm
      <4>1. c' = c /\ status' = [status EXCEPT ![i] = "Moved"] /\ pm' = pm
            /\ pc' = "return" /\ pc = "return"
        BY <2>3 DEF SwapOn, Resume, Waiting
      <4>2. c \in Index /\ status[c] = "Moving"
        BY <1>2, <2>3, <4>1, <3>1 DEF PmInv, Chain, InCycle
      <4>3. status'[c] = "Moving" /\ Chain'
        BY <1>2, <2>3, <3>1, <4>1, <4>2, ResumeStep DEF PmInv, TypeOK
      <4>4. PICK n \in 1..Len(stk') : stk'[n] = c
        BY <4>1, <4>2, <4>3 DEF Chain, Index
      <4>5. Len(stk') # 0
        BY <3>2, <4>4, LenProperties
      <4>. QED  BY <4>1, <4>5 DEF Index
    <3>4. Top' \in Index
      BY <3>2, <3>3, PopTop DEF Top
    <3>5. pm[i].dst \in Regs /\ pm[i].src \in Regs
      BY <2>3, <3>2, <3>3, <3>4
    <3>. QED  BY <1>2, <2>3, <3>5 DEF SwapOn, EmitSwap, SwapsBetweenRegisters
  <2>. QED
    BY <1>2, <2>1, <2>2, <2>3
    DEF Next, vars, emitted, PmAdd, PmGen, Finish, BackToScan, Root, SkipNoop,
        CopyNow, Recurse, EndCycle, CopyBack, EmitCopy
<1>. QED  BY <1>1, <1>2, PmInvariant, PTL DEF Spec
=============================================================================
