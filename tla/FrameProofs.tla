---------------------------- MODULE FrameProofs ----------------------------
(***************************************************************************)
(* Proofs about Frame: for any allocs, spills and saved registers, nothing *)
(* in the frame of any of the targets overlaps, and all of it is aligned.  *)
(***************************************************************************)
EXTENDS Frame, TLAPS

-----------------------------------------------------------------------------
(* Arithmetic of the passes.                                                *)

LEMMA RoundUp4 ==
  ASSUME NEW x \in Nat
  PROVE  /\ RoundUp(x, 4) \in Nat
         /\ RoundUp(x, 4) % 4 = 0
         /\ x <= RoundUp(x, 4)
BY SMT DEF RoundUp

LEMMA RoundUp16 ==
  ASSUME NEW x \in Nat
  PROVE  /\ RoundUp(x, 16) \in Nat
         /\ RoundUp(x, 16) % 16 = 0
         /\ x <= RoundUp(x, 16)
BY SMT DEF RoundUp

LEMMA AllocWordsAligned ==
  ASSUME NEW sz \in Nat, NEW n \in {4, 8, 16}
  PROVE  /\ AllocWords(sz, n) \in Nat
         /\ n = 8 => AllocWords(sz, n) % 2 = 0
         /\ n = 16 => AllocWords(sz, n) % 4 = 0
<1>1. CASE n = 4
  BY <1>1, SMT DEF AllocWords
<1>2. CASE n = 8
  BY <1>2, SMT DEF AllocWords
<1>3. CASE n = 16
  BY <1>3, SMT DEF AllocWords
<1>. QED  BY <1>1, <1>2, <1>3

\* Going up by a multiple of n keeps multiples of what n is a multiple of.
LEMMA MultipleUp ==
  ASSUME NEW x \in Int, NEW w \in Int, NEW m \in {4, 8, 16}, NEW n \in {4, 8, 16},
         m <= n, Multiple(x, m), Multiple(w, n)
  PROVE  Multiple(x + w, m)
<1>1. CASE m = 4
  BY <1>1 DEF Multiple
<1>2. CASE m = 8 /\ n = 8
  BY <1>2, SMT DEF Multiple
<1>3. CASE m = 8 /\ n = 16
  BY <1>3, SMT DEF Multiple
<1>4. CASE m = 16
  BY <1>4, SMT DEF Multiple
<1>. QED  BY <1>1, <1>2, <1>3, <1>4

\* What SetSlot does to the types.
LEMMA SetSlotType ==
  ASSUME TypeOK, NEW o \in Objects, NEW s \in Nat, NEW w \in Nat, NEW n \in {4, 8, 16},
         SetSlot(o, s, w, n)
  PROVE  /\ slot' \in [Objects -> Nat \cup {Unset}]
         /\ words' \in [Objects -> Nat]
         /\ align' \in [Objects -> {4, 8, 16}]
         /\ slot'[o] = s /\ words'[o] = w /\ align'[o] = n
         /\ \A p \in Objects \ {o} :
              slot'[p] = slot[p] /\ words'[p] = words[p] /\ align'[p] = align[p]
BY DEF SetSlot, TypeOK

-----------------------------------------------------------------------------
(* One lemma for each action.                                               *)

LEMMA InitStep == Init => FrameInv
<1>. SUFFICES ASSUME Init PROVE FrameInv
  OBVIOUS
<1>. USE DEF Init, Unset
<1>1. TypeOK
  BY SavesAssumption DEF TypeOK, Targets
<1>2. \A o \in Objects : ~ HasSlot(o)
  BY DEF HasSlot
<1>. QED
  BY <1>1, <1>2 DEF FrameInv, OneHole, SlotsDisjoint, AllocsPlaced, SpillsPlaced,
                    Counted, Emitted, Objects

LEMMA AllocStep ==
  ASSUME FrameInv, NEW a \in Allocs, NEW sz \in Sizes, AllocSlot(a, sz)
  PROVE  FrameInv'
<1>. DEFINE w == AllocWords(sz, al)
<1>. USE DEF FrameInv, AllocSlot, emitvars
<1>1. /\ a \in Objects /\ al \in {4, 8, 16} /\ fnslot \in Nat
      /\ w \in Nat /\ Multiple(w, al)
  <2>1. a \in Objects /\ al \in {4, 8, 16} /\ fnslot \in Nat /\ sz \in Nat
    BY SizesAssumption DEF Objects, TypeOK
  <2>2. /\ w \in Nat
        /\ al = 8 => w % 2 = 0
        /\ al = 16 => w % 4 = 0
    BY <2>1, AllocWordsAligned
  <2>. QED  BY <2>1, <2>2 DEF Multiple
<1>2. /\ slot' \in [Objects -> Nat \cup {Unset}]
      /\ words' \in [Objects -> Nat]
      /\ align' \in [Objects -> {4, 8, 16}]
      /\ slot'[a] = fnslot /\ words'[a] = w /\ align'[a] = al
      /\ \A p \in Objects \ {a} :
           slot'[p] = slot[p] /\ words'[p] = words[p] /\ align'[p] = align[p]
  <2>. HIDE DEF w
  <2>1. SetSlot(a, fnslot, w, al)
    BY DEF w
  <2>. QED  BY <1>1, <2>1, SetSlotType
<1>3. phase = "isel" /\ fnslot' = fnslot + w /\ AllocTop = fnslot /\ AllocTop' = fnslot + w
  BY DEF AllocTop
<1>. HIDE DEF w
<1>4. TypeOK'
  BY <1>1, <1>2, <1>3 DEF TypeOK
<1>5. AllocsPlaced'
  <2>1. ASSUME NEW b \in Allocs, HasSlot(b)'
        PROVE  /\ slot'[b] + words'[b] <= AllocTop'
               /\ align'[b] <= al'
               /\ Multiple(AllocTop' - slot'[b], align'[b])
    <3>1. CASE b = a
      BY <1>1, <1>2, <1>3, <3>1 DEF Multiple
    <3>2. CASE b # a
      <4>1. /\ b \in Objects /\ HasSlot(b)
            /\ slot'[b] = slot[b] /\ words'[b] = words[b] /\ align'[b] = align[b]
        BY <1>2, <2>1, <3>2 DEF Objects, HasSlot
      <4>2. /\ slot[b] \in Nat /\ words[b] \in Nat /\ align[b] \in {4, 8, 16}
        BY <4>1 DEF TypeOK, HasSlot
      <4>3. /\ slot[b] + words[b] <= fnslot
            /\ align[b] <= al
            /\ Multiple(fnslot - slot[b], align[b])
        BY <1>3, <4>1 DEF AllocsPlaced
      <4>4. Multiple((fnslot - slot[b]) + w, align[b])
        <5>1. fnslot - slot[b] \in Int /\ w \in Int
          BY <1>1, <4>2
        <5>. QED  BY <1>1, <4>2, <4>3, <5>1, MultipleUp
      <4>5. (fnslot - slot[b]) + w = (fnslot + w) - slot[b]
        BY <1>1, <4>2
      <4>. QED  BY <1>1, <1>3, <4>1, <4>2, <4>3, <4>4, <4>5
    <3>. QED  BY <3>1, <3>2
  <2>. QED  BY <2>1 DEF AllocsPlaced
<1>6. \A t \in Temps : ~ HasSlot(t)'
  BY <1>2, <1>3, ObjectsAssumption DEF SpillsPlaced, HasSlot, Objects
<1>7. SlotsDisjoint'
  <2>1. \A b \in Objects \ {a} : HasSlot(b)' => slot'[b] + words'[b] <= slot'[a]
    BY <1>2, <1>3, <1>6 DEF AllocsPlaced, HasSlot, Objects
  <2>. QED  BY <1>1, <1>2, <2>1 DEF SlotsDisjoint, HasSlot
<1>8. OneHole' /\ SpillsPlaced' /\ Counted' /\ Emitted'
  BY <1>3, <1>6 DEF OneHole, SpillsPlaced, Counted, Emitted
<1>. QED  BY <1>4, <1>5, <1>7, <1>8

LEMMA NextAlignStep ==
  ASSUME FrameInv, NextAlign
  PROVE  FrameInv'
<1>. USE DEF FrameInv, NextAlign, slotvars, emitvars
<1>1. TypeOK'
  BY DEF TypeOK
<1>2. AllocsPlaced'
  <2>1. \A a \in Allocs : align[a] \in {4, 8, 16}
    BY DEF TypeOK, Objects
  <2>2. al \in {4, 8, 16} /\ al' = 2 * al
    BY DEF TypeOK
  <2>3. \A a \in Allocs : align[a] <= al => align[a] <= al'
    BY <2>1, <2>2
  <2>. QED  BY <2>3 DEF AllocsPlaced, HasSlot, AllocTop
<1>3. OneHole' /\ SlotsDisjoint' /\ SpillsPlaced' /\ Counted' /\ Emitted'
  BY DEF OneHole, SlotsDisjoint, SpillsPlaced, Counted, Emitted, HasSlot
<1>. QED  BY <1>1, <1>2, <1>3

LEMMA StartSpillStep ==
  ASSUME FrameInv, StartSpill
  PROVE  FrameInv'
<1>. USE DEF FrameInv, StartSpill, slotvars, emitvars
<1>1. TypeOK'
  BY DEF TypeOK
<1>2. AllocsPlaced' /\ SlotsDisjoint' /\ Counted' /\ Emitted'
  BY DEF AllocsPlaced, SlotsDisjoint, Counted, Emitted, HasSlot, AllocTop
<1>3. \A t \in Temps : ~ HasSlot(t)'
  BY DEF SpillsPlaced, HasSlot
<1>4. SpillsPlaced'
  BY <1>3 DEF SpillsPlaced
<1>5. OneHole'
  <2>1. \A a \in Allocs : HasSlot(a)' => slot'[a] + words'[a] <= locs'
    BY DEF AllocsPlaced, HasSlot, AllocTop
  <2>2. \A o \in Objects : HasSlot(o)' =>
          /\ slot'[o] + words'[o] <= locs'
          /\ slot'[o] \in Nat /\ words'[o] \in Nat
    BY <1>1, <1>3, <2>1 DEF Objects, TypeOK, HasSlot
  <2>3. locs' \in Nat /\ slot4' = 0 /\ slot8' = 0
    BY <1>1 DEF TypeOK
  <2>. QED  BY <2>2, <2>3, SMT DEF OneHole
<1>. QED  BY <1>1, <1>2, <1>4, <1>5

\* A spill slot in words that nothing has, below the new slot8.
LEMMA SpillPlaced ==
  ASSUME FrameInv, phase = "spill",
         UNCHANGED <<phase, al, fnslot, locs, emitvars>>,
         NEW t \in Temps, slot[t] = Unset,
         NEW off \in Nat, NEW w \in {1, 2}, NEW n \in {4, 8}, n = 8 => off % 2 = 0,
         SetSlot(t, locs + off, w, n),
         slot4' \in Nat, slot8' \in Nat, slot8 <= slot8', off + w <= slot8',
         \A o \in Objects : HasSlot(o) =>
           slot[o] + words[o] <= locs + off \/ locs + off + w <= slot[o]
  PROVE  /\ TypeOK' /\ SlotsDisjoint' /\ AllocsPlaced' /\ SpillsPlaced' /\ Counted' /\ Emitted'
         /\ slot'[t] = locs + off /\ words'[t] = w
         /\ \A o \in Objects \ {t} : slot'[o] = slot[o] /\ words'[o] = words[o]
<1>. USE DEF FrameInv, emitvars
<1>1. t \in Objects /\ locs + off \in Nat /\ w \in Nat /\ n \in {4, 8, 16} /\ locs \in Nat
  BY DEF Objects, TypeOK
<1>2. /\ slot' \in [Objects -> Nat \cup {Unset}]
      /\ words' \in [Objects -> Nat]
      /\ align' \in [Objects -> {4, 8, 16}]
      /\ slot'[t] = locs + off /\ words'[t] = w /\ align'[t] = n
      /\ \A o \in Objects \ {t} :
           slot'[o] = slot[o] /\ words'[o] = words[o] /\ align'[o] = align[o]
  BY <1>1, SetSlotType
<1>3. TypeOK'
  BY <1>2 DEF TypeOK
<1>4. AllocsPlaced'
  BY <1>2, ObjectsAssumption DEF AllocsPlaced, HasSlot, AllocTop, Objects
<1>5. SpillsPlaced'
  <2>1. ASSUME NEW u \in Temps, HasSlot(u)'
        PROVE  /\ locs' <= slot'[u] /\ slot'[u] + words'[u] <= locs' + slot8'
               /\ align'[u] # 16 /\ Multiple(slot'[u] - locs', align'[u])
    <3>1. CASE u = t
      <4>1. slot'[u] - locs' = off /\ align'[u] = n
        BY <1>1, <1>2, <3>1
      <4>2. slot'[u] = locs + off /\ words'[u] = w /\ locs' = locs
        BY <1>2, <3>1
      <4>3. locs <= locs + off /\ locs + off + w <= locs + slot8'
        BY <1>1
      <4>4. Multiple(off, n) /\ n # 16
        BY DEF Multiple
      <4>. QED  BY <4>1, <4>2, <4>3, <4>4
    <3>2. CASE u # t
      <4>1. /\ u \in Objects /\ HasSlot(u)
            /\ slot'[u] = slot[u] /\ words'[u] = words[u] /\ align'[u] = align[u]
        BY <1>2, <2>1, <3>2 DEF Objects, HasSlot
      <4>2. slot[u] \in Nat /\ words[u] \in Nat /\ slot8 \in Nat
        BY <4>1 DEF TypeOK, HasSlot
      <4>. QED  BY <1>1, <4>1, <4>2 DEF SpillsPlaced
    <3>. QED  BY <3>1, <3>2
  <2>. QED  BY <2>1 DEF SpillsPlaced
<1>6. SlotsDisjoint'
  <2>1. \A o \in Objects \ {t} : HasSlot(o)' =>
          \/ slot'[o] + words'[o] <= slot'[t]
          \/ slot'[t] + words'[t] <= slot'[o]
    BY <1>2 DEF HasSlot
  <2>2. \A o, p \in Objects \ {t} : o # p /\ HasSlot(o)' /\ HasSlot(p)' =>
          \/ slot'[o] + words'[o] <= slot'[p]
          \/ slot'[p] + words'[p] <= slot'[o]
    BY <1>2 DEF HasSlot, SlotsDisjoint
  <2>. QED  BY <2>1, <2>2 DEF SlotsDisjoint
<1>7. Counted' /\ Emitted'
  BY DEF Counted, Emitted
<1>. QED  BY <1>2, <1>3, <1>4, <1>5, <1>6, <1>7

\* While temporaries are spilled, everything lies below slot8.
LEMMA BelowSlot8 ==
  ASSUME FrameInv, phase = "spill"
  PROVE  \A o \in Objects : HasSlot(o) =>
           slot[o] \in Nat /\ words[o] \in Nat /\ slot[o] + words[o] <= locs + slot8
<1>. USE DEF FrameInv
<1>1. \A o \in Objects : HasSlot(o) => slot[o] \in Nat /\ words[o] \in Nat
  BY DEF TypeOK, HasSlot
<1>2. \A a \in Allocs : HasSlot(a) => slot[a] + words[a] <= locs
  BY DEF AllocsPlaced, AllocTop
<1>3. \A t \in Temps : HasSlot(t) => slot[t] + words[t] <= locs + slot8
  BY DEF SpillsPlaced
<1>4. locs \in Nat /\ slot8 \in Nat
  BY DEF TypeOK
<1>. QED  BY <1>1, <1>2, <1>3, <1>4 DEF Objects

LEMMA SpillWideStep ==
  ASSUME FrameInv, NEW t \in Temps, SpillWide(t)
  PROVE  FrameInv'
<1>. USE DEF SpillWide
<1>1. /\ slot4 \in Nat /\ slot8 \in Nat /\ locs \in Nat
      /\ slot8 % 2 = 0
      /\ slot4 = slot8 \/ (slot4 < slot8 /\ slot4 % 2 = 1)
  BY DEF FrameInv, TypeOK, OneHole
<1>2. slot4' \in Nat /\ slot8' = slot8 + 2 /\ slot8' \in Nat /\ slot8 <= slot8'
  BY <1>1
<1>3. \A o \in Objects : HasSlot(o) =>
        slot[o] \in Nat /\ words[o] \in Nat /\ slot[o] + words[o] <= locs + slot8
  BY BelowSlot8
<1>4. /\ TypeOK' /\ SlotsDisjoint' /\ AllocsPlaced' /\ SpillsPlaced' /\ Counted' /\ Emitted'
      /\ slot'[t] = locs + slot8 /\ words'[t] = 2
      /\ \A o \in Objects \ {t} : slot'[o] = slot[o] /\ words'[o] = words[o]
  BY <1>1, <1>2, <1>3, SpillPlaced
<1>5. OneHole'
  <2>1. slot8' % 2 = 0
    BY <1>1, <1>2
  <2>2. slot4' = slot8' \/ (slot4' < slot8' /\ slot4' % 2 = 1)
    BY <1>1, <1>2
  <2>3. ASSUME NEW o \in Objects, HasSlot(o)', slot'[o] >= locs'
        PROVE  ~ (slot'[o] <= locs' + slot4' /\ locs' + slot4' < slot'[o] + words'[o])
    <3>1. CASE o = t
      BY <1>1, <1>2, <1>4, <3>1
    <3>2. CASE o # t
      <4>1. /\ HasSlot(o) /\ slot'[o] = slot[o] /\ words'[o] = words[o]
        BY <1>4, <2>3, <3>2 DEF HasSlot
      <4>2. CASE slot4 = slot8
        BY <1>1, <1>2, <1>3, <4>1, <4>2
      <4>3. CASE slot4 # slot8
        BY <2>3, <4>1, <4>3 DEF FrameInv, OneHole
      <4>. QED  BY <4>2, <4>3
    <3>. QED  BY <3>1, <3>2
  <2>. QED  BY <2>1, <2>2, <2>3 DEF OneHole
<1>. QED  BY <1>4, <1>5 DEF FrameInv

LEMMA SpillNarrowStep ==
  ASSUME FrameInv, NEW t \in Temps, SpillNarrow(t)
  PROVE  FrameInv'
<1>. USE DEF SpillNarrow
<1>1. /\ slot4 \in Nat /\ slot8 \in Nat /\ locs \in Nat
      /\ slot8 % 2 = 0
      /\ slot4 = slot8 \/ (slot4 < slot8 /\ slot4 % 2 = 1)
  BY DEF FrameInv, TypeOK, OneHole
<1>2. /\ slot4' \in Nat /\ slot8' \in Nat /\ slot8 <= slot8' /\ slot4 + 1 <= slot8'
  BY <1>1
<1>3. \A o \in Objects : HasSlot(o) =>
        slot[o] \in Nat /\ words[o] \in Nat /\ slot[o] + words[o] <= locs + slot8
  BY BelowSlot8
<1>4. \A o \in Objects : HasSlot(o) =>
        slot[o] + words[o] <= locs + slot4 \/ locs + slot4 + 1 <= slot[o]
  <2>1. \A a \in Allocs : HasSlot(a) => slot[a] + words[a] <= locs
    BY DEF FrameInv, AllocsPlaced, AllocTop
  <2>2. \A u \in Temps : HasSlot(u) => slot[u] >= locs
    BY DEF FrameInv, SpillsPlaced, TypeOK, HasSlot, Objects
  <2>3. \A u \in Temps : HasSlot(u) =>
          ~ (slot[u] <= locs + slot4 /\ locs + slot4 < slot[u] + words[u])
    BY <2>2 DEF FrameInv, OneHole, Objects
  <2>. QED  BY <1>1, <1>3, <2>1, <2>3 DEF Objects
<1>5. /\ TypeOK' /\ SlotsDisjoint' /\ AllocsPlaced' /\ SpillsPlaced' /\ Counted' /\ Emitted'
      /\ slot'[t] = locs + slot4 /\ words'[t] = 1
      /\ \A o \in Objects \ {t} : slot'[o] = slot[o] /\ words'[o] = words[o]
  BY <1>1, <1>2, <1>4, SpillPlaced
<1>6. OneHole'
  <2>1. slot8' % 2 = 0
    BY <1>1
  <2>2. slot4' = slot8' \/ (slot4' < slot8' /\ slot4' % 2 = 1)
    BY <1>1
  <2>3. ASSUME NEW o \in Objects, HasSlot(o)'
        PROVE  slot'[o] + words'[o] <= locs' + slot4'
    <3>1. CASE o = t
      BY <1>1, <1>5, <3>1
    <3>2. CASE o # t
      <4>1. HasSlot(o) /\ slot'[o] = slot[o] /\ words'[o] = words[o]
        BY <1>5, <2>3, <3>2 DEF HasSlot
      <4>. QED  BY <1>1, <1>3, <4>1
    <3>. QED  BY <3>1, <3>2
  <2>4. \A o \in Objects : HasSlot(o)' => slot'[o] \in Nat /\ words'[o] \in Nat
    BY <1>5 DEF TypeOK, HasSlot
  <2>5. locs' \in Nat /\ slot4' \in Nat
    BY <1>5 DEF TypeOK
  <2>. QED  BY <2>1, <2>2, <2>3, <2>4, <2>5 DEF OneHole
<1>. QED  BY <1>5, <1>6 DEF FrameInv

LEMMA FinishSpillStep ==
  ASSUME FrameInv, FinishSpill
  PROVE  FrameInv'
<1>. USE DEF FrameInv, FinishSpill, slotvars, emitvars
<1>1. slot8 \in Nat /\ slot8 % 2 = 0 /\ fnslot = locs /\ locs \in Nat
  BY DEF TypeOK, OneHole, Counted
<1>2. slot8' \in Nat /\ slot8 <= slot8' /\ slot8' % 4 = 0 /\ fnslot' = locs + slot8'
  BY <1>1
<1>3. TypeOK'
  BY <1>1, <1>2 DEF TypeOK
<1>4. AllocsPlaced' /\ SlotsDisjoint' /\ OneHole' /\ Emitted'
  BY DEF AllocsPlaced, SlotsDisjoint, OneHole, Emitted, HasSlot, AllocTop
<1>5. SpillsPlaced'
  <2>1. \A t \in Temps : HasSlot(t) => slot[t] \in Nat /\ words[t] \in Nat
    BY DEF TypeOK, HasSlot, Objects
  <2>. QED  BY <1>1, <1>2, <2>1 DEF SpillsPlaced, HasSlot
<1>6. Counted'
  BY <1>2 DEF Counted
<1>. QED  BY <1>3, <1>4, <1>5, <1>6

LEMMA EmitStep ==
  ASSUME FrameInv, NEW v \in {0, 1}, NEW j \in 0..MaxSaves,
         EmitAmd64(v, j) \/ EmitArm64(v, j) \/ EmitRv64(v, j)
  PROVE  FrameInv'
<1>. USE DEF FrameInv, Emitting, slotvars
<1>1. \E tgt \in Targets : Emitting(tgt, v, j)
  BY DEF EmitAmd64, EmitArm64, EmitRv64, Targets
<1>2. fnslot \in Nat /\ fnslot' = fnslot /\ Canary \in Nat /\ j \in Nat
  BY <1>1, CanaryAssumption DEF TypeOK
<1>3. frame' \in Nat /\ padding' \in Nat /\ Emitted'
  <2>1. CASE EmitAmd64(v, j)
    BY <1>2, <2>1, RoundUp4 DEF EmitAmd64, Emitted
  <2>2. CASE EmitArm64(v, j)
    <3>1. fnslot + 2 * Canary \in Nat
      BY <1>2
    <3>. QED  BY <1>2, <2>2, <3>1, RoundUp4 DEF EmitArm64, Emitted
  <2>3. CASE EmitRv64(v, j)
    <3>1. RoundUp(16 + 4 * fnslot, 16) \in Nat
      BY <1>2, RoundUp16
    <3>2. RoundUp(RoundUp(16 + 4 * fnslot, 16) + 8 * j, 16) \in Nat
      BY <1>2, <3>1, RoundUp16
    <3>. QED  BY <1>2, <2>3, <3>2 DEF EmitRv64, Emitted
  <2>. QED  BY <2>1, <2>2, <2>3
<1>4. TypeOK'
  BY <1>1, <1>3 DEF TypeOK
<1>5. AllocsPlaced' /\ SpillsPlaced' /\ SlotsDisjoint' /\ OneHole' /\ Counted'
  BY <1>1 DEF AllocsPlaced, SpillsPlaced, SlotsDisjoint, OneHole, Counted, HasSlot, AllocTop
<1>. QED  BY <1>3, <1>4, <1>5

LEMMA StutterStep ==
  ASSUME FrameInv, UNCHANGED vars
  PROVE  FrameInv'
BY DEF FrameInv, vars, slotvars, emitvars, TypeOK, OneHole, SlotsDisjoint, AllocsPlaced,
       SpillsPlaced, Counted, Emitted, HasSlot, AllocTop

-----------------------------------------------------------------------------
(* What the invariant says of the emitted frame.                            *)

\* An emitted object is as far from the end of the slots as its alignment
\* asks, and inside them.
LEMMA ObjectPlace ==
  ASSUME FrameInv, phase = "done", NEW o \in Objects, HasSlot(o)
  PROVE  /\ slot[o] \in Nat /\ words[o] \in Nat /\ align[o] \in {4, 8, 16}
         /\ slot[o] + words[o] <= fnslot
         /\ Multiple(fnslot - slot[o], align[o])
<1>. USE DEF FrameInv
<1>1. slot[o] \in Nat /\ words[o] \in Nat /\ align[o] \in {4, 8, 16}
  BY DEF TypeOK, HasSlot
<1>2. /\ fnslot = locs + slot8 /\ slot8 % 4 = 0
      /\ fnslot \in Nat /\ locs \in Nat /\ slot8 \in Nat
  BY DEF TypeOK, Counted
<1>3. CASE o \in Allocs
  <2>1. slot[o] + words[o] <= locs /\ Multiple(locs - slot[o], align[o])
    BY <1>3 DEF AllocsPlaced, AllocTop
  <2>2. fnslot - slot[o] = (locs - slot[o]) + slot8 /\ locs - slot[o] \in Int
    BY <1>1, <1>2
  <2>3. Multiple(slot8, 16) /\ slot8 \in Int /\ 16 \in {4, 8, 16} /\ align[o] <= 16
    BY <1>1, <1>2 DEF Multiple
  <2>4. Multiple((locs - slot[o]) + slot8, align[o])
    BY <1>1, <2>1, <2>2, <2>3, MultipleUp
  <2>. QED  BY <1>1, <1>2, <2>1, <2>2, <2>4
<1>4. CASE o \in Temps
  <2>1. /\ locs <= slot[o] /\ slot[o] + words[o] <= locs + slot8
        /\ align[o] # 16 /\ Multiple(slot[o] - locs, align[o])
    BY <1>4 DEF SpillsPlaced
  <2>2. align[o] = 8 => (fnslot - slot[o]) % 2 = 0
    <3>1. ASSUME align[o] = 8 PROVE (slot[o] - locs) % 2 = 0
      BY <2>1, <3>1 DEF Multiple
    <3>. QED  BY <1>1, <1>2, <3>1, SMT
  <2>3. Multiple(fnslot - slot[o], align[o])
    BY <1>1, <2>1, <2>2 DEF Multiple
  <2>. QED  BY <1>1, <1>2, <2>1, <2>3
<1>. QED  BY <1>3, <1>4 DEF Objects

\* Where the slot s is, on each target.
LEMMA Offsets ==
  ASSUME FrameInv, phase = "done", NEW s \in Int
  PROVE  /\ target = "amd64" => SlotOffset(s) = -176 * vararg - 4 * (fnslot - s)
         /\ target = "arm64" =>
              SlotOffset(s) = 16 + 4 * RoundUp(fnslot + 2 * Canary, 4) - 4 * (fnslot - s)
         /\ target = "rv64" => SlotOffset(s) = -4 * (fnslot - s)
<1>1. /\ fnslot \in Nat /\ vararg \in {0, 1} /\ Canary \in {0, 1}
      /\ RoundUp(fnslot + 2 * Canary, 4) \in Nat
  BY CanaryAssumption, RoundUp4 DEF FrameInv, TypeOK
<1>2. target = "arm64" =>
        padding = 4 * (RoundUp(fnslot + 2 * Canary, 4) - (fnslot + 2 * Canary))
  BY DEF FrameInv, Emitted
<1>3. CASE target = "amd64"
  BY <1>1, <1>3 DEF SlotOffset
<1>4. CASE target = "arm64"
  BY <1>1, <1>2, <1>4 DEF SlotOffset
<1>5. CASE target = "rv64"
  BY <1>1, <1>5 DEF SlotOffset
<1>. QED  BY <1>3, <1>4, <1>5

LEMMA Alignment == FrameInv => SlotsAligned
<1>. SUFFICES ASSUME FrameInv, phase = "done", NEW o \in Objects, HasSlot(o)
     PROVE  SlotOffset(slot[o]) % align[o] = 0
  BY DEF SlotsAligned
<1>. DEFINE d == fnslot - slot[o]
            f == RoundUp(fnslot + 2 * Canary, 4)
<1>1. /\ slot[o] \in Nat /\ align[o] \in {4, 8, 16} /\ fnslot \in Nat /\ d \in Int
      /\ align[o] = 8 => d % 2 = 0
      /\ align[o] = 16 => d % 4 = 0
  BY ObjectPlace DEF Multiple, FrameInv, TypeOK
<1>2. f \in Nat /\ f % 4 = 0 /\ vararg \in {0, 1} /\ target \in Targets
  BY <1>1, CanaryAssumption, RoundUp4 DEF FrameInv, TypeOK
<1>3. /\ target = "amd64" => SlotOffset(slot[o]) = -176 * vararg - 4 * d
      /\ target = "arm64" => SlotOffset(slot[o]) = 16 + 4 * f - 4 * d
      /\ target = "rv64" => SlotOffset(slot[o]) = -4 * d
  <2>1. slot[o] \in Int
    BY <1>1
  <2>. QED  BY <2>1, Offsets, Zenon
<1>. HIDE DEF d, f
<1>4. CASE target = "amd64"
  BY <1>1, <1>2, <1>3, <1>4, SMT
<1>5. CASE target = "arm64"
  BY <1>1, <1>2, <1>3, <1>5, SMT
<1>6. CASE target = "rv64"
  BY <1>1, <1>3, <1>6, SMT
<1>. QED  BY <1>2, <1>4, <1>5, <1>6 DEF Targets

\* The sizes that emit computed.
LEMMA Sizing ==
  ASSUME FrameInv, phase = "done"
  PROVE  /\ fnslot \in Nat /\ nsave \in Nat /\ vararg \in {0, 1} /\ Canary \in {0, 1}
         /\ frame \in Nat /\ padding \in Nat /\ target \in Targets
         /\ target = "amd64" => \E f \in Nat :
              /\ f % 4 = 0 /\ fnslot <= f
              /\ frame = 4 * f + 8 * (nsave % 2) + 176 * vararg
         /\ target = "arm64" =>
              LET f == RoundUp(fnslot + 2 * Canary, 4)
              IN  /\ f \in Nat /\ f % 4 = 0 /\ fnslot + 2 * Canary <= f
                  /\ padding = 4 * (f - (fnslot + 2 * Canary))
                  /\ frame = 4 * f + 8 * (nsave + (nsave % 2))
         /\ target = "rv64" => frame % 16 = 0 /\ 16 + 4 * fnslot + 8 * nsave <= frame
<1>. USE DEF FrameInv
<1>1. /\ fnslot \in Nat /\ nsave \in Nat /\ vararg \in {0, 1} /\ Canary \in {0, 1}
      /\ frame \in Nat /\ padding \in Nat /\ target \in Targets
  BY CanaryAssumption, SavesAssumption DEF TypeOK
<1>2. ASSUME target = "amd64"
      PROVE  \E f \in Nat : /\ f % 4 = 0 /\ fnslot <= f
                            /\ frame = 4 * f + 8 * (nsave % 2) + 176 * vararg
  <2>1. /\ RoundUp(fnslot, 4) \in Nat
        /\ RoundUp(fnslot, 4) % 4 = 0 /\ fnslot <= RoundUp(fnslot, 4)
        /\ frame = 4 * RoundUp(fnslot, 4) + 8 * (nsave % 2) + 176 * vararg
    BY <1>1, <1>2, RoundUp4 DEF Emitted
  <2>. QED  BY <2>1
<1>3. ASSUME target = "arm64", NEW f, f = RoundUp(fnslot + 2 * Canary, 4)
      PROVE  /\ f \in Nat /\ f % 4 = 0 /\ fnslot + 2 * Canary <= f
             /\ padding = 4 * (f - (fnslot + 2 * Canary))
             /\ frame = 4 * f + 8 * (nsave + (nsave % 2))
  <2>1. fnslot + 2 * Canary \in Nat
    BY <1>1
  <2>. QED  BY <1>3, <2>1, RoundUp4 DEF Emitted
<1>4. ASSUME target = "rv64"
      PROVE  frame % 16 = 0 /\ 16 + 4 * fnslot + 8 * nsave <= frame
  <2>. DEFINE g == RoundUp(16 + 4 * fnslot, 16)
  <2>1. g \in Nat /\ 16 + 4 * fnslot <= g
    BY <1>1, RoundUp16
  <2>2. frame = RoundUp(g + 8 * nsave, 16)
    BY <1>4 DEF Emitted
  <2>. HIDE DEF g
  <2>3. g + 8 * nsave \in Nat
    BY <1>1, <2>1
  <2>. QED  BY <1>1, <2>1, <2>2, <2>3, RoundUp16
<1>. QED  BY <1>1, <1>2, <1>3, <1>4

LEMMA Stack == FrameInv => StackAligned
<1>. SUFFICES ASSUME FrameInv, phase = "done"
     PROVE  StackPointer % 16 = 0 /\ (target # "amd64" => frame % 16 = 0)
  BY DEF StackAligned
<1>1. nsave \in Nat /\ vararg \in {0, 1} /\ frame \in Nat /\ target \in Targets
  BY Sizing
<1>2. CASE target = "amd64"
  <2>1. PICK f \in Nat : f % 4 = 0 /\ frame = 4 * f + 8 * (nsave % 2) + 176 * vararg
    BY <1>2, Sizing
  <2>2. StackPointer = -frame - 8 * nsave
    BY <1>2 DEF StackPointer
  <2>3. (8 * (nsave % 2) + 8 * nsave) % 16 = 0
    BY <1>1, SMT
  <2>4. (-(4 * f) - 176 * vararg) % 16 = 0
    BY <1>1, <2>1, SMT
  <2>5. StackPointer % 16 = 0
    BY <1>1, <2>1, <2>2, <2>3, <2>4, SMT
  <2>. QED  BY <1>2, <2>5
<1>3. CASE target = "arm64"
  <2>1. PICK f \in Nat : f % 4 = 0 /\ frame = 4 * f + 8 * (nsave + (nsave % 2))
    BY <1>3, Sizing
  <2>2. frame % 16 = 0
    BY <1>1, <2>1, SMT
  <2>3. StackPointer = 0
    BY <1>3 DEF StackPointer
  <2>. QED  BY <2>2, <2>3
<1>4. CASE target = "rv64"
  <2>1. frame % 16 = 0 /\ StackPointer = -(frame - 16)
    BY <1>4, Sizing DEF StackPointer
  <2>. QED  BY <1>1, <2>1, SMT
<1>. QED  BY <1>1, <1>2, <1>3, <1>4 DEF Targets

\* Where the j-th saved register is.
LEMMA Saved ==
  ASSUME FrameInv, phase = "done", NEW j \in 0..(nsave - 1)
  PROVE  /\ target = "amd64" => SaveOffset(j) = -frame - 8 * (j + 1)
         /\ target = "arm64" =>
              SaveOffset(j) = 16 + 4 * RoundUp(fnslot + 2 * Canary, 4)
                                + 8 * ((nsave + (nsave % 2)) - (j + 1))
         /\ target = "rv64" => SaveOffset(j) = -(frame - 16) + 8 * j
<1>1. CASE target = "amd64"
  BY <1>1 DEF SaveOffset
<1>2. CASE target = "arm64"
  <2>. DEFINE f == RoundUp(fnslot + 2 * Canary, 4)
              o == nsave + (nsave % 2)
              s == (frame - padding) \div 4 - 2 * Canary - 2 * (j + 1)
  <2>1. /\ fnslot \in Nat /\ nsave \in Nat /\ Canary \in {0, 1} /\ f \in Nat /\ o \in Nat
        /\ padding = 4 * (f - (fnslot + 2 * Canary))
        /\ frame = 4 * f + 8 * o
    BY <1>2, Sizing
  <2>2. SaveOffset(j) = SlotOffset(s)
    BY <1>2 DEF SaveOffset
  <2>. HIDE DEF f, o
  <2>3. frame - padding = 4 * (2 * o + fnslot + 2 * Canary)
    BY <2>1
  <2>4. (frame - padding) \div 4 = 2 * o + fnslot + 2 * Canary
    BY <2>1, <2>3, SMT
  <2>5. s = 2 * o + fnslot - 2 * (j + 1) /\ s \in Int
    BY <2>1, <2>4
  <2>. HIDE DEF s
  <2>6. SlotOffset(s) = 16 + 4 * f - 4 * (fnslot - s)
    BY <1>2, <2>5, Offsets, Zenon DEF f
  <2>7. SaveOffset(j) = 16 + 4 * f + 8 * (o - (j + 1))
    BY <2>1, <2>2, <2>5, <2>6
  <2>8. SaveOffset(j) = 16 + 4 * RoundUp(fnslot + 2 * Canary, 4)
                          + 8 * ((nsave + (nsave % 2)) - (j + 1))
    BY <2>7, Zenon DEF f, o
  <2>9. target # "amd64" /\ target # "rv64"
    BY <1>2
  <2>. QED  BY <2>8, <2>9, Zenon
<1>3. CASE target = "rv64"
  BY <1>3 DEF SaveOffset
<1>. QED  BY <1>1, <1>2, <1>3, Sizing DEF Targets

\* The frame of each target, from its bottom: what it keeps is apart.
LEMMA DisjointAmd64 ==
  ASSUME FrameInv, phase = "done", target = "amd64"
  PROVE  FrameDisjoint
<1>1. PICK f \in Nat : fnslot <= f /\ frame = 4 * f + 8 * (nsave % 2) + 176 * vararg
  BY Sizing
<1>2. fnslot \in Nat /\ nsave \in Nat /\ vararg \in {0, 1}
  BY Sizing
<1>3. /\ StackPointer = -frame - 8 * nsave /\ FrameBottom = -frame - 8 * nsave
      /\ FrameTop = -176 * vararg
  BY DEF StackPointer, FrameBottom, FrameTop
<1>4. frame \in Nat /\ 4 * fnslot + 176 * vararg <= frame
  BY <1>1, <1>2
<1>5. ASSUME NEW j \in 0..(nsave - 1)
      PROVE  /\ SaveOffset(j) = -frame - 8 * (j + 1)
             /\ StackPointer <= SaveOffset(j) /\ SaveOffset(j) + 8 <= FrameTop
             /\ SaveOffset(j) + 8 <= -frame
  <2>1. SaveOffset(j) = -frame - 8 * (j + 1)
    BY Saved
  <2>. QED  BY <1>2, <1>3, <1>4, <2>1
<1>6. ASSUME NEW o \in Objects, HasSlot(o)
      PROVE  /\ SlotOffset(slot[o]) \in Int /\ words[o] \in Nat
             /\ FrameBottom <= SlotOffset(slot[o]) /\ -frame <= SlotOffset(slot[o])
             /\ SlotOffset(slot[o]) + 4 * words[o] <= FrameTop
  <2>1. slot[o] \in Nat /\ words[o] \in Nat /\ slot[o] + words[o] <= fnslot
    BY <1>6, ObjectPlace
  <2>2. SlotOffset(slot[o]) = -176 * vararg - 4 * (fnslot - slot[o])
    BY <2>1, Offsets
  <2>. QED  BY <1>2, <1>3, <1>4, <2>1, <2>2
<1>7. \A j \in 0..(nsave - 1) : \A o \in Objects :
        HasSlot(o) => SaveOffset(j) + 8 <= SlotOffset(slot[o])
  BY <1>4, <1>5, <1>6
<1>. QED  BY <1>5, <1>6, <1>7 DEF FrameDisjoint, InFrame, SlotBytes, SaveBytes, Apart

LEMMA DisjointArm64 ==
  ASSUME FrameInv, phase = "done", target = "arm64"
  PROVE  FrameDisjoint
<1>. DEFINE f == RoundUp(fnslot + 2 * Canary, 4)
            n == nsave + (nsave % 2)
<1>1. f \in Nat /\ fnslot + 2 * Canary <= f /\ frame = 4 * f + 8 * n
  BY Sizing, Zenon
<1>2. fnslot \in Nat /\ nsave \in Nat /\ Canary \in {0, 1} /\ n \in Nat /\ nsave <= n
  BY Sizing
<1>3. ASSUME NEW j \in 0..(nsave - 1)
      PROVE  SaveOffset(j) = 16 + 4 * f + 8 * (n - (j + 1))
  BY Saved, Zenon
<1>4. ASSUME NEW s \in Int
      PROVE  SlotOffset(s) = 16 + 4 * f - 4 * (fnslot - s)
  BY Offsets, Zenon
<1>. HIDE DEF f, n
<1>5. StackPointer = 0 /\ FrameTop = 16 + frame /\ FrameBottom = 16 + 8 * Canary
  BY DEF StackPointer, FrameBottom, FrameTop
<1>6. ASSUME NEW j \in 0..(nsave - 1)
      PROVE  /\ SaveOffset(j) \in Int /\ 16 + 4 * f <= SaveOffset(j)
             /\ StackPointer <= SaveOffset(j) /\ SaveOffset(j) + 8 <= FrameTop
  BY <1>1, <1>2, <1>3, <1>5
<1>7. ASSUME NEW o \in Objects, HasSlot(o)
      PROVE  /\ SlotOffset(slot[o]) \in Int /\ words[o] \in Nat
             /\ FrameBottom <= SlotOffset(slot[o])
             /\ SlotOffset(slot[o]) + 4 * words[o] <= FrameTop
             /\ SlotOffset(slot[o]) + 4 * words[o] <= 16 + 4 * f
  <2>1. slot[o] \in Nat /\ words[o] \in Nat /\ slot[o] + words[o] <= fnslot
    BY <1>7, ObjectPlace
  <2>2. SlotOffset(slot[o]) = 16 + 4 * f - 4 * (fnslot - slot[o])
    BY <1>4, <2>1
  <2>. QED  BY <1>1, <1>2, <1>5, <2>1, <2>2
<1>8. \A j \in 0..(nsave - 1) : \A o \in Objects :
        HasSlot(o) => SlotOffset(slot[o]) + 4 * words[o] <= SaveOffset(j)
  BY <1>1, <1>6, <1>7
<1>. QED  BY <1>6, <1>7, <1>8 DEF FrameDisjoint, InFrame, SlotBytes, SaveBytes, Apart

LEMMA DisjointRv64 ==
  ASSUME FrameInv, phase = "done", target = "rv64"
  PROVE  FrameDisjoint
<1>1. /\ fnslot \in Nat /\ nsave \in Nat /\ frame \in Nat
      /\ 16 + 4 * fnslot + 8 * nsave <= frame
  BY Sizing
<1>2. /\ StackPointer = -(frame - 16) /\ FrameBottom = -(frame - 16) /\ FrameTop = 0
  BY DEF StackPointer, FrameBottom, FrameTop
<1>3. ASSUME NEW j \in 0..(nsave - 1)
      PROVE  /\ SaveOffset(j) \in Int /\ SaveOffset(j) + 8 <= -4 * fnslot
             /\ StackPointer <= SaveOffset(j) /\ SaveOffset(j) + 8 <= FrameTop
  <2>1. SaveOffset(j) = -(frame - 16) + 8 * j
    BY Saved
  <2>. QED  BY <1>1, <1>2, <2>1
<1>4. ASSUME NEW o \in Objects, HasSlot(o)
      PROVE  /\ SlotOffset(slot[o]) \in Int /\ words[o] \in Nat
             /\ FrameBottom <= SlotOffset(slot[o]) /\ -4 * fnslot <= SlotOffset(slot[o])
             /\ SlotOffset(slot[o]) + 4 * words[o] <= FrameTop
  <2>1. slot[o] \in Nat /\ words[o] \in Nat /\ slot[o] + words[o] <= fnslot
    BY <1>4, ObjectPlace
  <2>2. SlotOffset(slot[o]) = -4 * (fnslot - slot[o])
    BY <2>1, Offsets
  <2>. QED  BY <1>1, <1>2, <2>1, <2>2
<1>5. \A j \in 0..(nsave - 1) : \A o \in Objects :
        HasSlot(o) => SaveOffset(j) + 8 <= SlotOffset(slot[o])
  BY <1>1, <1>3, <1>4
<1>. QED  BY <1>3, <1>4, <1>5 DEF FrameDisjoint, InFrame, SlotBytes, SaveBytes, Apart

LEMMA Disjoint == FrameInv => FrameDisjoint
<1>1. CASE phase = "done"
  BY <1>1, DisjointAmd64, DisjointArm64, DisjointRv64, Sizing DEF Targets
<1>2. CASE phase # "done"
  BY <1>2 DEF FrameDisjoint
<1>. QED  BY <1>1, <1>2

-----------------------------------------------------------------------------
(* The theorems.                                                            *)

\* FrameInv holds throughout, whatever is allocated and spilled.
THEOREM FrameInvariant == Spec => []FrameInv
<1>1. FrameInv /\ [Next]_vars => FrameInv'
  <2>. SUFFICES ASSUME FrameInv, [Next]_vars PROVE FrameInv'
    OBVIOUS
  <2>1. CASE \E a \in Allocs, sz \in Sizes : AllocSlot(a, sz)
    BY <2>1, AllocStep
  <2>2. CASE NextAlign
    BY <2>2, NextAlignStep
  <2>3. CASE StartSpill
    BY <2>3, StartSpillStep
  <2>4. CASE \E t \in Temps : SpillWide(t) \/ SpillNarrow(t)
    BY <2>4, SpillWideStep, SpillNarrowStep
  <2>5. CASE FinishSpill
    BY <2>5, FinishSpillStep
  <2>6. CASE \E v \in {0, 1}, j \in 0..MaxSaves :
               EmitAmd64(v, j) \/ EmitArm64(v, j) \/ EmitRv64(v, j)
    BY <2>6, EmitStep
  <2>7. CASE UNCHANGED vars
    BY <2>7, StutterStep
  <2>. QED  BY <2>1, <2>2, <2>3, <2>4, <2>5, <2>6, <2>7 DEF Next
<1>. QED  BY <1>1, InitStep, PTL DEF Spec

\* Type correctness: among others, no padding and no frame is negative.
THEOREM TypeCorrect == Spec => []TypeOK
<1>1. FrameInv => TypeOK
  BY DEF FrameInv
<1>. QED  BY <1>1, FrameInvariant, PTL

\* There is one hole at most in the spill slots, where slot4 says.
THEOREM OneHoleCorrect == Spec => []OneHole
<1>1. FrameInv => OneHole
  BY DEF FrameInv
<1>. QED  BY <1>1, FrameInvariant, PTL

\* In the frame of each target, the slots that isel and spill give out, saved
\* registers, and on arm64 the canary, are apart.
THEOREM NoOverlapCorrect == Spec => []NoOverlap
<1>1. FrameInv => NoOverlap
  BY Disjoint DEF FrameInv, NoOverlap
<1>. QED  BY <1>1, FrameInvariant, PTL

\* Every object is aligned in the frame of each target, and so is the stack
\* pointer after its prologue.
THEOREM AlignedCorrect == Spec => []Aligned
<1>1. FrameInv => Aligned
  BY Alignment, Stack DEF Aligned
<1>. QED  BY <1>1, FrameInvariant, PTL

=============================================================================
