------------------------------- MODULE Frame -------------------------------
(***************************************************************************)
(* The life of a function's stack frame, from the three places that build  *)
(* it one after the other:                                                 *)
(*                                                                         *)
(*   isel   arm64_isel / amd64_isel / rv64_isel give a slot to every alloc *)
(*          of the start block whose size is a constant, one pass per      *)
(*          alignment, 4 then 8 then 16 bytes;                             *)
(*   spill  slot() of spill.c gives slots to spilled temporaries on demand *)
(*          and packs them around one hole (slot4, slot8);                 *)
(*   emit   framelayout(), framesz() and rv64_emitfn() turn the slot       *)
(*          numbers into byte offsets from the frame pointer.              *)
(*                                                                         *)
(* Slots are numbered in 4-byte words; offsets are in bytes.  No pass sees *)
(* the arithmetic of the others: isel aligns sizes, not positions, and the *)
(* alignment only comes out because emit counts from the top of the frame  *)
(* and spill adds a multiple of 16 bytes.                                  *)
(***************************************************************************)
EXTENDS Integers

CONSTANTS
  Allocs,      (* alloc instructions of the start block                    *)
  Temps,       (* temporaries that may be spilled                          *)
  Sizes,       (* constant alloc sizes, in bytes                           *)
  MaxSaves,    (* how many callee-save registers a function can use        *)
  Canary       (* ARM64_STACK_CANARY of the build, 0 or 1                  *)

ASSUME ObjectsAssumption == Allocs \cap Temps = {}
ASSUME SizesAssumption   == Sizes \subseteq Nat
ASSUME SavesAssumption   == MaxSaves \in Nat
ASSUME CanaryAssumption  == Canary \in {0, 1}

Objects == Allocs \cup Temps
Unset   == -1                  \* Tmp.slot before a slot is assigned
Targets == {"amd64", "arm64", "rv64"}

VARIABLES
  phase,       (* "isel", "spill", "emit" or "done"                        *)
  al,          (* alignment of the current isel pass                       *)
  slot,        (* Tmp.slot of every object                                 *)
  words,       (* size of an object that has a slot                        *)
  align,       (* its alignment in bytes: the alloc's, or 4 or 8 by class  *)
  fnslot,      (* Fn.slot, words in use                                    *)
  locs, slot4, slot8,          (* the statics of spill.c                   *)
  target, vararg, nsave,       (* what emit is called with                 *)
  frame, padding               (* E.frame and E.padding; amd64's framesz   *)

slotvars == <<slot, words, align>>
emitvars == <<target, vararg, nsave, frame, padding>>
vars == <<phase, al, slotvars, fnslot, locs, slot4, slot8, emitvars>>

Init ==
  /\ phase = "isel"
  /\ al = 4
  /\ slot = [o \in Objects |-> Unset]
  /\ words = [o \in Objects |-> 0]
  /\ align = [o \in Objects |-> 4]
  /\ fnslot = 0
  /\ locs = 0 /\ slot4 = 0 /\ slot8 = 0
  /\ target = "amd64" /\ vararg = 0 /\ nsave = 0
  /\ frame = 0 /\ padding = 0

(***************************************************************************)
(* isel: (sz + n-1) & -n, then / 4.                                        *)
(***************************************************************************)
AllocWords(sz, n) == ((sz + n - 1) \div n) * (n \div 4)

SetSlot(o, s, w, n) ==
  /\ slot'  = [slot EXCEPT ![o] = s]
  /\ words' = [words EXCEPT ![o] = w]
  /\ align' = [align EXCEPT ![o] = n]

AllocSlot(a, sz) ==
  /\ phase = "isel"
  /\ slot[a] = Unset
  /\ SetSlot(a, fnslot, AllocWords(sz, al), al)
  /\ fnslot' = fnslot + AllocWords(sz, al)
  /\ UNCHANGED <<phase, al, locs, slot4, slot8, emitvars>>

\* The pass for one alignment ends, at the end of the block or at the first
\* alloc of that alignment whose size is not constant.
NextAlign ==
  /\ phase = "isel"
  /\ al < 16
  /\ al' = 2 * al
  /\ UNCHANGED <<phase, slotvars, fnslot, locs, slot4, slot8, emitvars>>

StartSpill ==
  /\ phase = "isel"
  /\ al = 16
  /\ phase' = "spill"
  /\ locs' = fnslot
  /\ slot4' = 0
  /\ slot8' = 0
  /\ UNCHANGED <<al, slotvars, fnslot, emitvars>>

(***************************************************************************)
(* slot(t) for a temporary without a slot; with one it changes nothing.    *)
(***************************************************************************)
SpillWide(t) ==
  /\ phase = "spill"
  /\ slot[t] = Unset
  /\ SetSlot(t, locs + slot8, 2, 8)
  /\ slot4' = IF slot4 = slot8 THEN slot4 + 2 ELSE slot4
  /\ slot8' = slot8 + 2
  /\ UNCHANGED <<phase, al, fnslot, locs, emitvars>>

SpillNarrow(t) ==
  /\ phase = "spill"
  /\ slot[t] = Unset
  /\ SetSlot(t, locs + slot4, 1, 4)
  /\ slot4' = IF slot4 = slot8 THEN slot4 + 1 ELSE slot8
  /\ slot8' = IF slot4 = slot8 THEN slot8 + 2 ELSE slot8
  /\ UNCHANGED <<phase, al, fnslot, locs, emitvars>>

\* slot8 & 3 for the even slot8
FinishSpill ==
  /\ phase = "spill"
  /\ phase' = "emit"
  /\ slot8' = slot8 + (slot8 % 4)
  /\ fnslot' = fnslot + slot8 + (slot8 % 4)
  /\ UNCHANGED <<al, slotvars, locs, slot4, emitvars>>

(***************************************************************************)
(* emit                                                                    *)
(***************************************************************************)
RoundUp(x, n) == ((x + n - 1) \div n) * n

\* Jump over the parameters every target chooses the same way.
Emitting(tgt, v, k) ==
  /\ phase = "emit"
  /\ phase' = "done"
  /\ target' = tgt
  /\ vararg' = v
  /\ nsave' = k
  /\ UNCHANGED <<al, slotvars, fnslot, locs, slot4, slot8>>

\* Mutant: an odd number of pushes is not made even.
EmitAmd64OddPushes(v, k) ==
  /\ Emitting("amd64", v, k)
  /\ frame' = 4 * RoundUp(fnslot, 4) + 176 * v
  /\ padding' = 0

\* framesz(); the callee-save registers are pushed below it.
EmitAmd64(v, k) ==
  /\ Emitting("amd64", v, k)
  /\ frame' = 4 * RoundUp(fnslot, 4) + 8 * (k % 2) + 176 * v
  /\ padding' = 0

\* Mutant: the frame has no room for the canary.
EmitArm64CanaryUncounted(v, k) ==
  LET f == RoundUp(fnslot, 4)
  IN  /\ Emitting("arm64", v, k)
      /\ padding' = 4 * (f - (fnslot + 2 * Canary))
      /\ frame' = 4 * f + 8 * (k + (k % 2))

\* framelayout()
EmitArm64(v, k) ==
  LET f == RoundUp(fnslot + 2 * Canary, 4)
  IN  /\ Emitting("arm64", v, k)
      /\ padding' = 4 * (f - (fnslot + 2 * Canary))
      /\ frame' = 4 * f + 8 * (k + (k % 2))

\* Mutant: the frame has no room for fp and ra.
EmitRv64NoSavedPair(v, k) ==
  /\ Emitting("rv64", v, k)
  /\ frame' = RoundUp(RoundUp(4 * fnslot, 16) + 8 * k, 16)
  /\ padding' = 0

\* the prologue of rv64_emitfn()
EmitRv64(v, k) ==
  /\ Emitting("rv64", v, k)
  /\ frame' = RoundUp(RoundUp(16 + 4 * fnslot, 16) + 8 * k, 16)
  /\ padding' = 0

Next ==
  \/ \E a \in Allocs, sz \in Sizes : AllocSlot(a, sz)
  \/ NextAlign
  \/ StartSpill
  \/ \E t \in Temps : SpillWide(t) \/ SpillNarrow(t)
  \/ FinishSpill
  \/ \E v \in {0, 1}, k \in 0..MaxSaves :
        EmitAmd64(v, k) \/ EmitArm64(v, k) \/ EmitRv64(v, k)

Spec == Init /\ [][Next]_vars

-----------------------------------------------------------------------------
(***************************************************************************)
(* Byte offsets from the frame pointer (rbp, x29, fp), which every         *)
(* prologue leaves 16-byte aligned.                                        *)
(***************************************************************************)

\* slot() of the three emitters, for a slot s >= 0
SlotOffset(s) ==
  CASE target = "amd64" -> -176 * vararg - 4 * (fnslot - s)
    [] target = "arm64" -> 16 + 8 * Canary + padding + 4 * s
    [] target = "rv64"  -> -4 * (fnslot - s)

\* where the j-th callee-save register in use is kept, j \in 0..nsave-1
SaveOffset(j) ==
  CASE target = "amd64" -> -frame - 8 * (j + 1)
    [] target = "arm64" ->
         SlotOffset((frame - padding) \div 4 - 2 * Canary - 2 * (j + 1))
    [] target = "rv64"  -> -(frame - 16) + 8 * j

\* the stack pointer after the prologue
StackPointer ==
  CASE target = "amd64" -> -frame - 8 * nsave
    [] target = "arm64" -> 0
    [] target = "rv64"  -> -(frame - 16)

\* the first byte above what the function owns below its caller's frame,
\* the saved frame pointer and return address excluded
FrameTop ==
  CASE target = "amd64" -> -176 * vararg
    [] target = "arm64" -> 16 + frame
    [] target = "rv64"  -> 0

\* arm64 keeps the saved pair and the canary at the bottom
FrameBottom ==
  CASE target = "arm64" -> 16 + 8 * Canary
    [] OTHER -> StackPointer

HasSlot(o) == slot[o] # Unset

\* Byte intervals [lo, hi) of everything the function keeps in its frame.
SlotBytes(o) ==
  [lo |-> SlotOffset(slot[o]), hi |-> SlotOffset(slot[o]) + 4 * words[o]]
SaveBytes(j) == [lo |-> SaveOffset(j), hi |-> SaveOffset(j) + 8]

Apart(x, y) == x.hi <= y.lo \/ y.hi <= x.lo
InFrame(x)  == FrameBottom <= x.lo /\ x.hi <= FrameTop

-----------------------------------------------------------------------------
TypeOK ==
  /\ phase \in {"isel", "spill", "emit", "done"}
  /\ al \in {4, 8, 16}
  /\ slot \in [Objects -> Nat \cup {Unset}]
  /\ words \in [Objects -> Nat]
  /\ align \in [Objects -> {4, 8, 16}]
  /\ fnslot \in Nat /\ locs \in Nat
  /\ slot4 \in Nat /\ slot8 \in Nat
  /\ target \in Targets /\ vararg \in {0, 1} /\ nsave \in 0..MaxSaves
  /\ frame \in Nat /\ padding \in Nat

\* The note in slot() of spill.c: slot4 <= slot8, "there can be only one
\* hole and slot4 points to it", and the hole is the odd half of a pair.
OneHole ==
  phase = "spill" =>
    /\ slot8 % 2 = 0
    /\ slot4 = slot8 \/ (slot4 < slot8 /\ slot4 % 2 = 1)
    /\ \A o \in Objects : HasSlot(o) /\ slot[o] >= locs =>
         ~ (slot[o] <= locs + slot4 /\ locs + slot4 < slot[o] + words[o])

\* Two objects never share a word of the frame, whichever pass placed them.
SlotsDisjoint ==
  \A o, p \in Objects : o # p /\ HasSlot(o) /\ HasSlot(p) =>
     slot[o] + words[o] <= slot[p] \/ slot[p] + words[p] <= slot[o]

\* Once emitted, every alloc and every spill slot sits at an address that is
\* a multiple of its alignment, on each of the three targets.
SlotsAligned ==
  phase = "done" =>
    \A o \in Objects : HasSlot(o) => SlotOffset(slot[o]) % align[o] = 0

\* Once emitted, the objects and the callee-save area lie inside the frame
\* (on arm64 above the canary and the saved x29/x30) and do not overlap.
FrameDisjoint ==
  phase = "done" =>
    /\ \A o \in Objects : HasSlot(o) => InFrame(SlotBytes(o))
    /\ \A j \in 0..(nsave - 1) :
         /\ StackPointer <= SaveOffset(j)
         /\ SaveOffset(j) + 8 <= FrameTop
         /\ \A o \in Objects :
              HasSlot(o) => Apart(SlotBytes(o), SaveBytes(j))

\* The prologue keeps the stack pointer 16-byte aligned, as the ABIs ask.
StackAligned ==
  phase = "done" => StackPointer % 16 = 0 /\ (target # "amd64" => frame % 16 = 0)

\* Nothing in a frame is over anything else: the slots that three functions
\* of two passes give out, the saved registers and the canary.
NoOverlap == SlotsDisjoint /\ FrameDisjoint

\* Slots and the stack pointer are aligned, though no pass knows where the
\* frame will be or how much the others put there.
Aligned == SlotsAligned /\ StackAligned

-----------------------------------------------------------------------------
(***************************************************************************)
(* Why it works.  No pass knows where its objects will be: each keeps them *)
(* at a distance from its own end, and the ends are counted up.            *)
(***************************************************************************)
AllocTop == IF phase = "isel" THEN fnslot ELSE locs

\* x words are a multiple of n bytes
Multiple(x, n) == (n = 8 => x % 2 = 0) /\ (n = 16 => x % 4 = 0)

\* Allocs lie below the end of what isel gives out, at a multiple of their
\* alignment from it, since those of a smaller alignment came before.
AllocsPlaced ==
  \A a \in Allocs : HasSlot(a) =>
    /\ slot[a] + words[a] <= AllocTop
    /\ align[a] <= al
    /\ Multiple(AllocTop - slot[a], align[a])

\* Spill slots lie between locs and slot8, the wide ones at even words.
SpillsPlaced ==
  \A t \in Temps : HasSlot(t) =>
    /\ phase # "isel"
    /\ locs <= slot[t] /\ slot[t] + words[t] <= locs + slot8
    /\ align[t] # 16 /\ Multiple(slot[t] - locs, align[t])

Counted ==
  /\ phase = "spill" => fnslot = locs
  /\ phase \in {"emit", "done"} => fnslot = locs + slot8 /\ slot8 % 4 = 0

\* What emit leaves.
Emitted ==
  phase = "done" =>
    \/ /\ target = "amd64" /\ padding = 0
       /\ frame = 4 * RoundUp(fnslot, 4) + 8 * (nsave % 2) + 176 * vararg
    \/ /\ target = "arm64"
       /\ padding = 4 * (RoundUp(fnslot + 2 * Canary, 4) - (fnslot + 2 * Canary))
       /\ frame = 4 * RoundUp(fnslot + 2 * Canary, 4) + 8 * (nsave + (nsave % 2))
    \/ /\ target = "rv64" /\ padding = 0
       /\ frame = RoundUp(RoundUp(16 + 4 * fnslot, 16) + 8 * nsave, 16)

\* The inductive invariant.
FrameInv ==
  TypeOK /\ OneHole /\ SlotsDisjoint /\ AllocsPlaced /\ SpillsPlaced /\ Counted /\ Emitted

=============================================================================
