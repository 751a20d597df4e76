# LBS in TLA+

A verification development for LBS, a fork of the QBE compiler backend that
adds stack canaries, software diversity (random nops, random choice of
registers, permutation of functions) and constant-time string comparison. The
program reads functions and data in an intermediate language, runs some twenty
passes over each function and prints assembly for amd64, arm64 or rv64. It is
sequential C; what is hard in it is not concurrency but state that several
passes share and keep in step by hand: slot numbers, register maps, worklists
threaded through the objects they hold, ranges and positions that were counted
before the code they speak of changed, statics that outlive a callback, and two
sides of a call that count registers apart.

The modules are translated from the source; comments give the functions. Lines
are in `PROJECT.json` (`map`).

## The system

| part | files | state it keeps | operations | modelled in |
|---|---|---|---|---|
| top level | `main.c` | `rawout`, `funout`, `curoutf` (buffers of the permutation), `outf` | `func`, `data`, `dbgfile`, `flushfuncperm` | Unit |
| parser | `parse.c` | lexer: `tok`, `tokval`, one token of lookahead; `typ[]`; per function `tmph`, `blkh`, `curb` | `parse`, `parsedat`, `parsetyp`, `parsefn` | Unit (data), Typ (types) |
| data, constants, debug lines | `emit.c` | statics `zero`, `stash`, `file`, `curfile` | `emitdat`, `stashbits`, `emitfin`, `emitdbgfile`, `emitdbgloc` | Unit |
| memory, interning, seeds | `util.c` | pools, string table, `insb`/`curi`, random state | `alloc`, `freeall`, `vnew`, `intern`, `emit`, `newtmp`, `divpick` | choices of Rega and Unit |
| flow graph | `cfg.c` | `rpo`, `pred`, `idom`, `fron`, `loop` | `fillrpo`, `filldom`, `fillfron`, `fillloop`, `edgedel`, `simpljmp` | Cfg |
| ssa | `ssa.c` | use lists, rename stacks | `filluse`, `phiins`, `renblk`, `ssacheck` | Ssa |
| slots, aliases, loads | `mem.c`, `alias.c`, `load.c` | slots and their ranges, `Alias` records, an insertion log | `promote`, `coalesce`, `fillalias`, `loadopt` | Mem, Alias, Load, Func |
| copies, constants | `copy.c`, `fold.c` | `cpy`; `val`, `edge`, `flowrk`, `usewrk` | `copy`, `fold` | Copy, Sccp |
| conventions | `abi.c`, `*/sysv.c`, `*/abi.c` | classes, registers and stack taken so far, `Fn.reg`, the words of a call | `elimsb`, `abi` of four targets | Typ, Sysv, Arm64Abi, Rv64Abi, Abi |
| lowering | `simpl.c`, `*/isel.c` | `Fn.slot`, `Tmp.slot`, `insb` | `simpl`, `isel` | Mem (blits), Frame (allocs) |
| allocation | `live.c`, `spill.c`, `rega.c` | live sets; `slot4`, `slot8`, `locs`; `beg`, `end`, `RMap`s, `pm` | `filllive`, `spill`, `rega` | Spill, Backend, Rega, Pmov |
| printing | `*/emit.c` | `E`: frame, padding | `emitfn` | Frame |

Interactions that matter: isel, spill and emit share the numbering of the
frame; spill promises rega that every point has room; rega relies on itself
from block to block through `beg` and `end`; loadopt and coalesce act on what
fillalias said of addresses; copy and coalesce rename what others define; fold
edits the graph it walks; the code before a call, the code at the entry of the
callee and its `va_start` must agree without seeing each other; the data
callbacks share `zero`; the permutation of functions moves text past other text
that it refers to.

There are no threads, messages, crashes or timeouts. The hazards listed in
`PROJECT.json` are therefore about the order of steps, stale state, limits and
boundaries, termination and protocols between passes.

## What makes each part correct

* frame: objects, saved registers and canary never overlap; all is aligned
  though no pass knows where the frame will be.
* parallel moves: the emitted sequence is one simultaneous move, no value is
  narrowed, the recursion ends, only registers are swapped.
* allocation: spill leaves room at every point, each value is where the code
  reads it, within a block, over every edge and around every call.
* constant propagation: the worklists lose nothing and run empty; the trimmed
  function runs as the original.
* slots, aliases, loads, copies: the function passes on the same values and
  leaves the same bytes as before, whichever way it runs; what is said of an
  address holds in every run.
* flow graph and ssa: order, dominators, frontiers, loops and liveness are what
  paths say; each use reads the value of the variable; what never reads an unset
  variable is accepted.
* conventions: caller and callee agree, nothing shares a place, every number is
  passed whole in a register of the right bank, `va_arg` fetches in order.
* output: all text is written once and in its place, and numbers of files and
  constants mean what they meant.

## Modules

### Building a function

**Cfg** (`cfg.c`). One action per pass, a round of `filldom()` being one, in the
order in which `func()` calls them: `FillRpo` (with the removal of what cannot be
reached), `FillPreds`, `DomRound`, `FillFron`, `FillLoop`, `FillRpo` again, now
ordered by loops, `SimplJmp`, and the last numbering. The recursions of the code
(`rporec`, `inter`, `loopmark`, `uffind`) are recursive operators, and the
properties compare their results with definitions on paths (`Reach`), which use
neither ids nor rounds.

**Ssa** (`ssa.c`, and `live.c` as `ssa()` needs it) extends Cfg and works on the
function while the graph is known: `FillUse`, `LiveRound` (a round of
`filllive()`), `PhiIns` (one temporary), `RenBlk` (one block of the walk over the
dominator tree, whose recursion is the list `todo`), `SsaCheck`. Then the passes
of Cfg go on. Besides, the function as read and as rewritten run side by side: of
all the values that are ever computed one may be marked, and each operand must
read the mark in both or in neither. Since any value may be the marked one, this
is equality of all values read, at a fraction of the states.

### The passes on memory and copies

**Il** has the functions these passes work on (instructions with a class,
operands, references) and their execution block by block: memory is a function
of slot and byte, and every byte is symbolic, named by the value and the byte of
it that was stored. A load is compared byte by byte, extensions included, so
that nothing has to be enumerated. `x.obs` is what leaves the function.

**Alias** is `fillalias()` and the answers of `alias()` and `escapes()`;
**Load** is `def()` with its walk back over blocks, its masks, casts and its log
of insertions; **Mem** is `promote()`, `coalesce()` (the numbering, the ranges,
dead stores, removed and fused slots) and the blits of `simpl.c`; **Copy** is
`copy()` with the assumption of `phisimpl()`.

**Func** composes them in the order of `func()`: one action per pass, each on
what the pass before it left, and `Begin` and `Step`, which execute the given
function and the present one side by side. `Begin` may come after any pass that
changed the function (`Changed`), so that what one pass breaks and a later one
covers up is seen. `ssa()` and `fold()` stand in between and have modules of their
own: where `promote()` leaves a temporary with two definitions, which `ssa()` is
to rename, the function is executed and goes no further. No other pass may leave
one (`SsaKept`).

**Sccp** (`fold.c`, and `edgedel` of `cfg.c`). One step per edge, use, phi,
instruction and jump; then one per block that is trimmed; then the original and
the trimmed function run side by side, with loads that return anything.
`flowrk` is the list the code threads through `Edge.work`, not a set, since
`visitjmp()` may push an edge that is linked already. Constants are numbers
modulo 4 of which a jump looks at the lower bit, so that a "long" that is not
zero can be a "word" that is. **SccpFindProofs** has the facts about functions,
the lattice and the list, and the steps of the analysis; **SccpProofs** the
trimming, the executions and their theorems, and that the analysis ends where a
plain one does.

### Calling conventions

**Typ** is `parsetyp()`/`parsefields()`: layout, padding, unions, the limit
`NField` of fields, opaque types. **Sysv**, **Arm64Abi** (with the constant
`apple`) and **Rv64Abi** are one convention each: how a type is classed, where
arguments, parameters and results are put, what is hidden, what the words that
describe a call (`retregs`, `argregs`) say, and what `va_start` and `va_arg` do.
**Abi** instantiates the four (`S`, `A`, `P`, `V`) and is the machine that uses
them: `Parse`, `Abi0` (`elimsb()`), `Callee` (`selpar` and the return),
`Caller` (`selcall`), `VaArg` once for each argument after the dots. On amd64 the
caller and the callee count registers and stack each in functions of their own.
On arm64 and rv64 the registers come from `argsclass()`, which both sides call on
their own lists, and so they do in the modules (`ArgsClass`); the places on the
stack come from a loop of `selcall()` and from one of `selpar()`, in offsets there
and in slots of the frame here, and are `Pass` and `Receive`. What the caller sets
aside for them is a third sum (`Room`).

### Allocation

**Spill** (`live.c`, `spill.c`): `filllive()` with classes, phis, calls and the
registers a function reads; `fillcost`, `limit`, `limit2`, `reloads`, `merge`,
`dopm` of spill and the walk of a block, the hot and loop sets included.

**Backend** runs them: `Live` (a round), `SpillNext` (one block, from the last),
`Walk` (what `rega()` then finds live and emits in each block), the moves of
edges (`PickJoin`, `PickEnd`, `PickBeg`, for any maps that the blocks around may
have got), and an execution of the function before and after, over registers and slots.
`join.end` has a map for each predecessor, as `end[]` does; `EdgeMoves` is what
step 4 of `rega()` adds to the parallel move of an edge, `Shares` what step 3 may
move at the beginning of the block instead. **BackendProofs** proves that they are
right, **SpillProofs** that there is room for all that is live.

**Rega** (`doblk`, `dopm`, `move`, the `RMap` operations of `rega.c`). One block
of any length, from its end. Instructions are chosen as the walk meets them; a
group of copies from registers (arguments or results of a call) is done step by
step as `dopm()` does. `need` says what the code emitted so far expects in each
register. A parallel move is one step here; Pmov is what justifies that. Hints
and the random choice of `divpick` are a free choice among free registers, so
that what holds here holds for every seed. **RegaProofs** proves it.

**Pmov** (`pmadd`, `pmgen`, `pmrec` of `rega.c`). The recursion is a stack
`stk` of waiting activations, one action per branch: `SkipNoop`, `CopyNow`,
`StartCycle`, `Recurse` on the way down, `EndCycle`, `SwapOn`, `CopyBack` on the
way up. Instructions are emitted from last to first, as in the code; `from` and
`wid` are the effect of those emitted so far.

**ParallelMove** is the abstract specification: moves are collected, and then
done all at once in one step, each at the width of its class at least. Pmov
implements it, with the effect of the emitted code as the refinement mapping
(`Implements`). **PmovProofs** proves it.

**Frame** (`spill.c` `slot`; the `isel.c` of the targets for fast allocs; the
`emit.c` of the targets for the frame). Phases *isel*, *spill*, *emit*, *done*.
`AllocSlot` is one alloc of the pass for one alignment, with the three
computations the targets have; `SpillWide`/`SpillNarrow` are `slot()` for a
value of 8 and 4 bytes; `FinishSpill` is the end of `spill()`;
`EmitAmd64/Arm64/Rv64` are the layouts of the three emitters. The properties
compute byte addresses relative to the frame pointer as `slot()` of each emitter
does. **FrameProofs** proves them.

### Output

**Unit** (`main.c`, `parsedat`/`parsedatref` of `parse.c`, `emit.c`). The input
is a sequence of `dbgfile`, function and data definitions, read item by item;
the text is a sequence of lines with their kinds and names. A function is opened
by `Func`, refers to constants (`FuncConst`, with `stashbits()`) and is closed by
`FuncEnd`; `Swap` is a round of the shuffle, `CopyOut` and `CopyLast` write the
buffers out, and `EmitFp` is a constant that `emitfin()` writes. **UnitProofs**
proves that the text is what the input asks for, and that the numbers in functions
mean what they meant.

The MC modules have the inputs. Theorems are stated about Frame, Pmov, Rega,
Backend, Sccp and Unit, which have no recursive operators (recursive functions and folds at
most); the other modules may have them.

## Runs

| run | question | bounds, and why they do | states |
|---|---|---|---|
| `frame` | is every frame well formed | 2 allocs of 0, 4, 12 or 17 bytes (each residue class that rounding tells apart), 4 spilled values (a hole is made, filled and made again), 3 saved registers (odd and even), arm64 with the canary | 63 k |
| `pmov` | is the sequence one parallel move; does it end | 3 registers, a slot, 4 moves that read two of the registers or the slot: cycles of two and three moves, through a slot or not, chains that hang from a cycle, sources read twice | 486 k |
| `rega` | is a block allocated well | 3 temporaries, 2 registers that calls overwrite and 2 that they keep; blocks of any length | 9 k |
| `sccp` | is propagation right, and does it end | all functions of three graph shapes (loop; diamond with a double edge; irreducible pair) with one phi or instruction in the blocks that matter | 370 k |
| `ssa` | do the passes on the graph compute what paths say; is ssa form right | graphs of four blocks (irreducible, nested loops, double edges, dead blocks) with a variable that is set, updated and read; five graphs with every small body in each block, so that phis of phis, local names, dead values and unset values occur; two variables copied round a loop; phis in the input | 279 k |
| `func` | does the function do the same after each pass on memory and copies | two or three slots of 8 or 16 bytes, all sequences of a few accesses of one to eight bytes at offsets 0, 2 and 4, and blits between them: in one block, on the sides of a branch, round a loop; slots in a chain of blits, slots whose ranges meet, late definitions, escaping addresses, widths, clusters of phis | 78 k |
| `backend` | is there room everywhere, and does every read find its value | 3 integer registers to choose from (one kept by calls) and 3 for floats, up to nine temporaries of both classes; one block, calls and divisions, branches, loops and nested loops with phis, addresses with base and index; with both orders of the sort by cost; each join of edges with any maps | 308 k |
| `abi` | do caller, callee and `va_list` agree | every type of two or three small members, arrays, unions, nested types, on the four targets; calls with 0 to the last or all registers taken before three arguments of each kind, every kind of result; variadic calls with four arguments after the dots | 285 k |
| `unit` | is all text written and meant | inputs of 5 definitions and data items, 2 files (symmetric: names are only compared), a symbol, constants that begin with each other, of which a function refers to one; any permutation | 5.2 M |
| `func_mask`, `func_promote`, `backend_jump` | findings, below | | |

Bounds: `MaxMoves` (moves of one parallel move; `Tmp0` in the code), `MaxSaves`
(saved registers), `Budget` (definitions and items of an input), `MaxConsts`
(constants that one function refers to), `NBit`
(bytes of a slot that `coalesce()` looks at, 64 in the code, 16 here, so
that the largest slots of the runs fill it), `NField` (the code's 32), `Modulus` and `Word`
(the two widths of a constant). Executions of Backend and Func are not bounded in
length; in Backend the label of a value counts the blocks run modulo `Steps`.

What each property says:

* `NoOverlap`, `Aligned` (frame): bytes of allocs, spill slots, saved registers
  and canary are disjoint; each has its alignment and the stack pointer is a
  multiple of 16.
* `Implements`, `SwapsKept`, `Termination` (pmov): refinement of ParallelMove;
  swaps have two registers when all sources are registers; `<>(pc = "done")`.
* `ValuesKept`, `NeverOut`, `CallSafe` (rega): map and emitted code agree at
  every point, also in the middle of a group; a register is always found; nothing
  that lives on is in a register that a call overwrites.
* `NothingLost`, `TrimRight`, `NoAbortDefined`, `Returns` (sccp): the list is
  one, everything that changed is still on it, and the result is that of
  computing everything again and again; the trimmed function runs as the
  original; the assertions hold for functions without undefined values; it ends.
* `PassesRight`, `SsaForm`, `StrictAccepted`, `SameRun` (ssa).
* `SameValues`, `SameBytes`, `AliasRight`, `NoAbort`, `SsaKept` (func): what
  leaves the function is the same in executions after *each* pass; so is the
  memory that callees and callers see; records hold in every run; no assertion
  fails on these inputs; after `ssa()` no pass leaves a second definition, or a use
  that its definition does not dominate.
* `FitsRega`, `NoAbort`, `SameReads`, `EdgesRight` (backend): live values fit the
  registers at each point where `rega()` asks for one; every executed instruction
  reads the values it read before spilling; over each edge, for all maps
  of the blocks around it, each value arrives where the block expects it.
* `ClassesRight`, `CallAgrees`, `PlacesApart`, `VaInOrder` (abi).
* `TextKept`, `NumbersMeant` (unit).

Every property has a mutant: a definition of the module with a plausible bug,
under which TLC finds the property violated.

**Fairness.** Only `pmov` and `sccp` are about liveness. They assume weak
fairness of the procedure (`WF_vars(Next)` of Pmov, `WF_vars(Fold)` of Sccp): the
code is sequential, nothing suspends it, so a procedure that can take a step
takes one. In Sccp the executions at the end are under no fairness; they are not
part of `fold()`. `CHECK_DEADLOCK FALSE` is set where the modelled procedure
returns.

**Inputs.** The passing runs of `func`, `backend` and `abi` leave out the inputs
on which the code is known to be wrong (the findings and the list below), and
`func` the functions that `promote()` refuses, since they read a slot that is
never stored to.

## What is proved

### The frame

`FrameProofs`, for every set of allocs, temporaries and sizes, any number of
saved registers, with and without the canary, on the three targets:
`FrameInvariant` (`Spec => []FrameInv`), and from it `TypeCorrect`,
`OneHoleCorrect`, `NoOverlapCorrect`, `AlignedCorrect`.

The properties speak of the emitted frame, but what makes them true is spread
over the passes, so `FrameInv` says what each one leaves for the next:
`AllocsPlaced`, an alloc is a multiple of its alignment away from the *end* of
what isel gives out, which stays so because later allocs have larger alignments;
`SpillsPlaced`, spill slots lie between `locs` and `slot8`, the wide ones at
even words; `Counted`, spill ends at a multiple of 16 bytes; `Emitted`, the sizes
that emit computes. The lemma `ObjectPlace` joins them: the distance from an
object to the end of all slots is a multiple of its alignment, and the emitters
count from there. `OneHole` and `SlotsDisjoint` are part of the invariant: the
slot of a narrow value is free because it is the hole, or because everything
lies below `slot8`.

Assumptions (all on constants): `ObjectsAssumption`, allocs and spilled
temporaries are different temporaries; `SizesAssumption`, `SavesAssumption`,
`CanaryAssumption`, types.

### The parallel moves

`PmovProofs`, for every `Regs`, `Slots`, `Sources` and `MaxMoves \in Nat`:
`PmInvariant` (`Spec => []PmInv`), and from it

* `TypeCorrect` and `CycleClosedCorrect`;
* `Refinement`: `Spec => Implements`, that is, Pmov implements ParallelMove.
  Every step of `pmgen` is a stutter of the abstract specification except the
  last, which is its one simultaneous move; `PmInv` at the end gives the value
  and the width of every location;
* `RegisterSwaps`: `SwapsKept`.

`PmInv` adds to the types what holds on the way: `Chain`, the activations that
wait are the moves marked `Moving` and each reads what the next one overwrites;
`Effect`, moves marked `Moved` are done and closed under "overwrites what it
reads", except for the open end of a cycle, whose destination holds what the
next activation reads; `Width`, `k` covers all the activations, and swaps of an
open cycle carry at least `k`; `Fresh`, nothing is emitted while moves are
collected. There is one lemma per action.

The one assumption, `MovesAssumption`, is that the capacity of `pm[]` is a
natural number. That callers give each destination once is a guard of `PmAdd`
(registers of a map and slots of different temporaries differ).

### Register allocation

`RegaProofs`, for any finite sets of temporaries and registers, any registers
that calls overwrite, blocks of any length and groups of copies of any size:
`RegInvariant` (`Spec => []RegInv`), and from it `TypeCorrect`,
`ValuesKeptCorrect`, `NeverOutCorrect` and `CallSafeCorrect`.

`ValuesKept` and `NeverOut` hold together or not at all: a value is lost when
`dopm()` puts two names in one register, and it would when it runs out of them.
In the middle of a group both the old places and the new ones are taken, so
that the live names alone do not say that there is room. `RegInv` therefore
counts something else, `Kept \cup Room`: the temporaries that are no results,
and the registers of the group (of the call, for a call), where a result that is
not handled yet stands for its source. `GroupShape` has that this fits and that
the map which `dopm()` started from is one to one; `GroupPlaces`, that each
register handled so far is in the hands of its result, or its own (`Tag`), and
that nothing else is mapped than these and the names that are kept;
`CallPlaces`, what `doblk()` relies on when it goes on at the call. There is one
lemma per action; the lemmas about `RMap` (`radd`, `rfree`, `ralloc`) and about
counting names that share registers (`UsedCount`, `RAllocsExist`) are
stated once.

Assumptions: `FiniteAssumption` (temporaries and registers are finite sets),
`BankAssumption` (calls overwrite registers), `NamesAssumption` (names differ).
That spill leaves enough registers is no assumption on constants but the guard
`Fits` of the actions that read the next instruction; that it does is the theorem
about `FitsRega` below.

### Room for what is live

`SpillProofs`, for any functions, any two banks of registers, any global registers
and any that calls overwrite: `RegaInvariant` (`Spec => []RegaInv`), and from it
`RegistersSuffice` (`Spec => []FitsRega`): in whatever `spill()` leaves, `doblk()` and
`dopm()` of `rega.c` need no more registers than there are, at any instruction, group
of copies, call or end of a block; and `BackendTypes`.

That there is room is decided in one pass and needed in another. `spill()` counts as it
goes backwards over the instructions *given*; `rega()` goes backwards over those
*emitted*, with loads and stores between them and arguments replaced by slots, and
finds other things live: it keeps no dead result, and it holds all registers of a call
while it does the copies after it. So `FitsRega` is not inductive, and neither is
"no more than `k` are live here": what is live at a point of the emitted code is known
only once all of the block is emitted, while `spill()` decides at that point.

`Room(p, code, E, H, first)` is the statement that survives: *whatever* is emitted
before `code`, a walk over it that has at most `E` live at its end finds room
everywhere in it, and has at most `H` live before it. `first` says that the code begins
with the copies after a call, where the registers that the call overwrites cannot be
used either, so that `H` must leave them free. Each step of `spill()` adds code in front
and keeps `Room` (`SpillInsRoom`, `DoPmRoom`), with the set `v` of temporaries in
registers as the new `H`: `limit2()` leaves as many as there are registers, or as calls
keep (`Limit2Holds`), also when what must be kept comes first. A whole block follows by
induction over its instructions (`SpillFoldRoom`), and the walk of `rega()` over it from
`Room` (`WalkFits`).

At the end of a block there must be room too, and for a jump back this rests on numbers:
`AtBackEdge` counts, by class, with what `filllive()` found for the whole *loop*
(`nlive` of its header) and subtracts what only lives through it. Were a count too low
the difference would be negative, or the limit too high. `LiveGood` is what each round of
`filllive()` keeps: the count of a block is no less than what is live at its end, in
each class; `Aggregated` takes the maximum over the loop, in which every block that jumps
back to the header is (`LoopBodyIs`), and so each block has, when `spill()` comes to it,
what `Ready` says.

`RegaInv` has these parts: `EdgesInv` and `RoomInv`, types; `LivePart`, that rounds of
liveness keep `LiveGood`; `SpillPart`, that blocks not yet spilled are `Ready`, and those
that are have `Room`; and `FitsRega` itself.

Assumptions: `RegsAssumption`, registers are numbers below `Tmp0` (and so finitely many)
of two banks, calls overwrite none that is global; `ProgramsAssumption`, functions are as
`isel()` and `abi()` leave them: blocks are numbered, phis have results of their own and
an argument for each predecessor, an instruction sets no temporary that it reads
(`InsGiven`, ssa form), calls pass and return in registers that calls overwrite, only a
block without successors returns, and the results and those operands of one instruction
that cannot be in memory are no more than there are registers. TLC evaluates it on every
function of the runs. Nothing is assumed about costs, about the order in which `qsort()`
leaves equal ones, or about how hot a loop is. Where an assertion of `spill()` fails
(`bad`) the program stops, which is why `Walk` waits for `~ bad`; that it does not
fail is `NoAbort`, which is checked by TLC alone.

### The moves between blocks

`BackendProofs`, for all functions, all sets of registers and all maps that blocks may
have got: `EdgesCorrect` (`Spec => []EdgesRight`).

`EdgesInv` says what the passes before leave. `SamePhis`: the phis are those of the
function given, but that a result may have become the slot of the same temporary,
which is all that `spill()` does to them (`ChangedFacts`); so results are apart and
an argument is never a slot. `Ends`: the map of each predecessor is one to one, and
has all that is live there or nothing; `Joined`, the map of the block was changed by
shared moves only.

`EdgesRight` is about two moves in a row, the one of the edge and the one that all
edges share, which is emitted first in the block. They may be merged wrongly in two
ways, and `JoinFacts` excludes both: a register that is the source of a shared move
must not hold something else at the beginning (`Candidates`), and of several
temporaries that come from one register in all predecessors only one may be moved
(`Shares`). With it the map that edges aim at, `join.m`, is one to one like the map
they start from. So exactly one move goes into each register and slot that the block
expects (`OneMove`), and what it reads holds one value (`HeldFrom`): `AfterReg` for
registers, with or without a phi, and `AfterSlot` for phis in slots. That a parallel
move does what its list of moves says is the theorem about Pmov.

Assumptions: of `RegsAssumption`, that registers are numbers below `Tmp0` (and so finitely
many) of two classes, and of `ProgramsAssumption` what it says of phis: they have results
of their own and an argument for each predecessor, as functions in ssa form do.

### Constant propagation

`SccpProofs`, for every set of functions in strict ssa form, of any size, and
constants of any width: `SccpInvariant` (`Spec => []IInv`), and from it

* `TypeCorrect`;
* `ListsCorrect`: the list is intact and every value is up to date or waits;
* `NothingLostCorrect`: with `LastInvariant`, all of `NothingLost`: the analysis
  ends with the values and edges that computing everything again and again ends
  with (`Precise`), where the function reads no undefined value;
* `NoAbortCorrect`: the assertions of `visitjmp()` and `fold()` hold if the
  function reads no undefined value;
* `TrimCorrect`: `TrimRight`, the trimmed function matches its edges and runs as
  the original does.

The argument goes through three parts, which `SccpInv` names.

*While it searches* (`FindInv`). Values only fall (`ValuesFall`), so what is
computed again can only be lower. Everything that was visited is up to date or
waits (`DoneRight`), where a jump waits also if its edges are on `flowrk`.
`ListOK` says that `flowrk` is a chain without repeats, of which `Chain[n]` is a
closed formula; it stays one although `visitjmp()` pushes an edge without asking
whether it is linked, since it only does so when the list is empty or the edge
is new: a jump is visited again only as a use, and uses are taken when `flowrk`
is empty. For the assertions: where nothing is undefined, what was visited is
not the top of the lattice (`DoneKnown`), because what dominates it was visited
before (`VisitedWithin`, which says so of every set of blocks that is closed
without a given block); so a jump led one way for a constant and can only lead
both ways later (`JumpsAgree`).

*When it ends* all of this is `Found`: the values and edges are a fixed point.
*While it trims* (`TrimInv`), the blocks before `blk` are what `TrimmedJmp` and
`RenIns` say, and the phis have an argument for each edge that is left, in spite
of `edgedel()`, which looks at the other edge of the same jump.

*In an execution* (`RunInv`) each temporary that is defined has the constant that
was found for it, or none was and it is the same in both functions; and the block
was reached through an edge that was not dead. This is what "constants are right
and dead code is dead" means step by step.

*Neither too early nor too far* (`LastInv`). The rounds of the plain analysis,
`Rounds`, only learn, since `Round` is monotone (`RoundFalls`); a state can learn
no more than `2 * |Temps| + |Edges|` times, so `LastRound` is a fixed point
(`LastFixed`). Each step of the search stays behind that fixed point (`Behind`,
`StepBehind`): what it reaches was reached, what it computes is computed from no
less. Where the search ends, `Found` makes one more round change nothing, so that
no round knows more (`AboveRounds`); the two are the same. The `Behind` half needs
`JumpsAgree`, and fails where it does: a jump on a value that is still the top of
the lattice pushes an edge that the rounds may never take, which is finding 5.

Assumptions: `WidthAssumption` and `TempsAssumption` (temporaries are a finite set,
and no constants), and `ProgramsAssumption`: the functions are well typed
(`WellTyped`), each temporary has one definition (`OneDef`), and definitions
dominate uses (`Strict`, with dominance defined by sets of blocks instead of
paths). This is what `ssa()` leaves (`SsaForm` and `StrictAccepted` of the `ssa`
run), and TLC evaluates it on every function of the runs.

The merge of a phi is a fold over the predecessors, and the list is a recursive
function. Facts about them are proved without induction over data: the result
of the fold is characterised by a least counterexample over the natural numbers,
and the chain by its closed formula.

### The text of functions

`UnitProofs`, for any names and constants and inputs of any length:
`UnitInvariant` (`Spec => []UnitInv`), and from it `TypeCorrect` and
`NumbersMeantCorrect`; `TextInvariant` (`Spec => []TextInv`), and from it
`TextKeptCorrect`.

A function is written when the rest of the input is not known yet, and its text
may be moved; the tables that its numbers point into, `file` and `stash`, go on
growing, and what they stand for is written into other buffers, or after all
functions. `UnitInv` says of every line, wherever it is now (`Written`), that it
means what the input said (`Meant`); this stays so since the tables only grow at
their end (`MeantKept`), `stashbits()` finds an entry that begins with the
constant (`StashFound`), and `curfile` is the number of the last `dbgfile` even
if that file was named before (`CurFile`). `FilesWritten` has that each number
has its `.file` outside of the functions' buffers, and that the buffers copied
so far are in the output; `InOrder`, that without the permutation the `.file`
comes first; `ConstsOnce`, that `emitfin()` has written each constant once that
it does not owe any more.

That no text is lost is an equation between two sequences: what the lines of the
output say (`Said`) and what the definitions of the input are to say (`Wanted`).
It is not inductive, since the output is empty while functions are permuted, and
`emitdat()` writes the label of a data definition only when it knows the section.
`TextInv` states it of what was emitted so far, wherever it is: `Emitted` reads
the buffers with a function after each of them but the last, and equals
`Wanted(Len(src))` between definitions (`SaysAll`). Inside a data definition it
equals the definitions before, and then either the heading and the bytes of the
items handled, or nothing yet, when these are as many zeros as `zero` counts
(`OpenData`). The copy then says the first `left` of these pieces, so that the
last one completes it, although the functions between them are others.
`CodeRight` and `OpenCode` have that a buffer of `funout` holds one function, its
line and then its references in order, and `rawout` none, so that whole buffers
can be exchanged. `EachOnce` has that the shuffle keeps `ord` a permutation, and
the functions copied so far are those of its first `left` places.

Both sides are folds over sequences of sequences. That concatenating one more
sequence extends the fold by it is proved from the equation of the fold with a
least counterexample over the natural numbers (`FlatIs`, `FlatCat`), without
induction over data.

Assumption: `BitsAssumption`, constants have one, two or four words, as
`stashbits()` asserts.

### Only model-checked

Termination of `pmgen()` and `fold()`, since liveness under fairness is out of
the prover's reach.
Cfg, Ssa, the passes of Func and the conventions, whose algorithms
are recursive or are checked by executing functions; and of Backend, that no assertion
of `spill()` fails and that reads find their values (`NoAbort`, `SameReads`).

## Findings

Three are runs:

1. `func_mask`: `load.c:299` does not clear the bits above what a store gives to
   a load when they were shifted right.
2. `func_promote`: `mem.c:70` decides by the class of the slot, not of the load,
   whether a promoted `loadsw`/`loaduw` must extend.
3. `backend_jump`: on rv64 the argument of a jump may get a slot or be reloaded
   with no instruction buffer set up (`spill.c:427`, `rv64/emit.c:557`).

The others have a configuration each, which no run of `PROJECT.json` repeats: they
rest on `tlc -config <cfg> <module>`, which finds the violation, and on compiling
an input that shows it with the program:

4. `MCPmovSlots.cfg` (MCPmov): the copies of an edge may read stack slots; a
   cycle through one makes `pmrec` emit a swap with a slot. `arm64/emit.c:215`
   refuses it by assertion. On amd64 an `xchg` takes one operand from memory, and
   the swap is good; where two slots follow each other in the cycle it has both
   from memory, which the assembler refuses. Needs a loop whose phis rotate more
   values than there are registers: 18 on amd64, 30 on arm64, each phi taking the
   value of the next but one.
5. `MCSccpUndef.cfg` (MCSccp): `UNDEF` is the top of the lattice but counts as a
   constant that is not zero, so that a `jnz` on a phi that is undefined the
   first time round pushes one edge and later the other, and the assertion of
   `visitjmp()` fails. `NoAbortDefined` shows that this is the only way.
6. `MCUnitNames.cfg` (MCUnit, with `-continue`), `DataMeant`: a symbol that
   follows a symbol in a data item replaces it, since `parsedatref()` keeps a
   pointer into the lexer's buffer across `peek()`.
7. The same, `FilesKnown`: with `--div-funcperm`, a `.loc` may come before
   the `.file` it names. In order, it never does (`FilesKnownInOrder`).
8. `MCFuncBackedge.cfg` (MCFunc): `fillalias()` reads the record of a phi's
   argument that is defined further on (`alias.c:149`), and an assertion of
   `coalesce()` fails (`mem.c:361`).
9. `MCFuncSelf.cfg` (MCFunc): `assert(b->loop > n)` of `mem.c:299` does not hold
   for a loop of one block.
10. `MCAbiNested.cfg` (MCAbi): on rv64 the offset of a member behind a nested
    type is counted without it (`rv64/abi.c:109`).
11. `MCAbiSubword.cfg` (MCAbi): on arm64_apple a parameter smaller than a word
    that comes in a register is never copied out of it (`arm64/abi.c:428`).
12. `MCAbiVa.cfg` (MCAbi): on arm64 a named aggregate on the stack leaves
    registers that `va_start` counts and the caller does not use.

Found while modelling, with no configuration since the inputs are outside of
what the modules represent: `retr()` of `amd64/sysv.c:103` indexes its table
with -1 for a returned type that ends in a word of padding; the number of bytes
on the stack of a variadic function with an environment includes a flag
(`amd64/sysv.c:639`); a type with an opaque member is taken as floating point
on amd64, is refused by arm64 and crashes rv64; `rv64/abi.c:289` gives integer
registers to an aggregate with floats when exactly enough registers are left,
where the convention would use those of floats (both sides of a call agree).

## Abstractions

* Frame: the pass order of the allocs is that of one block; the 29 bits of a
  `SLOT` are not modelled (frames of a gigabyte).
* Rega: one class; what spill guarantees (enough registers at every point) is an
  assumption, `Fits`, which `RegistersSuffice` proves of Backend (`FitsRega`).
* Spill, Backend: instructions are those of no particular target: how many
  operands may be in memory is a field of each. The order of temporaries of
  equal cost, which `qsort()` leaves open, is tried both ways. `PickEnd` and `PickBeg` try
  any maps of the blocks around an edge, instead of those that hints would give.
* Sccp: `add` and `div` stand for the operators that wrap and those that cannot
  be folded; symbols, floating point and the two widths of an operation are left
  out. `usewrk` is a set taken from in any order, which includes the code's. The
  phis of a trimmed block keep their numbers, since their order is of no account.
* Cfg: a pass that removes edges in between (`fold()`, checked in Sccp) is left
  out, since every graph is an input.
* Ssa: one class of values; operands other than temporaries are `R`; which of
  several errors `ssacheck()` tells. `PhiIns` takes the blocks of its worklist in
  any order.
* Il and its passes: arithmetic is an offset to an address or opaque, `op`
  stands for an instruction that the passes do not look into; a value read from
  memory that nothing wrote ends a comparison (`ub`), since its use is undefined.
  The load that `def()` moves up to another block is not reached: blocks have no
  loop depth when the pass runs.
* Conventions: the sequences of instructions that carry the plan out (blits of
  aggregates, casts between classes, the blocks that `va_arg` splits, the
  extensions of `apple_extsb()`) are left out; what is compared is which part
  of which argument is in which place.
* Unit: names, numbers and functions are opaque; `dbg` output, linkage
  (`section`, `export`) and Mach-O sections are left out.

## Not modelled

* Instruction selection and printing: pattern rewriting and formatting, one
  instruction at a time, whose correctness is that of each machine's
  instructions. Of these files Frame has the allocs, slots and frames.
* The parser of functions: recursive descent over text; what it makes is the
  input of all the other modules.
* The pools and the string table of `util.c`, nop insertion, the random state:
  nothing else reads their state, and their choices are free in the modules.
* Constant-time comparison: a property of timing.
* minic, tools, tests and evaluation scripts: not part of the compiler.

## Plan

1. Backend with maps chosen as `rega()` does, hints and the loop-first order
   included, so that edges are checked from reachable maps only.
2. `SameReads` of Backend as a theorem: `RegaInv` has what is in registers at each
   point, and lacks that a slot is up to date wherever its temporary is live.
3. Instruction selection of addresses on amd64 (`addr` nodes), the one part
   whose state (`num`, matches) is shared between instructions.
