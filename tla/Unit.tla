-------------------------------- MODULE Unit --------------------------------
(***************************************************************************)
(* How the definitions of the input become the text of the assembly file:  *)
(* parse() and parsedat() of parse.c, emitdat(), emitdbgfile(),            *)
(* emitdbgloc(), stashbits() and emitfin() of emit.c, and the callbacks of *)
(* main.c with the buffers of the function permutation.                    *)
(*                                                                         *)
(* The input is chosen as it is read; a definition is named by its place.  *)
(* A function is opaque but for the source lines and the floating point    *)
(* constants its code refers to; the text is a sequence of lines, of which *)
(* only the kind and the names are kept.  divpickfun() may return any      *)
(* number below its argument.                                              *)
(***************************************************************************)
EXTENDS Integers, Sequences, FiniteSets, SequencesExt

CONSTANTS
  Symbols,     (* the names that data refers to                            *)
  Files,       (* the names that dbgfile gives                             *)
  Bits,        (* floating point constants, sequences of 32-bit words      *)
  Budget,      (* bounds the length of the input                           *)
  MaxConsts    (* bounds the references to constants of one function       *)

ASSUME BitsAssumption == \A b \in Bits : b \in Seq(Int) /\ Len(b) \in {1, 2, 4}

VARIABLES
  pc,          (* "top", "func", "data", "flush" (the shuffle), "copy",    *)
               (* "fin" or "done"                                          *)
  funcperm,    (* divstate.enabled && divstate.funcperm                    *)
  src,         (* the definitions read so far, as they were written        *)
  cur,         (* in a data definition: the item not yet handled           *)
  zero,        (* emitdat's: zeros it owes, or -1 after the label          *)
  file, curfile, stash,
  rawout, funout, ord,
  left,        (* i of the shuffle, then how many buffers were copied      *)
  owed,        (* the constants that emitfin() has not written yet         *)
  outf

input  == <<src, cur>>
emitst == <<zero, file, curfile, stash>>
bufs   == <<rawout, funout, ord, left, owed>>
vars   == <<pc, funcperm, input, emitst, bufs, outf>>

-----------------------------------------------------------------------------
NoItem == [k |-> "none"]

\* The tokens that can start a data item: a number, a symbol (which the lexer
\* leaves in its buffer), one with an offset, a quoted one (which it does not).
Tokens == {[k |-> "num"]} \cup {[k |-> q, name |-> n] : q \in {"sym", "sym+", "quoted"}, n \in Symbols}

Spent == FoldSeq(LAMBDA d, n : n + 1 + IF d.k = "data" THEN Len(d.items) ELSE 0, 0, src)

\* The definitions of a kind; the dbgfile that is in force.
Of(kind) == {i \in DOMAIN src : src[i].k = kind}
LastFile == CHOOSE i \in Of("file") : \A j \in Of("file") : j <= i

\* What is written to txtout(), and to the buffer of a function.
Put(lines) ==
  IF funcperm
  THEN /\ rawout' = [rawout EXCEPT ![Len(rawout)] = @ \o lines]
       /\ UNCHANGED outf
  ELSE /\ outf' = outf \o lines
       /\ UNCHANGED rawout

PutFn(lines) ==
  IF funcperm
  THEN /\ funout' = [funout EXCEPT ![Len(funout)] = @ \o lines]
       /\ UNCHANGED outf
  ELSE /\ outf' = outf \o lines
       /\ UNCHANGED funout

\* initfuncperm() included.
Init ==
  /\ pc = "top"
  /\ funcperm \in BOOLEAN
  /\ src = << >> /\ cur = NoItem
  /\ zero = 0 /\ file = << >> /\ curfile = 0 /\ stash = << >>
  /\ rawout = IF funcperm THEN << << >> >> ELSE << >>
  /\ funout = << >> /\ ord = << >> /\ left = 0 /\ owed = {}
  /\ outf = << >>

-----------------------------------------------------------------------------
\* dbgfile "f": a file that was named before keeps its number.
DbgFile(f) ==
  /\ pc = "top" /\ Spent < Budget
  /\ src' = Append(src, [k |-> "file", name |-> f])
  /\ IF f \in ToSet(file)
     THEN /\ curfile' = CHOOSE n \in DOMAIN file : file[n] = f
          /\ UNCHANGED <<file, rawout, outf>>
     ELSE /\ file' = Append(file, f)
          /\ curfile' = Len(file')
          /\ Put(<<[k |-> "file", n |-> curfile', name |-> f]>>)
  /\ UNCHANGED <<pc, funcperm, cur, zero, stash, funout, ord, left, owed>>

\* stashbits(): a constant may be the start of a longer one.
Stash(s, bits) ==
  LET same == {i \in DOMAIN s : IsPrefix(bits, s[i])}
  IN  IF same = {} THEN Append(s, bits) ELSE s

StashIndex(s, bits) ==
  CHOOSE i \in DOMAIN s :
    /\ IsPrefix(bits, s[i])
    /\ \A h \in 1 .. i - 1 : ~ IsPrefix(bits, s[h])

\* func(), of a function with source lines if locs, for which there is a
\* dbgfile.  Its text goes to a buffer of its own.
Func(locs) ==
  LET text == << [k |-> "func", id |-> Len(src) + 1, loc |-> IF locs THEN curfile ELSE 0] >>
  IN  /\ pc = "top" /\ Spent < Budget
      /\ locs => Of("file") # {}
      /\ src' = Append(src, [k |-> "func", consts |-> << >>,
                             file |-> IF locs THEN <<src[LastFile].name>> ELSE << >>])
      /\ IF funcperm THEN funout' = Append(funout, text) /\ UNCHANGED outf
         ELSE outf' = outf \o text /\ UNCHANGED funout
      /\ pc' = "func"
      /\ UNCHANGED <<funcperm, cur, emitst, rawout, ord, left, owed>>

\* Its code refers to a constant.
FuncConst(bits) ==
  LET consts == src[Len(src)].consts
  IN  /\ pc = "func" /\ Len(consts) < MaxConsts
      /\ src' = [src EXCEPT ![Len(src)].consts = Append(@, bits)]
      /\ stash' = Stash(stash, bits)
      /\ PutFn(<< [k |-> "ref", id |-> Len(src), at |-> Len(consts) + 1,
                   n |-> StashIndex(stash', bits)] >>)
      /\ UNCHANGED <<pc, funcperm, cur, zero, file, curfile, rawout, ord, left, owed>>

\* Mutant: no new buffer for what follows the function.
FuncEndNoRaw ==
  /\ pc = "func"
  /\ pc' = "top"
  /\ UNCHANGED <<funcperm, input, emitst, bufs, outf>>

\* What follows the function goes to a new buffer.
FuncEnd ==
  /\ pc = "func"
  /\ rawout' = IF funcperm THEN Append(rawout, << >>) ELSE rawout
  /\ pc' = "top"
  /\ UNCHANGED <<funcperm, input, emitst, funout, ord, left, owed, outf>>

-----------------------------------------------------------------------------
(***************************************************************************)
(* Data definitions.                                                       *)
(***************************************************************************)
\* The definition read so far has one more item.
Read(item) == src' = [src EXCEPT ![Len(src)].items = Append(@, item)]

DatStart ==
  /\ pc = "top" /\ Spent < Budget
  /\ src' = Append(src, [k |-> "data", items |-> << >>])
  /\ zero' = 0
  /\ pc' = "data"
  /\ UNCHANGED <<funcperm, cur, file, curfile, stash, bufs, outf>>

Label(sec) == [k |-> "label", id |-> Len(src), sec |-> sec]
Fill(n)    == [k |-> "fill", n |-> n]

\* A z field.
DatZ(n) ==
  /\ pc = "data" /\ cur = NoItem /\ Spent < Budget
  /\ Read([k |-> "z", n |-> n])
  /\ IF zero # -1
     THEN /\ zero' = zero + n
          /\ UNCHANGED <<rawout, outf>>
     ELSE /\ Put(<<Fill(n)>>)
          /\ UNCHANGED zero
  /\ UNCHANGED <<pc, funcperm, cur, file, curfile, stash, funout, ord, left, owed>>

\* The letter and the first item of a field.
DatField(t) ==
  /\ pc = "data" /\ cur = NoItem /\ Spent < Budget
  /\ cur' = t
  /\ Read(t)
  /\ UNCHANGED <<pc, funcperm, emitst, bufs, outf>>

\* emitdat() of an item: the first one brings the label and the zeros owed.
EmitItem(i) ==
  /\ Put(IF zero = -1 THEN <<i>>
         ELSE <<Label(".data")>> \o (IF zero > 0 THEN <<Fill(zero)>> ELSE << >>) \o <<i>>)
  /\ zero' = -1

\* The item cur is emitted; the token after it is next, or ends the field.
\* parsedatref() looks at that token first, to see whether it is a +: if it is
\* a symbol, the buffer that holds the name of cur then holds its name.  (Items
\* are on one line: a line feed between them is a token that leaves the buffer.)
DatItem(next) ==
  /\ pc = "data" /\ cur # NoItem
  /\ next # NoItem => Spent < Budget
  /\ LET overwritten == cur.k = "sym" /\ next.k \in {"sym", "sym+"}
     IN  EmitItem([k |-> "item", is |-> IF overwritten THEN [cur EXCEPT !.name = next.name] ELSE cur])
  /\ cur' = next
  /\ IF next = NoItem THEN UNCHANGED src ELSE Read(next)
  /\ UNCHANGED <<pc, funcperm, file, curfile, stash, funout, ord, left, owed>>

\* The closing brace.
DatEnd ==
  /\ pc = "data" /\ cur = NoItem
  /\ Put((IF zero = -1 THEN << >> ELSE <<Label(".bss"), Fill(zero)>>) \o <<[k |-> "end"]>>)
  /\ pc' = "top"
  /\ UNCHANGED <<funcperm, input, emitst, funout, ord, left, owed>>

-----------------------------------------------------------------------------
(***************************************************************************)
(* The end of the input: flushfuncperm() and emitfin().                    *)
(***************************************************************************)
Finish ==
  /\ pc = "top"
  /\ IF funcperm THEN pc' = "flush" /\ UNCHANGED owed
     ELSE pc' = "fin" /\ owed' = DOMAIN stash
  /\ ord' = [i \in DOMAIN funout |-> i]
  /\ left' = Len(funout)
  /\ UNCHANGED <<funcperm, input, emitst, rawout, funout, outf>>

\* Mutant: the second of the two assignments of the swap reads the new value.
SwapLost(j) ==
  /\ pc = "flush" /\ left > 1
  /\ ord' = [ord EXCEPT ![left] = ord[j]]
  /\ left' = left - 1
  /\ UNCHANGED <<pc, funcperm, input, emitst, rawout, funout, owed, outf>>

\* One round of the shuffle, with divpickfun(left) = j - 1.
Swap(j) ==
  /\ pc = "flush" /\ left > 1
  /\ ord' = [ord EXCEPT ![left] = ord[j], ![j] = ord[left]]
  /\ left' = left - 1
  /\ UNCHANGED <<pc, funcperm, input, emitst, rawout, funout, owed, outf>>

Shuffled ==
  /\ pc = "flush" /\ left <= 1
  /\ pc' = "copy" /\ left' = 0
  /\ UNCHANGED <<funcperm, input, emitst, rawout, funout, ord, owed, outf>>

\* What was before a function, and the function that takes its place.
CopyOut ==
  /\ pc = "copy" /\ left < Len(funout)
  /\ outf' = outf \o (rawout[left + 1] \o funout[ord[left + 1]])
  /\ left' = left + 1
  /\ UNCHANGED <<pc, funcperm, input, emitst, rawout, funout, ord, owed>>

CopyLast ==
  /\ pc = "copy" /\ left = Len(funout)
  /\ outf' = outf \o rawout[left + 1]
  /\ pc' = "fin" /\ owed' = DOMAIN stash
  /\ UNCHANGED <<funcperm, input, emitst, rawout, funout, ord, left>>

\* Mutant: only the constants that have a section in Mach-O.
EmitFpNarrow(i) ==
  /\ pc = "fin"
  /\ outf' = IF Len(stash[i]) = 4 THEN outf
             ELSE outf \o << [k |-> "fp", n |-> i, bits |-> stash[i]] >>
  /\ owed' = owed \ {i}
  /\ UNCHANGED <<pc, funcperm, input, emitst, rawout, funout, ord, left>>

\* emitfin(): the longest constants first, each in its section.
EmitFp(i) ==
  /\ pc = "fin"
  /\ \A j \in owed \ {i} :
       \/ Len(stash[j]) < Len(stash[i])
       \/ Len(stash[j]) = Len(stash[i]) /\ i < j
  /\ outf' = outf \o << [k |-> "fp", n |-> i, bits |-> stash[i]] >>
  /\ owed' = owed \ {i}
  /\ UNCHANGED <<pc, funcperm, input, emitst, rawout, funout, ord, left>>

EmitFin ==
  /\ pc = "fin" /\ owed = {}
  /\ pc' = "done"
  /\ UNCHANGED <<funcperm, input, emitst, bufs, outf>>

Next ==
  \/ \E f \in Files : DbgFile(f)
  \/ \E locs \in BOOLEAN : Func(locs)
  \/ \E bits \in Bits : FuncConst(bits)
  \/ FuncEnd
  \/ DatStart
  \/ \E n \in 0 .. 2 : DatZ(n)
  \/ \E t \in Tokens : DatField(t)
  \/ \E next \in Tokens \cup {NoItem} : DatItem(next)
  \/ DatEnd
  \/ Finish
  \/ \E j \in 1 .. left : Swap(j)
  \/ Shuffled
  \/ CopyOut
  \/ CopyLast
  \/ \E i \in owed : EmitFp(i)
  \/ EmitFin

Spec == Init /\ [][Next]_vars

-----------------------------------------------------------------------------
\* Types, and one buffer more than there are functions.
TypeOK ==
  /\ pc \in {"top", "func", "data", "flush", "copy", "fin", "done"}
  /\ funcperm \in BOOLEAN
  /\ cur \in Tokens \cup {NoItem}
  /\ zero \in Nat \cup {-1}
  /\ ToSet(file) \subseteq Files /\ curfile \in 0 .. Len(file)
  /\ ToSet(stash) \subseteq Bits /\ owed \subseteq DOMAIN stash
  /\ left \in 0 .. Len(funout)
  /\ Len(rawout) = IF ~ funcperm THEN 0 ELSE IF pc = "func" THEN Len(funout) ELSE Len(funout) + 1

Lines(kind) == {i \in DOMAIN outf : outf[i].k = kind}

(***************************************************************************)
(* What the text says: the files, functions and data definitions in it, in *)
(* order, with the bytes of the data.  Names are left to DataMeant.        *)
(***************************************************************************)
Zeros(n) == [i \in 1 .. n |-> [k |-> "zero"]]

Line(l) ==
  CASE l.k = "file"  -> <<[k |-> "file", name |-> l.name]>>
    [] l.k = "func"  -> <<[k |-> "func"]>>
    [] l.k = "label" -> <<[k |-> "data", id |-> l.id, sec |-> l.sec]>>
    [] l.k = "fill"  -> Zeros(l.n)
    [] l.k = "item"  -> <<[k |-> l.is.k]>>
    [] l.k = "end"   -> <<[k |-> "end"]>>
    [] OTHER         -> << >>
Said(text) == FlattenSeq([j \in DOMAIN text |-> Line(text[j])])

\* What the first n definitions of the input are to say.
Item(i) == IF i.k = "z" THEN Zeros(i.n) ELSE <<[k |-> i.k]>>
Bytes(items) == FlattenSeq([j \in DOMAIN items |-> Item(items[j])])
Named(i) == \E h \in 1 .. i - 1 : src[h].k = "file" /\ src[h].name = src[i].name
Section(items) == IF \A j \in DOMAIN items : items[j].k = "z" THEN ".bss" ELSE ".data"
Heading(i, sec) == <<[k |-> "data", id |-> i, sec |-> sec]>>
Definition(i) ==
  CASE src[i].k = "file" -> IF Named(i) THEN << >> ELSE <<[k |-> "file", name |-> src[i].name]>>
    [] src[i].k = "func" -> <<[k |-> "func"]>>
    [] src[i].k = "data" -> Heading(i, Section(src[i].items)) \o Bytes(src[i].items) \o <<[k |-> "end"]>>
Wanted(n) == FlattenSeq([i \in 1 .. n |-> Definition(i)])

\* "When several data items follow a letter, they initialize multiple fields"
\* (doc/il.txt): each with the symbol that was written there.
DataMeant ==
  pc = "done" =>
    LET lines == SelectSeq(outf, LAMBDA l : l.k = "item")
        data  == FlattenSeq([i \in DOMAIN src |-> IF src[i].k = "data" THEN src[i].items ELSE << >>])
    IN  [j \in DOMAIN lines |-> lines[j].is] = SelectSeq(data, LAMBDA i : i.k # "z")

\* The code of functions in a text: the line of each is followed by all its
\* references, in order, and there are no others.
IsRef(l, id, n) == l.k = "ref" /\ l.id = id /\ l.at = n
CodeIn(text) ==
  /\ \A i \in DOMAIN text : text[i].k = "func" =>
       \A n \in DOMAIN src[text[i].id].consts :
         i + n \in DOMAIN text /\ IsRef(text[i + n], text[i].id, n)
  /\ \A i \in DOMAIN text : text[i].k = "ref" =>
       \E f \in DOMAIN text : text[f].k = "func" /\ text[f].id = text[i].id /\ i = f + text[i].at

\* The output says what the input says, in its order: each data definition has
\* one label, before its first byte and in the right section, and all its bytes,
\* those of the zeros that emitdat() owes included; no text but functions moves.
\* "data/raw segments keep their relative slots" (main.c): the permutation moves
\* whole functions among the places of functions; each is written once, and
\* without it, in order.  Constants come last.
OutIds == {outf[i].id : i \in Lines("func")}
TextKept ==
  pc = "done" =>
    /\ Said(outf) = Wanted(Len(src))
    /\ CodeIn(outf) /\ OutIds = Of("func")
    /\ \A i, j \in Lines("func") : i < j =>
         outf[i].id # outf[j].id /\ (~ funcperm => outf[i].id < outf[j].id)
    /\ \A i \in Lines("fp") : \A j \in DOMAIN outf : i < j => outf[j].k = "fp"

\* A .loc names the file that the last dbgfile before its function named.
LocsMeant ==
  pc = "done" => \A i \in Lines("func") :
    outf[i].loc # 0 =>
      \E f \in Lines("file") :
        outf[f].n = outf[i].loc /\ src[outf[i].id].file = <<outf[f].name>>

\* The assembler knows the number of a .loc: its .file comes before it.
\* "semantically safe because whole-function emission blocks are permuted"
\* (evaluation_artifacts/reports/findings_detailed.md).
FilesKnown ==
  pc = "done" => \A i \in Lines("func") :
    outf[i].loc # 0 => \E f \in Lines("file") : f < i /\ outf[f].n = outf[i].loc

FilesKnownInOrder == ~ funcperm => FilesKnown

\* Every constant that a function refers to is defined once, after all
\* functions were emitted, with the bits that it wants.
ConstantsDefined ==
  pc = "done" => \A i \in Lines("ref") :
    LET fp == {f \in Lines("fp") : outf[f].n = outf[i].n}
    IN  /\ Cardinality(fp) = 1
        /\ \A f \in fp : IsPrefix(src[outf[i].id].consts[outf[i].at], outf[f].bits)

\* The numbers in a function, which was emitted before the rest of the input
\* was read and is written in another place, still mean what they meant.
NumbersMeant == LocsMeant /\ FilesKnownInOrder /\ ConstantsDefined

-----------------------------------------------------------------------------
(***************************************************************************)
(* Why they do.  All lines that were written, wherever they are now.       *)
(***************************************************************************)
TextOf(buffers) == UNION {ToSet(buffers[i]) : i \in DOMAIN buffers}
Plain   == ToSet(outf) \cup TextOf(rawout)      \* not of a function
Written == Plain \cup TextOf(funout)

IsSeq(s)    == s \in Seq(ToSet(s))
Buffers(bs) == IsSeq(bs) /\ \A i \in DOMAIN bs : IsSeq(bs[i])

Shapes ==
  /\ IsSeq(src) /\ file \in Seq(Files) /\ stash \in Seq(Bits)
  /\ IsSeq(outf) /\ Buffers(rawout) /\ Buffers(funout)
  /\ ~ funcperm => rawout = << >> /\ funout = << >>
  /\ pc \in {"flush", "copy"} =>
       funcperm /\ ord \in [1 .. Len(funout) -> 1 .. Len(funout)]
  /\ pc = "func" /\ funcperm => funout # << >>

Definitions ==
  /\ \A i \in Of("file") : DOMAIN src[i] = {"k", "name"}
  /\ \A i \in Of("func") : DOMAIN src[i] = {"k", "consts", "file"} /\ IsSeq(src[i].consts)
  /\ \A i \in Of("data") : DOMAIN src[i] = {"k", "items"}
  /\ pc = "func" => Len(src) \in Of("func")
  /\ pc = "data" => Len(src) \in Of("data")

\* A line means what the input says, whenever it is looked at.
Meant(l) ==
  /\ l.k = "file" => l.n \in DOMAIN file /\ file[l.n] = l.name
  /\ l.k = "func" =>
       /\ l.id \in Of("func")
       /\ l.loc # 0 => l.loc \in DOMAIN file /\ src[l.id].file = <<file[l.loc]>>
  /\ l.k = "ref" =>
       /\ l.id \in Of("func") /\ l.at \in DOMAIN src[l.id].consts
       /\ l.n \in DOMAIN stash /\ IsPrefix(src[l.id].consts[l.at], stash[l.n])
  /\ l.k = "fp" => l.n \in DOMAIN stash /\ l.bits = stash[l.n]
AllMeant == \A l \in Written : Meant(l)

\* Every file that has a number has a line, which is in outf at the end, and in
\* order before all that use it.
CurFile == IF Of("file") = {} THEN curfile = 0
           ELSE /\ LastFile \in Of("file") /\ curfile \in DOMAIN file
                /\ file[curfile] = src[LastFile].name
FilesWritten ==
  /\ \A n \in DOMAIN file : \E l \in Plain : l.k = "file" /\ l.n = n
  /\ \A i \in DOMAIN rawout :
       pc \in {"fin", "done"} \/ (pc = "copy" /\ i <= left) => ToSet(rawout[i]) \subseteq ToSet(outf)
InOrder ==
  ~ funcperm => \A i \in Lines("func") :
    outf[i].loc # 0 => \E f \in Lines("file") : f < i /\ outf[f].n = outf[i].loc

\* emitfin() writes each constant once.
ConstsOnce ==
  /\ pc \notin {"fin", "done"} => \A l \in Written : l.k # "fp"
  /\ pc \in {"fin", "done"} =>
       /\ \A n \in DOMAIN stash \ owed : \E i \in Lines("fp") : outf[i].n = n
       /\ \A i \in Lines("fp") :
            outf[i].n \notin owed /\ \A j \in Lines("fp") : outf[i].n = outf[j].n => i = j
  /\ pc = "done" => owed = {}

UnitInv == /\ TypeOK /\ Shapes /\ Definitions /\ AllMeant
           /\ CurFile /\ FilesWritten /\ InOrder /\ ConstsOnce
-----------------------------------------------------------------------------
(***************************************************************************)
(* Why the text is kept.                                                   *)
(***************************************************************************)
\* What the buffers say: those of functions are only counted.
Piece(i)  == Said(rawout[i]) \o (IF i <= Len(funout) THEN <<[k |-> "func"]>> ELSE << >>)
Pieces(n) == FlattenSeq([i \in 1 .. n |-> Piece(i)])
Emitted   == IF funcperm THEN Pieces(Len(rawout)) ELSE Said(outf)

\* The items of the open data definition that were emitted, or are owed.
Handled ==
  LET items == src[Len(src)].items
  IN  SubSeq(items, 1, Len(items) - IF cur = NoItem THEN 0 ELSE 1)
OpenData ==
  /\ cur # NoItem => pc = "data" /\ src[Len(src)].items # << >>
                       /\ cur = src[Len(src)].items[Len(src[Len(src)].items)]
  /\ pc = "data" =>
       /\ IF zero = -1
          THEN Emitted = Wanted(Len(src) - 1) \o (Heading(Len(src), ".data") \o Bytes(Handled))
          ELSE Emitted = Wanted(Len(src) - 1) /\ Bytes(Handled) = Zeros(zero)
       /\ Section(Handled) = IF zero = -1 THEN ".data" ELSE ".bss"

SaysAll ==
  /\ pc \in {"top", "func", "flush", "copy"} => Emitted = Wanted(Len(src))
  /\ funcperm /\ pc \notin {"copy", "fin", "done"} => outf = << >>
  /\ pc = "copy" => Said(outf) = Pieces(left)
  /\ pc \in {"fin", "done"} => Said(outf) = Wanted(Len(src))

\* The text of a function, and of what is between functions.
CodeLines == {"func", "ref"}
CodeRight ==
  /\ CodeIn(outf)
  /\ \A n \in DOMAIN funout :
       /\ CodeIn(funout[n]) /\ Said(funout[n]) = <<[k |-> "func"]>>
       /\ funout[n] # << >> /\ funout[n][1].k = "func"
       /\ \A i \in DOMAIN funout[n] : i > 1 => funout[n][i].k = "ref"
  /\ \A n \in DOMAIN rawout : \A i \in DOMAIN rawout[n] : rawout[n][i].k \notin CodeLines
OpenCode ==
  pc = "func" =>
    LET text == IF funcperm THEN funout[Len(funout)] ELSE outf
        f    == Len(text) - Len(src[Len(src)].consts)
    IN  f \in DOMAIN text /\ text[f].k = "func" /\ text[f].id = Len(src)

\* Every function has one text.
FunId(n) == funout[n][1].id
EachOnce ==
  /\ funcperm =>
       /\ {FunId(n) : n \in DOMAIN funout} = Of("func")
       /\ \A m, n \in DOMAIN funout : FunId(m) = FunId(n) => m = n
  /\ pc \in {"flush", "copy"} =>
       /\ \A n \in DOMAIN funout : \E m \in DOMAIN funout : ord[m] = n
       /\ \A m, n \in DOMAIN funout : ord[m] = ord[n] => m = n
  /\ pc = "copy" => OutIds = {FunId(ord[m]) : m \in 1 .. left}
  /\ ~ funcperm \/ pc \in {"fin", "done"} => OutIds = Of("func")
  /\ \A i, j \in Lines("func") : i < j =>
       outf[i].id # outf[j].id /\ (~ funcperm => outf[i].id < outf[j].id)

\* All lines and definitions can be read.
Marks == [k : {"func", "end", "zero", "num", "sym", "sym+", "quoted"}]
           \cup [k : {"file"}, name : Files] \cup [k : {"data"}, id : Nat, sec : {".data", ".bss"}]
Items == Tokens \cup [k : {"z"}, n : Nat]
Readable ==
  /\ \A i \in DOMAIN src : src[i].k \in {"file", "func", "data"}
  /\ \A i \in Of("data") : src[i].items \in Seq(Items)
  /\ \A l \in Written : Line(l) \in Seq(Marks)

FilesNamed == ToSet(file) = {src[i].name : i \in Of("file")}
ConstsLast == \A i \in Lines("fp") : \A j \in DOMAIN outf : i < j => outf[j].k = "fp"

TextInv == Readable /\ OpenData /\ SaysAll /\ CodeRight /\ OpenCode /\ EachOnce /\ FilesNamed /\ ConstsLast
=============================================================================
