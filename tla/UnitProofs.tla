------------------------------ MODULE UnitProofs ------------------------------
(***************************************************************************)
(* Proofs about Unit: the numbers of files and constants in the text of a  *)
(* function mean what they meant when it was written (UnitInv), and the    *)
(* output says what the input says (TextInv): the text is followed in the  *)
(* order of sections below, from what a sequence of lines says, through    *)
(* data, files and functions, to the shuffle, the copy and the constants.  *)
(***************************************************************************)
EXTENDS Unit, FiniteSetTheorems, WellFoundedInduction, TLAPS

-----------------------------------------------------------------------------
(* Sequences and buffers.                                                   *)

LEMMA InSeq ==
  ASSUME NEW s
  PROVE  \A e : e \in ToSet(s) <=> \E i \in DOMAIN s : e = s[i]
BY DEF ToSet

LEMMA SeqCat ==
  ASSUME NEW s, NEW t, IsSeq(s), IsSeq(t)
  PROVE  /\ IsSeq(s \o t) /\ ToSet(s \o t) = ToSet(s) \cup ToSet(t)
         /\ Len(s \o t) = Len(s) + Len(t) /\ Len(s) \in Nat /\ Len(t) \in Nat
         /\ DOMAIN s = 1 .. Len(s) /\ DOMAIN t = 1 .. Len(t) /\ DOMAIN (s \o t) = 1 .. Len(s \o t)
         /\ \A i \in 1 .. Len(s) : (s \o t)[i] = s[i]
         /\ \A i \in 1 .. Len(t) : (s \o t)[Len(s) + i] = t[i]
<1>. PICK S : S = ToSet(s) \cup ToSet(t)
  OBVIOUS
<1>1. s \in Seq(S) /\ t \in Seq(S)
  BY DEF IsSeq
<1>2. s \o t \in Seq(S)
  BY <1>1
<1>3. /\ Len(s \o t) = Len(s) + Len(t) /\ Len(s) \in Nat /\ Len(t) \in Nat
      /\ DOMAIN s = 1 .. Len(s) /\ DOMAIN t = 1 .. Len(t) /\ DOMAIN (s \o t) = 1 .. Len(s \o t)
      /\ \A i \in 1 .. Len(s) : (s \o t)[i] = s[i]
      /\ \A i \in 1 .. Len(t) : (s \o t)[Len(s) + i] = t[i]
  BY <1>1, <1>2
<1>4. ASSUME NEW i \in 1 .. Len(s) + Len(t)
      PROVE  i \in 1 .. Len(s) \/ \E j \in 1 .. Len(t) : i = Len(s) + j
  <2>1. CASE i > Len(s)
    <3>1. i - Len(s) \in 1 .. Len(t) /\ i = Len(s) + (i - Len(s))
      BY <1>3, <2>1
    <3>. QED  BY <3>1
  <2>. QED  BY <1>3, <2>1
<1>5. \A j \in 1 .. Len(t) : Len(s) + j \in 1 .. Len(s) + Len(t)
  BY <1>3
<1>6. ToSet(s \o t) = ToSet(s) \cup ToSet(t)
  <2>1. ASSUME NEW e \in ToSet(s \o t) PROVE e \in ToSet(s) \cup ToSet(t)
    <3>1. PICK i \in DOMAIN (s \o t) : e = (s \o t)[i]
      BY <2>1, InSeq
    <3>2. i \in 1 .. Len(s) + Len(t)
      BY <1>3
    <3>3. CASE i \in 1 .. Len(s)
      <4>1. i \in DOMAIN s /\ e = s[i]
        BY <1>3, <3>1, <3>3
      <4>. QED  BY <4>1, InSeq
    <3>4. ASSUME NEW j \in 1 .. Len(t), i = Len(s) + j PROVE e \in ToSet(t)
      <4>1. j \in DOMAIN t /\ e = t[j]
        BY <1>3, <3>1, <3>4
      <4>. QED  BY <4>1, InSeq
    <3>. QED  BY <1>4, <3>2, <3>3, <3>4
  <2>2. ASSUME NEW e \in ToSet(s) PROVE e \in ToSet(s \o t)
    <3>1. PICK i \in DOMAIN s : e = s[i]
      BY <2>2, InSeq
    <3>2. i \in DOMAIN (s \o t) /\ e = (s \o t)[i]
      BY <1>3, <3>1
    <3>. QED  BY <3>2, InSeq
  <2>3. ASSUME NEW e \in ToSet(t) PROVE e \in ToSet(s \o t)
    <3>1. PICK j \in 1 .. Len(t) : e = t[j]
      BY <1>3, InSeq
    <3>2. Len(s) + j \in DOMAIN (s \o t) /\ (s \o t)[Len(s) + j] = e
      BY <1>3, <1>5, <3>1
    <3>. QED  BY <3>2, InSeq
  <2>. QED  BY <2>1, <2>2, <2>3
<1>. QED  BY <1>2, <1>3, <1>6 DEF IsSeq

LEMMA SeqOne ==
  ASSUME NEW e
  PROVE  /\ IsSeq(<<e>>) /\ ToSet(<<e>>) = {e} /\ Len(<<e>>) = 1 /\ DOMAIN <<e>> = {1}
         /\ IsSeq(<< >>) /\ ToSet(<< >>) = {}
<1>1. ToSet(<<e>>) = {e} /\ ToSet(<< >>) = {} /\ DOMAIN <<e>> = {1}
  BY DEF ToSet
<1>. QED  BY <1>1 DEF IsSeq

LEMMA SeqAppend ==
  ASSUME NEW s, NEW e, IsSeq(s)
  PROVE  /\ IsSeq(Append(s, e)) /\ ToSet(Append(s, e)) = ToSet(s) \cup {e}
         /\ Len(Append(s, e)) = Len(s) + 1 /\ Len(s) \in Nat
         /\ DOMAIN s = 1 .. Len(s) /\ DOMAIN Append(s, e) = 1 .. Len(s) + 1
         /\ \A i \in 1 .. Len(s) : Append(s, e)[i] = s[i]
         /\ Append(s, e)[Len(s) + 1] = e
<1>. PICK S : S = ToSet(s) \cup {e}
  OBVIOUS
<1>1. s \in Seq(S) /\ e \in S
  BY DEF IsSeq
<1>2. Append(s, e) \in Seq(S)
  BY <1>1
<1>3. /\ Len(Append(s, e)) = Len(s) + 1 /\ Len(s) \in Nat
      /\ DOMAIN s = 1 .. Len(s) /\ DOMAIN Append(s, e) = 1 .. Len(s) + 1
      /\ \A i \in 1 .. Len(s) : Append(s, e)[i] = s[i]
      /\ Append(s, e)[Len(s) + 1] = e
  BY <1>1, <1>2
<1>4. \A i \in 1 .. Len(s) + 1 : i \in 1 .. Len(s) \/ i = Len(s) + 1
  BY <1>3
<1>5. \A i \in 1 .. Len(s) : i \in 1 .. Len(s) + 1
  BY <1>3
<1>6. Len(s) + 1 \in 1 .. Len(s) + 1
  BY <1>3
<1>7. ToSet(Append(s, e)) = ToSet(s) \cup {e}
  <2>1. ASSUME NEW d \in ToSet(Append(s, e)) PROVE d \in ToSet(s) \cup {e}
    <3>1. PICK i \in DOMAIN Append(s, e) : d = Append(s, e)[i]
      BY <2>1, InSeq
    <3>2. i \in 1 .. Len(s) + 1
      BY <1>3
    <3>3. CASE i \in 1 .. Len(s)
      <4>1. i \in DOMAIN s /\ d = s[i]
        BY <1>3, <3>1, <3>3
      <4>. QED  BY <4>1, InSeq
    <3>. QED  BY <1>3, <1>4, <3>1, <3>2, <3>3
  <2>2. ASSUME NEW d \in ToSet(s) PROVE d \in ToSet(Append(s, e))
    <3>1. PICK i \in DOMAIN s : d = s[i]
      BY <2>2, InSeq
    <3>2. i \in DOMAIN Append(s, e) /\ d = Append(s, e)[i]
      BY <1>3, <1>5, <3>1
    <3>. QED  BY <3>2, InSeq
  <2>3. e \in ToSet(Append(s, e))
    BY <1>3, <1>6, InSeq
  <2>. QED  BY <2>1, <2>2, <2>3
<1>. QED  BY <1>2, <1>3, <1>7 DEF IsSeq

LEMMA SeqAt ==
  ASSUME NEW s, IsSeq(s)
  PROVE  /\ Len(s) \in Nat /\ DOMAIN s = 1 .. Len(s)
         /\ s # << >> => Len(s) \in DOMAIN s
BY DEF IsSeq

\* One place of a sequence changes.
LEMMA SeqExcept ==
  ASSUME NEW s, NEW n \in DOMAIN s, NEW e, IsSeq(s)
  PROVE  LET t == [s EXCEPT ![n] = e]
         IN  /\ IsSeq(t) /\ Len(t) = Len(s) /\ DOMAIN t = DOMAIN s
             /\ t[n] = e /\ \A i \in DOMAIN s : i # n => t[i] = s[i]
<1>. DEFINE t == [s EXCEPT ![n] = e]
            k == Len(s)
<1>1. DOMAIN s = 1 .. k /\ k \in Nat
  BY SeqAt
<1>2. DOMAIN t = DOMAIN s /\ t[n] = e /\ \A i \in DOMAIN s : i # n => t[i] = s[i]
  OBVIOUS
<1>3. \A i \in 1 .. k : t[i] \in ToSet(t)
  BY <1>1, <1>2, InSeq
<1>4. t = [i \in 1 .. k |-> t[i]]
  BY <1>1
<1>. HIDE DEF t, k
<1>5. t \in Seq(ToSet(t))
  BY <1>1, <1>3, <1>4
<1>6. DOMAIN t = 1 .. Len(t) /\ Len(t) \in Nat
  BY <1>5
<1>7. Len(t) = k
  BY <1>1, <1>2, <1>6
<1>. QED  BY <1>2, <1>5, <1>7 DEF IsSeq, t, k

\* The last buffer gets more lines.
LEMMA BufferCat ==
  ASSUME NEW bs, NEW t, Buffers(bs), IsSeq(t), Len(bs) # 0
  PROVE  LET cs == [bs EXCEPT ![Len(bs)] = @ \o t]
         IN  /\ Buffers(cs) /\ Len(cs) = Len(bs)
             /\ TextOf(cs) = TextOf(bs) \cup ToSet(t)
<1>. DEFINE n == Len(bs)
            cs == [bs EXCEPT ![Len(bs)] = @ \o t]
<1>1. n \in DOMAIN bs /\ IsSeq(bs) /\ IsSeq(bs[n])
  BY SeqAt DEF Buffers
<1>2. /\ IsSeq(cs) /\ Len(cs) = Len(bs) /\ DOMAIN cs = DOMAIN bs
      /\ cs[n] = bs[n] \o t /\ \A i \in DOMAIN bs : i # n => cs[i] = bs[i]
  <2>1. PICK e : e = bs[n] \o t
    OBVIOUS
  <2>2. cs = [bs EXCEPT ![n] = e]
    BY <2>1
  <2>. HIDE DEF cs, n
  <2>3. /\ IsSeq(cs) /\ Len(cs) = Len(bs) /\ DOMAIN cs = DOMAIN bs
        /\ cs[n] = e /\ \A i \in DOMAIN bs : i # n => cs[i] = bs[i]
    BY <1>1, <2>2, SeqExcept
  <2>. QED  BY <2>1, <2>3
<1>3. IsSeq(bs[n] \o t) /\ ToSet(bs[n] \o t) = ToSet(bs[n]) \cup ToSet(t)
  BY <1>1, SeqCat
<1>. HIDE DEF cs, n
<1>4. TextOf(cs) = TextOf(bs) \cup ToSet(t)
  <2>1. \A e : e \in TextOf(cs) <=> \E i \in DOMAIN bs : e \in ToSet(cs[i])
    BY <1>2 DEF TextOf
  <2>2. \A e : e \in TextOf(bs) <=> \E i \in DOMAIN bs : e \in ToSet(bs[i])
    BY DEF TextOf
  <2>. QED  BY <1>1, <1>2, <1>3, <2>1, <2>2
<1>5. \A i \in DOMAIN cs : IsSeq(cs[i])
  BY <1>1, <1>2, <1>3 DEF Buffers
<1>6. Buffers(cs) /\ Len(cs) = Len(bs)
  BY <1>2, <1>5 DEF Buffers
<1>. QED  BY <1>4, <1>6 DEF cs

LEMMA BufferNew ==
  ASSUME NEW bs, NEW t, Buffers(bs), IsSeq(t)
  PROVE  /\ Buffers(Append(bs, t)) /\ Len(Append(bs, t)) = Len(bs) + 1
         /\ TextOf(Append(bs, t)) = TextOf(bs) \cup ToSet(t)
<1>. PICK cs : cs = Append(bs, t)
  OBVIOUS
<1>1. /\ IsSeq(cs) /\ Len(cs) = Len(bs) + 1 /\ DOMAIN bs = 1 .. Len(bs) /\ Len(bs) \in Nat
      /\ DOMAIN cs = 1 .. Len(bs) + 1 /\ \A i \in 1 .. Len(bs) : cs[i] = bs[i]
      /\ cs[Len(bs) + 1] = t
  BY SeqAppend DEF Buffers
<1>2. \A i : i \in DOMAIN cs <=> i \in DOMAIN bs \/ i = Len(bs) + 1
  BY <1>1
<1>3. \A i \in DOMAIN cs : IsSeq(cs[i])
  BY <1>1, <1>2 DEF Buffers
<1>4. TextOf(cs) = TextOf(bs) \cup ToSet(t)
  BY <1>1, <1>2 DEF TextOf
<1>. QED  BY <1>1, <1>3, <1>4 DEF Buffers

-----------------------------------------------------------------------------
(* What is written.                                                         *)

LEMMA PutLines ==
  ASSUME NEW lines, IsSeq(lines), IsSeq(outf), Buffers(rawout),
         funcperm => Len(rawout) # 0,
         Put(lines), UNCHANGED <<funcperm, funout>>
  PROVE  /\ IsSeq(outf') /\ Buffers(rawout') /\ Len(rawout') = Len(rawout)
         /\ Plain' = Plain \cup ToSet(lines) /\ Written' = Written \cup ToSet(lines)
         /\ ~ funcperm => outf' = outf \o lines /\ rawout' = rawout
<1>1. IsSeq(outf \o lines) /\ ToSet(outf \o lines) = ToSet(outf) \cup ToSet(lines)
  BY SeqCat
<1>2. CASE funcperm
  <2>1. outf' = outf /\ Buffers(rawout') /\ Len(rawout') = Len(rawout)
        /\ TextOf(rawout') = TextOf(rawout) \cup ToSet(lines)
    BY <1>2, BufferCat DEF Put
  <2>2. Plain' = ToSet(outf') \cup TextOf(rawout')
    BY DEF Plain
  <2>3. Plain' = Plain \cup ToSet(lines)
    BY <2>1, <2>2 DEF Plain
  <2>4. Written' = Plain' \cup TextOf(funout)
    BY DEF Written
  <2>. QED  BY <1>2, <2>1, <2>3, <2>4 DEF Written
<1>3. CASE ~ funcperm
  <2>1. outf' = outf \o lines /\ rawout' = rawout
    BY <1>3 DEF Put
  <2>2. Plain' = ToSet(outf') \cup TextOf(rawout)
    BY <2>1 DEF Plain
  <2>3. Plain' = Plain \cup ToSet(lines)
    BY <1>1, <2>1, <2>2 DEF Plain
  <2>4. Written' = Plain' \cup TextOf(funout)
    BY DEF Written
  <2>. QED  BY <1>1, <1>3, <2>1, <2>3, <2>4 DEF Written
<1>. QED  BY <1>2, <1>3

LEMMA PutFnLines ==
  ASSUME NEW lines, IsSeq(lines), IsSeq(outf), Buffers(funout),
         funcperm => Len(funout) # 0,
         PutFn(lines), UNCHANGED <<funcperm, rawout>>
  PROVE  /\ IsSeq(outf') /\ Buffers(funout') /\ Len(funout') = Len(funout)
         /\ Plain \subseteq Plain' /\ Written' = Written \cup ToSet(lines)
         /\ ~ funcperm => outf' = outf \o lines /\ funout' = funout
<1>1. IsSeq(outf \o lines) /\ ToSet(outf \o lines) = ToSet(outf) \cup ToSet(lines)
  BY SeqCat
<1>2. CASE funcperm
  <2>1. outf' = outf /\ Buffers(funout') /\ Len(funout') = Len(funout)
        /\ TextOf(funout') = TextOf(funout) \cup ToSet(lines)
    BY <1>2, BufferCat DEF PutFn
  <2>2. Plain' = Plain
    BY <2>1 DEF Plain
  <2>3. Written' = Plain' \cup TextOf(funout')
    BY DEF Written
  <2>. QED  BY <1>2, <2>1, <2>2, <2>3 DEF Written
<1>3. CASE ~ funcperm
  <2>1. outf' = outf \o lines /\ funout' = funout
    BY <1>3 DEF PutFn
  <2>2. Plain' = ToSet(outf') \cup TextOf(rawout)
    BY DEF Plain
  <2>3. Plain' = Plain \cup ToSet(lines)
    BY <1>1, <2>1, <2>2 DEF Plain
  <2>4. Written' = Plain' \cup TextOf(funout)
    BY <2>1 DEF Written
  <2>. QED  BY <1>1, <1>3, <2>1, <2>3, <2>4 DEF Written
<1>. QED  BY <1>2, <1>3

\* A step writes some lines, to the output or to the last buffer.
Wrote(lines) ==
  /\ IsSeq(lines) /\ IsSeq(outf') /\ Buffers(rawout') /\ Buffers(funout')
  /\ Plain \subseteq Plain' /\ Written' = Written \cup ToSet(lines)
  /\ ~ funcperm => outf' = outf \o lines /\ rawout' = rawout

LEMMA WroteNothing ==
  ASSUME IsSeq(outf), Buffers(rawout), Buffers(funout), UNCHANGED <<outf, rawout, funout>>
  PROVE  Wrote(<< >>)
<1>1. IsSeq(<< >>) /\ ToSet(<< >>) = {}
  BY SeqOne
<1>2. outf \o << >> = outf
  BY DEF IsSeq
<1>3. Plain' = Plain /\ Written' = Written
  BY DEF Plain, Written
<1>. QED  BY <1>1, <1>2, <1>3 DEF Wrote

-----------------------------------------------------------------------------
(* The definitions that were read.                                          *)

LEMMA SrcAppend ==
  ASSUME NEW d, IsSeq(src), src' = Append(src, d)
  PROVE  /\ IsSeq(src') /\ Len(src) \in Nat /\ Len(src') = Len(src) + 1
         /\ DOMAIN src = 1 .. Len(src) /\ DOMAIN src' = 1 .. Len(src) + 1
         /\ \A i \in DOMAIN src : src'[i] = src[i]
         /\ src'[Len(src) + 1] = d
         /\ \A kind : d.k # kind => Of(kind)' = Of(kind)
         /\ \A kind : d.k = kind => Of(kind)' = Of(kind) \cup {Len(src) + 1}
<1>1. /\ IsSeq(src') /\ Len(src) \in Nat /\ Len(src') = Len(src) + 1
      /\ DOMAIN src = 1 .. Len(src) /\ DOMAIN src' = 1 .. Len(src) + 1
      /\ \A i \in DOMAIN src : src'[i] = src[i]
      /\ src'[Len(src) + 1] = d
  BY SeqAppend
<1>2. \A i : i \in DOMAIN src' <=> i \in DOMAIN src \/ i = Len(src) + 1
  BY <1>1
<1>3. \A kind, i : i \in Of(kind)' <=> i \in DOMAIN src' /\ src'[i].k = kind
  BY DEF Of
<1>4. \A kind, i : i \in Of(kind) <=> i \in DOMAIN src /\ src[i].k = kind
  BY DEF Of
<1>5. ASSUME NEW kind, d.k # kind PROVE Of(kind)' = Of(kind)
  <2>1. Len(src) + 1 \notin DOMAIN src
    BY <1>1
  <2>2. \A i : i \in Of(kind)' <=> i \in Of(kind)
    BY <1>1, <1>2, <1>3, <1>4, <1>5, <2>1
  <2>. QED  BY <2>2
<1>6. ASSUME NEW kind, d.k = kind PROVE Of(kind)' = Of(kind) \cup {Len(src) + 1}
  BY <1>1, <1>2, <1>3, <1>4, <1>6
<1>. QED  BY <1>1, <1>5, <1>6

LEMMA SrcChange ==
  ASSUME NEW d, IsSeq(src), Len(src) \in DOMAIN src, d.k = src[Len(src)].k,
         src' = [src EXCEPT ![Len(src)] = d]
  PROVE  /\ IsSeq(src') /\ Len(src') = Len(src) /\ DOMAIN src' = DOMAIN src
         /\ \A i \in DOMAIN src : i # Len(src) => src'[i] = src[i]
         /\ src'[Len(src)] = d
         /\ \A kind : Of(kind)' = Of(kind)
<1>1. /\ IsSeq(src') /\ Len(src') = Len(src) /\ DOMAIN src' = DOMAIN src
      /\ \A i \in DOMAIN src : i # Len(src) => src'[i] = src[i]
      /\ src'[Len(src)] = d
  BY SeqExcept
<1>2. \A kind, i : i \in Of(kind)' <=> i \in DOMAIN src' /\ src'[i].k = kind
  BY DEF Of
<1>3. \A kind, i : i \in Of(kind) <=> i \in DOMAIN src /\ src[i].k = kind
  BY DEF Of
<1>4. ASSUME NEW kind PROVE Of(kind)' = Of(kind)
  <2>1. \A i \in DOMAIN src : src'[i].k = src[i].k
    BY <1>1
  <2>2. \A i : i \in Of(kind)' <=> i \in Of(kind)
    BY <1>1, <1>2, <1>3, <2>1
  <2>. QED  BY <2>2
<1>. QED  BY <1>1, <1>4

\* The dbgfile that is in force.
LEMMA CurKept ==
  ASSUME CurFile, UNCHANGED <<file, curfile>>, Of("file")' = Of("file"),
         \A i \in Of("file") : src'[i] = src[i]
  PROVE  CurFile'
<1>1. LastFile' = LastFile
  BY Zenon DEF LastFile
<1>. QED  BY <1>1 DEF CurFile

\* What a line means does not change as more is read.
LEMMA MeantKept ==
  ASSUME NEW l, Meant(l),
         \A n \in DOMAIN file : n \in DOMAIN file' /\ file'[n] = file[n],
         \A n \in DOMAIN stash : n \in DOMAIN stash' /\ stash'[n] = stash[n],
         \A i \in Of("func") :
           /\ i \in Of("func")' /\ src'[i].file = src[i].file
           /\ \A a \in DOMAIN src[i].consts :
                a \in DOMAIN src'[i].consts /\ src'[i].consts[a] = src[i].consts[a]
  PROVE  Meant(l)'
<1>1. CASE l.k = "file"
  BY <1>1 DEF Meant
<1>2. CASE l.k = "func"
  BY <1>2 DEF Meant
<1>3. CASE l.k = "ref"
  BY <1>3 DEF Meant
<1>4. CASE l.k = "fp"
  BY <1>4 DEF Meant
<1>5. CASE l.k \notin {"file", "func", "ref", "fp"}
  BY <1>5 DEF Meant
<1>. QED  BY <1>1, <1>2, <1>3, <1>4, <1>5

-----------------------------------------------------------------------------
(* A step that writes lines, before the end of the input.                   *)

Reading == {"top", "func", "data"}

LEMMA WriteStep ==
  ASSUME UnitInv, pc \in Reading, pc' \in Reading, funcperm' = funcperm,
         NEW lines, Wrote(lines),
         \A n \in DOMAIN file : n \in DOMAIN file' /\ file'[n] = file[n],
         \A n \in DOMAIN stash : n \in DOMAIN stash' /\ stash'[n] = stash[n],
         \A i \in Of("func") :
           /\ i \in Of("func")' /\ src'[i].file = src[i].file
           /\ \A a \in DOMAIN src[i].consts :
                a \in DOMAIN src'[i].consts /\ src'[i].consts[a] = src[i].consts[a],
         \A n \in DOMAIN file' : n \notin DOMAIN file =>
           \E l \in Plain' : l.k = "file" /\ l.n = n,
         \A l \in ToSet(lines) :
           /\ Meant(l)' /\ l.k # "fp"
           /\ l.k = "func" /\ l.loc # 0 => l.loc \in DOMAIN file
  PROVE  AllMeant' /\ FilesWritten' /\ InOrder' /\ ConstsOnce'
<1>1. AllMeant'
  <2>1. ASSUME NEW l \in Written' PROVE Meant(l)'
    <3>1. CASE l \in Written
      <4>1. Meant(l)
        BY <3>1 DEF UnitInv, AllMeant
      <4>. QED  BY <4>1, MeantKept
    <3>. QED  BY <2>1, <3>1 DEF Wrote
  <2>. QED  BY <2>1 DEF AllMeant
<1>2. FilesWritten'
  <2>1. \A n \in DOMAIN file' : \E l \in Plain' : l.k = "file" /\ l.n = n
    BY DEF UnitInv, FilesWritten, Wrote
  <2>2. pc' \notin {"copy", "fin", "done"}
    BY DEF Reading
  <2>. QED  BY <2>1, <2>2 DEF FilesWritten
<1>3. InOrder'
  <2>. SUFFICES ASSUME ~ funcperm, NEW i \in Lines("func")', outf'[i].loc # 0
                PROVE  \E f \in Lines("file")' : f < i /\ outf'[f].n = outf'[i].loc
    BY DEF InOrder
  <2>1. IsSeq(outf) /\ IsSeq(lines) /\ outf' = outf \o lines
    BY DEF UnitInv, Shapes, Wrote
  <2>2. /\ Len(outf) \in Nat /\ Len(lines) \in Nat /\ DOMAIN outf = 1 .. Len(outf)
        /\ DOMAIN lines = 1 .. Len(lines) /\ DOMAIN outf' = 1 .. Len(outf) + Len(lines)
        /\ \A j \in 1 .. Len(outf) : outf'[j] = outf[j]
        /\ \A j \in 1 .. Len(lines) : outf'[Len(outf) + j] = lines[j]
    BY <2>1, SeqCat
  <2>3. ASSUME NEW f \in Lines("file") PROVE f \in Lines("file")' /\ outf'[f] = outf[f] /\ f <= Len(outf)
    BY <2>2 DEF Lines
  <2>4. i \in 1 .. Len(outf) + Len(lines) /\ outf'[i].k = "func"
    BY <2>2 DEF Lines
  <2>5. CASE i \in 1 .. Len(outf)
    <3>1. i \in Lines("func") /\ outf'[i] = outf[i]
      BY <2>2, <2>4, <2>5 DEF Lines
    <3>2. PICK f \in Lines("file") : f < i /\ outf[f].n = outf[i].loc
      BY <3>1 DEF UnitInv, InOrder
    <3>. QED  BY <2>3, <3>1, <3>2
  <2>6. CASE i \notin 1 .. Len(outf)
    <3>1. PICK j \in 1 .. Len(lines) : i = Len(outf) + j
      <4>1. i - Len(outf) \in 1 .. Len(lines) /\ i = Len(outf) + (i - Len(outf))
        BY <2>2, <2>4, <2>6
      <4>. QED  BY <4>1
    <3>2. outf'[i] = lines[j] /\ lines[j] \in ToSet(lines)
      BY <2>2, <3>1, InSeq
    <3>3. outf'[i].loc \in DOMAIN file
      BY <2>4, <3>2
    <3>4. PICK l \in Plain : l.k = "file" /\ l.n = outf'[i].loc
      BY <3>3 DEF UnitInv, FilesWritten
    <3>5. rawout = << >>
      BY DEF UnitInv, Shapes
    <3>6. l \in ToSet(outf)
      BY <3>5 DEF Plain, TextOf
    <3>7. PICK f \in DOMAIN outf : l = outf[f]
      BY <3>6, InSeq
    <3>8. f \in Lines("file") /\ outf[f].n = outf'[i].loc
      BY <3>4, <3>7 DEF Lines
    <3>9. f <= Len(outf) /\ Len(outf) < i /\ f \in Nat
      BY <2>2, <3>1
    <3>10. f < i
      BY <2>2, <3>1, <3>9
    <3>. QED  BY <2>3, <3>8, <3>10
  <2>. QED  BY <2>5, <2>6
<1>4. ConstsOnce'
  <2>1. pc \notin {"fin", "done"} /\ pc' \notin {"fin", "done"}
    BY DEF Reading
  <2>2. \A l \in Written' : l.k # "fp"
    BY <2>1 DEF UnitInv, ConstsOnce, Wrote
  <2>. QED  BY <2>1, <2>2 DEF ConstsOnce
<1>. QED  BY <1>1, <1>2, <1>3, <1>4

LEMMA OtherLine ==
  ASSUME NEW l, l.k \notin {"file", "func", "ref", "fp"}
  PROVE  Meant(l)'
BY DEF Meant

-----------------------------------------------------------------------------
(* Data definitions.                                                        *)

DataInput ==
  /\ IsSeq(src') /\ Definitions'
  /\ Of("file")' = Of("file") /\ Of("func")' = Of("func")
  /\ \A i \in Of("file") \cup Of("func") : src'[i] = src[i]

LEMMA DataSame ==
  ASSUME IsSeq(src), Definitions, src' = src, pc \in {"top", "data"}, pc' \in {pc, "top"}
  PROVE  DataInput
<1>1. \A kind : Of(kind)' = Of(kind)
  BY DEF Of
<1>. QED  BY <1>1 DEF DataInput, Definitions

LEMMA DataNew ==
  ASSUME IsSeq(src), Definitions, src' = Append(src, [k |-> "data", items |-> << >>]),
         pc' = "data"
  PROVE  DataInput
<1>. DEFINE d == [k |-> "data", items |-> << >>]
<1>1. d.k = "data" /\ DOMAIN d = {"k", "items"}
  OBVIOUS
<1>2. src' = Append(src, d)
  OBVIOUS
<1>. HIDE DEF d
<1>3. /\ IsSeq(src') /\ Len(src) \in Nat /\ Len(src') = Len(src) + 1
      /\ DOMAIN src = 1 .. Len(src) /\ src'[Len(src) + 1] = d
      /\ \A i \in DOMAIN src : src'[i] = src[i]
      /\ Of("file")' = Of("file") /\ Of("func")' = Of("func")
      /\ Of("data")' = Of("data") \cup {Len(src) + 1}
  BY <1>1, <1>2, SrcAppend
<1>4. \A kind : Of(kind) \subseteq DOMAIN src
  BY DEF Of
<1>5. Definitions'
  BY <1>1, <1>3, <1>4 DEF Definitions
<1>. QED  BY <1>3, <1>4, <1>5 DEF DataInput

LEMMA DataRead ==
  ASSUME IsSeq(src), Definitions, pc = "data", pc' = "data", NEW item, Read(item)
  PROVE  DataInput
<1>. DEFINE n == Len(src)
<1>1. n \in Of("data") /\ n \in DOMAIN src /\ src[n].k = "data" /\ DOMAIN src[n] = {"k", "items"}
  BY DEF Definitions, Of
<1>2. PICK d : d = [src[n] EXCEPT !.items = Append(@, item)]
  OBVIOUS
<1>3. d.k = src[n].k /\ DOMAIN d = {"k", "items"}
  BY <1>1, <1>2
<1>4. src' = [src EXCEPT ![n] = d]
  BY <1>2 DEF Read
<1>5. /\ IsSeq(src') /\ Len(src') = n /\ DOMAIN src' = DOMAIN src
      /\ \A i \in DOMAIN src : i # n => src'[i] = src[i]
      /\ src'[n] = d /\ \A kind : Of(kind)' = Of(kind)
  BY <1>1, <1>3, <1>4, SrcChange
<1>. HIDE DEF n
<1>6. \A i \in Of("file") \cup Of("func") : i \in DOMAIN src /\ i # n
  BY <1>1 DEF Of
<1>7. \A i \in Of("data") : i \in DOMAIN src
  BY DEF Of
<1>8. n \in Of("data")' /\ Len(src') = n
  BY <1>1, <1>5
<1>9. Definitions'
  BY <1>3, <1>5, <1>6, <1>7, <1>8 DEF Definitions
<1>. QED  BY <1>5, <1>6, <1>9 DEF DataInput

LEMMA DataStep ==
  ASSUME UnitInv, pc \in {"top", "data"}, pc' \in {"top", "data"}, DataInput,
         UNCHANGED <<funcperm, file, curfile, stash, funout, ord, left, owed>>,
         cur' \in Tokens \cup {NoItem}, zero' \in Nat \cup {-1},
         NEW lines, Wrote(lines), Len(rawout') = Len(rawout),
         \A l \in ToSet(lines) : l.k \in {"label", "fill", "item", "end"}
  PROVE  UnitInv'
<1>1. AllMeant' /\ FilesWritten' /\ InOrder' /\ ConstsOnce'
  <2>1. pc \in Reading /\ pc' \in Reading
    BY DEF Reading
  <2>2. \A l \in ToSet(lines) :
          /\ Meant(l)' /\ l.k # "fp"
          /\ l.k = "func" /\ l.loc # 0 => l.loc \in DOMAIN file
    BY OtherLine
  <2>3. \A i \in Of("func") : i \in Of("func")' /\ src'[i] = src[i]
    BY DEF DataInput
  <2>4. \A i \in Of("func") :
           /\ i \in Of("func")' /\ src'[i].file = src[i].file
           /\ \A a \in DOMAIN src[i].consts :
                a \in DOMAIN src'[i].consts /\ src'[i].consts[a] = src[i].consts[a]
    BY <2>3
  <2>. QED  BY <2>1, <2>2, <2>4, WriteStep
<1>2. TypeOK'
  BY DEF UnitInv, TypeOK
<1>3. Shapes'
  <2>1. ~ funcperm => rawout' = << >> /\ funout' = << >>
    BY DEF UnitInv, Shapes, Wrote
  <2>. QED  BY <2>1 DEF UnitInv, Shapes, Wrote, DataInput
<1>4. CurFile'
  BY CurKept DEF UnitInv, DataInput
<1>. QED  BY <1>1, <1>2, <1>3, <1>4 DEF UnitInv, DataInput

\* The state in which a data definition, or nothing, is read.
LEMMA ReadingFacts ==
  ASSUME UnitInv, pc \in {"top", "data"}
  PROVE  /\ IsSeq(src) /\ Definitions /\ IsSeq(outf) /\ Buffers(rawout) /\ Buffers(funout)
         /\ cur \in Tokens \cup {NoItem} /\ zero \in Nat \cup {-1}
         /\ funcperm => Len(rawout) # 0
<1>1. Len(funout) \in Nat
  BY SeqAt DEF UnitInv, Shapes, Buffers
<1>. QED  BY <1>1 DEF UnitInv, Shapes, TypeOK

LEMMA DataPut ==
  ASSUME UnitInv, pc \in {"top", "data"}, UNCHANGED <<funcperm, funout>>,
         NEW lines, IsSeq(lines), Put(lines)
  PROVE  Wrote(lines) /\ Len(rawout') = Len(rawout)
<1>1. /\ IsSeq(outf') /\ Buffers(rawout') /\ Len(rawout') = Len(rawout)
      /\ Plain' = Plain \cup ToSet(lines) /\ Written' = Written \cup ToSet(lines)
      /\ ~ funcperm => outf' = outf \o lines /\ rawout' = rawout
  BY ReadingFacts, PutLines
<1>. QED  BY <1>1, ReadingFacts DEF Wrote

LEMMA LineKinds ==
  /\ \A sec : Label(sec).k = "label"
  /\ \A n : Fill(n).k = "fill"
BY DEF Label, Fill

LEMMA SeqTwo ==
  ASSUME NEW a, NEW b
  PROVE  IsSeq(<<a, b>>) /\ ToSet(<<a, b>>) = {a, b}
<1>. PICK s : s = <<a, b>>
  OBVIOUS
<1>1. DOMAIN s = {1, 2} /\ s[1] = a /\ s[2] = b
  OBVIOUS
<1>2. ToSet(s) = {a, b}
  BY <1>1, InSeq
<1>3. s \in Seq({a, b})
  OBVIOUS
<1>. QED  BY <1>2, <1>3 DEF IsSeq

LEMMA DatStartStep ==
  ASSUME UnitInv, DatStart
  PROVE  UnitInv'
<1>1. /\ pc = "top" /\ pc' = "data" /\ zero' = 0
      /\ src' = Append(src, [k |-> "data", items |-> << >>])
      /\ UNCHANGED <<funcperm, cur, file, curfile, stash, rawout, funout, ord, left, owed, outf>>
  BY DEF DatStart, bufs
<1>2. DataInput
  BY <1>1, DataNew, ReadingFacts
<1>3. Wrote(<< >>)
  BY <1>1, WroteNothing, ReadingFacts
<1>4. \A l \in ToSet(<< >>) : l.k \in {"label", "fill", "item", "end"}
  BY SeqOne
<1>5. cur' \in Tokens \cup {NoItem} /\ zero' \in Nat \cup {-1}
  BY <1>1, ReadingFacts
<1>. QED  BY <1>1, <1>2, <1>3, <1>4, <1>5, DataStep

LEMMA DatZStep ==
  ASSUME UnitInv, NEW n \in 0 .. 2, DatZ(n)
  PROVE  UnitInv'
<1>1. /\ pc = "data" /\ pc' = "data" /\ Read([k |-> "z", n |-> n])
      /\ UNCHANGED <<funcperm, cur, file, curfile, stash, funout, ord, left, owed>>
  BY DEF DatZ
<1>2. DataInput
  BY <1>1, DataRead, ReadingFacts
<1>3. CASE zero # -1
  <2>1. zero' = zero + n /\ UNCHANGED <<rawout, outf>>
    BY <1>3 DEF DatZ
  <2>2. Wrote(<< >>)
    BY <1>1, <2>1, WroteNothing, ReadingFacts
  <2>3. \A l \in ToSet(<< >>) : l.k \in {"label", "fill", "item", "end"}
    BY SeqOne
  <2>4. zero \in Nat
    BY <1>1, <1>3, ReadingFacts
  <2>5. cur' \in Tokens \cup {NoItem} /\ zero' \in Nat \cup {-1}
    BY <1>1, <2>1, <2>4, ReadingFacts
  <2>. QED  BY <1>1, <1>2, <2>1, <2>2, <2>3, <2>5, DataStep
<1>4. CASE zero = -1
  <2>1. zero' = zero /\ Put(<<Fill(n)>>)
    BY <1>4 DEF DatZ
  <2>2. IsSeq(<<Fill(n)>>) /\ ToSet(<<Fill(n)>>) = {Fill(n)}
    BY SeqOne
  <2>3. Wrote(<<Fill(n)>>) /\ Len(rawout') = Len(rawout)
    BY <1>1, <2>1, <2>2, DataPut
  <2>4. \A l \in ToSet(<<Fill(n)>>) : l.k \in {"label", "fill", "item", "end"}
    BY <2>2, LineKinds
  <2>5. cur' \in Tokens \cup {NoItem} /\ zero' \in Nat \cup {-1}
    BY <1>1, <2>1, ReadingFacts
  <2>. QED  BY <1>1, <1>2, <2>3, <2>4, <2>5, DataStep
<1>. QED  BY <1>3, <1>4

LEMMA DatFieldStep ==
  ASSUME UnitInv, NEW t \in Tokens, DatField(t)
  PROVE  UnitInv'
<1>1. /\ pc = "data" /\ pc' = "data" /\ Read(t) /\ cur' = t
      /\ UNCHANGED <<funcperm, zero, file, curfile, stash, rawout, funout, ord, left, owed, outf>>
  BY DEF DatField, emitst, bufs
<1>2. DataInput
  BY <1>1, DataRead, ReadingFacts
<1>3. Wrote(<< >>)
  BY <1>1, WroteNothing, ReadingFacts
<1>4. \A l \in ToSet(<< >>) : l.k \in {"label", "fill", "item", "end"}
  BY SeqOne
<1>5. cur' \in Tokens \cup {NoItem} /\ zero' \in Nat \cup {-1}
  BY <1>1, ReadingFacts
<1>. QED  BY <1>1, <1>2, <1>3, <1>4, <1>5, DataStep

\* The lines that emitdat() writes for an item.
LEMMA ItemLines ==
  ASSUME NEW i, i.k = "item", EmitItem(i)
  PROVE  /\ zero' = -1
         /\ \E lines : /\ IsSeq(lines) /\ Put(lines)
                       /\ \A l \in ToSet(lines) : l.k \in {"label", "fill", "item", "end"}
<1>. DEFINE fill  == IF zero > 0 THEN <<Fill(zero)>> ELSE << >>
            lines == IF zero = -1 THEN <<i>> ELSE <<Label(".data")>> \o fill \o <<i>>
            ok(s) == IsSeq(s) /\ \A l \in ToSet(s) : l.k \in {"label", "fill", "item", "end"}
<1>1. Put(lines) /\ zero' = -1
  BY DEF EmitItem
<1>2. ok(<<i>>) /\ ok(<<Label(".data")>>) /\ ok(<<Fill(zero)>>) /\ ok(<< >>)
  BY SeqOne, LineKinds
<1>3. ok(fill)
  <2>. HIDE DEF ok
  <2>. QED  BY <1>2
<1>4. ASSUME NEW s, NEW t, ok(s), ok(t) PROVE ok(s \o t)
  BY <1>4, SeqCat
<1>5. ok(lines)
  <2>. HIDE DEF ok, fill
  <2>. QED  BY <1>2, <1>3, <1>4
<1>. HIDE DEF lines
<1>. QED  BY <1>1, <1>5

LEMMA DatItemStep ==
  ASSUME UnitInv, NEW next \in Tokens \cup {NoItem}, DatItem(next)
  PROVE  UnitInv'
<1>1. /\ pc = "data" /\ pc' = "data" /\ cur' = next
      /\ src' = src \/ Read(next)
      /\ UNCHANGED <<funcperm, file, curfile, stash, funout, ord, left, owed>>
  BY DEF DatItem
<1>2. PICK is : EmitItem([k |-> "item", is |-> is])
  BY DEF DatItem
<1>3. PICK i : i = [k |-> "item", is |-> is]
  OBVIOUS
<1>4. i.k = "item" /\ EmitItem(i)
  BY <1>2, <1>3
<1>5. zero' = -1
  BY <1>4, ItemLines
<1>6. PICK lines : /\ IsSeq(lines) /\ Put(lines)
                   /\ \A l \in ToSet(lines) : l.k \in {"label", "fill", "item", "end"}
  BY <1>4, ItemLines
<1>7. Wrote(lines) /\ Len(rawout') = Len(rawout)
  BY <1>1, <1>6, DataPut
<1>8. DataInput
  BY <1>1, DataRead, DataSame, ReadingFacts
<1>. QED  BY <1>1, <1>5, <1>6, <1>7, <1>8, DataStep

LEMMA DatEndStep ==
  ASSUME UnitInv, DatEnd
  PROVE  UnitInv'
<1>. DEFINE ok(s) == IsSeq(s) /\ \A l \in ToSet(s) : l.k \in {"label", "fill", "item", "end"}
            bss   == IF zero = -1 THEN << >> ELSE <<Label(".bss"), Fill(zero)>>
            end   == [k |-> "end"]
<1>1. /\ pc = "data" /\ pc' = "top" /\ Put(bss \o <<end>>)
      /\ UNCHANGED <<funcperm, src, cur, zero, file, curfile, stash, funout, ord, left, owed>>
  BY DEF DatEnd, input, emitst
<1>2. ok(bss)
  <2>1. ok(<< >>) /\ ok(<<Label(".bss"), Fill(zero)>>)
    <3>1. PICK l : l = Label(".bss")
      OBVIOUS
    <3>2. PICK f : f = Fill(zero)
      OBVIOUS
    <3>3. l.k = "label" /\ f.k = "fill"
      BY <3>1, <3>2, LineKinds
    <3>4. ok(<<l, f>>)
      <4>1. PICK s : s = <<l, f>>
        OBVIOUS
      <4>2. IsSeq(s) /\ ToSet(s) = {l, f}
        BY <4>1, SeqTwo
      <4>. QED  BY <3>3, <4>1, <4>2
    <3>5. ok(<< >>)
      BY SeqOne
    <3>. QED  BY <3>1, <3>2, <3>4, <3>5
  <2>. HIDE DEF ok
  <2>. QED  BY <2>1
<1>3. end.k = "end"
  OBVIOUS
<1>. HIDE DEF bss, end
<1>4. ok(<<end>>)
  BY <1>3, SeqOne
<1>5. ok(bss \o <<end>>)
  BY <1>2, <1>4, SeqCat
<1>6. PICK lines : lines = bss \o <<end>>
  OBVIOUS
<1>7. ok(lines) /\ Put(lines)
  BY <1>1, <1>5, <1>6
<1>8. Wrote(lines) /\ Len(rawout') = Len(rawout)
  BY <1>1, <1>7, DataPut
<1>9. DataInput
  BY <1>1, DataSame, ReadingFacts
<1>10. cur' \in Tokens \cup {NoItem} /\ zero' \in Nat \cup {-1}
  BY <1>1, ReadingFacts
<1>. QED  BY <1>1, <1>7, <1>8, <1>9, <1>10, DataStep

-----------------------------------------------------------------------------
(* The dbgfile directive.                                                   *)

LEMMA SeqType ==
  ASSUME NEW S, NEW s \in Seq(S)
  PROVE  IsSeq(s) /\ ToSet(s) \subseteq S
<1>1. s \in Seq(ToSet(s))
  <2>1. Len(s) \in Nat /\ DOMAIN s = 1 .. Len(s) /\ s = [i \in 1 .. Len(s) |-> s[i]]
    OBVIOUS
  <2>2. \A i \in 1 .. Len(s) : s[i] \in ToSet(s)
    BY <2>1, InSeq
  <2>. QED  BY <2>1, <2>2
<1>2. ToSet(s) \subseteq S
  BY InSeq
<1>3. IsSeq(s)
  BY <1>1 DEF IsSeq
<1>. QED  BY <1>2, <1>3

\* What a new definition, that is not data, does to the definitions.
LEMMA NewDefinition ==
  ASSUME UnitInv, NEW d, src' = Append(src, d), pc = "top",
         \/ d.k = "file" /\ DOMAIN d = {"k", "name"} /\ pc' = "top"
         \/ d.k = "func" /\ DOMAIN d = {"k", "consts", "file"} /\ IsSeq(d.consts) /\ pc' = "func"
  PROVE  /\ IsSeq(src') /\ Definitions' /\ Len(src) \in Nat /\ src'[Len(src) + 1] = d
         /\ \A i \in Of("file") \cup Of("func") : src'[i] = src[i] /\ i \in 1 .. Len(src)
         /\ d.k = "file" => Of("func")' = Of("func") /\ Of("file")' = Of("file") \cup {Len(src) + 1}
         /\ d.k = "func" => Of("file")' = Of("file") /\ Of("func")' = Of("func") \cup {Len(src) + 1}
<1>1. IsSeq(src) /\ Definitions
  BY DEF UnitInv, Shapes
<1>2. /\ IsSeq(src') /\ Len(src) \in Nat /\ Len(src') = Len(src) + 1
      /\ DOMAIN src = 1 .. Len(src) /\ src'[Len(src) + 1] = d
      /\ \A i \in DOMAIN src : src'[i] = src[i]
      /\ \A kind : d.k # kind => Of(kind)' = Of(kind)
      /\ \A kind : d.k = kind => Of(kind)' = Of(kind) \cup {Len(src) + 1}
  BY <1>1, SrcAppend
<1>3. \A kind : Of(kind) \subseteq 1 .. Len(src)
  BY <1>2 DEF Of
<1>4. Of("data")' = Of("data")
  BY <1>2
<1>5. \A i \in Of("file") \cup Of("func") \cup Of("data") : src'[i] = src[i] /\ i \in 1 .. Len(src)
  BY <1>2, <1>3
<1>6. CASE d.k = "file" /\ DOMAIN d = {"k", "name"} /\ pc' = "top"
  <2>1. Of("func")' = Of("func") /\ Of("file")' = Of("file") \cup {Len(src) + 1}
    BY <1>2, <1>6
  <2>2. Definitions'
    BY <1>1, <1>2, <1>4, <1>5, <1>6, <2>1 DEF Definitions
  <2>. QED  BY <1>2, <1>5, <1>6, <2>1, <2>2
<1>7. CASE d.k = "func" /\ DOMAIN d = {"k", "consts", "file"} /\ IsSeq(d.consts) /\ pc' = "func"
  <2>1. Of("file")' = Of("file") /\ Of("func")' = Of("func") \cup {Len(src) + 1}
    BY <1>2, <1>7
  <2>2. Definitions'
    BY <1>1, <1>2, <1>4, <1>5, <1>7, <2>1 DEF Definitions
  <2>. QED  BY <1>2, <1>5, <1>7, <2>1, <2>2
<1>. QED  BY <1>6, <1>7

\* The number that a file gets, and the line if it is new.
LEMMA FileNumber ==
  ASSUME UnitInv, NEW f \in Files, DbgFile(f)
  PROVE  /\ file' \in Seq(Files) /\ curfile' \in DOMAIN file' /\ file'[curfile'] = f
         /\ \A n \in DOMAIN file : n \in DOMAIN file' /\ file'[n] = file[n]
         /\ \/ file' = file /\ UNCHANGED <<rawout, outf>>
            \/ /\ \A n \in DOMAIN file' : n \in DOMAIN file \/ n = curfile'
               /\ Put(<<[k |-> "file", n |-> curfile', name |-> f]>>)
<1>1. file \in Seq(Files)
  BY DEF UnitInv, Shapes
<1>2. CASE f \in ToSet(file)
  <2>1. curfile' = (CHOOSE n \in DOMAIN file : file[n] = f) /\ UNCHANGED <<file, rawout, outf>>
    BY <1>2 DEF DbgFile
  <2>2. \E n \in DOMAIN file : file[n] = f
    BY <1>2, InSeq
  <2>3. curfile' \in DOMAIN file /\ file[curfile'] = f
    BY <2>1, <2>2, SMTT(40)
  <2>. QED  BY <1>1, <2>1, <2>3
<1>3. CASE f \notin ToSet(file)
  <2>1. /\ file' = Append(file, f) /\ curfile' = Len(file')
        /\ Put(<<[k |-> "file", n |-> curfile', name |-> f]>>)
    BY <1>3 DEF DbgFile
  <2>2. /\ file' \in Seq(Files) /\ Len(file') = Len(file) + 1 /\ Len(file) \in Nat
        /\ DOMAIN file = 1 .. Len(file) /\ DOMAIN file' = 1 .. Len(file) + 1
        /\ file'[Len(file) + 1] = f /\ \A n \in DOMAIN file : file'[n] = file[n]
    BY <1>1, <2>1
  <2>3. /\ curfile' \in DOMAIN file' /\ file'[curfile'] = f
        /\ \A n \in DOMAIN file : n \in DOMAIN file'
        /\ \A n \in DOMAIN file' : n \in DOMAIN file \/ n = curfile'
    BY <2>1, <2>2
  <2>. QED  BY <2>1, <2>2, <2>3
<1>. QED  BY <1>2, <1>3

LEMMA DbgFileStep ==
  ASSUME UnitInv, NEW f \in Files, DbgFile(f)
  PROVE  UnitInv'
<1>. DEFINE d == [k |-> "file", name |-> f]
<1>1. /\ pc = "top" /\ pc' = "top" /\ src' = Append(src, d)
      /\ UNCHANGED <<funcperm, cur, zero, stash, funout, ord, left, owed>>
  BY DEF DbgFile
<1>2. d.k = "file" /\ DOMAIN d = {"k", "name"} /\ d.name = f
  OBVIOUS
<1>. HIDE DEF d
<1>3. /\ IsSeq(src') /\ Definitions' /\ Len(src) \in Nat /\ src'[Len(src) + 1] = d
      /\ \A i \in Of("file") \cup Of("func") : src'[i] = src[i] /\ i \in 1 .. Len(src)
      /\ Of("func")' = Of("func") /\ Of("file")' = Of("file") \cup {Len(src) + 1}
  BY <1>1, <1>2, NewDefinition
<1>4. /\ file' \in Seq(Files) /\ curfile' \in DOMAIN file' /\ file'[curfile'] = f
      /\ \A n \in DOMAIN file : n \in DOMAIN file' /\ file'[n] = file[n]
  BY FileNumber
<1>5. PICK lines : /\ Wrote(lines) /\ Len(rawout') = Len(rawout)
                   /\ \A l \in ToSet(lines) : l.k = "file" /\ l.n = curfile' /\ l.name = f
                   /\ \A n \in DOMAIN file' : n \notin DOMAIN file =>
                        \E l \in Plain' : l.k = "file" /\ l.n = n
  <2>1. CASE file' = file /\ UNCHANGED <<rawout, outf>>
    <3>1. Wrote(<< >>) /\ Len(rawout') = Len(rawout)
      BY <1>1, <2>1, WroteNothing, ReadingFacts
    <3>2. ToSet(<< >>) = {}
      BY SeqOne
    <3>. QED  BY <2>1, <3>1, <3>2
  <2>2. CASE /\ \A n \in DOMAIN file' : n \in DOMAIN file \/ n = curfile'
             /\ Put(<<[k |-> "file", n |-> curfile', name |-> f]>>)
    <3>1. PICK l : l = [k |-> "file", n |-> curfile', name |-> f]
      OBVIOUS
    <3>2. l.k = "file" /\ l.n = curfile' /\ l.name = f /\ Put(<<l>>)
      BY <2>2, <3>1
    <3>3. IsSeq(<<l>>) /\ ToSet(<<l>>) = {l}
      BY SeqOne
    <3>4. Wrote(<<l>>) /\ Len(rawout') = Len(rawout)
      BY <1>1, <3>2, <3>3, DataPut
    <3>5. Plain' = Plain \cup {l}
      BY <1>1, <3>2, <3>3, PutLines, ReadingFacts
    <3>. QED  BY <2>2, <3>2, <3>3, <3>4, <3>5
  <2>. QED  BY <2>1, <2>2, FileNumber
<1>6. AllMeant' /\ FilesWritten' /\ InOrder' /\ ConstsOnce'
  <2>1. pc \in Reading /\ pc' \in Reading
    BY <1>1 DEF Reading
  <2>2. \A l \in ToSet(lines) :
          /\ Meant(l)' /\ l.k # "fp"
          /\ l.k = "func" /\ l.loc # 0 => l.loc \in DOMAIN file
    BY <1>4, <1>5 DEF Meant
  <2>3. \A i \in Of("func") :
           /\ i \in Of("func")' /\ src'[i].file = src[i].file
           /\ \A a \in DOMAIN src[i].consts :
                a \in DOMAIN src'[i].consts /\ src'[i].consts[a] = src[i].consts[a]
    BY <1>3
  <2>. QED  BY <1>1, <1>4, <1>5, <2>1, <2>2, <2>3, WriteStep
<1>7. TypeOK'
  <2>1. ToSet(file') \subseteq Files /\ Len(file') \in Nat /\ DOMAIN file' = 1 .. Len(file')
    <3>1. PICK g \in Seq(Files) : g = file'
      BY <1>4
    <3>2. ToSet(g) \subseteq Files
      BY SeqType
    <3>3. Len(g) \in Nat /\ DOMAIN g = 1 .. Len(g)
      OBVIOUS
    <3>. QED  BY <3>1, <3>2, <3>3
  <2>2. curfile' \in 0 .. Len(file')
    BY <1>4, <2>1
  <2>. QED  BY <1>1, <1>5, <2>1, <2>2 DEF UnitInv, TypeOK
<1>8. Shapes'
  <2>1. ~ funcperm => rawout' = << >> /\ funout' = << >>
    BY <1>1, <1>5 DEF UnitInv, Shapes, Wrote
  <2>. QED  BY <1>1, <1>3, <1>4, <1>5, <2>1 DEF UnitInv, Shapes, Wrote
<1>9. CurFile'
  <2>1. \A i \in Of("file")' : i \in Int /\ i <= Len(src) + 1
    BY <1>3
  <2>2. Len(src) + 1 \in Of("file")' /\ Len(src) + 1 \in Int
    BY <1>3
  <2>3. LastFile' = Len(src) + 1
    <3>1. PICK n : n = Len(src) + 1
      OBVIOUS
    <3>2. PICK F : F = Of("file")'
      OBVIOUS
    <3>3. LastFile' = CHOOSE i \in F : \A j \in F : j <= i
      BY <3>2 DEF LastFile
    <3>4. n \in F /\ \A j \in F : j <= n
      BY <2>1, <2>2, <3>1, <3>2
    <3>5. \A i \in F : (\A j \in F : j <= i) => i = n
      BY <2>1, <2>2, <3>1, <3>2
    <3>. QED  BY <3>1, <3>3, <3>4, <3>5
  <2>4. src'[LastFile'].name = f
    BY <1>2, <1>3, <2>3
  <2>. QED  BY <1>4, <2>2, <2>3, <2>4 DEF CurFile
<1>. QED  BY <1>3, <1>6, <1>7, <1>8, <1>9 DEF UnitInv

-----------------------------------------------------------------------------
(* Functions.                                                               *)

LEMMA FuncStep ==
  ASSUME UnitInv, NEW locs \in BOOLEAN, Func(locs)
  PROVE  UnitInv'
<1>. DEFINE d == [k |-> "func", consts |-> << >>,
                  file |-> IF locs THEN <<src[LastFile].name>> ELSE << >>]
<1>0. PICK l : l = [k |-> "func", id |-> Len(src) + 1, loc |-> IF locs THEN curfile ELSE 0]
  OBVIOUS
<1>1. /\ pc = "top" /\ pc' = "func" /\ src' = Append(src, d)
      /\ locs => Of("file") # {}
      /\ UNCHANGED <<funcperm, cur, zero, file, curfile, stash, rawout, ord, left, owed>>
  BY DEF Func, emitst
<1>2. IF funcperm THEN funout' = Append(funout, <<l>>) /\ UNCHANGED outf
      ELSE outf' = outf \o <<l>> /\ UNCHANGED funout
  BY <1>0 DEF Func
<1>3. /\ d.k = "func" /\ DOMAIN d = {"k", "consts", "file"} /\ d.consts = << >>
      /\ locs => d.file = <<src[LastFile].name>>
      /\ l.k = "func" /\ l.id = Len(src) + 1
      /\ locs => l.loc = curfile
      /\ ~ locs => l.loc = 0
  BY <1>0
<1>. HIDE DEF d
<1>4. IsSeq(d.consts)
  BY <1>3, SeqOne
<1>5. /\ IsSeq(src') /\ Definitions' /\ Len(src) \in Nat /\ src'[Len(src) + 1] = d
      /\ \A i \in Of("file") \cup Of("func") : src'[i] = src[i] /\ i \in 1 .. Len(src)
      /\ Of("file")' = Of("file") /\ Of("func")' = Of("func") \cup {Len(src) + 1}
  BY <1>1, <1>3, <1>4, NewDefinition
<1>6. IsSeq(<<l>>) /\ ToSet(<<l>>) = {l}
  BY SeqOne
<1>7. /\ IsSeq(outf) /\ Buffers(rawout) /\ Buffers(funout)
      /\ ~ funcperm => rawout = << >> /\ funout = << >>
  BY DEF UnitInv, Shapes
<1>8. /\ Wrote(<<l>>)
      /\ funcperm => Len(funout') = Len(funout) + 1
      /\ ~ funcperm => funout' = funout
  <2>1. CASE funcperm
    <3>1. /\ outf' = outf /\ Buffers(funout') /\ Len(funout') = Len(funout) + 1
          /\ TextOf(funout') = TextOf(funout) \cup {l}
      BY <1>2, <1>6, <1>7, <2>1, BufferNew
    <3>2. Plain' = Plain
      BY <1>1, <3>1 DEF Plain
    <3>3. Written' = Plain' \cup TextOf(funout')
      BY DEF Written
    <3>4. Written' = Written \cup {l}
      BY <3>1, <3>2, <3>3 DEF Written
    <3>. QED  BY <1>1, <1>6, <1>7, <2>1, <3>1, <3>2, <3>4 DEF Wrote
  <2>2. CASE ~ funcperm
    <3>1. outf' = outf \o <<l>> /\ funout' = funout
      BY <1>2, <2>2
    <3>2. IsSeq(outf') /\ ToSet(outf') = ToSet(outf) \cup {l}
      BY <1>6, <1>7, <3>1, SeqCat
    <3>3. Plain' = ToSet(outf') \cup TextOf(rawout)
      BY <1>1 DEF Plain
    <3>4. Plain' = Plain \cup {l}
      BY <3>2, <3>3 DEF Plain
    <3>5. Written' = Plain' \cup TextOf(funout)
      BY <3>1 DEF Written
    <3>6. Written' = Written \cup {l}
      BY <3>4, <3>5 DEF Written
    <3>. QED  BY <1>1, <1>6, <1>7, <2>2, <3>1, <3>2, <3>4, <3>6 DEF Wrote
  <2>. QED  BY <2>1, <2>2
<1>9. locs => /\ LastFile \in Of("file") /\ curfile \in DOMAIN file
              /\ file[curfile] = src[LastFile].name
  BY <1>1 DEF UnitInv, CurFile
<1>10. AllMeant' /\ FilesWritten' /\ InOrder' /\ ConstsOnce'
  <2>1. pc \in Reading /\ pc' \in Reading
    BY <1>1 DEF Reading
  <2>2. l.loc # 0 => l.loc \in DOMAIN file
    BY <1>3, <1>9
  <2>3. l.id \in Of("func")' /\ src'[l.id] = d
    BY <1>3, <1>5
  <2>4. l.loc # 0 => d.file = <<file[l.loc]>>
    BY <1>3, <1>9
  <2>5. Meant(l)'
    BY <1>1, <1>3, <2>2, <2>3, <2>4 DEF Meant
  <2>6. \A e \in ToSet(<<l>>) :
          /\ Meant(e)' /\ e.k # "fp"
          /\ e.k = "func" /\ e.loc # 0 => e.loc \in DOMAIN file
    BY <1>3, <1>6, <2>2, <2>5
  <2>7. \A i \in Of("func") :
           /\ i \in Of("func")' /\ src'[i].file = src[i].file
           /\ \A a \in DOMAIN src[i].consts :
                a \in DOMAIN src'[i].consts /\ src'[i].consts[a] = src[i].consts[a]
    BY <1>5
  <2>. QED  BY <1>1, <1>8, <2>1, <2>6, <2>7, WriteStep
<1>11. TypeOK'
  <2>1. /\ left \in 0 .. Len(funout) /\ Len(funout) \in Nat
        /\ Len(rawout) = IF funcperm THEN Len(funout) + 1 ELSE 0
    BY <1>1, <1>7, SeqAt DEF UnitInv, TypeOK, Buffers
  <2>2. left' \in 0 .. Len(funout')
    BY <1>1, <1>8, <2>1
  <2>3. Len(rawout') = IF ~ funcperm' THEN 0 ELSE IF pc' = "func" THEN Len(funout') ELSE Len(funout') + 1
    BY <1>1, <1>8, <2>1
  <2>. QED  BY <1>1, <2>2, <2>3 DEF UnitInv, TypeOK
<1>12. Shapes'
  <2>1. funcperm => funout' # << >>
    <3>1. Len(funout) \in Nat
      BY <1>7, SeqAt DEF Buffers
    <3>. QED  BY <1>8, <3>1
  <2>2. ~ funcperm' => rawout' = << >> /\ funout' = << >>
    BY <1>1, <1>7, <1>8
  <2>. QED  BY <1>1, <1>5, <1>8, <2>1, <2>2 DEF UnitInv, Shapes, Wrote
<1>13. CurFile'
  BY <1>1, <1>5, CurKept DEF UnitInv
<1>. QED  BY <1>5, <1>10, <1>11, <1>12, <1>13 DEF UnitInv

\* A set of naturals has a least element.
LEMMA LeastNat ==
  ASSUME NEW T \in SUBSET Nat, T # {}
  PROVE  \E m \in T : \A k \in T : m <= k
<1>. DEFINE less == OpToRel(<, Nat)
<1>1. \E m \in T : \A k \in T : ~ (<<k, m>> \in less)
  BY NatLessThanWellFounded, WFMin, Zenon
<1>2. \A k, m \in T : k < m => <<k, m>> \in less
  BY DEF OpToRel
<1>. HIDE DEF less
<1>3. PICK m \in T : \A k \in T : ~ (<<k, m>> \in less)
  BY <1>1
<1>4. \A k \in T : ~ (k < m)
  BY <1>2, <1>3
<1>5. \A k \in T : m <= k
  BY <1>4
<1>. QED  BY <1>5

\* stashbits() returns the number of an entry that begins with the constant.
LEMMA StashFound ==
  ASSUME NEW s \in Seq(Bits), NEW bits \in Bits, NEW t, t = Stash(s, bits)
  PROVE  /\ t \in Seq(Bits)
         /\ \A n \in DOMAIN s : n \in DOMAIN t /\ t[n] = s[n]
         /\ StashIndex(t, bits) \in DOMAIN t /\ IsPrefix(bits, t[StashIndex(t, bits)])
<1>1. t \in Seq(Bits) /\ \A n \in DOMAIN s : n \in DOMAIN t /\ t[n] = s[n]
  <2>1. /\ Append(s, bits) \in Seq(Bits)
        /\ \A n \in DOMAIN s : n \in DOMAIN Append(s, bits) /\ Append(s, bits)[n] = s[n]
    OBVIOUS
  <2>2. t = s \/ t = Append(s, bits)
    BY DEF Stash
  <2>. QED  BY <2>1, <2>2
<1>2. IsPrefix(bits, bits)
  <2>1. Len(bits) \in Nat
    BY BitsAssumption
  <2>. QED  BY <2>1 DEF IsPrefix
<1>3. \E n \in DOMAIN t : IsPrefix(bits, t[n])
  <2>1. CASE {i \in DOMAIN s : IsPrefix(bits, s[i])} = {}
    <3>1. t = Append(s, bits)
      BY <2>1 DEF Stash
    <3>2. Len(s) + 1 \in DOMAIN t /\ t[Len(s) + 1] = bits
      BY <3>1
    <3>. QED  BY <1>2, <3>2
  <2>2. CASE {i \in DOMAIN s : IsPrefix(bits, s[i])} # {}
    <3>1. t = s
      BY <2>2 DEF Stash
    <3>. QED  BY <2>2, <3>1
  <2>. QED  BY <2>1, <2>2
<1>. DEFINE T == {n \in DOMAIN t : IsPrefix(bits, t[n])}
<1>4. DOMAIN t = 1 .. Len(t) /\ Len(t) \in Nat
  BY <1>1
<1>5. T \in SUBSET Nat /\ T # {}
  BY <1>3, <1>4
<1>6. PICK m \in T : \A k \in T : m <= k
  <2>. HIDE DEF T
  <2>. QED  BY <1>5, LeastNat
<1>7. m \in DOMAIN t /\ IsPrefix(bits, t[m])
  OBVIOUS
<1>8. ASSUME NEW h \in 1 .. m - 1 PROVE ~ IsPrefix(bits, t[h])
  <2>1. h \in DOMAIN t /\ h < m /\ h \in Nat /\ m \in Nat
    BY <1>4, <1>7
  <2>2. h \notin T
    BY <1>6, <2>1
  <2>. QED  BY <2>1, <2>2
<1>9. \E i \in DOMAIN t : IsPrefix(bits, t[i]) /\ \A h \in 1 .. i - 1 : ~ IsPrefix(bits, t[h])
  BY <1>7, <1>8
<1>10. StashIndex(t, bits) \in DOMAIN t /\ IsPrefix(bits, t[StashIndex(t, bits)])
  BY <1>9 DEF StashIndex
<1>. QED  BY <1>1, <1>10

LEMMA FuncConstStep ==
  ASSUME UnitInv, NEW bits \in Bits, FuncConst(bits)
  PROVE  UnitInv'
<1>. DEFINE n == Len(src)
            consts == src[n].consts
<1>1. /\ pc = "func" /\ pc' = "func"
      /\ src' = [src EXCEPT ![n].consts = Append(@, bits)]
      /\ stash' = Stash(stash, bits)
      /\ UNCHANGED <<funcperm, cur, zero, file, curfile, rawout, ord, left, owed>>
  BY DEF FuncConst
<1>2. PICK l : l = [k |-> "ref", id |-> n, at |-> Len(consts) + 1, n |-> StashIndex(stash', bits)]
  OBVIOUS
<1>3. PutFn(<<l>>)
  BY <1>2 DEF FuncConst
<1>4. /\ IsSeq(src) /\ IsSeq(outf) /\ Buffers(rawout) /\ Buffers(funout)
      /\ stash \in Seq(Bits)
      /\ ~ funcperm => rawout = << >> /\ funout = << >>
      /\ funcperm => funout # << >>
  BY <1>1 DEF UnitInv, Shapes
<1>5. /\ n \in Of("func") /\ n \in DOMAIN src /\ src[n].k = "func"
      /\ DOMAIN src[n] = {"k", "consts", "file"} /\ IsSeq(consts)
  BY <1>1 DEF UnitInv, Definitions, Of
<1>6. PICK d : d = [src[n] EXCEPT !.consts = Append(@, bits)]
  OBVIOUS
<1>7. /\ d.k = src[n].k /\ DOMAIN d = {"k", "consts", "file"} /\ d.file = src[n].file
      /\ d.consts = Append(consts, bits)
  BY <1>5, <1>6
<1>8. /\ IsSeq(d.consts) /\ Len(consts) \in Nat
      /\ \A a \in DOMAIN consts : a \in DOMAIN d.consts /\ d.consts[a] = consts[a]
      /\ Len(consts) + 1 \in DOMAIN d.consts /\ d.consts[Len(consts) + 1] = bits
  <2>. HIDE DEF consts
  <2>1. /\ IsSeq(Append(consts, bits)) /\ Len(consts) \in Nat
        /\ DOMAIN consts = 1 .. Len(consts) /\ DOMAIN Append(consts, bits) = 1 .. Len(consts) + 1
        /\ \A i \in 1 .. Len(consts) : Append(consts, bits)[i] = consts[i]
        /\ Append(consts, bits)[Len(consts) + 1] = bits
    BY <1>5, SeqAppend
  <2>. QED  BY <1>7, <2>1
<1>9. src' = [src EXCEPT ![n] = d]
  BY <1>1, <1>6
<1>10. /\ IsSeq(src') /\ Len(src') = n /\ DOMAIN src' = DOMAIN src
       /\ \A i \in DOMAIN src : i # n => src'[i] = src[i]
       /\ src'[n] = d /\ \A kind : Of(kind)' = Of(kind)
  BY <1>4, <1>5, <1>7, <1>9, SrcChange
<1>. HIDE DEF n, consts
<1>11. \A kind : \A i \in Of(kind) : i \in DOMAIN src /\ src[i].k = kind
  BY DEF Of
<1>12. Definitions'
  <2>1. pc' = "func" /\ n \in Of("func")' /\ Len(src') = n
    BY <1>1, <1>5, <1>10
  <2>2. \A i \in Of("file") : i # n /\ src'[i] = src[i]
    BY <1>5, <1>10, <1>11
  <2>3. \A i \in Of("data") : i # n /\ src'[i] = src[i]
    BY <1>5, <1>10, <1>11
  <2>4. \A i \in Of("func") : DOMAIN src'[i] = {"k", "consts", "file"} /\ IsSeq(src'[i].consts)
    BY <1>7, <1>8, <1>10, <1>11 DEF UnitInv, Definitions
  <2>. QED  BY <1>10, <2>1, <2>2, <2>3, <2>4 DEF UnitInv, Definitions
<1>13. /\ stash' \in Seq(Bits) /\ \A i \in DOMAIN stash : i \in DOMAIN stash' /\ stash'[i] = stash[i]
       /\ StashIndex(stash', bits) \in DOMAIN stash'
       /\ IsPrefix(bits, stash'[StashIndex(stash', bits)])
  BY <1>1, <1>4, StashFound
<1>14. IsSeq(<<l>>) /\ ToSet(<<l>>) = {l}
  BY SeqOne
<1>15. funcperm => Len(funout) # 0
  <2>1. Len(funout) \in Nat /\ funout # << >> => Len(funout) \in 1 .. Len(funout)
    BY <1>4, SeqAt DEF Buffers
  <2>. QED  BY <1>4, <2>1
<1>16. Wrote(<<l>>) /\ Len(funout') = Len(funout)
  <2>1. /\ IsSeq(outf') /\ Buffers(funout') /\ Len(funout') = Len(funout)
        /\ Plain \subseteq Plain' /\ Written' = Written \cup {l}
        /\ ~ funcperm => outf' = outf \o <<l>> /\ funout' = funout
    BY <1>1, <1>3, <1>4, <1>14, <1>15, PutFnLines
  <2>. QED  BY <1>1, <1>4, <1>14, <2>1 DEF Wrote
<1>17. AllMeant' /\ FilesWritten' /\ InOrder' /\ ConstsOnce'
  <2>1. pc \in Reading /\ pc' \in Reading
    BY <1>1 DEF Reading
  <2>2. l.k = "ref" /\ l.id = n /\ l.at = Len(consts) + 1 /\ l.n = StashIndex(stash', bits)
    BY <1>2 DEF n, consts
  <2>3. /\ l.id \in Of("func")' /\ l.at \in DOMAIN src'[l.id].consts
        /\ src'[l.id].consts[l.at] = bits
    BY <1>5, <1>8, <1>10, <2>2
  <2>4. l.n \in DOMAIN stash' /\ IsPrefix(bits, stash'[l.n])
    BY <1>13, <2>2
  <2>5. Meant(l)'
    BY <2>2, <2>3, <2>4 DEF Meant
  <2>6. \A e \in ToSet(<<l>>) :
          /\ Meant(e)' /\ e.k # "fp"
          /\ e.k = "func" /\ e.loc # 0 => e.loc \in DOMAIN file
    BY <1>14, <2>2, <2>5
  <2>7. \A i \in Of("func") :
           /\ i \in Of("func")' /\ src'[i].file = src[i].file
           /\ \A a \in DOMAIN src[i].consts :
                a \in DOMAIN src'[i].consts /\ src'[i].consts[a] = src[i].consts[a]
    BY <1>7, <1>8, <1>10, <1>11 DEF consts
  <2>. QED  BY <1>1, <1>13, <1>16, <2>1, <2>6, <2>7, WriteStep
<1>18. TypeOK'
  <2>1. ToSet(stash') \subseteq Bits
    <3>1. PICK g \in Seq(Bits) : g = stash'
      BY <1>13
    <3>2. ToSet(g) \subseteq Bits
      BY SeqType
    <3>. QED  BY <3>1, <3>2
  <2>2. owed' \subseteq DOMAIN stash'
    BY <1>1, <1>13 DEF UnitInv, TypeOK
  <2>. QED  BY <1>1, <1>16, <2>1, <2>2 DEF UnitInv, TypeOK
<1>19. Shapes'
  <2>1. ~ funcperm' => rawout' = << >> /\ funout' = << >>
    <3>1. ~ funcperm => funout' = funout
      BY <1>3 DEF PutFn
    <3>. QED  BY <1>1, <1>4, <3>1
  <2>2. funcperm => funout' # << >>
    BY <1>15, <1>16
  <2>. QED  BY <1>1, <1>10, <1>13, <1>16, <2>1, <2>2 DEF UnitInv, Shapes, Wrote
<1>20. CurFile'
  <2>1. \A i \in Of("file") : src'[i] = src[i]
    BY <1>5, <1>10, <1>11
  <2>. QED  BY <1>1, <1>10, <2>1, CurKept DEF UnitInv
<1>. QED  BY <1>12, <1>17, <1>18, <1>19, <1>20 DEF UnitInv

LEMMA FuncEndStep ==
  ASSUME UnitInv, FuncEnd
  PROVE  UnitInv'
<1>1. /\ pc = "func" /\ pc' = "top"
      /\ rawout' = IF funcperm THEN Append(rawout, << >>) ELSE rawout
      /\ UNCHANGED <<funcperm, src, cur, zero, file, curfile, stash, funout, ord, left, owed, outf>>
  BY DEF FuncEnd, input, emitst
<1>2. /\ IsSeq(src) /\ Definitions /\ IsSeq(outf) /\ Buffers(rawout) /\ Buffers(funout)
      /\ ~ funcperm => rawout = << >> /\ funout = << >>
  BY DEF UnitInv, Shapes
<1>3. IsSeq(<< >>) /\ ToSet(<< >>) = {}
  BY SeqOne
<1>4. /\ Buffers(rawout') /\ TextOf(rawout') = TextOf(rawout)
      /\ funcperm => Len(rawout') = Len(rawout) + 1
  <2>1. CASE funcperm
    <3>1. PICK e : e = << >>
      OBVIOUS
    <3>2. IsSeq(e) /\ ToSet(e) = {} /\ rawout' = Append(rawout, e)
      BY <1>1, <1>3, <2>1, <3>1
    <3>3. /\ Buffers(rawout') /\ Len(rawout') = Len(rawout) + 1
          /\ TextOf(rawout') = TextOf(rawout) \cup ToSet(e)
      BY <1>2, <3>2, BufferNew
    <3>. QED  BY <2>1, <3>2, <3>3
  <2>2. CASE ~ funcperm
    BY <1>1, <1>2, <2>2
  <2>. QED  BY <2>1, <2>2
<1>5. Plain' = Plain /\ Written' = Written
  <2>1. Plain' = ToSet(outf) \cup TextOf(rawout')
    BY <1>1 DEF Plain
  <2>2. Plain' = Plain
    BY <1>4, <2>1 DEF Plain
  <2>3. Written' = Plain' \cup TextOf(funout)
    BY <1>1 DEF Written
  <2>. QED  BY <2>2, <2>3 DEF Written
<1>6. Wrote(<< >>)
  <2>1. outf \o << >> = outf
    BY <1>2 DEF IsSeq
  <2>. QED  BY <1>1, <1>2, <1>3, <1>4, <1>5, <2>1 DEF Wrote
<1>7. AllMeant' /\ FilesWritten' /\ InOrder' /\ ConstsOnce'
  <2>1. pc \in Reading /\ pc' \in Reading
    BY <1>1 DEF Reading
  <2>2. \A kind : Of(kind)' = Of(kind)
    BY <1>1 DEF Of
  <2>. QED  BY <1>1, <1>3, <1>6, <2>1, <2>2, WriteStep
<1>8. TypeOK'
  BY <1>1, <1>2, <1>4 DEF UnitInv, TypeOK
<1>9. Shapes'
  <2>1. ~ funcperm' => rawout' = << >> /\ funout' = << >>
    BY <1>1, <1>2
  <2>. QED  BY <1>1, <1>4, <2>1 DEF UnitInv, Shapes
<1>10. DataInput
  <2>1. \A kind : Of(kind)' = Of(kind)
    BY <1>1 DEF Of
  <2>. QED  BY <1>1, <1>2, <2>1 DEF DataInput, Definitions
<1>11. CurFile'
  BY <1>1, <1>10, CurKept DEF UnitInv, DataInput
<1>. QED  BY <1>7, <1>8, <1>9, <1>10, <1>11 DEF UnitInv, DataInput

-----------------------------------------------------------------------------
(* The end of the input.                                                    *)

\* What is read, and what its numbers mean, is as before.
LEMMA ReadKept ==
  ASSUME UnitInv, UNCHANGED <<src, cur, zero, file, curfile, stash>>, pc' \notin {"func", "data"}
  PROVE  /\ IsSeq(src') /\ file' \in Seq(Files) /\ stash' \in Seq(Bits)
         /\ Definitions' /\ CurFile' /\ \A l : Meant(l) => Meant(l)'
<1>1. \A kind : Of(kind)' = Of(kind)
  BY DEF Of
<1>2. IsSeq(src') /\ file' \in Seq(Files) /\ stash' \in Seq(Bits)
  BY DEF UnitInv, Shapes
<1>3. Definitions'
  BY <1>1 DEF UnitInv, Definitions
<1>4. CurFile'
  BY <1>1, CurKept DEF UnitInv
<1>5. ASSUME NEW l, Meant(l) PROVE Meant(l)'
  BY <1>1, <1>5 DEF Meant
<1>. QED  BY <1>2, <1>3, <1>4, <1>5

\* Text that was written may be copied to the output.
LEMMA CopyFacts ==
  ASSUME IsSeq(outf), Buffers(rawout), Buffers(funout), NEW t, IsSeq(t),
         ToSet(t) \subseteq Written,
         outf' = outf \o t, UNCHANGED <<rawout, funout>>
  PROVE  /\ IsSeq(outf') /\ ToSet(outf') = ToSet(outf) \cup ToSet(t)
         /\ Plain \subseteq Plain' /\ Written' = Written
<1>1. IsSeq(outf') /\ ToSet(outf') = ToSet(outf) \cup ToSet(t)
  BY SeqCat
<1>2. Plain' = ToSet(outf') \cup TextOf(rawout)
  BY DEF Plain
<1>3. Plain' = Plain \cup ToSet(t)
  BY <1>1, <1>2 DEF Plain
<1>4. Written' = Plain' \cup TextOf(funout)
  BY DEF Written
<1>5. Written' = Written
  BY <1>3, <1>4 DEF Written
<1>. QED  BY <1>1, <1>3, <1>5

LEMMA FinishStep ==
  ASSUME UnitInv, Finish
  PROVE  UnitInv'
<1>1. /\ pc = "top" /\ pc' = IF funcperm THEN "flush" ELSE "fin"
      /\ owed' = IF funcperm THEN owed ELSE DOMAIN stash
      /\ ord' = [i \in DOMAIN funout |-> i] /\ left' = Len(funout)
      /\ UNCHANGED <<funcperm, src, cur, zero, file, curfile, stash, rawout, funout, outf>>
  BY DEF Finish, input, emitst
<1>2. /\ IsSeq(outf) /\ Buffers(rawout) /\ Buffers(funout)
      /\ ~ funcperm => rawout = << >> /\ funout = << >>
  BY DEF UnitInv, Shapes
<1>3. /\ IsSeq(src') /\ file' \in Seq(Files) /\ stash' \in Seq(Bits)
      /\ Definitions' /\ CurFile' /\ \A l : Meant(l) => Meant(l)'
  BY <1>1, ReadKept
<1>4. Plain' = Plain /\ Written' = Written /\ \A kind : Lines(kind)' = Lines(kind)
  BY <1>1 DEF Plain, Written, Lines
<1>5. Len(funout) \in Nat /\ DOMAIN funout = 1 .. Len(funout)
  BY <1>2, SeqAt DEF Buffers
<1>6. TypeOK'
  BY <1>1, <1>5 DEF UnitInv, TypeOK
<1>7. Shapes'
  <2>1. ord' \in [1 .. Len(funout) -> 1 .. Len(funout)]
    BY <1>1, <1>5
  <2>2. pc' \in {"flush", "copy"} => funcperm
    BY <1>1
  <2>. QED  BY <1>1, <1>2, <1>3, <2>1, <2>2 DEF Shapes
<1>8. AllMeant'
  BY <1>3, <1>4 DEF UnitInv, AllMeant
<1>9. FilesWritten'
  <2>1. \A n \in DOMAIN file' : \E l \in Plain' : l.k = "file" /\ l.n = n
    BY <1>1, <1>4 DEF UnitInv, FilesWritten
  <2>2. ~ funcperm => DOMAIN rawout' = {}
    BY <1>1, <1>2
  <2>. QED  BY <1>1, <2>1, <2>2 DEF FilesWritten
<1>10. InOrder'
  BY <1>1, <1>4 DEF UnitInv, InOrder
<1>11. ConstsOnce'
  <2>1. \A l \in Written : l.k # "fp"
    BY <1>1 DEF UnitInv, ConstsOnce
  <2>2. \A i \in Lines("fp") : FALSE
    BY <2>1, InSeq DEF Lines, Written, Plain
  <2>3. pc' = "fin" => owed' = DOMAIN stash'
    BY <1>1
  <2>. QED  BY <1>1, <1>4, <2>1, <2>2, <2>3 DEF ConstsOnce
<1>. QED  BY <1>3, <1>6, <1>7, <1>8, <1>9, <1>10, <1>11 DEF UnitInv

LEMMA SwapStep ==
  ASSUME UnitInv, NEW j \in 1 .. left, Swap(j)
  PROVE  UnitInv'
<1>1. /\ pc = "flush" /\ pc' = "flush" /\ left > 1 /\ left' = left - 1
      /\ ord' = [ord EXCEPT ![left] = ord[j], ![j] = ord[left]]
      /\ UNCHANGED <<funcperm, src, cur, zero, file, curfile, stash, rawout, funout, owed, outf>>
  BY DEF Swap, input, emitst
<1>2. /\ IsSeq(src') /\ file' \in Seq(Files) /\ stash' \in Seq(Bits)
      /\ Definitions' /\ CurFile' /\ \A l : Meant(l) => Meant(l)'
  BY <1>1, ReadKept
<1>3. Plain' = Plain /\ Written' = Written /\ \A kind : Lines(kind)' = Lines(kind)
  BY <1>1 DEF Plain, Written, Lines
<1>4. /\ left \in 0 .. Len(funout) /\ Len(funout) \in Nat
      /\ ord \in [1 .. Len(funout) -> 1 .. Len(funout)] /\ funcperm
  BY <1>1, SeqAt DEF UnitInv, TypeOK, Shapes, Buffers
<1>5. left' \in 0 .. Len(funout) /\ left \in 1 .. Len(funout) /\ j \in 1 .. Len(funout)
  BY <1>1, <1>4
<1>6. ord' \in [1 .. Len(funout) -> 1 .. Len(funout)]
  BY <1>1, <1>4, <1>5
<1>7. TypeOK'
  BY <1>1, <1>5 DEF UnitInv, TypeOK
<1>8. Shapes'
  BY <1>1, <1>2, <1>4, <1>6 DEF UnitInv, Shapes
<1>9. AllMeant'
  BY <1>2, <1>3 DEF UnitInv, AllMeant
<1>10. FilesWritten' /\ InOrder' /\ ConstsOnce'
  BY <1>1, <1>3 DEF UnitInv, FilesWritten, InOrder, ConstsOnce
<1>. QED  BY <1>2, <1>7, <1>8, <1>9, <1>10 DEF UnitInv

LEMMA ShuffledStep ==
  ASSUME UnitInv, Shuffled
  PROVE  UnitInv'
<1>1. /\ pc = "flush" /\ pc' = "copy" /\ left' = 0
      /\ UNCHANGED <<funcperm, src, cur, zero, file, curfile, stash, rawout, funout, ord, owed, outf>>
  BY DEF Shuffled, input, emitst
<1>2. /\ IsSeq(src') /\ file' \in Seq(Files) /\ stash' \in Seq(Bits)
      /\ Definitions' /\ CurFile' /\ \A l : Meant(l) => Meant(l)'
  BY <1>1, ReadKept
<1>3. Plain' = Plain /\ Written' = Written /\ \A kind : Lines(kind)' = Lines(kind)
  BY <1>1 DEF Plain, Written, Lines
<1>4. /\ Len(funout) \in Nat /\ IsSeq(rawout) /\ funcperm
      /\ ord \in [1 .. Len(funout) -> 1 .. Len(funout)]
  BY <1>1, SeqAt DEF UnitInv, Shapes, Buffers
<1>5. TypeOK'
  BY <1>1, <1>4 DEF UnitInv, TypeOK
<1>6. Shapes'
  BY <1>1, <1>2, <1>4 DEF UnitInv, Shapes
<1>7. AllMeant'
  BY <1>2, <1>3 DEF UnitInv, AllMeant
<1>8. FilesWritten'
  <2>1. \A i \in DOMAIN rawout : ~ (i <= 0)
    BY <1>4, SeqAt
  <2>. QED  BY <1>1, <1>3, <2>1 DEF UnitInv, FilesWritten
<1>9. InOrder' /\ ConstsOnce'
  BY <1>1, <1>3 DEF UnitInv, InOrder, ConstsOnce
<1>. QED  BY <1>2, <1>5, <1>6, <1>7, <1>8, <1>9 DEF UnitInv

LEMMA InText ==
  ASSUME NEW bs, NEW i \in DOMAIN bs
  PROVE  ToSet(bs[i]) \subseteq TextOf(bs)
BY DEF TextOf

LEMMA CopyOutStep ==
  ASSUME UnitInv, CopyOut
  PROVE  UnitInv'
<1>1. /\ pc = "copy" /\ pc' = "copy" /\ left < Len(funout) /\ left' = left + 1
      /\ outf' = outf \o (rawout[left + 1] \o funout[ord[left + 1]])
      /\ UNCHANGED <<funcperm, src, cur, zero, file, curfile, stash, rawout, funout, ord, owed>>
  BY DEF CopyOut, input, emitst
<1>2. /\ IsSeq(src') /\ file' \in Seq(Files) /\ stash' \in Seq(Bits)
      /\ Definitions' /\ CurFile' /\ \A l : Meant(l) => Meant(l)'
  BY <1>1, ReadKept
<1>3. /\ IsSeq(outf) /\ Buffers(rawout) /\ Buffers(funout) /\ funcperm
      /\ ord \in [1 .. Len(funout) -> 1 .. Len(funout)]
  BY <1>1 DEF UnitInv, Shapes
<1>4. /\ Len(funout) \in Nat /\ DOMAIN funout = 1 .. Len(funout)
      /\ DOMAIN rawout = 1 .. Len(funout) + 1 /\ left \in 0 .. Len(funout)
  BY <1>1, <1>3, SeqAt DEF UnitInv, TypeOK, Buffers
<1>5. PICK r : r = rawout[left + 1]
  OBVIOUS
<1>6. PICK t : t = funout[ord[left + 1]]
  OBVIOUS
<1>7. left + 1 \in DOMAIN rawout /\ ord[left + 1] \in DOMAIN funout
  BY <1>1, <1>3, <1>4
<1>8. /\ IsSeq(r) /\ ToSet(r) \subseteq TextOf(rawout)
      /\ IsSeq(t) /\ ToSet(t) \subseteq TextOf(funout)
  BY <1>3, <1>5, <1>6, <1>7, InText DEF Buffers
<1>9. IsSeq(r \o t) /\ ToSet(r \o t) = ToSet(r) \cup ToSet(t)
  BY <1>8, SeqCat
<1>10. ToSet(r \o t) \subseteq Written
  BY <1>8, <1>9 DEF Written, Plain
<1>11. outf' = outf \o (r \o t)
  BY <1>1, <1>5, <1>6
<1>12. /\ IsSeq(outf') /\ ToSet(outf') = ToSet(outf) \cup ToSet(r \o t)
       /\ Plain \subseteq Plain' /\ Written' = Written
  BY <1>1, <1>3, <1>9, <1>10, <1>11, CopyFacts
<1>13. TypeOK'
  BY <1>1, <1>4 DEF UnitInv, TypeOK
<1>14. Shapes'
  BY <1>1, <1>2, <1>3, <1>12 DEF UnitInv, Shapes
<1>15. AllMeant'
  BY <1>2, <1>12 DEF UnitInv, AllMeant
<1>16. FilesWritten'
  <2>1. \A n \in DOMAIN file' : \E l \in Plain' : l.k = "file" /\ l.n = n
    BY <1>1, <1>12 DEF UnitInv, FilesWritten
  <2>2. ASSUME NEW i \in DOMAIN rawout, i <= left + 1 PROVE ToSet(rawout[i]) \subseteq ToSet(outf')
    <3>1. CASE i <= left
      <4>1. ToSet(rawout[i]) \subseteq ToSet(outf)
        BY <1>1, <3>1 DEF UnitInv, FilesWritten
      <4>. QED  BY <1>12, <4>1
    <3>2. CASE ~ (i <= left)
      <4>1. i = left + 1
        BY <1>4, <2>2, <3>2
      <4>. QED  BY <1>5, <1>9, <1>12, <4>1
    <3>. QED  BY <3>1, <3>2
  <2>. QED  BY <1>1, <2>1, <2>2 DEF FilesWritten
<1>17. InOrder'
  BY <1>1, <1>3 DEF InOrder
<1>18. ConstsOnce'
  BY <1>1, <1>12 DEF UnitInv, ConstsOnce
<1>. QED  BY <1>2, <1>13, <1>14, <1>15, <1>16, <1>17, <1>18 DEF UnitInv

LEMMA CopyLastStep ==
  ASSUME UnitInv, CopyLast
  PROVE  UnitInv'
<1>1. /\ pc = "copy" /\ pc' = "fin" /\ left = Len(funout) /\ owed' = DOMAIN stash
      /\ outf' = outf \o rawout[left + 1]
      /\ UNCHANGED <<funcperm, src, cur, zero, file, curfile, stash, rawout, funout, ord, left>>
  BY DEF CopyLast, input, emitst
<1>2. /\ IsSeq(src') /\ file' \in Seq(Files) /\ stash' \in Seq(Bits)
      /\ Definitions' /\ CurFile' /\ \A l : Meant(l) => Meant(l)'
  BY <1>1, ReadKept
<1>3. IsSeq(outf) /\ Buffers(rawout) /\ Buffers(funout) /\ funcperm
  BY <1>1 DEF UnitInv, Shapes
<1>4. /\ Len(funout) \in Nat /\ DOMAIN rawout = 1 .. Len(funout) + 1
  BY <1>1, <1>3, SeqAt DEF UnitInv, TypeOK, Buffers
<1>5. PICK r : r = rawout[left + 1]
  OBVIOUS
<1>6. left + 1 \in DOMAIN rawout
  BY <1>1, <1>4
<1>7. IsSeq(r) /\ ToSet(r) \subseteq TextOf(rawout)
  BY <1>3, <1>5, <1>6, InText DEF Buffers
<1>8. ToSet(r) \subseteq Written /\ outf' = outf \o r
  BY <1>1, <1>5, <1>7 DEF Written, Plain
<1>9. /\ IsSeq(outf') /\ ToSet(outf') = ToSet(outf) \cup ToSet(r)
      /\ Plain \subseteq Plain' /\ Written' = Written
  BY <1>1, <1>3, <1>7, <1>8, CopyFacts
<1>10. TypeOK'
  BY <1>1 DEF UnitInv, TypeOK
<1>11. Shapes'
  BY <1>1, <1>2, <1>3, <1>9 DEF UnitInv, Shapes
<1>12. AllMeant'
  BY <1>2, <1>9 DEF UnitInv, AllMeant
<1>13. FilesWritten'
  <2>1. \A n \in DOMAIN file' : \E l \in Plain' : l.k = "file" /\ l.n = n
    BY <1>1, <1>9 DEF UnitInv, FilesWritten
  <2>2. ASSUME NEW i \in DOMAIN rawout PROVE ToSet(rawout[i]) \subseteq ToSet(outf')
    <3>1. CASE i <= left
      <4>1. ToSet(rawout[i]) \subseteq ToSet(outf)
        BY <1>1, <3>1 DEF UnitInv, FilesWritten
      <4>. QED  BY <1>9, <4>1
    <3>2. CASE ~ (i <= left)
      <4>1. i = left + 1
        BY <1>1, <1>4, <3>2
      <4>. QED  BY <1>5, <1>9, <4>1
    <3>. QED  BY <3>1, <3>2
  <2>. QED  BY <1>1, <2>1, <2>2 DEF FilesWritten
<1>14. InOrder'
  BY <1>1, <1>3 DEF InOrder
<1>15. ConstsOnce'
  <2>1. \A l \in Written' : l.k # "fp"
    BY <1>1, <1>9 DEF UnitInv, ConstsOnce
  <2>2. ToSet(outf') \subseteq Written'
    BY DEF Written, Plain
  <2>3. \A i \in Lines("fp")' : FALSE
    BY <2>1, <2>2, InSeq DEF Lines
  <2>. QED  BY <1>1, <2>3 DEF ConstsOnce
<1>. QED  BY <1>2, <1>10, <1>11, <1>12, <1>13, <1>14, <1>15 DEF UnitInv

LEMMA EmitFpStep ==
  ASSUME UnitInv, NEW i \in owed, EmitFp(i)
  PROVE  UnitInv'
<1>. DEFINE n == Len(outf) + 1
<1>0. PICK l : l = [k |-> "fp", n |-> i, bits |-> stash[i]]
  OBVIOUS
<1>1. /\ pc = "fin" /\ pc' = "fin" /\ owed' = owed \ {i} /\ outf' = outf \o <<l>>
      /\ UNCHANGED <<funcperm, src, cur, zero, file, curfile, stash, rawout, funout, ord, left>>
  BY <1>0 DEF EmitFp, input, emitst
<1>2. /\ IsSeq(src') /\ file' \in Seq(Files) /\ stash' \in Seq(Bits)
      /\ Definitions' /\ CurFile' /\ \A e : Meant(e) => Meant(e)'
  BY <1>1, ReadKept
<1>3. IsSeq(outf) /\ Buffers(rawout) /\ Buffers(funout)
  BY DEF UnitInv, Shapes
<1>4. IsSeq(<<l>>) /\ ToSet(<<l>>) = {l} /\ Len(<<l>>) = 1
  BY SeqOne
<1>5. /\ IsSeq(outf') /\ ToSet(outf') = ToSet(outf) \cup {l}
      /\ Len(outf) \in Nat /\ DOMAIN outf = 1 .. Len(outf) /\ DOMAIN outf' = 1 .. n
      /\ \A j \in DOMAIN outf : outf'[j] = outf[j]
      /\ outf'[n] = l
  <2>1. /\ IsSeq(outf') /\ ToSet(outf') = ToSet(outf) \cup {l}
        /\ Len(outf') = Len(outf) + 1 /\ Len(outf) \in Nat
        /\ DOMAIN outf = 1 .. Len(outf) /\ DOMAIN outf' = 1 .. Len(outf')
        /\ \A j \in 1 .. Len(outf) : outf'[j] = outf[j]
        /\ \A j \in 1 .. 1 : outf'[Len(outf) + j] = <<l>>[j]
    BY <1>1, <1>3, <1>4, SeqCat
  <2>2. outf'[Len(outf) + 1] = <<l>>[1]
    BY <2>1
  <2>. QED  BY <2>1, <2>2
<1>6. Plain' = Plain \cup {l}
  <2>1. Plain' = ToSet(outf') \cup TextOf(rawout)
    BY <1>1 DEF Plain
  <2>. QED  BY <1>5, <2>1 DEF Plain
<1>7. Written' = Written \cup {l}
  <2>1. Written' = Plain' \cup TextOf(funout)
    BY <1>1 DEF Written
  <2>. QED  BY <1>6, <2>1 DEF Written
<1>8. i \in DOMAIN stash /\ l.k = "fp" /\ l.n = i /\ l.bits = stash[i]
  BY <1>0 DEF UnitInv, TypeOK
<1>. HIDE DEF n
<1>9. /\ \A kind : \A j \in Lines(kind) : j \in Lines(kind)' /\ outf'[j] = outf[j]
      /\ \A kind : \A j \in Lines(kind)' : j \in Lines(kind) \/ (j = n /\ kind = "fp")
      /\ n \in Lines("fp")'
  <2>1. DOMAIN outf' = DOMAIN outf \cup {n}
    BY <1>5 DEF n
  <2>2. \A kind, j : j \in Lines(kind) <=> j \in DOMAIN outf /\ outf[j].k = kind
    BY DEF Lines
  <2>3. \A kind, j : j \in Lines(kind)' <=> j \in DOMAIN outf' /\ outf'[j].k = kind
    BY DEF Lines
  <2>4. \A j \in DOMAIN outf : j \in DOMAIN outf' /\ outf'[j] = outf[j]
    BY <1>5, <2>1
  <2>5. n \in DOMAIN outf' /\ outf'[n].k = "fp"
    BY <1>5, <1>8, <2>1
  <2>6. \A kind : \A j \in Lines(kind) : j \in Lines(kind)' /\ outf'[j] = outf[j]
    BY <2>2, <2>3, <2>4
  <2>7. ASSUME NEW kind, NEW j \in Lines(kind)' PROVE j \in Lines(kind) \/ (j = n /\ kind = "fp")
    <3>1. CASE j \in DOMAIN outf
      <4>1. outf'[j].k = kind
        BY <2>3
      <4>2. outf[j].k = kind
        BY <2>4, <3>1, <4>1
      <4>. QED  BY <2>2, <3>1, <4>2
    <3>2. CASE j = n
      BY <2>3, <2>5, <2>7, <3>2
    <3>. QED  BY <2>1, <2>3, <2>7, <3>1, <3>2
  <2>. QED  BY <2>3, <2>5, <2>6, <2>7
<1>10. TypeOK'
  BY <1>1 DEF UnitInv, TypeOK
<1>11. Shapes'
  BY <1>1, <1>2, <1>3, <1>5 DEF UnitInv, Shapes
<1>12. AllMeant'
  <2>1. Meant(l)'
    BY <1>1, <1>8 DEF Meant
  <2>. QED  BY <1>2, <1>7, <2>1 DEF UnitInv, AllMeant
<1>13. FilesWritten'
  BY <1>1, <1>5, <1>6 DEF UnitInv, FilesWritten
<1>14. InOrder'
  <2>. SUFFICES ASSUME ~ funcperm, NEW j \in Lines("func")', outf'[j].loc # 0
                PROVE  \E f \in Lines("file")' : f < j /\ outf'[f].n = outf'[j].loc
    BY <1>1 DEF InOrder
  <2>1. j \in Lines("func") /\ outf'[j] = outf[j]
    BY <1>9
  <2>2. PICK f \in Lines("file") : f < j /\ outf[f].n = outf[j].loc
    BY <2>1 DEF UnitInv, InOrder
  <2>. QED  BY <1>9, <2>1, <2>2
<1>15. ConstsOnce'
  <2>1. /\ \A m \in DOMAIN stash \ owed : \E j \in Lines("fp") : outf[j].n = m
        /\ \A j \in Lines("fp") :
             outf[j].n \notin owed /\ \A h \in Lines("fp") : outf[j].n = outf[h].n => j = h
    BY <1>1 DEF UnitInv, ConstsOnce
  <2>2. ASSUME NEW m \in DOMAIN stash' \ owed' PROVE \E j \in Lines("fp")' : outf'[j].n = m
    <3>1. CASE m = i
      BY <1>5, <1>8, <1>9, <3>1
    <3>2. CASE m # i
      <4>1. m \in DOMAIN stash \ owed
        BY <1>1, <3>2
      <4>. QED  BY <1>9, <2>1, <4>1
    <3>. QED  BY <3>1, <3>2
  <2>3. ASSUME NEW j \in Lines("fp")' PROVE outf'[j].n \notin owed'
    <3>1. CASE j \in Lines("fp")
      BY <1>1, <1>9, <2>1, <3>1
    <3>2. CASE j = n
      BY <1>1, <1>5, <1>8, <3>2
    <3>. QED  BY <1>9, <3>1, <3>2
  <2>4. ASSUME NEW j \in Lines("fp")', NEW h \in Lines("fp")', outf'[j].n = outf'[h].n PROVE j = h
    <3>1. outf'[n].n = i
      BY <1>5, <1>8
    <3>2. \A e \in Lines("fp") : outf'[e].n # i
      BY <1>9, <2>1
    <3>3. \A e, g \in Lines("fp") : outf'[e].n = outf'[g].n => e = g
      BY <1>9, <2>1
    <3>. QED  BY <1>9, <2>4, <3>1, <3>2, <3>3
  <2>. QED  BY <1>1, <2>2, <2>3, <2>4 DEF ConstsOnce
<1>. QED  BY <1>2, <1>10, <1>11, <1>12, <1>13, <1>14, <1>15 DEF UnitInv

LEMMA EmitFinStep ==
  ASSUME UnitInv, EmitFin
  PROVE  UnitInv'
<1>1. /\ pc = "fin" /\ pc' = "done" /\ owed = {}
      /\ UNCHANGED <<funcperm, src, cur, zero, file, curfile, stash,
                     rawout, funout, ord, left, owed, outf>>
  BY DEF EmitFin, input, emitst, bufs
<1>2. /\ IsSeq(src') /\ file' \in Seq(Files) /\ stash' \in Seq(Bits)
      /\ Definitions' /\ CurFile' /\ \A l : Meant(l) => Meant(l)'
  BY <1>1, ReadKept
<1>3. Plain' = Plain /\ Written' = Written /\ \A kind : Lines(kind)' = Lines(kind)
  BY <1>1 DEF Plain, Written, Lines
<1>4. TypeOK'
  BY <1>1 DEF UnitInv, TypeOK
<1>5. Shapes'
  BY <1>1, <1>2 DEF UnitInv, Shapes
<1>6. AllMeant'
  BY <1>2, <1>3 DEF UnitInv, AllMeant
<1>7. FilesWritten' /\ InOrder' /\ ConstsOnce'
  BY <1>1, <1>3 DEF UnitInv, FilesWritten, InOrder, ConstsOnce
<1>. QED  BY <1>2, <1>4, <1>5, <1>6, <1>7 DEF UnitInv

-----------------------------------------------------------------------------
(* The theorems.                                                            *)

LEMMA InitHolds ==
  ASSUME Init
  PROVE  UnitInv
<1>1. /\ pc = "top" /\ funcperm \in BOOLEAN /\ src = << >> /\ cur = NoItem /\ zero = 0
      /\ file = << >> /\ curfile = 0 /\ stash = << >>
      /\ rawout = IF funcperm THEN << << >> >> ELSE << >>
      /\ funout = << >> /\ ord = << >> /\ left = 0 /\ owed = {} /\ outf = << >>
  BY DEF Init
<1>2. PICK e : e = << >>
  OBVIOUS
<1>3. IsSeq(e) /\ ToSet(e) = {} /\ DOMAIN e = {} /\ Len(e) = 0
  <2>1. IsSeq(e) /\ ToSet(e) = {}
    BY <1>2, SeqOne
  <2>2. DOMAIN e = {} /\ Len(e) = 0
    BY <1>2
  <2>. QED  BY <2>1, <2>2
<1>4. Buffers(e) /\ TextOf(e) = {}
  BY <1>3 DEF Buffers, TextOf
<1>5. Buffers(<<e>>) /\ TextOf(<<e>>) = {} /\ Len(<<e>>) = 1
  <2>1. PICK b : b = <<e>>
    OBVIOUS
  <2>2. DOMAIN b = {1} /\ b[1] = e /\ Len(b) = 1 /\ IsSeq(b)
    BY <2>1, SeqOne
  <2>. QED  BY <1>3, <2>1, <2>2 DEF Buffers, TextOf
<1>6. Buffers(rawout) /\ TextOf(rawout) = {} /\ Len(rawout) = IF funcperm THEN 1 ELSE 0
  BY <1>1, <1>2, <1>3, <1>4, <1>5
<1>7. /\ src = e /\ file = e /\ stash = e /\ funout = e /\ outf = e
      /\ ~ funcperm => rawout = << >>
  BY <1>1, <1>2
<1>8. \A kind : Of(kind) = {} /\ Lines(kind) = {}
  BY <1>3, <1>7 DEF Of, Lines
<1>9. Plain = {} /\ Written = {}
  BY <1>3, <1>4, <1>6, <1>7 DEF Plain, Written
<1>10. TypeOK
  BY <1>1, <1>3, <1>6, <1>7 DEF TypeOK
<1>11. Shapes
  <2>1. file \in Seq(Files) /\ stash \in Seq(Bits)
    BY <1>1
  <2>. QED  BY <1>1, <1>3, <1>4, <1>6, <1>7, <2>1 DEF Shapes
<1>12. Definitions /\ CurFile /\ InOrder /\ AllMeant
  BY <1>1, <1>8, <1>9 DEF Definitions, CurFile, InOrder, AllMeant
<1>13. FilesWritten /\ ConstsOnce
  BY <1>1, <1>3, <1>7, <1>9 DEF FilesWritten, ConstsOnce
<1>. QED  BY <1>10, <1>11, <1>12, <1>13 DEF UnitInv

LEMMA StepHolds ==
  ASSUME UnitInv, [Next]_vars
  PROVE  UnitInv'
<1>1. CASE Next
  BY <1>1, DbgFileStep, FuncStep, FuncConstStep, FuncEndStep, DatStartStep, DatZStep,
     DatFieldStep, DatItemStep, DatEndStep, FinishStep, SwapStep, ShuffledStep,
     CopyOutStep, CopyLastStep, EmitFpStep, EmitFinStep DEF Next
<1>2. CASE UNCHANGED vars
  <2>1. UNCHANGED <<pc, funcperm, src, cur, zero, file, curfile, stash,
                    rawout, funout, ord, left, owed, outf>>
    BY <1>2 DEF vars, input, emitst, bufs
  <2>2. Plain' = Plain /\ Written' = Written /\ \A kind : Lines(kind)' = Lines(kind) /\ Of(kind)' = Of(kind)
    BY <2>1 DEF Plain, Written, Lines, Of
  <2>3. TypeOK' /\ Shapes'
    BY <2>1 DEF UnitInv, TypeOK, Shapes
  <2>4. Definitions' /\ CurFile'
    BY <2>1, <2>2, CurKept DEF UnitInv, Definitions
  <2>5. ASSUME NEW l, Meant(l) PROVE Meant(l)'
    BY <2>1, <2>2, <2>5 DEF Meant
  <2>6. AllMeant'
    BY <2>2, <2>5 DEF UnitInv, AllMeant
  <2>7. FilesWritten' /\ InOrder' /\ ConstsOnce'
    BY <2>1, <2>2 DEF UnitInv, FilesWritten, InOrder, ConstsOnce
  <2>. QED  BY <2>3, <2>4, <2>6, <2>7 DEF UnitInv
<1>. QED  BY <1>1, <1>2

\* The invariant from which the rest follows.
THEOREM UnitInvariant == Spec => []UnitInv
<1>1. Init => UnitInv
  BY InitHolds
<1>2. UnitInv /\ [Next]_vars => UnitInv'
  BY StepHolds
<1>. QED  BY <1>1, <1>2, PTL DEF Spec

\* The state of the emitter has its types, and there is one buffer of text
\* between two functions for every function that was read (main.c).
THEOREM TypeCorrect == Spec => []TypeOK
<1>1. UnitInv => TypeOK
  BY DEF UnitInv
<1>. QED  BY <1>1, UnitInvariant, PTL

LEMMA InvMeant ==
  ASSUME UnitInv
  PROVE  NumbersMeant
<1>1. \A i \in DOMAIN outf : Meant(outf[i])
  BY InSeq DEF UnitInv, AllMeant, Written, Plain
<1>2. ASSUME pc = "done", NEW n \in DOMAIN file
      PROVE  \E f \in Lines("file") : outf[f].n = n
  <2>1. PICK l \in Plain : l.k = "file" /\ l.n = n
    BY <1>2 DEF UnitInv, FilesWritten
  <2>2. l \in ToSet(outf)
    BY <1>2 DEF UnitInv, FilesWritten, Plain, TextOf
  <2>3. PICK f \in DOMAIN outf : l = outf[f]
    BY <2>2, InSeq
  <2>. QED  BY <2>1, <2>3 DEF Lines
<1>3. LocsMeant
  <2>. SUFFICES ASSUME pc = "done", NEW i \in Lines("func"), outf[i].loc # 0
                PROVE  \E f \in Lines("file") :
                         outf[f].n = outf[i].loc /\ src[outf[i].id].file = <<outf[f].name>>
    BY DEF LocsMeant
  <2>1. outf[i].loc \in DOMAIN file /\ src[outf[i].id].file = <<file[outf[i].loc]>>
    BY <1>1 DEF Meant, Lines
  <2>2. PICK f \in Lines("file") : outf[f].n = outf[i].loc
    BY <1>2, <2>1
  <2>3. file[outf[f].n] = outf[f].name
    BY <1>1 DEF Meant, Lines
  <2>. QED  BY <2>1, <2>2, <2>3
<1>4. FilesKnownInOrder
  BY DEF UnitInv, InOrder, FilesKnownInOrder, FilesKnown
<1>5. ConstantsDefined
  <2>. SUFFICES ASSUME pc = "done", NEW i \in Lines("ref")
                PROVE  LET fp == {f \in Lines("fp") : outf[f].n = outf[i].n}
                       IN  /\ Cardinality(fp) = 1
                           /\ \A f \in fp : IsPrefix(src[outf[i].id].consts[outf[i].at], outf[f].bits)
    BY DEF ConstantsDefined
  <2>. DEFINE fp == {f \in Lines("fp") : outf[f].n = outf[i].n}
  <2>1. outf[i].n \in DOMAIN stash /\ IsPrefix(src[outf[i].id].consts[outf[i].at], stash[outf[i].n])
    BY <1>1 DEF Meant, Lines
  <2>2. PICK f \in fp : TRUE
    BY <2>1 DEF UnitInv, ConstsOnce
  <2>3. \A g \in fp : g = f
    BY DEF UnitInv, ConstsOnce
  <2>4. fp = {f}
    BY <2>3
  <2>5. Cardinality(fp) = 1
    BY <2>4, FS_Singleton
  <2>6. \A g \in fp : outf[g].bits = stash[outf[i].n]
    BY <1>1 DEF Meant, Lines
  <2>. QED  BY <2>1, <2>5, <2>6
<1>. QED  BY <1>3, <1>4, <1>5 DEF NumbersMeant

\* The numbers of files and of constants in the text of a function are those
\* that the assembler finds defined, with the same file and bits, wherever the
\* permutation put the function (emit.c, main.c).
THEOREM NumbersMeantCorrect == Spec => []NumbersMeant
<1>1. UnitInv => NumbersMeant
  BY InvMeant
<1>. QED  BY <1>1, UnitInvariant, PTL

-----------------------------------------------------------------------------
(* Sequences of sequences.                                                  *)

FlatEq(y, ss) == y = [i \in 1 .. Len(ss) |-> IF i = 1 THEN ss[i] ELSE y[i - 1] \o ss[i]]

\* The run of FlattenSeq.
FlatRun(y, ss, D) ==
  /\ y \in [0 .. Len(ss) -> Seq(D)]
  /\ y[0] = << >> /\ \A n \in 1 .. Len(ss) : y[n] = y[n - 1] \o ss[n]

LEMMA UpTo ==
  ASSUME NEW L \in Nat, NEW T, 0 \in T, \A n \in 1 .. L : n - 1 \in T => n \in T
  PROVE  \A n \in 0 .. L : n \in T
<1>. SUFFICES ASSUME NEW w \in 0 .. L, w \notin T PROVE FALSE
  OBVIOUS
<1>. DEFINE U == {k \in Nat : k <= L /\ k \notin T}
<1>1. w \in U
  OBVIOUS
<1>2. PICK k \in U : \A j \in U : k <= j
  BY <1>1, LeastNat
<1>3. k # 0
  OBVIOUS
<1>4. k - 1 \in Nat /\ k - 1 <= L /\ ~ (k <= k - 1) /\ k \in 1 .. L
  BY <1>3
<1>5. k - 1 \in T
  BY <1>2, <1>4
<1>. QED  BY <1>4, <1>5

LEMMA FlatExists ==
  ASSUME NEW D, NEW ss \in Seq(Seq(D))
  PROVE  \E y : FlatRun(y, ss, D)
<1>. DEFINE L == Len(ss)
            upto(y, n) == /\ y \in [0 .. L -> Seq(D)] /\ y[0] = << >>
                          /\ \A k \in 1 .. L : k <= n => y[k] = y[k - 1] \o ss[k]
            T == {n \in 0 .. L : \E y : upto(y, n)}
<1>1. L \in Nat /\ \A n \in 1 .. L : ss[n] \in Seq(D)
  OBVIOUS
<1>2. 0 \in T
  <2>. DEFINE y == [k \in 0 .. L |-> << >>]
  <2>1. upto(y, 0)
    BY <1>1
  <2>. HIDE DEF y, upto
  <2>. QED  BY <1>1, <2>1
<1>3. ASSUME NEW n \in 1 .. L, n - 1 \in T PROVE n \in T
  <2>. PICK y : upto(y, n - 1)
    BY <1>3
  <2>. DEFINE e == y[n - 1] \o ss[n]
              g == [y EXCEPT ![n] = e]
  <2>1. n - 1 \in 0 .. L /\ n \in 0 .. L /\ y \in [0 .. L -> Seq(D)]
    BY <1>1
  <2>2. y[n - 1] \in Seq(D) /\ ss[n] \in Seq(D)
    BY <1>1, <2>1
  <2>3. e \in Seq(D)
    BY <2>2
  <2>. HIDE DEF e
  <2>4. g \in [0 .. L -> Seq(D)] /\ g[0] = << >> /\ g[n] = e
        /\ \A k \in 0 .. L : k # n => g[k] = y[k]
    BY <1>1, <2>1, <2>3
  <2>. HIDE DEF g
  <2>5. ASSUME NEW k \in 1 .. L, k <= n PROVE g[k] = g[k - 1] \o ss[k]
    <3>1. k \in 0 .. L /\ k - 1 \in 0 .. L /\ k - 1 # n
      BY <1>1, <2>5
    <3>2. CASE k = n
      BY <2>4, <3>1, <3>2 DEF e
    <3>3. CASE k # n
      <4>1. k <= n - 1
        BY <1>1, <2>5, <3>3
      <4>. QED  BY <2>4, <3>1, <3>3, <4>1
    <3>. QED  BY <3>2, <3>3
  <2>6. upto(g, n)
    BY <2>4, <2>5
  <2>. HIDE DEF upto
  <2>. QED  BY <2>1, <2>6
<1>4. \A n \in 0 .. L : n \in T
  <2>. HIDE DEF T, L
  <2>. QED  BY <1>1, <1>2, <1>3, UpTo
<1>5. L \in T
  <2>1. L \in 0 .. L
    BY <1>1
  <2>. HIDE DEF T, L
  <2>. QED  BY <1>4, <2>1
<1>6. PICK y : upto(y, L)
  BY <1>5
<1>7. FlatRun(y, ss, D)
  <2>1. \A k \in 1 .. L : k <= L
    BY <1>1
  <2>2. y \in [0 .. L -> Seq(D)] /\ y[0] = << >> /\ \A k \in 1 .. L : y[k] = y[k - 1] \o ss[k]
    BY <1>6, <2>1
  <2>. QED  BY <2>2 DEF FlatRun
<1>. QED  BY <1>7

LEMMA FlatIs ==
  ASSUME NEW D, NEW ss \in Seq(Seq(D))
  PROVE  \E y : FlatRun(y, ss, D) /\ FlattenSeq(ss) = y[Len(ss)]
<1>. DEFINE L == Len(ss)
            it == CHOOSE e : FlatEq(e, ss)
<1>1. L \in Nat /\ \A n \in 1 .. L : ss[n] \in Seq(D)
  OBVIOUS
<1>2. PICK y : FlatRun(y, ss, D)
  BY FlatExists
<1>3. CASE L = 0
  <2>1. FlattenSeq(ss) = ss
    BY <1>3, Zenon DEF FlattenSeq
  <2>2. ss = << >>
    BY <1>3
  <2>. QED  BY <1>2, <1>3, <2>1, <2>2 DEF FlatRun
<1>4. CASE L # 0
  <2>1. FlattenSeq(ss) = it[L]
    <3>1. Len(ss) # 0
      BY <1>4
    <3>. QED  BY <3>1, Zenon DEF FlattenSeq, FlatEq
  <2>. DEFINE g == [i \in 1 .. L |-> y[i]]
  <2>2. FlatEq(g, ss)
    <3>1. ASSUME NEW i \in 1 .. L PROVE y[i] = IF i = 1 THEN ss[i] ELSE g[i - 1] \o ss[i]
      <4>0. i \in 0 .. L /\ i - 1 \in 0 .. L
        BY <1>1
      <4>1. i \in 0 .. L /\ i - 1 \in 0 .. L /\ y[i] = y[i - 1] \o ss[i] /\ ss[i] \in Seq(D)
        BY ONLY <1>1, <1>2, <4>0, i \in 1 .. L DEF FlatRun
      <4>2. CASE i = 1
        <5>1. y[i - 1] = << >>
          BY <1>2, <4>2 DEF FlatRun
        <5>2. << >> \o ss[i] = ss[i]
          BY <4>1
        <5>. QED  BY <4>1, <4>2, <5>1, <5>2
      <4>3. CASE i # 1
        <5>1. i - 1 \in 1 .. L
          BY <1>1, <4>3
        <5>. QED  BY <4>1, <4>3, <5>1
      <4>. QED  BY <4>2, <4>3
    <3>2. g = [i \in 1 .. L |-> IF i = 1 THEN ss[i] ELSE g[i - 1] \o ss[i]]
      BY <3>1, Zenon
    <3>. QED  BY <3>2 DEF FlatEq
  <2>3. FlatEq(it, ss)
    <3>. HIDE DEF g
    <3>. QED  BY <2>2, Zenon
  <2>. HIDE DEF it, g
  <2>. DEFINE h == [n \in 0 .. L |-> IF n = 0 THEN << >> ELSE it[n]]
              T == {n \in 0 .. L : h[n] = y[n]}
  <2>4. \A n \in 1 .. L : it[n] = IF n = 1 THEN ss[n] ELSE it[n - 1] \o ss[n]
    BY <2>3 DEF FlatEq
  <2>5. 0 \in T
    BY <1>1, <1>2 DEF FlatRun
  <2>6. ASSUME NEW n \in 1 .. L, n - 1 \in T PROVE n \in T
    <3>0. y[n] = y[n - 1] \o ss[n]
      BY ONLY <1>2, n \in 1 .. L DEF FlatRun
    <3>1. n \in 0 .. L /\ n - 1 \in 0 .. L /\ h[n - 1] = y[n - 1] /\ ss[n] \in Seq(D) /\ h[n] = it[n]
          /\ y[n] = y[n - 1] \o ss[n]
      BY <1>1, <2>6, <3>0
    <3>2. CASE n = 1
      <4>1. y[n - 1] = << >>
        BY <1>2, <3>2 DEF FlatRun
      <4>2. << >> \o ss[n] = ss[n]
        BY <3>1
      <4>. QED  BY <2>4, <3>1, <3>2, <4>1, <4>2
    <3>3. CASE n # 1
      <4>1. h[n - 1] = it[n - 1]
        BY <1>1, <3>3
      <4>. QED  BY <2>4, <3>1, <3>3, <4>1
    <3>. QED  BY <3>2, <3>3
  <2>7. \A n \in 0 .. L : n \in T
    <3>. HIDE DEF T, L
    <3>. QED  BY <1>1, <2>5, <2>6, UpTo
  <2>8. it[L] = y[L]
    <3>1. L \in 0 .. L /\ L # 0
      BY <1>1, <1>4
    <3>2. L \in T
      BY <2>7, <3>1
    <3>. QED  BY <3>1, <3>2
  <2>. QED  BY <1>2, <2>1, <2>8
<1>. QED  BY <1>3, <1>4

Assoc(a, b, c) == (a \o b) \o c = a \o (b \o c)

LEMMA CatAssoc ==
  ASSUME NEW S, NEW a \in Seq(S), NEW b \in Seq(S), NEW c \in Seq(S)
  PROVE  Assoc(a, b, c)
BY SMTT(60) DEF Assoc

LEMMA FlatCat ==
  ASSUME NEW D, NEW a \in Seq(Seq(D)), NEW b \in Seq(Seq(D))
  PROVE  /\ FlattenSeq(a) \in Seq(D) /\ FlattenSeq(b) \in Seq(D)
         /\ FlattenSeq(a \o b) = FlattenSeq(a) \o FlattenSeq(b)
<1>. PICK s : s = a \o b
  OBVIOUS
<1>0. /\ s \in Seq(Seq(D)) /\ Len(s) = Len(a) + Len(b) /\ Len(a) \in Nat /\ Len(b) \in Nat
      /\ \A n \in 1 .. Len(a) : s[n] = a[n]
      /\ \A n \in 1 .. Len(b) : s[Len(a) + n] = b[n] /\ b[n] \in Seq(D)
  OBVIOUS
<1>1. PICK x : FlatRun(x, a, D) /\ FlattenSeq(a) = x[Len(a)]
  BY FlatIs
<1>2. PICK y : FlatRun(y, b, D) /\ FlattenSeq(b) = y[Len(b)]
  BY FlatIs
<1>3. PICK z : FlatRun(z, s, D) /\ FlattenSeq(s) = z[Len(s)]
  BY <1>0, FlatIs
<1>. DEFINE A == {n \in 0 .. Len(a) : z[n] = x[n]}
            B == {n \in 0 .. Len(b) : z[Len(a) + n] = FlattenSeq(a) \o y[n]}
<1>4. FlattenSeq(a) \in Seq(D) /\ FlattenSeq(b) \in Seq(D)
  <2>1. Len(a) \in 0 .. Len(a) /\ Len(b) \in 0 .. Len(b)
    BY <1>0
  <2>. QED  BY ONLY <1>1, <1>2, <2>1 DEF FlatRun
<1>5. \A n \in 0 .. Len(a) : n \in A
  <2>1. 0 \in A
    <3>1. x[0] = << >> /\ z[0] = << >>
      BY ONLY <1>1, <1>3 DEF FlatRun
    <3>. QED  BY <1>0, <3>1
  <2>2. ASSUME NEW n \in 1 .. Len(a), n - 1 \in A PROVE n \in A
    <3>1. n \in 1 .. Len(s) /\ n \in 0 .. Len(a)
      BY <1>0
    <3>2. z[n] = z[n - 1] \o s[n] /\ x[n] = x[n - 1] \o a[n]
      BY <1>1, <1>3, <3>1 DEF FlatRun
    <3>. QED  BY <1>0, <2>2, <3>1, <3>2
  <2>. HIDE DEF A
  <2>. QED  BY <1>0, <2>1, <2>2, UpTo
<1>6. \A n \in 0 .. Len(b) : n \in B
  <2>1. 0 \in B
    <3>1. Len(a) \in A /\ Len(a) + 0 = Len(a) /\ 0 \in 0 .. Len(b)
      BY <1>0, <1>5
    <3>2. FlattenSeq(a) \o << >> = FlattenSeq(a)
      BY <1>4
    <3>3. z[Len(a) + 0] = FlattenSeq(a) /\ y[0] = << >>
      BY <1>1, <1>2, <3>1 DEF FlatRun
    <3>. QED  BY <3>1, <3>2, <3>3
  <2>2. ASSUME NEW n \in 1 .. Len(b), n - 1 \in B PROVE n \in B
    <3>1. Len(a) + n \in 1 .. Len(s) /\ n \in 0 .. Len(b) /\ n - 1 \in 0 .. Len(b)
          /\ (Len(a) + n) - 1 = Len(a) + (n - 1)
      BY <1>0
    <3>2. z[Len(a) + n] = z[(Len(a) + n) - 1] \o s[Len(a) + n] /\ y[n] = y[n - 1] \o b[n]
      BY <1>2, <1>3, <3>1 DEF FlatRun
    <3>3. z[Len(a) + (n - 1)] = FlattenSeq(a) \o y[n - 1] /\ s[Len(a) + n] = b[n]
      BY <1>0, <2>2
    <3>4. Assoc(FlattenSeq(a), y[n - 1], b[n])
      <4>1. y[n - 1] \in Seq(D) /\ b[n] \in Seq(D)
        BY <1>0, <1>2, <3>1 DEF FlatRun
      <4>. QED  BY <1>4, <4>1, CatAssoc
    <3>5. z[Len(a) + n] = (FlattenSeq(a) \o y[n - 1]) \o b[n]
      BY <3>1, <3>2, <3>3
    <3>6. z[Len(a) + n] = FlattenSeq(a) \o y[n]
      BY <3>2, <3>4, <3>5, Zenon DEF Assoc
    <3>. QED  BY <3>1, <3>6
  <2>. HIDE DEF B
  <2>. QED  BY <1>0, <2>1, <2>2, UpTo
<1>7. FlattenSeq(s) = FlattenSeq(a) \o FlattenSeq(b)
  <2>1. Len(b) \in B
    BY <1>0, <1>6
  <2>. QED  BY <1>0, <1>2, <1>3, <2>1
<1>. QED  BY <1>4, <1>7

LEMMA FlatOne ==
  ASSUME NEW D, NEW e \in Seq(D)
  PROVE  FlattenSeq(<<e>>) = e /\ FlattenSeq(<< >>) = << >>
<1>1. ASSUME NEW ss \in Seq(Seq(D)), ss = << >> PROVE FlattenSeq(ss) = << >>
  <2>1. PICK y : FlatRun(y, ss, D) /\ FlattenSeq(ss) = y[Len(ss)]
    BY FlatIs
  <2>2. Len(ss) = 0
    BY <1>1
  <2>. QED  BY <2>1, <2>2 DEF FlatRun
<1>2. ASSUME NEW ss \in Seq(Seq(D)), ss = <<e>> PROVE FlattenSeq(ss) = e
  <2>1. PICK y : FlatRun(y, ss, D) /\ FlattenSeq(ss) = y[Len(ss)]
    BY FlatIs
  <2>2. Len(ss) = 1 /\ ss[1] = e
    BY <1>2
  <2>3. y[1] = y[1 - 1] \o e /\ y[0] = << >>
    BY <2>1, <2>2 DEF FlatRun
  <2>. QED  BY <2>1, <2>2, <2>3
<1>3. << >> \in Seq(Seq(D)) /\ <<e>> \in Seq(Seq(D))
  OBVIOUS
<1>. QED  BY <1>1, <1>2, <1>3

-----------------------------------------------------------------------------
(* What lines and items say.                                                *)

\* A sequence is known by its elements.
CatOf(S, a, b, L, c) ==
  /\ a \in Seq(S) /\ b \in Seq(S) /\ L \in Nat /\ c \in [1 .. L -> S] /\ L = Len(a) + Len(b)
  /\ \A n \in 1 .. Len(a) : c[n] = a[n]
  /\ \A n \in 1 .. Len(b) : c[Len(a) + n] = b[n]

LEMMA CatIs ==
  ASSUME NEW S, NEW a, NEW b, NEW L, NEW c, CatOf(S, a, b, L, c)
  PROVE  c = a \o b
<1>. USE DEF CatOf
<1>. DEFINE d == a \o b
<1>1. d \in Seq(S) /\ Len(d) = L /\ Len(a) \in Nat /\ Len(b) \in Nat
  OBVIOUS
<1>2. \A n \in 1 .. Len(a) : d[n] = a[n]
  OBVIOUS
<1>3. \A n \in 1 .. Len(b) : d[Len(a) + n] = b[n]
  OBVIOUS
<1>. HIDE DEF d
<1>4. ASSUME NEW n \in 1 .. L PROVE c[n] = d[n]
  <2>1. CASE n <= Len(a)
    <3>1. n \in 1 .. Len(a)
      BY <1>1, <2>1
    <3>. QED  BY <1>2, <3>1
  <2>2. CASE ~ (n <= Len(a))
    <3>1. n - Len(a) \in 1 .. Len(b) /\ Len(a) + (n - Len(a)) = n
      BY <1>1, <2>2
    <3>. QED  BY <1>3, <3>1
  <2>. QED  BY <2>1, <2>2
<1>5. d \in [1 .. L -> S]
  BY <1>1
<1>6. c = d
  BY <1>4, <1>5
<1>. QED  BY <1>6 DEF d

\* The lines of a text can be read.
CanRead(t) == IsSeq(t) /\ \A j \in DOMAIN t : Line(t[j]) \in Seq(Marks)

LEMMA SaidSeq ==
  ASSUME NEW t, CanRead(t)
  PROVE  /\ [j \in DOMAIN t |-> Line(t[j])] \in Seq(Seq(Marks))
         /\ Len([j \in DOMAIN t |-> Line(t[j])]) = Len(t)
         /\ Said(t) \in Seq(Marks)
<1>. DEFINE a == [j \in DOMAIN t |-> Line(t[j])]
<1>1. DOMAIN t = 1 .. Len(t) /\ Len(t) \in Nat
  BY SeqAt DEF CanRead
<1>2. a \in [1 .. Len(t) -> Seq(Marks)]
  BY <1>1 DEF CanRead
<1>. HIDE DEF a
<1>3. a \in Seq(Seq(Marks)) /\ Len(a) = Len(t)
  BY <1>1, <1>2
<1>4. FlattenSeq(a) \in Seq(Marks)
  BY <1>3, FlatCat
<1>. QED  BY <1>3, <1>4, Zenon DEF a, Said

LEMMA SaidCat ==
  ASSUME NEW s, NEW t, CanRead(s), CanRead(t)
  PROVE  CanRead(s \o t) /\ Said(s \o t) = Said(s) \o Said(t)
<1>. PICK u : u = s \o t
  OBVIOUS
<1>1. /\ IsSeq(u) /\ Len(u) = Len(s) + Len(t) /\ Len(s) \in Nat /\ Len(t) \in Nat
      /\ DOMAIN s = 1 .. Len(s) /\ DOMAIN t = 1 .. Len(t) /\ DOMAIN u = 1 .. Len(u)
      /\ \A i \in 1 .. Len(s) : u[i] = s[i]
      /\ \A i \in 1 .. Len(t) : u[Len(s) + i] = t[i]
  BY SeqCat DEF CanRead
<1>. DEFINE a == [j \in DOMAIN s |-> Line(s[j])]
            b == [j \in DOMAIN t |-> Line(t[j])]
            c == [j \in DOMAIN u |-> Line(u[j])]
<1>2. a \in Seq(Seq(Marks)) /\ b \in Seq(Seq(Marks)) /\ Len(a) = Len(s) /\ Len(b) = Len(t)
  BY SaidSeq
<1>3. \A n \in 1 .. Len(s) : c[n] = a[n]
  BY <1>1
<1>4. \A n \in 1 .. Len(t) : c[Len(s) + n] = b[n]
  BY <1>1
<1>5. ASSUME NEW j \in 1 .. Len(u) PROVE Line(u[j]) \in Seq(Marks)
  <2>1. CASE j <= Len(s)
    <3>1. j \in 1 .. Len(s)
      BY <1>1, <2>1
    <3>. QED  BY <1>1, <3>1 DEF CanRead
  <2>2. CASE ~ (j <= Len(s))
    <3>1. j - Len(s) \in 1 .. Len(t) /\ Len(s) + (j - Len(s)) = j
      BY <1>1, <2>2
    <3>2. u[j] = t[j - Len(s)]
      BY <1>1, <3>1
    <3>. QED  BY <1>1, <3>1, <3>2 DEF CanRead
  <2>. QED  BY <2>1, <2>2
<1>6. CanRead(u)
  BY <1>1, <1>5 DEF CanRead
<1>7. c \in [1 .. Len(u) -> Seq(Marks)]
  BY <1>1, <1>5
<1>. HIDE DEF a, b, c
<1>8. c = a \o b
  <2>1. Len(u) \in Nat /\ Len(u) = Len(a) + Len(b)
    BY <1>1, <1>2
  <2>2. /\ \A n \in 1 .. Len(a) : c[n] = a[n]
        /\ \A n \in 1 .. Len(b) : c[Len(a) + n] = b[n]
    BY <1>2, <1>3, <1>4
  <2>3. c \in [1 .. Len(u) -> Seq(Marks)]
    BY <1>7
  <2>4. CatOf(Seq(Marks), a, b, Len(u), c)
    BY ONLY <1>2, <2>1, <2>2, <2>3 DEF CatOf
  <2>. QED  BY <2>4, CatIs
<1>9. FlattenSeq(c) = FlattenSeq(a) \o FlattenSeq(b)
  BY <1>2, <1>8, FlatCat
<1>10. Said(u) = Said(s) \o Said(t)
  BY <1>9, Zenon DEF Said, a, b, c
<1>. QED  BY <1>6, <1>10

LEMMA SaidOne ==
  ASSUME NEW l, Line(l) \in Seq(Marks)
  PROVE  CanRead(<<l>>) /\ Said(<<l>>) = Line(l) /\ CanRead(<< >>) /\ Said(<< >>) = << >>
<1>1. IsSeq(<<l>>) /\ IsSeq(<< >>) /\ DOMAIN <<l>> = {1} /\ DOMAIN << >> = {}
  BY SeqOne
<1>2. <<l>>[1] = l
  OBVIOUS
<1>3. CanRead(<<l>>) /\ CanRead(<< >>)
  BY <1>1, <1>2 DEF CanRead
<1>4. [j \in DOMAIN <<l>> |-> Line(<<l>>[j])] = <<Line(l)>>
  <2>. DEFINE c == [j \in {1} |-> Line(<<l>>[j])]
  <2>1. c = <<Line(l)>>
    BY <1>2
  <2>. QED  BY <1>1, <2>1
<1>5. [j \in DOMAIN << >> |-> Line(<< >>[j])] = << >>
  OBVIOUS
<1>6. FlattenSeq(<<Line(l)>>) = Line(l) /\ FlattenSeq(<< >>) = << >>
  BY FlatOne
<1>. QED  BY <1>3, <1>4, <1>5, <1>6 DEF Said

\* A line that says nothing.
LEMMA SaidNothing ==
  ASSUME NEW l, l.k \in {"ref", "fp"}
  PROVE  Line(l) = << >> /\ Line(l) \in Seq(Marks)
<1>1. Line(l) = << >>
  BY DEF Line
<1>. QED  BY <1>1

LEMMA ZerosIs ==
  ASSUME NEW m \in Nat, NEW n \in Nat
  PROVE  Zeros(m) \in Seq(Marks) /\ Zeros(m) \o Zeros(n) = Zeros(m + n) /\ Zeros(0) = << >>
<1>. DEFINE z == [k |-> "zero"]
<1>1. z \in Marks
  BY DEF Marks
<1>. HIDE DEF z
<1>2. ASSUME NEW i \in Nat PROVE Zeros(i) \in Seq(Marks) /\ Len(Zeros(i)) = i
        /\ (\A j \in 1 .. i : Zeros(i)[j] = z) /\ Zeros(i) \in [1 .. i -> Marks]
  <2>1. Zeros(i) = [j \in 1 .. i |-> z]
    BY DEF Zeros, z
  <2>. QED  BY <1>1, <2>1
<1>3. Zeros(m + n) = Zeros(m) \o Zeros(n)
  <2>. DEFINE a == Zeros(m)
              b == Zeros(n)
              c == Zeros(m + n)
  <2>1. a \in Seq(Marks) /\ b \in Seq(Marks) /\ Len(a) = m /\ Len(b) = n
        /\ c \in [1 .. m + n -> Marks] /\ m + n \in Nat
    BY <1>2
  <2>2. (\A j \in 1 .. m : a[j] = z) /\ (\A j \in 1 .. n : b[j] = z) /\ \A j \in 1 .. m + n : c[j] = z
    BY <1>2
  <2>. HIDE DEF a, b, c
  <2>3. \A j \in 1 .. m : c[j] = a[j]
    BY <2>2
  <2>4. \A j \in 1 .. n : c[m + j] = b[j]
    BY <2>2
  <2>5. c = a \o b
    <3>1. (\A j \in 1 .. Len(a) : c[j] = a[j]) /\ \A j \in 1 .. Len(b) : c[Len(a) + j] = b[j]
      BY <2>1, <2>3, <2>4
    <3>2. m + n = Len(a) + Len(b)
      BY <2>1
    <3>3. CatOf(Marks, a, b, m + n, c)
      BY ONLY <2>1, <3>1, <3>2 DEF CatOf
    <3>. QED  BY <3>3, CatIs
  <2>. QED  BY <2>5 DEF a, b, c
<1>4. Zeros(0) = << >>
  BY <1>2
<1>. QED  BY <1>2, <1>3, <1>4

LEMMA ItemIs ==
  ASSUME NEW i \in Items
  PROVE  /\ Item(i) \in Seq(Marks)
         /\ i.k = "z" => i.n \in Nat /\ Item(i) = Zeros(i.n)
         /\ i.k # "z" => i \in Tokens /\ Item(i) = <<[k |-> i.k]>>
         /\ i \in Tokens => i.k # "z"
<1>1. CASE i \in Tokens
  <2>1. i.k \in {"num", "sym", "sym+", "quoted"}
    BY <1>1 DEF Tokens
  <2>2. [k |-> i.k] \in Marks
    BY <2>1 DEF Marks
  <2>. QED  BY <1>1, <2>1, <2>2 DEF Item
<1>2. CASE i \in [k : {"z"}, n : Nat]
  <2>1. i.k = "z" /\ i.n \in Nat
    BY <1>2
  <2>2. i \notin Tokens
    BY <2>1 DEF Tokens
  <2>. QED  BY <2>1, <2>2, ZerosIs DEF Item
<1>. QED  BY <1>1, <1>2 DEF Items

LEMMA BytesSeq ==
  ASSUME NEW t \in Seq(Items)
  PROVE  /\ [j \in DOMAIN t |-> Item(t[j])] \in Seq(Seq(Marks))
         /\ Len([j \in DOMAIN t |-> Item(t[j])]) = Len(t)
         /\ Bytes(t) \in Seq(Marks)
<1>. DEFINE a == [j \in DOMAIN t |-> Item(t[j])]
<1>1. DOMAIN t = 1 .. Len(t) /\ Len(t) \in Nat /\ \A j \in 1 .. Len(t) : t[j] \in Items
  OBVIOUS
<1>2. a \in [1 .. Len(t) -> Seq(Marks)]
  BY <1>1, ItemIs
<1>. HIDE DEF a
<1>3. a \in Seq(Seq(Marks)) /\ Len(a) = Len(t)
  BY <1>1, <1>2
<1>4. FlattenSeq(a) \in Seq(Marks)
  BY <1>3, FlatCat
<1>. QED  BY <1>3, <1>4, Zenon DEF a, Bytes

LEMMA BytesAppend ==
  ASSUME NEW t \in Seq(Items), NEW i \in Items
  PROVE  /\ Append(t, i) \in Seq(Items) /\ Bytes(Append(t, i)) = Bytes(t) \o Item(i)
         /\ Bytes(<< >>) = << >>
<1>. PICK u : u = Append(t, i)
  OBVIOUS
<1>1. /\ u \in Seq(Items) /\ Len(u) = Len(t) + 1 /\ Len(t) \in Nat /\ Len(u) \in Nat
      /\ DOMAIN t = 1 .. Len(t) /\ DOMAIN u = 1 .. Len(u)
      /\ (\A j \in 1 .. Len(t) : u[j] = t[j]) /\ u[Len(t) + 1] = i
  OBVIOUS
<1>. DEFINE a == [j \in DOMAIN t |-> Item(t[j])]
            b == <<Item(i)>>
            c == [j \in DOMAIN u |-> Item(u[j])]
<1>2. a \in Seq(Seq(Marks)) /\ c \in Seq(Seq(Marks)) /\ Len(a) = Len(t) /\ Len(c) = Len(u)
      /\ Item(i) \in Seq(Marks)
  BY <1>1, BytesSeq, ItemIs
<1>3. \A n \in 1 .. Len(t) : c[n] = a[n]
  BY <1>1
<1>4. c[Len(t) + 1] = Item(i)
  BY <1>1
<1>5. b \in Seq(Seq(Marks)) /\ Len(b) = 1 /\ b[1] = Item(i)
  BY <1>2
<1>. HIDE DEF a, b, c
<1>6. c = a \o b
  <2>1. c \in [1 .. Len(u) -> Seq(Marks)] /\ Len(u) = Len(a) + Len(b)
    BY <1>1, <1>2, <1>5
  <2>2. \A n \in 1 .. Len(b) : c[Len(a) + n] = b[n]
    BY <1>2, <1>4, <1>5
  <2>3. \A n \in 1 .. Len(a) : c[n] = a[n]
    BY <1>2, <1>3
  <2>4. Len(u) \in Nat
    BY <1>1
  <2>5. CatOf(Seq(Marks), a, b, Len(u), c)
    BY ONLY <1>2, <1>5, <2>1, <2>2, <2>3, <2>4 DEF CatOf
  <2>. QED  BY <2>5, CatIs
<1>7. FlattenSeq(c) = FlattenSeq(a) \o FlattenSeq(b)
  BY <1>2, <1>5, <1>6, FlatCat
<1>8. FlattenSeq(b) = Item(i)
  BY <1>2, FlatOne DEF b
<1>9. Bytes(u) = Bytes(t) \o Item(i)
  BY <1>7, <1>8, Zenon DEF Bytes, a, c
<1>10. Bytes(<< >>) = << >>
  <2>1. [j \in DOMAIN << >> |-> Item(<< >>[j])] = << >>
    OBVIOUS
  <2>2. FlattenSeq(<< >>) = << >>
    BY <1>2, FlatOne
  <2>. QED  BY <2>1, <2>2 DEF Bytes
<1>. QED  BY <1>1, <1>9, <1>10

LEMMA SectionAppend ==
  ASSUME NEW t \in Seq(Items), NEW i \in Items
  PROVE  /\ Section(t) \in {".data", ".bss"} /\ Section(<< >>) = ".bss"
         /\ i.k = "z" => Section(Append(t, i)) = Section(t)
         /\ i.k # "z" => Section(Append(t, i)) = ".data"
<1>. PICK u : u = Append(t, i)
  OBVIOUS
<1>1. /\ Len(t) \in Nat /\ DOMAIN t = 1 .. Len(t) /\ DOMAIN u = 1 .. Len(t) + 1
      /\ (\A j \in 1 .. Len(t) : u[j] = t[j]) /\ u[Len(t) + 1] = i
  OBVIOUS
<1>2. \A j : j \in DOMAIN u <=> j \in DOMAIN t \/ j = Len(t) + 1
  BY <1>1
<1>3. (\A j \in DOMAIN u : u[j].k = "z") <=> i.k = "z" /\ \A j \in DOMAIN t : t[j].k = "z"
  BY <1>1, <1>2
<1>4. DOMAIN << >> = {}
  OBVIOUS
<1>. QED  BY <1>3, <1>4 DEF Section

-----------------------------------------------------------------------------
(* What the definitions are to say, and what the buffers say.               *)

LEMMA SubSeqIs ==
  ASSUME NEW S, NEW t \in Seq(S), NEW e \in S
  PROVE  SubSeq(t, 1, Len(t)) = t /\ SubSeq(Append(t, e), 1, Len(t)) = t
OBVIOUS

\* The first n of some sequences, one after the other.
Run(f, n) == FlattenSeq([i \in 1 .. n |-> f[i]])

LEMMA RunNext ==
  ASSUME NEW D, NEW L \in Nat, NEW f \in [1 .. L -> Seq(D)], NEW n \in 0 .. L
  PROVE  /\ Run(f, n) \in Seq(D) /\ Run(f, 0) = << >>
         /\ n # 0 => Run(f, n) = Run(f, n - 1) \o f[n]
<1>0. n \in Nat /\ n <= L
  OBVIOUS
<1>1. ASSUME NEW m \in 0 .. L
      PROVE  [i \in 1 .. m |-> f[i]] \in Seq(Seq(D)) /\ Len([i \in 1 .. m |-> f[i]]) = m
             /\ [i \in 1 .. m |-> f[i]] \in [1 .. m -> Seq(D)]
  <2>. DEFINE a == [i \in 1 .. m |-> f[i]]
  <2>0. m \in Nat
    OBVIOUS
  <2>1. a \in [1 .. m -> Seq(D)]
    OBVIOUS
  <2>. HIDE DEF a
  <2>2. a \in Seq(Seq(D)) /\ Len(a) = m
    BY <2>0, <2>1
  <2>. QED  BY <2>1, <2>2 DEF a
<1>2. \A m \in 0 .. L : Run(f, m) \in Seq(D)
  BY <1>1, FlatCat DEF Run
<1>3. Run(f, 0) = << >>
  <2>1. [i \in 1 .. 0 |-> f[i]] = << >>
    OBVIOUS
  <2>2. << >> \in Seq(D)
    OBVIOUS
  <2>3. FlattenSeq(<< >>) = << >>
    BY <2>2, FlatOne
  <2>. QED  BY <2>1, <2>3 DEF Run
<1>4. ASSUME n # 0 PROVE Run(f, n) = Run(f, n - 1) \o f[n]
  <2>. DEFINE a == [i \in 1 .. n - 1 |-> f[i]]
              b == <<f[n]>>
              c == [i \in 1 .. n |-> f[i]]
  <2>1. n - 1 \in 0 .. L /\ n \in 1 .. L /\ f[n] \in Seq(D)
    BY <1>0, <1>4
  <2>2. a \in Seq(Seq(D)) /\ Len(a) = n - 1 /\ c \in [1 .. n -> Seq(D)]
    BY <1>1, <2>1
  <2>3. b \in Seq(Seq(D)) /\ Len(b) = 1 /\ b[1] = f[n]
    BY <2>1
  <2>4. (\A i \in 1 .. n - 1 : c[i] = a[i]) /\ c[n] = f[n]
    BY <1>0, <2>1
  <2>. HIDE DEF a, b, c
  <2>5. \A i \in 1 .. Len(a) : c[i] = a[i]
    BY <2>2, <2>4
  <2>6. \A i \in 1 .. Len(b) : c[Len(a) + i] = b[i]
    BY <1>0, <2>2, <2>3, <2>4
  <2>7. n = Len(a) + Len(b)
    BY <1>0, <2>2, <2>3
  <2>8. CatOf(Seq(D), a, b, n, c)
    BY ONLY <1>0, <2>2, <2>3, <2>5, <2>6, <2>7 DEF CatOf
  <2>9. c = a \o b
    BY <2>8, CatIs
  <2>10. FlattenSeq(c) = FlattenSeq(a) \o FlattenSeq(b)
    BY <2>2, <2>3, <2>9, FlatCat
  <2>11. FlattenSeq(b) = f[n]
    BY <2>1, FlatOne DEF b
  <2>. QED  BY <2>10, <2>11, Zenon DEF Run, a, c
<1>. QED  BY <1>2, <1>3, <1>4

LEMMA HeadingIs ==
  ASSUME NEW i \in Nat, NEW sec \in {".data", ".bss"}
  PROVE  Heading(i, sec) \in Seq(Marks) /\ <<[k |-> "end"]>> \in Seq(Marks)
         /\ <<[k |-> "func"]>> \in Seq(Marks)
<1>1. [k |-> "data", id |-> i, sec |-> sec] \in Marks /\ [k |-> "end"] \in Marks /\ [k |-> "func"] \in Marks
  BY DEF Marks
<1>. QED  BY <1>1 DEF Heading

LEMMA DefinitionIs ==
  ASSUME UnitInv, Readable, FilesNamed, NEW i \in DOMAIN src
  PROVE  Definition(i) \in Seq(Marks)
<1>1. src[i].k \in {"file", "func", "data"} /\ i \in Nat
  BY SeqAt DEF Readable, UnitInv, Shapes
<1>2. CASE src[i].k = "file"
  <2>1. src[i].name \in ToSet(file)
    BY <1>2 DEF FilesNamed, Of
  <2>2. src[i].name \in Files
    BY <2>1 DEF UnitInv, TypeOK
  <2>3. [k |-> "file", name |-> src[i].name] \in Marks
    BY <2>2 DEF Marks
  <2>4. <<[k |-> "file", name |-> src[i].name]>> \in Seq(Marks) /\ << >> \in Seq(Marks)
    BY <2>3
  <2>. QED  BY <1>2, <2>4 DEF Definition
<1>3. CASE src[i].k = "func"
  <2>1. <<[k |-> "func"]>> \in Seq(Marks)
    BY <1>1, HeadingIs
  <2>. QED  BY <1>3, <2>1 DEF Definition
<1>4. CASE src[i].k = "data"
  <2>1. src[i].items \in Seq(Items)
    BY <1>4 DEF Readable, Of
  <2>2. Bytes(src[i].items) \in Seq(Marks)
    BY <2>1, BytesSeq
  <2>3. Section(src[i].items) \in {".data", ".bss"}
    BY DEF Section
  <2>4. Heading(i, Section(src[i].items)) \in Seq(Marks) /\ <<[k |-> "end"]>> \in Seq(Marks)
    BY <1>1, <2>3, HeadingIs
  <2>5. Definition(i) = Heading(i, Section(src[i].items)) \o Bytes(src[i].items) \o <<[k |-> "end"]>>
    BY <1>4 DEF Definition
  <2>. QED  BY <2>2, <2>4, <2>5
<1>. QED  BY <1>1, <1>2, <1>3, <1>4

LEMMA WantedNext ==
  ASSUME UnitInv, Readable, FilesNamed, NEW n \in 0 .. Len(src)
  PROVE  /\ Wanted(n) \in Seq(Marks) /\ Wanted(0) = << >>
         /\ n # 0 => Wanted(n) = Wanted(n - 1) \o Definition(n)
<1>. DEFINE L == Len(src)
            g == [i \in 1 .. L |-> Definition(i)]
<1>1. L \in Nat /\ DOMAIN src = 1 .. L
  BY SeqAt DEF UnitInv, Shapes
<1>2. g \in [1 .. L -> Seq(Marks)]
  BY <1>1, DefinitionIs
<1>3. ASSUME NEW m \in 0 .. L PROVE Wanted(m) = Run(g, m)
  <2>1. \A i \in 1 .. m : Definition(i) = g[i]
    BY <1>1
  <2>. HIDE DEF g
  <2>2. [i \in 1 .. m |-> Definition(i)] = [i \in 1 .. m |-> g[i]]
    BY <2>1
  <2>. QED  BY <2>2, Zenon DEF Wanted, Run
<1>4. n # 0 => n - 1 \in 0 .. L /\ n \in 1 .. L
  BY <1>1
<1>5. n # 0 => g[n] = Definition(n)
  BY <1>4
<1>6. L \in Nat /\ 0 \in 0 .. L /\ n \in 0 .. L /\ g \in [1 .. L -> Seq(Marks)]
  BY <1>1, <1>2
<1>. HIDE DEF g, L
<1>7. /\ Run(g, n) \in Seq(Marks) /\ Run(g, 0) = << >>
      /\ n # 0 => Run(g, n) = Run(g, n - 1) \o g[n]
  BY ONLY <1>6, RunNext, ZenonT(60)
<1>. QED  BY <1>3, <1>4, <1>5, <1>6, <1>7

\* Definitions that stay say what they said.
SameDef(i) ==
  /\ src'[i].k = src[i].k
  /\ src[i].k = "file" => src'[i].name = src[i].name
  /\ src[i].k = "data" => src'[i].items = src[i].items

LEMMA DefinitionKept ==
  ASSUME NEW i \in Nat, \A h \in 1 .. i : SameDef(h), src[i].k \in {"file", "func", "data"}, i # 0
  PROVE  Definition(i)' = Definition(i)
<1>1. SameDef(i) /\ \A h \in 1 .. i - 1 : SameDef(h)
  OBVIOUS
<1>2. src[i].k = "file" => (Named(i)' <=> Named(i))
  BY <1>1 DEF SameDef, Named
<1>3. CASE src[i].k = "file"
  BY <1>1, <1>2, <1>3 DEF SameDef, Definition
<1>4. CASE src[i].k = "func"
  BY <1>1, <1>4 DEF SameDef, Definition
<1>5. CASE src[i].k = "data"
  BY <1>1, <1>5 DEF SameDef, Definition
<1>. QED  BY <1>3, <1>4, <1>5

LEMMA WantedKept ==
  ASSUME UnitInv, Readable, NEW n \in 0 .. Len(src), \A h \in 1 .. n : SameDef(h)
  PROVE  Wanted(n)' = Wanted(n)
<1>1. Len(src) \in Nat /\ DOMAIN src = 1 .. Len(src)
  BY SeqAt DEF UnitInv, Shapes
<1>2. ASSUME NEW i \in 1 .. n PROVE Definition(i)' = Definition(i)
  <2>1. i \in Nat /\ i # 0 /\ i \in DOMAIN src /\ \A h \in 1 .. i : h \in 1 .. n
    BY <1>1
  <2>2. src[i].k \in {"file", "func", "data"}
    BY <2>1 DEF Readable
  <2>. QED  BY <2>1, <2>2, DefinitionKept
<1>3. [i \in 1 .. n |-> Definition(i)'] = [i \in 1 .. n |-> Definition(i)]
  BY <1>2
<1>. QED  BY <1>3, Zenon DEF Wanted

-----------------------------------------------------------------------------
LEMMA CanReadAll ==
  ASSUME UnitInv, Readable
  PROVE  /\ CanRead(outf)
         /\ \A i \in DOMAIN rawout : CanRead(rawout[i])
         /\ \A i \in DOMAIN funout : CanRead(funout[i])
<1>1. IsSeq(outf) /\ Buffers(rawout) /\ Buffers(funout)
  BY DEF UnitInv, Shapes
<1>2. /\ \A j \in DOMAIN outf : outf[j] \in Written
      /\ \A i \in DOMAIN rawout : \A j \in DOMAIN rawout[i] : rawout[i][j] \in Written
      /\ \A i \in DOMAIN funout : \A j \in DOMAIN funout[i] : funout[i][j] \in Written
  BY InSeq DEF Written, Plain, TextOf
<1>. QED  BY <1>1, <1>2 DEF Readable, CanRead, Buffers

LEMMA PiecesNext ==
  ASSUME UnitInv, Readable, NEW n \in 0 .. Len(rawout)
  PROVE  /\ Pieces(n) \in Seq(Marks) /\ Pieces(0) = << >>
         /\ n # 0 => Piece(n) \in Seq(Marks) /\ Pieces(n) = Pieces(n - 1) \o Piece(n)
<1>. DEFINE L == Len(rawout)
            g == [i \in 1 .. L |-> Piece(i)]
<1>1. L \in Nat /\ DOMAIN rawout = 1 .. L
  BY SeqAt DEF UnitInv, Shapes, Buffers
<1>2. ASSUME NEW i \in 1 .. L PROVE Piece(i) \in Seq(Marks)
  <2>1. CanRead(rawout[i])
    BY <1>1, CanReadAll
  <2>2. Said(rawout[i]) \in Seq(Marks)
    BY <2>1, SaidSeq
  <2>3. <<[k |-> "func"]>> \in Seq(Marks) /\ << >> \in Seq(Marks)
    BY HeadingIs
  <2>4. PICK e : e = IF i <= Len(funout) THEN <<[k |-> "func"]>> ELSE << >>
    OBVIOUS
  <2>5. e \in Seq(Marks)
    BY <2>3, <2>4
  <2>. QED  BY <2>2, <2>4, <2>5 DEF Piece
<1>3. ASSUME NEW m \in 0 .. L PROVE Pieces(m) = Run(g, m)
  <2>1. \A i \in 1 .. m : Piece(i) = g[i]
    BY <1>1
  <2>. HIDE DEF g
  <2>2. [i \in 1 .. m |-> Piece(i)] = [i \in 1 .. m |-> g[i]]
    BY <2>1
  <2>. QED  BY <2>2, Zenon DEF Pieces, Run
<1>4. n # 0 => n - 1 \in 0 .. L /\ n \in 1 .. L
  BY <1>1
<1>5. n # 0 => g[n] = Piece(n)
  BY <1>4
<1>6. L \in Nat /\ 0 \in 0 .. L /\ n \in 0 .. L /\ g \in [1 .. L -> Seq(Marks)]
  BY <1>1, <1>2
<1>. HIDE DEF g, L
<1>7. /\ Run(g, n) \in Seq(Marks) /\ Run(g, 0) = << >>
      /\ n # 0 => Run(g, n) = Run(g, n - 1) \o g[n]
  BY ONLY <1>6, RunNext
<1>. QED  BY <1>2, <1>3, <1>4, <1>5, <1>6, <1>7

LEMMA PiecesAll ==
  UnitInv /\ Readable => \A m \in 0 .. Len(rawout) : m # 0 => Pieces(m) = Pieces(m - 1) \o Piece(m)
BY PiecesNext

LEMMA PiecesKept ==
  ASSUME NEW n \in Nat, \A i \in 1 .. n : Piece(i)' = Piece(i)
  PROVE  Pieces(n)' = Pieces(n)
<1>1. [i \in 1 .. n |-> Piece(i)'] = [i \in 1 .. n |-> Piece(i)]
  OBVIOUS
<1>. QED  BY <1>1, Zenon DEF Pieces

LEMMA EmittedIs ==
  ASSUME UnitInv, Readable
  PROVE  Emitted \in Seq(Marks) /\ Said(outf) \in Seq(Marks)
<1>1. Len(rawout) \in Nat
  BY SeqAt DEF UnitInv, Shapes, Buffers
<1>2. Pieces(Len(rawout)) \in Seq(Marks)
  <2>1. Len(rawout) \in 0 .. Len(rawout)
    BY <1>1
  <2>. QED  BY <2>1, PiecesNext
<1>. QED  BY <1>2, CanReadAll, SaidSeq DEF Emitted

\* Lines that are put say what they say after all that was said.
LEMMA EmittedPut ==
  ASSUME UnitInv, Readable, UnitInv', Readable', pc \in {"top", "data"},
         UNCHANGED <<funcperm, funout>>, NEW lines, CanRead(lines), Put(lines)
  PROVE  /\ Emitted' = Emitted \o Said(lines) /\ Said(lines) \in Seq(Marks)
         /\ funcperm => outf' = outf
<1>1. Said(lines) \in Seq(Marks)
  BY SaidSeq
<1>2. CASE ~ funcperm
  <2>1. outf' = outf \o lines
    BY <1>2 DEF Put
  <2>2. Said(outf \o lines) = Said(outf) \o Said(lines)
    BY CanReadAll, SaidCat
  <2>3. Said(outf') = Said(outf) \o Said(lines)
    BY <2>1, <2>2
  <2>. QED  BY <1>1, <1>2, <2>3 DEF Emitted
<1>3. CASE funcperm
  <2>. PICK n : n = Len(rawout)
    OBVIOUS
  <2>1. /\ outf' = outf /\ rawout' = [rawout EXCEPT ![n] = @ \o lines]
        /\ Len(funout) \in Nat /\ n = Len(funout) + 1 /\ Len(rawout') = Len(rawout')
    BY <1>3, SeqAt DEF Put, UnitInv, TypeOK, Shapes, Buffers
  <2>2. n \in DOMAIN rawout /\ IsSeq(rawout) /\ DOMAIN rawout = 1 .. n
    <3>1. IsSeq(rawout) /\ DOMAIN rawout = 1 .. Len(rawout)
      BY SeqAt DEF UnitInv, Shapes, Buffers
    <3>. QED  BY <2>1, <3>1
  <2>3. Len(rawout') = n /\ rawout'[n] = rawout[n] \o lines
        /\ \A i \in 1 .. n : i # n => rawout'[i] = rawout[i]
    <3>1. Len(rawout') = Len(rawout)
      BY <1>3, <2>1 DEF UnitInv, TypeOK
    <3>. QED  BY <2>1, <2>2, <3>1
  <2>4. \A i \in 1 .. n - 1 : Piece(i)' = Piece(i)
    <3>1. ASSUME NEW i \in 1 .. n - 1 PROVE rawout'[i] = rawout[i]
      BY <2>1, <2>3
    <3>. QED  BY <3>1 DEF Piece
  <2>5. Pieces(n - 1)' = Pieces(n - 1)
    <3>1. n - 1 \in Nat
      BY <2>1
    <3>. QED  BY <2>4, <3>1, PiecesKept
  <2>6. CanRead(rawout[n])
    BY <2>2, CanReadAll
  <2>7. Said(rawout[n]) \in Seq(Marks) /\ Said(rawout[n] \o lines) = Said(rawout[n]) \o Said(lines)
    BY <2>6, SaidSeq, SaidCat
  <2>8. ~ (n <= Len(funout))
    BY <2>1
  <2>9. Piece(n) = Said(rawout[n])
    <3>1. Piece(n) = Said(rawout[n]) \o << >>
      BY <2>8 DEF Piece
    <3>. QED  BY <2>7, <3>1
  <2>10. Piece(n)' = Said(rawout[n]) \o Said(lines)
    <3>1. Piece(n)' = Said(rawout[n] \o lines) \o << >>
      BY <2>3, <2>8 DEF Piece
    <3>2. Said(rawout[n]) \o Said(lines) \in Seq(Marks)
      BY <1>1, <2>7
    <3>. QED  BY <2>7, <3>1, <3>2
  <2>11. Pieces(n - 1) \in Seq(Marks) /\ Pieces(n) = Pieces(n - 1) \o Piece(n)
    <3>1. n \in 0 .. Len(rawout) /\ n # 0 /\ n - 1 \in 0 .. Len(rawout)
      BY <2>1
    <3>. QED  BY <3>1, PiecesNext
  <2>12. Pieces(n)' = Pieces(n - 1)' \o Piece(n)'
    <3>1. n \in 0 .. Len(rawout') /\ n # 0
      BY <2>1, <2>3
    <3>2. \A m \in 0 .. Len(rawout') : m # 0 => Pieces(m)' = Pieces(m - 1)' \o Piece(m)'
      <4>1. UnitInv' /\ Readable' => (\A m \in 0 .. Len(rawout) : m # 0 => Pieces(m) = Pieces(m - 1) \o Piece(m))'
        BY PiecesAll, PTL
      <4>. QED  BY <4>1
    <3>. QED  BY <3>1, <3>2
  <2>13. Assoc(Pieces(n - 1), Said(rawout[n]), Said(lines))
    BY <1>1, <2>7, <2>11, CatAssoc
  <2>14. Pieces(n)' = Pieces(n) \o Said(lines)
    BY <2>5, <2>9, <2>10, <2>11, <2>12, <2>13, Zenon DEF Assoc
  <2>15. Emitted' = Pieces(n)' /\ Emitted = Pieces(n)
    BY <1>3, <2>3 DEF Emitted
  <2>. QED  BY <1>1, <2>1, <2>14, <2>15
<1>. QED  BY <1>2, <1>3

-----------------------------------------------------------------------------
(* The code of functions.                                                   *)

\* CodeIn, of definitions d.
CodeBy(text, d) ==
  /\ \A i \in DOMAIN text : text[i].k = "func" =>
       \A n \in DOMAIN d[text[i].id].consts :
         i + n \in DOMAIN text /\ IsRef(text[i + n], text[i].id, n)
  /\ \A i \in DOMAIN text : text[i].k = "ref" =>
       \E f \in DOMAIN text : text[f].k = "func" /\ text[f].id = text[i].id /\ i = f + text[i].at

LEMMA CodeInIs ==
  ASSUME NEW t
  PROVE  (CodeIn(t) <=> CodeBy(t, src)) /\ (CodeIn(t)' <=> CodeBy(t, src'))
BY DEF CodeIn, CodeBy

LEMMA CodeKept ==
  ASSUME NEW t, NEW d, NEW e, CodeBy(t, d),
         \A i \in DOMAIN t : t[i].k = "func" => e[t[i].id].consts = d[t[i].id].consts
  PROVE  CodeBy(t, e)
BY DEF CodeBy

LEMMA CodeNone ==
  ASSUME NEW t, NEW d, \A i \in DOMAIN t : t[i].k \notin CodeLines
  PROVE  CodeBy(t, d)
BY DEF CodeBy, CodeLines

\* Lines whose names are names.
CodeGiven(t, d) ==
  /\ IsSeq(t)
  /\ \A i \in DOMAIN t : t[i].k = "func" =>
       t[i].id \in DOMAIN d /\ d[t[i].id].k = "func" /\ IsSeq(d[t[i].id].consts)
  /\ \A i \in DOMAIN t : t[i].k = "ref" => t[i].at \in Nat

LEMMA CodeCat ==
  ASSUME NEW s, NEW t, NEW d, CodeGiven(s, d), CodeGiven(t, d), CodeBy(s, d), CodeBy(t, d)
  PROVE  CodeBy(s \o t, d)
<1>. PICK u : u = s \o t
  OBVIOUS
<1>1. /\ Len(u) = Len(s) + Len(t) /\ Len(s) \in Nat /\ Len(t) \in Nat
      /\ DOMAIN s = 1 .. Len(s) /\ DOMAIN t = 1 .. Len(t) /\ DOMAIN u = 1 .. Len(u)
      /\ \A i \in 1 .. Len(s) : u[i] = s[i]
      /\ \A i \in 1 .. Len(t) : u[Len(s) + i] = t[i]
  BY SeqCat DEF CodeGiven
<1>2. ASSUME NEW i \in DOMAIN u
      PROVE  \/ i \in DOMAIN s /\ u[i] = s[i]
             \/ \E j \in DOMAIN t : i = Len(s) + j /\ u[i] = t[j]
  <2>1. CASE i <= Len(s)
    <3>1. i \in 1 .. Len(s)
      BY <1>1, <2>1
    <3>. QED  BY <1>1, <3>1
  <2>2. CASE ~ (i <= Len(s))
    <3>1. i - Len(s) \in 1 .. Len(t) /\ Len(s) + (i - Len(s)) = i
      BY <1>1, <2>2
    <3>. QED  BY <1>1, <3>1
  <2>. QED  BY <2>1, <2>2
<1>3. /\ \A i \in DOMAIN s : i \in DOMAIN u /\ u[i] = s[i] /\ i \in Nat
      /\ \A j \in DOMAIN t : Len(s) + j \in DOMAIN u /\ u[Len(s) + j] = t[j] /\ j \in Nat
  BY <1>1
<1>4. ASSUME NEW i \in DOMAIN u, u[i].k = "func", NEW n \in DOMAIN d[u[i].id].consts
      PROVE  i + n \in DOMAIN u /\ IsRef(u[i + n], u[i].id, n)
  <2>1. CASE i \in DOMAIN s /\ u[i] = s[i]
    <3>1. i + n \in DOMAIN s /\ IsRef(s[i + n], s[i].id, n)
      BY <1>4, <2>1 DEF CodeBy
    <3>. QED  BY <1>3, <2>1, <3>1
  <2>2. ASSUME NEW j \in DOMAIN t, i = Len(s) + j, u[i] = t[j]
        PROVE  i + n \in DOMAIN u /\ IsRef(u[i + n], u[i].id, n)
    <3>1. j + n \in DOMAIN t /\ IsRef(t[j + n], t[j].id, n)
      BY <1>4, <2>2 DEF CodeBy
    <3>2. n \in Nat
      <4>1. IsSeq(d[t[j].id].consts)
        BY <1>4, <2>2 DEF CodeGiven
      <4>2. n \in DOMAIN d[t[j].id].consts
        BY <2>2
      <4>. QED  BY <4>1, <4>2, SeqAt
    <3>3. i + n = Len(s) + (j + n)
      BY <1>1, <1>3, <2>2, <3>2
    <3>. QED  BY <1>3, <2>2, <3>1, <3>3
  <2>. QED  BY <1>2, <2>1, <2>2
<1>5. ASSUME NEW i \in DOMAIN u, u[i].k = "ref"
      PROVE  \E f \in DOMAIN u : u[f].k = "func" /\ u[f].id = u[i].id /\ i = f + u[i].at
  <2>1. CASE i \in DOMAIN s /\ u[i] = s[i]
    <3>1. PICK f \in DOMAIN s : s[f].k = "func" /\ s[f].id = s[i].id /\ i = f + s[i].at
      BY <1>5, <2>1 DEF CodeBy
    <3>. QED  BY <1>3, <2>1, <3>1
  <2>2. ASSUME NEW j \in DOMAIN t, i = Len(s) + j, u[i] = t[j]
        PROVE  \E f \in DOMAIN u : u[f].k = "func" /\ u[f].id = u[i].id /\ i = f + u[i].at
    <3>1. PICK f \in DOMAIN t : t[f].k = "func" /\ t[f].id = t[j].id /\ j = f + t[j].at
      BY <1>5, <2>2 DEF CodeBy
    <3>2. PICK m : m = t[j].at
      OBVIOUS
    <3>3. i = (Len(s) + f) + m
      <4>1. m \in Nat
        BY <1>5, <2>2, <3>2 DEF CodeGiven
      <4>. QED  BY <1>1, <1>3, <2>2, <3>1, <3>2, <4>1
    <3>. QED  BY <1>3, <2>2, <3>1, <3>2, <3>3
  <2>. QED  BY <1>2, <2>1, <2>2
<1>6. CodeBy(u, d)
  BY <1>4, <1>5 DEF CodeBy
<1>. QED  BY <1>6

LEMMA CodesGiven ==
  ASSUME UnitInv
  PROVE  /\ CodeGiven(outf, src)
         /\ \A n \in DOMAIN rawout : CodeGiven(rawout[n], src)
         /\ \A n \in DOMAIN funout : CodeGiven(funout[n], src)
<1>1. ASSUME NEW t, IsSeq(t), \A i \in DOMAIN t : t[i] \in Written PROVE CodeGiven(t, src)
  <2>1. ASSUME NEW i \in DOMAIN t, t[i].k = "func"
        PROVE  t[i].id \in DOMAIN src /\ src[t[i].id].k = "func" /\ IsSeq(src[t[i].id].consts)
    <3>1. t[i].id \in Of("func")
      BY <1>1, <2>1 DEF UnitInv, AllMeant, Meant
    <3>. QED  BY <3>1 DEF UnitInv, Definitions, Of
  <2>2. ASSUME NEW i \in DOMAIN t, t[i].k = "ref" PROVE t[i].at \in Nat
    <3>1. t[i].id \in Of("func") /\ t[i].at \in DOMAIN src[t[i].id].consts
      BY <1>1, <2>2 DEF UnitInv, AllMeant, Meant
    <3>2. IsSeq(src[t[i].id].consts)
      BY <3>1 DEF UnitInv, Definitions
    <3>. QED  BY <3>1, <3>2, SeqAt
  <2>. QED  BY <1>1, <2>1, <2>2 DEF CodeGiven
<1>2. IsSeq(outf) /\ Buffers(rawout) /\ Buffers(funout)
  BY DEF UnitInv, Shapes
<1>3. /\ \A j \in DOMAIN outf : outf[j] \in Written
      /\ \A i \in DOMAIN rawout : \A j \in DOMAIN rawout[i] : rawout[i][j] \in Written
      /\ \A i \in DOMAIN funout : \A j \in DOMAIN funout[i] : funout[i][j] \in Written
  BY InSeq DEF Written, Plain, TextOf
<1>. QED  BY <1>1, <1>2, <1>3 DEF Buffers

LEMMA NoConsts ==
  UnitInv /\ pc \notin {"fin", "done"} => Lines("fp") = {} /\ ConstsLast
<1>. SUFFICES ASSUME UnitInv, pc \notin {"fin", "done"} PROVE Lines("fp") = {} /\ ConstsLast
  OBVIOUS
<1>1. \A l \in Written : l.k # "fp"
  BY DEF UnitInv, ConstsOnce
<1>2. \A j \in DOMAIN outf : outf[j] \in Written
  BY InSeq DEF Written, Plain
<1>3. Lines("fp") = {}
  BY <1>1, <1>2 DEF Lines
<1>. QED  BY <1>3 DEF ConstsLast

\* Lines at the end of the output.
LEMMA OutGrows ==
  ASSUME IsSeq(outf), NEW t, IsSeq(t), outf' = outf \o t
  PROVE  /\ Len(outf) \in Nat /\ DOMAIN outf = 1 .. Len(outf) /\ DOMAIN t = 1 .. Len(t) /\ Len(t) \in Nat
         /\ \A kind : \A i \in Lines(kind) : i \in Lines(kind)' /\ outf'[i] = outf[i] /\ i \in 1 .. Len(outf)
         /\ \A kind : \A i \in Lines(kind)' :
              \/ i \in Lines(kind) /\ outf'[i] = outf[i]
              \/ \E j \in DOMAIN t : t[j].k = kind /\ i = Len(outf) + j /\ outf'[i] = t[j]
         /\ \A j \in DOMAIN t : Len(outf) + j \in Lines(t[j].k)' /\ outf'[Len(outf) + j] = t[j]
<1>. PICK u : u = outf \o t
  OBVIOUS
<1>1. /\ Len(u) = Len(outf) + Len(t) /\ Len(outf) \in Nat /\ Len(t) \in Nat
      /\ DOMAIN outf = 1 .. Len(outf) /\ DOMAIN t = 1 .. Len(t) /\ DOMAIN u = 1 .. Len(u)
      /\ \A i \in 1 .. Len(outf) : u[i] = outf[i]
      /\ \A i \in 1 .. Len(t) : u[Len(outf) + i] = t[i]
  BY SeqCat
<1>2. ASSUME NEW i \in DOMAIN u
      PROVE  \/ i \in DOMAIN outf /\ u[i] = outf[i]
             \/ \E j \in DOMAIN t : i = Len(outf) + j /\ u[i] = t[j]
  <2>1. CASE i <= Len(outf)
    <3>1. i \in 1 .. Len(outf)
      BY <1>1, <2>1
    <3>. QED  BY <1>1, <3>1
  <2>2. CASE ~ (i <= Len(outf))
    <3>1. i - Len(outf) \in 1 .. Len(t) /\ Len(outf) + (i - Len(outf)) = i
      BY <1>1, <2>2
    <3>. QED  BY <1>1, <3>1
  <2>. QED  BY <2>1, <2>2
<1>3. /\ \A i \in DOMAIN outf : i \in DOMAIN u /\ u[i] = outf[i]
      /\ \A j \in DOMAIN t : Len(outf) + j \in DOMAIN u /\ u[Len(outf) + j] = t[j]
  BY <1>1
<1>4. \A kind, i : i \in Lines(kind)' <=> i \in DOMAIN u /\ u[i].k = kind
  BY DEF Lines
<1>5. \A kind, i : i \in Lines(kind) <=> i \in DOMAIN outf /\ outf[i].k = kind
  BY DEF Lines
<1>6. outf' = u
  OBVIOUS
<1>7. ASSUME NEW kind, NEW i \in Lines(kind)
      PROVE  i \in Lines(kind)' /\ u[i] = outf[i] /\ i \in 1 .. Len(outf)
  BY <1>1, <1>3, <1>4, <1>5
<1>9. ASSUME NEW j \in DOMAIN t PROVE Len(outf) + j \in Lines(t[j].k)' /\ u[Len(outf) + j] = t[j]
  BY <1>3, <1>4
<1>10. \A kind : \A i \in Lines(kind) : i \in Lines(kind)' /\ outf'[i] = outf[i] /\ i \in 1 .. Len(outf)
  BY <1>6, <1>7
<1>11. ASSUME NEW kind, NEW i \in Lines(kind)'
       PROVE  \/ i \in Lines(kind) /\ outf'[i] = outf[i]
              \/ \E j \in DOMAIN t : t[j].k = kind /\ i = Len(outf) + j /\ outf'[i] = t[j]
  <2>1. i \in DOMAIN u /\ u[i].k = kind
    BY <1>4, <1>11
  <2>2. outf'[i] = u[i]
    BY <1>6
  <2>3. CASE i \in DOMAIN outf /\ u[i] = outf[i]
    BY <1>5, <2>1, <2>2, <2>3
  <2>4. ASSUME NEW j \in DOMAIN t, i = Len(outf) + j, u[i] = t[j]
        PROVE  \E h \in DOMAIN t : t[h].k = kind /\ i = Len(outf) + h /\ outf'[i] = t[h]
    BY <2>1, <2>2, <2>4
  <2>. QED  BY <1>2, <2>1, <2>3, <2>4
<1>12. \A j \in DOMAIN t : Len(outf) + j \in Lines(t[j].k)' /\ outf'[Len(outf) + j] = t[j]
  BY <1>6, <1>9
<1>. QED  BY <1>1, <1>10, <1>11, <1>12

\* Lines that are not of a function do not disturb the code.
LEMMA PlainStep ==
  ASSUME UnitInv, UnitInv', TextInv, pc \in {"top", "data"}, pc' \in {"top", "data"},
         UNCHANGED <<funcperm, funout>>, Of("func")' = Of("func"),
         \A i \in Of("func") : src'[i] = src[i],
         NEW lines, IsSeq(lines), \A j \in DOMAIN lines : lines[j].k \notin CodeLines \cup {"fp"},
         Put(lines)
  PROVE  CodeRight' /\ OpenCode' /\ EachOnce' /\ ConstsLast'
<1>1. ConstsLast' /\ OpenCode'
  <2>1. (UnitInv /\ pc \notin {"fin", "done"} => Lines("fp") = {} /\ ConstsLast)'
    BY NoConsts, PTL
  <2>. QED  BY <2>1 DEF OpenCode
<1>2. IsSeq(outf) /\ Buffers(rawout)
  BY DEF UnitInv, Shapes
<1>3. CodeGiven(outf, src) /\ (\A n \in DOMAIN funout : CodeGiven(funout[n], src))
  BY CodesGiven
<1>4. CodeGiven(lines, src) /\ CodeBy(lines, src)
  BY CodeNone DEF CodeGiven, CodeLines
<1>5. \A i \in DOMAIN src : src[i].k = "func" => src'[i] = src[i]
  BY DEF Of
<1>6. ASSUME NEW t, CodeGiven(t, src), CodeBy(t, src) PROVE CodeIn(t)'
  <2>1. \A i \in DOMAIN t : t[i].k = "func" => src'[t[i].id].consts = src[t[i].id].consts
    BY <1>5, <1>6 DEF CodeGiven
  <2>2. CodeBy(t, src')
    BY <1>6, <2>1, CodeKept
  <2>. QED  BY <2>2, CodeInIs
<1>7. CodeBy(outf, src) /\ \A n \in DOMAIN funout : CodeBy(funout[n], src)
  BY CodeInIs DEF TextInv, CodeRight
<1>8. \A n \in DOMAIN funout : CodeIn(funout[n])'
  <2>1. ASSUME NEW n \in DOMAIN funout PROVE CodeIn(funout[n])'
    <3>1. PICK t : t = funout[n]
      OBVIOUS
    <3>2. CodeIn(t)'
      BY <1>3, <1>6, <1>7, <3>1
    <3>3. funout'[n] = t
      BY <3>1
    <3>. QED  BY <3>2, <3>3 DEF CodeIn
  <2>. QED  BY <2>1
<1>9. CASE funcperm
  <2>1. outf' = outf /\ rawout' = [rawout EXCEPT ![Len(rawout)] = @ \o lines]
    BY <1>9 DEF Put
  <2>2. CodeIn(outf)'
    <3>1. PICK t : t = outf
      OBVIOUS
    <3>2. CodeIn(t)'
      BY <1>3, <1>6, <1>7, <3>1
    <3>. QED  BY <2>1, <3>1, <3>2 DEF CodeIn
  <2>3. ASSUME NEW n \in DOMAIN rawout', NEW i \in DOMAIN rawout'[n] PROVE rawout'[n][i].k \notin CodeLines
    <3>1. n \in DOMAIN rawout /\ IsSeq(rawout[n])
      BY <1>2, <2>1 DEF Buffers
    <3>2. CASE n # Len(rawout)
      <4>1. rawout'[n] = rawout[n]
        BY <2>1, <3>1, <3>2
      <4>. QED  BY <3>1, <4>1 DEF TextInv, CodeRight
    <3>3. CASE n = Len(rawout)
      <4>1. PICK s : s = rawout[n]
        OBVIOUS
      <4>2. rawout'[n] = s \o lines /\ IsSeq(s)
        BY <2>1, <3>1, <3>3, <4>1
      <4>3. \A j \in DOMAIN s : s[j].k \notin CodeLines
        BY <3>1, <4>1 DEF TextInv, CodeRight
      <4>4. rawout'[n][i] \in ToSet(s) \cup ToSet(lines)
        <5>1. rawout'[n][i] \in ToSet(s \o lines)
          BY <4>2, InSeq
        <5>. QED  BY <4>2, <5>1, SeqCat
      <4>. QED  BY <4>3, <4>4, InSeq
    <3>. QED  BY <3>2, <3>3
  <2>4. CodeRight'
    BY <1>8, <2>2, <2>3 DEF TextInv, CodeRight
  <2>5. Lines("func")' = Lines("func") /\ OutIds' = OutIds
    BY <2>1 DEF Lines, OutIds
  <2>6. EachOnce'
    BY <1>9, <2>1, <2>5 DEF TextInv, EachOnce, FunId
  <2>. QED  BY <1>1, <2>4, <2>6
<1>10. CASE ~ funcperm
  <2>1. outf' = outf \o lines /\ rawout' = rawout
    BY <1>10 DEF Put
  <2>2. CodeIn(outf)'
    <3>1. PICK t : t = outf \o lines
      OBVIOUS
    <3>2. CodeBy(t, src)
      BY <1>3, <1>4, <1>7, <3>1, CodeCat
    <3>3. \A i \in DOMAIN t : t[i].k = "func" => src'[t[i].id].consts = src[t[i].id].consts
      <4>1. ASSUME NEW i \in DOMAIN t, t[i].k = "func" PROVE t[i] \in ToSet(outf)
        <5>1. t[i] \in ToSet(outf) \cup ToSet(lines)
          BY <1>2, <3>1, <4>1, InSeq, SeqCat
        <5>. QED  BY <4>1, <5>1, InSeq DEF CodeLines
      <4>. QED  BY <1>3, <1>5, <4>1, InSeq DEF CodeGiven
    <3>4. CodeBy(t, src')
      BY <3>2, <3>3, CodeKept
    <3>5. outf' = t
      BY <2>1, <3>1
    <3>. QED  BY <3>4, <3>5, CodeInIs DEF CodeIn
  <2>3. Lines("func")' = Lines("func") /\ \A i \in Lines("func") : outf'[i] = outf[i]
    <3>1. /\ \A i \in Lines("func") : i \in Lines("func")' /\ outf'[i] = outf[i]
          /\ \A i \in Lines("func")' :
               \/ i \in Lines("func")
               \/ \E j \in DOMAIN lines : lines[j].k = "func"
      BY <1>2, <2>1, OutGrows
    <3>. QED  BY <3>1 DEF CodeLines
  <2>4. CodeRight'
    BY <1>8, <2>1, <2>2 DEF TextInv, CodeRight
  <2>5. OutIds' = OutIds
    BY <2>3 DEF OutIds
  <2>6. EachOnce'
    BY <1>10, <2>3, <2>5 DEF TextInv, EachOnce
  <2>. QED  BY <1>1, <2>4, <2>6
<1>. QED  BY <1>9, <1>10

-----------------------------------------------------------------------------
(* Data definitions and the text.                                           *)

LEMMA PutNothing ==
  ASSUME UnitInv, pc \in {"top", "data"}, UNCHANGED <<rawout, outf>>
  PROVE  Put(<< >>) /\ CanRead(<< >>) /\ Said(<< >>) = << >>
<1>1. IsSeq(outf) /\ Buffers(rawout) /\ IsSeq(rawout) /\ Len(funout) \in Nat
  BY SeqAt DEF UnitInv, Shapes, Buffers
<1>2. ASSUME funcperm PROVE Put(<< >>)
  <2>1. Len(rawout) \in DOMAIN rawout
    <3>1. Len(rawout) = Len(funout) + 1 /\ DOMAIN rawout = 1 .. Len(rawout)
      BY <1>1, <1>2, SeqAt DEF UnitInv, TypeOK
    <3>. QED  BY <1>1, <3>1
  <2>2. PICK e : e = rawout[Len(rawout)]
    OBVIOUS
  <2>3. e \o << >> = e
    BY <1>1, <2>1, <2>2 DEF Buffers, IsSeq
  <2>4. [rawout EXCEPT ![Len(rawout)] = @ \o << >>] = rawout
    <3>1. [rawout EXCEPT ![Len(rawout)] = rawout[Len(rawout)]] = rawout
      BY <1>1, <2>1 DEF IsSeq
    <3>. QED  BY <2>2, <2>3, <3>1
  <2>5. rawout' = rawout /\ outf' = outf
    OBVIOUS
  <2>6. rawout' = [rawout EXCEPT ![Len(rawout)] = @ \o << >>]
    BY <2>4, <2>5
  <2>. QED  BY <1>2, <2>5, <2>6 DEF Put
<1>3. ASSUME ~ funcperm PROVE Put(<< >>)
  <2>1. rawout' = rawout /\ outf' = outf
    OBVIOUS
  <2>2. outf \o << >> = outf
    BY <1>1 DEF IsSeq
  <2>. QED  BY <1>3, <2>1, <2>2 DEF Put
<1>4. CanRead(<< >>) /\ Said(<< >>) = << >>
  <2>1. PICK l : l = [k |-> "fp"]
    OBVIOUS
  <2>2. Line(l) \in Seq(Marks)
    BY <2>1, SaidNothing
  <2>. QED  BY <2>2, SaidOne
<1>. QED  BY <1>2, <1>3, <1>4

\* The definitions, as Readable has them.
SrcRead ==
  /\ \A i \in DOMAIN src : src[i].k \in {"file", "func", "data"}
  /\ \A i \in Of("data") : src[i].items \in Seq(Items)

LEMMA ReadableStep ==
  ASSUME Readable, NEW lines, CanRead(lines), Written' = Written \cup ToSet(lines), SrcRead'
  PROVE  Readable'
<1>1. \A l \in ToSet(lines) : Line(l) \in Seq(Marks)
  BY InSeq DEF CanRead
<1>. QED  BY <1>1 DEF Readable, SrcRead

LEMMA DataTextStep ==
  ASSUME UnitInv, UnitInv', TextInv, pc \in {"top", "data"}, pc' \in {"top", "data"}, DataInput,
         UNCHANGED <<funcperm, funout, file>>, NEW lines, CanRead(lines),
         \A j \in DOMAIN lines : lines[j].k \notin CodeLines \cup {"fp"}, Put(lines),
         Readable', OpenData', pc' = "top" => Emitted' = Wanted(Len(src))'
  PROVE  TextInv'
<1>1. CodeRight' /\ OpenCode' /\ EachOnce' /\ ConstsLast'
  BY PlainStep DEF DataInput, CanRead
<1>2. FilesNamed'
  BY DEF TextInv, FilesNamed, DataInput
<1>3. SaysAll'
  <2>1. funcperm' => outf' = << >>
    BY DEF TextInv, SaysAll, Put
  <2>. QED  BY <2>1 DEF SaysAll
<1>. QED  BY <1>1, <1>2, <1>3 DEF TextInv

LEMMA LastIs ==
  ASSUME NEW S, NEW t \in Seq(S), t # << >>
  PROVE  /\ SubSeq(t, 1, Len(t) - 1) \in Seq(S)
         /\ t = Append(SubSeq(t, 1, Len(t) - 1), t[Len(t)])
<1>. PICK n : n = Len(t)
  OBVIOUS
<1>1. n \in Nat /\ n # 0 /\ n \in 1 .. n /\ n - 1 \in Nat
  OBVIOUS
<1>2. t \in [1 .. n -> S]
  OBVIOUS
<1>3. \A i \in 1 .. n : t[i] \in S
  BY <1>2
<1>4. PICK s : s = SubSeq(t, 1, n - 1)
  OBVIOUS
<1>5. s = [i \in 1 .. n - 1 |-> t[i]]
  <2>1. s = [i \in 1 .. ((n - 1) - 1) + 1 |-> t[(i + 1) - 1]]
    BY <1>4
  <2>2. ((n - 1) - 1) + 1 = n - 1
    BY <1>1
  <2>3. \A i \in 1 .. n - 1 : (i + 1) - 1 = i
    OBVIOUS
  <2>. QED  BY <2>1, <2>2, <2>3
<1>6. \A i \in 1 .. n - 1 : i \in 1 .. n
  BY <1>1
<1>7. s \in [1 .. n - 1 -> S] /\ \A i \in 1 .. n - 1 : s[i] = t[i]
  BY <1>3, <1>5, <1>6
<1>8. s \in Seq(S) /\ Len(s) = n - 1
  BY <1>1, <1>7
<1>9. PICK b : b = <<t[n]>>
  OBVIOUS
<1>10. b \in Seq(S) /\ Len(b) = 1 /\ b[1] = t[n]
  BY <1>1, <1>3, <1>9
<1>11. CatOf(S, s, b, n, t)
  <2>1. n = Len(s) + Len(b) /\ \A i \in 1 .. Len(s) : t[i] = s[i]
    BY <1>1, <1>7, <1>8, <1>10
  <2>2. \A i \in 1 .. Len(b) : t[Len(s) + i] = b[i]
    BY <1>1, <1>8, <1>10
  <2>. QED  BY ONLY <1>1, <1>2, <1>8, <1>10, <2>1, <2>2 DEF CatOf
<1>12. t = s \o b
  BY <1>11, CatIs
<1>13. Append(s, t[n]) = s \o b
  BY <1>8, <1>9
<1>. QED  BY <1>4, <1>8, <1>12, <1>13

\* The state in which a data definition is open.
ItemsOf == src[Len(src)].items

LEMMA OpenFacts ==
  ASSUME UnitInv, TextInv, pc = "data"
  PROVE  /\ Len(src) \in Nat \ {0} /\ Len(src) \in DOMAIN src /\ src[Len(src)].k = "data"
         /\ ItemsOf \in Seq(Items) /\ Handled \in Seq(Items)
         /\ cur = NoItem => Handled = ItemsOf
         /\ cur # NoItem => cur \in Tokens /\ ItemsOf = Append(Handled, cur)
         /\ Wanted(Len(src) - 1) \in Seq(Marks)
         /\ Wanted(Len(src)) = Wanted(Len(src) - 1) \o Definition(Len(src))
<1>1. Len(src) \in Of("data") /\ IsSeq(src)
  BY DEF UnitInv, Definitions, Shapes
<1>2. Len(src) \in DOMAIN src /\ src[Len(src)].k = "data" /\ Len(src) \in Nat /\ DOMAIN src = 1 .. Len(src)
  BY <1>1, SeqAt DEF Of
<1>3. Len(src) \in Nat \ {0}
  BY <1>2
<1>4. ItemsOf \in Seq(Items)
  BY <1>1 DEF TextInv, Readable, ItemsOf
<1>5. PICK t \in Seq(Items) : t = ItemsOf
  BY <1>4
<1>6. ASSUME cur = NoItem PROVE Handled = ItemsOf /\ Handled \in Seq(Items)
  <2>1. Len(t) - 0 = Len(t) /\ SubSeq(t, 1, Len(t)) = t
    OBVIOUS
  <2>2. Handled = SubSeq(t, 1, Len(t) - 0)
    BY <1>5, <1>6 DEF Handled, ItemsOf
  <2>3. Handled = t /\ Handled = ItemsOf
    BY <1>5, <2>1, <2>2
  <2>4. Handled \in Seq(Items)
    BY <2>3
  <2>. QED  BY ONLY <1>6, <2>3, <2>4
<1>7. ASSUME cur # NoItem PROVE Handled \in Seq(Items) /\ cur \in Tokens /\ ItemsOf = Append(Handled, cur)
  <2>1. Handled = SubSeq(t, 1, Len(t) - 1)
    BY <1>5, <1>7 DEF Handled, ItemsOf
  <2>2. t # << >> /\ cur = t[Len(t)] /\ cur \in Tokens
    BY <1>5, <1>7 DEF TextInv, OpenData, ItemsOf, UnitInv, TypeOK
  <2>3. SubSeq(t, 1, Len(t) - 1) \in Seq(Items) /\ t = Append(SubSeq(t, 1, Len(t) - 1), t[Len(t)])
    BY <2>2, LastIs
  <2>4. ItemsOf = Append(Handled, cur)
    BY ONLY <1>5, <2>1, <2>2, <2>3
  <2>5. Handled \in Seq(Items)
    BY ONLY <2>1, <2>3
  <2>. QED  BY ONLY <1>7, <2>2, <2>4, <2>5
<1>8. Wanted(Len(src) - 1) \in Seq(Marks) /\ Wanted(Len(src)) = Wanted(Len(src) - 1) \o Definition(Len(src))
  <2>1. Len(src) - 1 \in 0 .. Len(src) /\ Len(src) \in 0 .. Len(src) /\ Len(src) # 0
    BY <1>3
  <2>. QED  BY <2>1, WantedNext DEF TextInv
<1>. QED  BY <1>2, <1>3, <1>4, <1>6, <1>7, <1>8

LEMMA DatStartText ==
  ASSUME UnitInv, UnitInv', TextInv, DatStart
  PROVE  TextInv'
<1>1. /\ pc = "top" /\ pc' = "data" /\ zero' = 0
      /\ src' = Append(src, [k |-> "data", items |-> << >>])
      /\ UNCHANGED <<funcperm, cur, file, curfile, stash, rawout, funout, ord, left, owed, outf>>
  BY DEF DatStart, bufs
<1>2. DataInput
  BY <1>1, DataNew, ReadingFacts
<1>3. Put(<< >>) /\ CanRead(<< >>) /\ Said(<< >>) = << >>
  BY <1>1, PutNothing
<1>4. PICK d : d = [k |-> "data", items |-> << >>]
  OBVIOUS
<1>5. d.k = "data" /\ d.items = << >> /\ src' = Append(src, d)
  BY <1>1, <1>4
<1>6. /\ IsSeq(src') /\ Len(src) \in Nat /\ Len(src') = Len(src) + 1
      /\ DOMAIN src = 1 .. Len(src) /\ DOMAIN src' = 1 .. Len(src) + 1
      /\ \A i \in DOMAIN src : src'[i] = src[i]
      /\ src'[Len(src) + 1] = d
      /\ Of("data")' = Of("data") \cup {Len(src) + 1}
  BY <1>5, SrcAppend, ReadingFacts, <1>1
<1>7. \A i \in DOMAIN src' : i \in DOMAIN src \/ i = Len(src) + 1
  BY <1>6
<1>8. SrcRead'
  <2>1. \A i \in DOMAIN src' : src'[i].k \in {"file", "func", "data"}
    BY <1>5, <1>6, <1>7 DEF TextInv, Readable
  <2>2. << >> \in Seq(Items) /\ Of("data") \subseteq DOMAIN src
    BY DEF Of
  <2>3. \A i \in Of("data")' : src'[i].items \in Seq(Items)
    BY <1>5, <1>6, <2>2 DEF TextInv, Readable
  <2>. QED  BY <2>1, <2>3 DEF SrcRead
<1>9. Readable'
  <2>1. ToSet(<< >>) = {} /\ Written' = Written
    BY <1>1, SeqOne DEF Written, Plain
  <2>. QED  BY <1>3, <1>8, <2>1, ReadableStep DEF TextInv
<1>10. Emitted' = Emitted
  BY <1>1, <1>9 DEF Emitted, Pieces, Piece
<1>11. PICK n : n = Len(src)
  OBVIOUS
<1>12. Wanted(n)' = Wanted(n)
  <2>1. n \in 0 .. Len(src) /\ \A h \in 1 .. n : SameDef(h)
    BY <1>6, <1>11 DEF SameDef
  <2>. QED  BY <2>1, WantedKept DEF TextInv
<1>13. OpenData'
  <2>1. cur = NoItem /\ cur' = NoItem /\ Emitted = Wanted(n)
    BY <1>1, <1>11 DEF TextInv, OpenData, SaysAll
  <2>2. Len(src') - 1 = n /\ src'[Len(src')].items = << >>
    BY <1>5, <1>6, <1>11
  <2>3. Handled' = << >>
    <3>1. Handled' = SubSeq(<< >>, 1, Len(<< >>) - 0)
      BY <2>1, <2>2 DEF Handled
    <3>2. Len(<< >>) - 0 = 0 /\ SubSeq(<< >>, 1, 0) = << >>
      OBVIOUS
    <3>. QED  BY <3>1, <3>2
  <2>4. Bytes(<< >>) = << >> /\ Zeros(0) = << >> /\ Section(<< >>) = ".bss"
    <3>1. [k |-> "num"] \in Items /\ << >> \in Seq(Items)
      BY DEF Items, Tokens
    <3>. QED  BY <3>1, BytesAppend, SectionAppend, ZerosIs
  <2>5. Emitted' = Wanted(Len(src) - 1)'
    BY <1>10, <1>12, <2>1, <2>2
  <2>6. zero' # -1
    BY <1>1
  <2>. QED  BY <1>1, <2>1, <2>3, <2>4, <2>5, <2>6 DEF OpenData
<1>. QED  BY <1>1, <1>2, <1>3, <1>9, <1>13, DataTextStep

LEMMA HandledNext ==
  ASSUME NEW t \in Seq(Items), NEW e \in Items
  PROVE  /\ ItemsOf' = t /\ cur' = NoItem => Handled' = t
         /\ ItemsOf' = Append(t, e) /\ cur' # NoItem => Handled' = t
<1>1. Len(t) \in Nat /\ Len(t) - 0 = Len(t) /\ Len(Append(t, e)) - 1 = Len(t)
  OBVIOUS
<1>2. SubSeq(t, 1, Len(t)) = t /\ SubSeq(Append(t, e), 1, Len(t)) = t
  BY SubSeqIs
<1>3. ASSUME ItemsOf' = t, cur' = NoItem PROVE Handled' = t
  <2>1. Handled' = SubSeq(t, 1, Len(t) - 0)
    BY <1>3 DEF Handled, ItemsOf
  <2>. QED  BY ONLY <1>1, <1>2, <2>1
<1>4. ASSUME ItemsOf' = Append(t, e), cur' # NoItem PROVE Handled' = t
  <2>1. Handled' = SubSeq(Append(t, e), 1, Len(Append(t, e)) - 1)
    BY <1>4 DEF Handled, ItemsOf
  <2>. QED  BY ONLY <1>1, <1>2, <2>1
<1>. QED  BY <1>3, <1>4

LEMMA ReadText ==
  ASSUME UnitInv, TextInv, pc = "data", pc' = "data", NEW item \in Items, Read(item)
  PROVE  /\ DataInput /\ SrcRead' /\ Len(src') = Len(src)
         /\ ItemsOf' = Append(ItemsOf, item)
         /\ Wanted(Len(src) - 1)' = Wanted(Len(src) - 1)
<1>. PICK n : n = Len(src)
  OBVIOUS
<1>1. DataInput
  BY DataRead, ReadingFacts
<1>2. n \in Nat \ {0} /\ n \in DOMAIN src /\ src[n].k = "data" /\ src[n].items \in Seq(Items)
      /\ IsSeq(src) /\ DOMAIN src = 1 .. n
  BY OpenFacts, ReadingFacts, SeqAt DEF ItemsOf
<1>3. DOMAIN src[n] = {"k", "items"}
  BY <1>2 DEF UnitInv, Definitions, Of
<1>4. PICK d : d = [src[n] EXCEPT !.items = Append(@, item)]
  OBVIOUS
<1>5. d.k = "data" /\ d.items = Append(src[n].items, item)
  BY <1>2, <1>3, <1>4
<1>6. src' = [src EXCEPT ![n] = d]
  BY <1>4 DEF Read
<1>7. /\ Len(src') = n /\ DOMAIN src' = DOMAIN src
      /\ \A i \in DOMAIN src : i # n => src'[i] = src[i]
      /\ src'[n] = d /\ \A kind : Of(kind)' = Of(kind)
  BY <1>2, <1>5, <1>6, SrcChange
<1>8. SrcRead'
  <2>1. \A i \in DOMAIN src' : src'[i].k \in {"file", "func", "data"}
    BY <1>5, <1>7 DEF TextInv, Readable
  <2>2. d.items \in Seq(Items)
    BY <1>2, <1>5
  <2>3. Of("data") \subseteq DOMAIN src
    BY DEF Of
  <2>4. \A i \in Of("data")' : src'[i].items \in Seq(Items)
    BY <1>7, <2>2, <2>3 DEF TextInv, Readable
  <2>. QED  BY <2>1, <2>4 DEF SrcRead
<1>9. ItemsOf' = Append(ItemsOf, item)
  BY <1>5, <1>7 DEF ItemsOf
<1>10. Wanted(Len(src) - 1)' = Wanted(Len(src) - 1)
  <2>. PICK m : m = n - 1
    OBVIOUS
  <2>1. m \in 0 .. Len(src) /\ m \in Nat
    BY <1>2
  <2>2. \A h \in 1 .. m : h \in DOMAIN src /\ h # n
    BY <1>2
  <2>3. \A h \in 1 .. m : SameDef(h)
    BY <1>7, <2>2 DEF SameDef
  <2>4. Wanted(m)' = Wanted(m)
    BY <2>1, <2>3, WantedKept DEF TextInv
  <2>. QED  BY <1>7, <2>4
<1>. QED  BY <1>1, <1>7, <1>8, <1>9, <1>10

\* A data definition stays open.
LEMMA OpenNext ==
  ASSUME pc' = "data", Len(src') = Len(src), Len(src) \in Nat,
         Wanted(Len(src) - 1)' = Wanted(Len(src) - 1),
         NEW h \in Seq(Items), Handled' = h,
         cur' # NoItem => cur' \in Items /\ \E t \in Seq(Items) : ItemsOf' = Append(t, cur'),
         zero' = -1 => /\ Emitted' = Wanted(Len(src) - 1) \o (Heading(Len(src), ".data") \o Bytes(h))
                       /\ Section(h) = ".data",
         zero' # -1 => Emitted' = Wanted(Len(src) - 1) /\ Bytes(h) = Zeros(zero') /\ Section(h) = ".bss"
  PROVE  OpenData'
<1>1. cur' # NoItem => ItemsOf' # << >> /\ cur' = ItemsOf'[Len(ItemsOf')]
  <2>. SUFFICES ASSUME cur' # NoItem PROVE ItemsOf' # << >> /\ cur' = ItemsOf'[Len(ItemsOf')]
    OBVIOUS
  <2>1. cur' \in Items /\ \E t \in Seq(Items) : ItemsOf' = Append(t, cur')
    OBVIOUS
  <2>2. PICK t \in Seq(Items) : ItemsOf' = Append(t, cur')
    BY <2>1
  <2>3. ASSUME NEW e \in Items PROVE Append(t, e) # << >> /\ Append(t, e)[Len(Append(t, e))] = e
    <3>. PICK u : u = Append(t, e)
      OBVIOUS
    <3>1. u \in Seq(Items) /\ Len(u) = Len(t) + 1 /\ Len(t) \in Nat /\ u[Len(t) + 1] = e
      OBVIOUS
    <3>2. u[Len(u)] = e
      BY <3>1
    <3>3. u # << >>
      <4>1. Len(u) # 0 /\ Len(<< >>) = 0
        BY <3>1
      <4>. QED  BY ONLY <4>1
    <3>. QED  BY <3>2, <3>3
  <2>. QED  BY ONLY <2>1, <2>2, <2>3
<1>3. cur' # NoItem => pc' = "data" /\ src'[Len(src')].items # << >>
                       /\ cur' = src'[Len(src')].items[Len(src'[Len(src')].items)]
  BY <1>1 DEF ItemsOf
<1>4. zero' = -1 => /\ Emitted' = Wanted(Len(src) - 1)' \o (Heading(Len(src), ".data")' \o Bytes(Handled)')
                    /\ Section(Handled)' = ".data"
  <2>. SUFFICES ASSUME zero' = -1
                PROVE  /\ Emitted' = Wanted(Len(src) - 1)' \o (Heading(Len(src), ".data")' \o Bytes(Handled)')
                       /\ Section(Handled)' = ".data"
    OBVIOUS
  <2>1. Heading(Len(src), ".data")' = Heading(Len(src), ".data")
    BY DEF Heading
  <2>2. Bytes(Handled)' = Bytes(h) /\ Section(Handled)' = Section(h)
    BY DEF Bytes, Section, Item
  <2>. QED  BY <2>1, <2>2
<1>5. zero' # -1 => /\ Emitted' = Wanted(Len(src) - 1)' /\ Bytes(Handled)' = Zeros(zero')
                    /\ Section(Handled)' = ".bss"
  <2>2. Bytes(Handled)' = Bytes(h) /\ Section(Handled)' = Section(h)
    BY DEF Bytes, Section, Item
  <2>. QED  BY <2>2
<1>6. Zeros(zero)' = Zeros(zero')
  BY DEF Zeros
<1>. QED  BY <1>3, <1>4, <1>5, <1>6 DEF OpenData

\* What the lines of a data definition say.
LEMMA ItemSays ==
  ASSUME NEW e, e.k \in {"num", "sym", "sym+", "quoted"}
  PROVE  Line([k |-> "item", is |-> e]) = <<[k |-> e.k]>> /\ <<[k |-> e.k]>> \in Seq(Marks)
<1>1. [k |-> e.k] \in Marks
  BY DEF Marks
<1>. QED  BY <1>1 DEF Line

LEMMA DataLinesSay ==
  ASSUME Len(src) \in Nat
  PROVE  /\ \A sec \in {".data", ".bss"} :
              Line(Label(sec)) = Heading(Len(src), sec) /\ Heading(Len(src), sec) \in Seq(Marks)
         /\ \A n \in Nat : Line(Fill(n)) = Zeros(n) /\ Zeros(n) \in Seq(Marks)
         /\ Line([k |-> "end"]) = <<[k |-> "end"]>> /\ <<[k |-> "end"]>> \in Seq(Marks)
         /\ \A e : e.k \in {"num", "sym", "sym+", "quoted"} =>
              Line([k |-> "item", is |-> e]) = <<[k |-> e.k]>> /\ <<[k |-> e.k]>> \in Seq(Marks)
<1>1. ASSUME NEW sec \in {".data", ".bss"}
      PROVE  Line(Label(sec)) = Heading(Len(src), sec) /\ Heading(Len(src), sec) \in Seq(Marks)
  <2>1. Heading(Len(src), sec) \in Seq(Marks)
    BY HeadingIs
  <2>. QED  BY <2>1 DEF Line, Label, Heading
<1>2. ASSUME NEW n \in Nat PROVE Line(Fill(n)) = Zeros(n) /\ Zeros(n) \in Seq(Marks)
  BY ZerosIs DEF Line, Fill
<1>3. Line([k |-> "end"]) = <<[k |-> "end"]>> /\ <<[k |-> "end"]>> \in Seq(Marks)
  BY HeadingIs DEF Line
<1>4. ASSUME NEW e, e.k \in {"num", "sym", "sym+", "quoted"}
      PROVE  Line([k |-> "item", is |-> e]) = <<[k |-> e.k]>> /\ <<[k |-> e.k]>> \in Seq(Marks)
  BY <1>4, ItemSays
<1>. QED  BY <1>1, <1>2, <1>3, <1>4

\* What one of those lines says is read, and is no code.
DataLine(l) == Line(l) \in Seq(Marks) /\ l.k \in {"label", "fill", "item", "end"}
DataText(t) == CanRead(t) /\ \A j \in DOMAIN t : t[j].k \notin CodeLines \cup {"fp"}

LEMMA DataTexts ==
  /\ \A l : DataLine(l) => DataText(<<l>>) /\ Said(<<l>>) = Line(l)
  /\ \A s, t : DataText(s) /\ DataText(t) => DataText(s \o t) /\ Said(s \o t) = Said(s) \o Said(t)
  /\ DataText(<< >>) /\ Said(<< >>) = << >>
<1>1. ASSUME NEW l, DataLine(l) PROVE DataText(<<l>>) /\ Said(<<l>>) = Line(l)
  <2>1. CanRead(<<l>>) /\ Said(<<l>>) = Line(l)
    BY <1>1, SaidOne DEF DataLine
  <2>2. DOMAIN <<l>> = {1} /\ <<l>>[1] = l
    BY SeqOne
  <2>. QED  BY <1>1, <2>1, <2>2 DEF DataLine, DataText, CodeLines
<1>2. ASSUME NEW s, NEW t, DataText(s), DataText(t)
      PROVE  DataText(s \o t) /\ Said(s \o t) = Said(s) \o Said(t)
  <2>1. CanRead(s \o t) /\ Said(s \o t) = Said(s) \o Said(t)
    BY <1>2, SaidCat DEF DataText
  <2>2. PICK u : u = s \o t
    OBVIOUS
  <2>3. ToSet(u) = ToSet(s) \cup ToSet(t)
    BY <1>2, <2>2, SeqCat DEF DataText, CanRead
  <2>4. \A j \in DOMAIN u : u[j] \in ToSet(s) \cup ToSet(t)
    BY <2>3, InSeq
  <2>5. \A l \in ToSet(s) \cup ToSet(t) : l.k \notin CodeLines \cup {"fp"}
    BY <1>2, InSeq DEF DataText
  <2>6. \A j \in DOMAIN u : u[j].k \notin CodeLines \cup {"fp"}
    BY <2>4, <2>5
  <2>. QED  BY <2>1, <2>2, <2>6 DEF DataText
<1>3. CanRead(<< >>) /\ Said(<< >>) = << >>
  <2>1. PICK l : l = [k |-> "fp"]
    OBVIOUS
  <2>2. Line(l) \in Seq(Marks)
    BY <2>1, SaidNothing
  <2>. QED  BY <2>2, SaidOne
<1>4. DataText(<< >>)
  BY <1>3 DEF DataText
<1>. QED  BY <1>1, <1>2, <1>3, <1>4

\* A step that reads and writes data.
LEMMA DataTextNext ==
  ASSUME UnitInv, UnitInv', TextInv, pc = "data", pc' \in {"top", "data"}, DataInput, SrcRead',
         UNCHANGED <<funcperm, funout, file>>, NEW t, DataText(t), Put(t),
         Emitted' = Emitted \o Said(t) =>
           IF pc' = "data" THEN OpenData' ELSE cur' = NoItem /\ Emitted' = Wanted(Len(src))'
  PROVE  TextInv'
<1>1. IsSeq(outf) /\ Buffers(rawout) /\ (funcperm => Len(rawout) # 0) /\ IsSeq(t)
  BY ReadingFacts DEF DataText, CanRead
<1>2. Written' = Written \cup ToSet(t)
  BY <1>1, PutLines
<1>3. Readable'
  BY <1>2, ReadableStep DEF DataText, TextInv
<1>4. Emitted' = Emitted \o Said(t)
  BY <1>3, EmittedPut DEF DataText, TextInv
<1>5. OpenData'
  BY <1>4 DEF OpenData
<1>. QED  BY <1>3, <1>4, <1>5, DataTextStep DEF DataText

\* What OpenFacts and OpenData say together, of the items h that were handled.
OpenAt(h) ==
  /\ h \in Seq(Items) /\ Bytes(h) \in Seq(Marks)
  /\ zero \in Nat \cup {-1}
  /\ zero = -1 => /\ Emitted = Wanted(Len(src) - 1) \o (Heading(Len(src), ".data") \o Bytes(h))
                  /\ Section(h) = ".data"
  /\ zero # -1 => Emitted = Wanted(Len(src) - 1) /\ Bytes(h) = Zeros(zero) /\ Section(h) = ".bss"

LEMMA OpenIs ==
  ASSUME UnitInv, TextInv, pc = "data"
  PROVE  OpenAt(Handled)
<1>1. Handled \in Seq(Items) /\ Bytes(Handled) \in Seq(Marks)
  BY OpenFacts, BytesSeq
<1>2. zero \in Nat \cup {-1}
  BY ReadingFacts
<1>. QED  BY <1>1, <1>2 DEF OpenAt, TextInv, OpenData

LEMMA DataTwo ==
  ASSUME NEW s, NEW t, DataText(s), DataText(t)
  PROVE  DataText(s \o t) /\ Said(s \o t) = Said(s) \o Said(t)
BY DataTexts

LEMMA SrcSame ==
  ASSUME UnitInv, TextInv, src' = src, NEW n \in 0 .. Len(src)
  PROVE  Wanted(n)' = Wanted(n)
BY WantedKept DEF SameDef, TextInv

LEMMA DatFieldText ==
  ASSUME UnitInv, UnitInv', TextInv, NEW t \in Tokens, DatField(t)
  PROVE  TextInv'
<1>1. /\ pc = "data" /\ cur = NoItem /\ pc' = "data" /\ Read(t) /\ cur' = t
      /\ UNCHANGED <<funcperm, zero, file, curfile, stash, rawout, funout, ord, left, owed, outf>>
  BY DEF DatField, emitst, bufs
<1>2. t \in Items /\ t # NoItem
  BY DEF Items, Tokens, NoItem
<1>3. /\ DataInput /\ SrcRead' /\ Len(src') = Len(src) /\ ItemsOf' = Append(ItemsOf, t)
      /\ Wanted(Len(src) - 1)' = Wanted(Len(src) - 1)
  BY <1>1, <1>2, ReadText
<1>4. Put(<< >>) /\ DataText(<< >>) /\ Said(<< >>) = << >>
  BY <1>1, PutNothing, DataTexts
<1>5. PICK h : h = Handled
  OBVIOUS
<1>6. h = ItemsOf /\ h \in Seq(Items) /\ Len(src) \in Nat
  BY <1>1, <1>5, OpenFacts
<1>7. Handled' = h
  BY <1>1, <1>2, <1>3, <1>6, HandledNext
<1>8. OpenAt(h)
  BY <1>1, <1>5, OpenIs
<1>9. ASSUME Emitted' = Emitted \o Said(<< >>) PROVE OpenData'
  <2>1. Emitted' = Emitted
    <3>1. Emitted \in Seq(Marks)
      BY EmittedIs DEF TextInv
    <3>. QED  BY <1>4, <1>9, <3>1
  <2>2. zero' = zero
    BY <1>1
  <2>3. cur' \in Items /\ \E s \in Seq(Items) : ItemsOf' = Append(s, cur')
    BY <1>1, <1>2, <1>3, <1>6
  <2>. QED  BY <1>1, <1>3, <1>6, <1>7, <1>8, <2>1, <2>2, <2>3, OpenNext DEF OpenAt
<1>. QED  BY <1>1, <1>3, <1>4, <1>9, DataTextNext

\* The same, a sequence longer.
AssocMore(a, b, c, d) == (a \o (b \o c)) \o d = a \o (b \o (c \o d))

LEMMA CatMore ==
  ASSUME NEW a \in Seq(Marks), NEW b \in Seq(Marks), NEW c \in Seq(Marks), NEW d \in Seq(Marks)
  PROVE  AssocMore(a, b, c, d)
<1>1. Assoc(b, c, d)
  BY CatAssoc
<1>2. PICK e : e = b \o c
  OBVIOUS
<1>3. e \in Seq(Marks)
  BY <1>2
<1>4. Assoc(a, e, d)
  BY <1>3, CatAssoc
<1>. QED  BY ONLY <1>1, <1>2, <1>4 DEF Assoc, AssocMore

LEMMA DatItemText ==
  ASSUME UnitInv, UnitInv', TextInv, NEW next \in Tokens \cup {NoItem}, DatItem(next)
  PROVE  TextInv'
<1>. DEFINE e == IF cur.k = "sym" /\ next.k \in {"sym", "sym+"} THEN [cur EXCEPT !.name = next.name] ELSE cur
            i == [k |-> "item", is |-> e]
            owe == IF zero > 0 THEN <<Fill(zero)>> ELSE << >>
            t == IF zero = -1 THEN <<i>> ELSE <<Label(".data")>> \o owe \o <<i>>
            W == Wanted(Len(src) - 1)
            H == Heading(Len(src), ".data")
<1>1. /\ pc = "data" /\ cur # NoItem /\ pc' = "data" /\ cur' = next /\ zero' = -1 /\ Put(t)
      /\ UNCHANGED <<funcperm, file, curfile, stash, funout, ord, left, owed>>
  BY DEF DatItem, EmitItem
<1>2. next # NoItem => Read(next) /\ next \in Items
  BY DEF DatItem, Items
<1>3. next = NoItem => src' = src
  BY DEF DatItem
<1>4. PICK h : h = Handled
  OBVIOUS
<1>5. /\ h \in Seq(Items) /\ Len(src) \in Nat /\ cur \in Tokens /\ ItemsOf = Append(h, cur)
      /\ ItemsOf \in Seq(Items) /\ W \in Seq(Marks)
  BY <1>1, <1>4, OpenFacts
<1>6. OpenAt(h)
  BY <1>1, <1>4, OpenIs
<1>7. PICK g : g = Append(h, cur)
  OBVIOUS
<1>8. cur \in Items /\ cur.k # "z" /\ Item(cur) = <<[k |-> cur.k]>> /\ cur.k \in {"num", "sym", "sym+", "quoted"}
  <2>1. cur \in Items
    BY <1>5 DEF Items
  <2>2. cur.k \in {"num", "sym", "sym+", "quoted"}
    BY <1>5 DEF Tokens
  <2>. QED  BY <1>5, <2>1, <2>2, ItemIs
<1>9. /\ g \in Seq(Items) /\ Bytes(g) = Bytes(h) \o Item(cur) /\ Section(g) = ".data"
      /\ Item(cur) \in Seq(Marks)
  <2>1. g \in Seq(Items) /\ Bytes(g) = Bytes(h) \o Item(cur)
    BY ONLY <1>5, <1>7, <1>8, BytesAppend
  <2>2. Section(g) = ".data"
    BY ONLY <1>5, <1>7, <1>8, SectionAppend
  <2>3. Item(cur) \in Seq(Marks)
    BY ONLY <1>8, ItemIs
  <2>. QED  BY <2>1, <2>2, <2>3
<1>10. /\ DataInput /\ SrcRead' /\ Len(src') = Len(src) /\ Wanted(Len(src) - 1)' = W
       /\ Handled' = g
       /\ cur' # NoItem => cur' \in Items /\ \E s \in Seq(Items) : ItemsOf' = Append(s, cur')
  <2>1. CASE next = NoItem
    <3>1. DataInput
      BY <1>1, <1>3, <2>1, DataSame, ReadingFacts
    <3>2. SrcRead'
      BY <1>3, <2>1 DEF SrcRead, TextInv, Readable, Of
    <3>3. Wanted(Len(src) - 1)' = W /\ ItemsOf' = ItemsOf
      <4>1. Len(src) - 1 \in 0 .. Len(src)
        BY <1>1, OpenFacts
      <4>. QED  BY <1>3, <2>1, <4>1, SrcSame DEF ItemsOf
    <3>4. Handled' = g
      BY <1>1, <1>5, <1>7, <1>9, <1>8, <2>1, <3>3, HandledNext
    <3>5. Len(src') = Len(src) /\ cur' = NoItem
      BY <1>1, <1>3, <2>1
    <3>. HIDE DEF W
    <3>. QED  BY ONLY <3>1, <3>2, <3>3, <3>4, <3>5
  <2>2. CASE next # NoItem
    <3>1. /\ DataInput /\ SrcRead' /\ Len(src') = Len(src) /\ ItemsOf' = Append(ItemsOf, next)
          /\ Wanted(Len(src) - 1)' = W
      BY <1>1, <1>2, <2>2, ReadText
    <3>2. Handled' = g
      <4>1. cur' # NoItem /\ ItemsOf' = Append(g, next) /\ next \in Items
        BY <1>1, <1>2, <1>5, <1>7, <2>2, <3>1
      <4>. QED  BY ONLY <1>9, <4>1, HandledNext
    <3>3. cur' \in Items /\ \E s \in Seq(Items) : ItemsOf' = Append(s, cur')
      BY <1>1, <1>2, <1>5, <2>2, <3>1
    <3>. HIDE DEF W
    <3>. QED  BY ONLY <3>1, <3>2, <3>3
  <2>. HIDE DEF W
  <2>. QED  BY <2>1, <2>2
<1>11. DataText(<<i>>) /\ Said(<<i>>) = Item(cur)
  <2>1. e.k = cur.k
    <3>1. CASE cur.k = "sym" /\ next.k \in {"sym", "sym+"}
      <4>1. PICK n : n = next.name
        OBVIOUS
      <4>2. e = [cur EXCEPT !.name = n]
        BY <3>1, <4>1
      <4>3. \E m \in Symbols : cur = [k |-> "sym", name |-> m]
        BY <1>5, <3>1 DEF Tokens
      <4>. HIDE DEF e
      <4>. QED  BY <4>2, <4>3
    <3>2. CASE ~ (cur.k = "sym" /\ next.k \in {"sym", "sym+"})
      BY <3>2
    <3>. HIDE DEF e
    <3>. QED  BY <3>1, <3>2
  <2>. HIDE DEF e
  <2>2. Line(i) = <<[k |-> cur.k]>> /\ Line(i) \in Seq(Marks)
    <3>1. e.k \in {"num", "sym", "sym+", "quoted"}
      BY <1>8, <2>1
    <3>2. Line([k |-> "item", is |-> e]) = <<[k |-> e.k]>> /\ <<[k |-> e.k]>> \in Seq(Marks)
      BY ONLY <3>1, ItemSays
    <3>. QED  BY <2>1, <3>2
  <2>3. DataLine(i)
    BY <2>2 DEF DataLine
  <2>. HIDE DEF i
  <2>. QED  BY <1>8, <2>2, <2>3, DataTexts
<1>. HIDE DEF i, e
<1>12. zero # -1 => /\ zero \in Nat /\ DataText(owe) /\ Said(owe) = Zeros(zero)
                    /\ DataText(<<Label(".data")>>) /\ Said(<<Label(".data")>>) = H
  <2>. SUFFICES ASSUME zero # -1
                PROVE  /\ zero \in Nat /\ DataText(owe) /\ Said(owe) = Zeros(zero)
                       /\ DataText(<<Label(".data")>>) /\ Said(<<Label(".data")>>) = H
    OBVIOUS
  <2>1. zero \in Nat
    BY <1>6 DEF OpenAt
  <2>2. DataLine(Fill(zero)) /\ Line(Fill(zero)) = Zeros(zero)
        /\ DataLine(Label(".data")) /\ Line(Label(".data")) = H
    BY <1>5, <2>1, DataLinesSay, LineKinds DEF DataLine
  <2>. HIDE DEF H
  <2>3. DataText(<<Label(".data")>>) /\ Said(<<Label(".data")>>) = H
        /\ DataText(<<Fill(zero)>>) /\ Said(<<Fill(zero)>>) = Zeros(zero)
    BY <2>2, DataTexts
  <2>4. DataText(owe) /\ Said(owe) = Zeros(zero)
    <3>1. CASE zero > 0
      BY <2>3, <3>1
    <3>2. CASE ~ (zero > 0)
      <4>1. zero = 0
        BY <2>1, <3>2
      <4>. QED  BY <3>2, <4>1, DataTexts, ZerosIs
    <3>. QED  BY <3>1, <3>2
  <2>. QED  BY <2>1, <2>3, <2>4
<1>. HIDE DEF owe
<1>13. DataText(t)
  <2>1. zero # -1 => DataText(<<Label(".data")>> \o owe)
    BY <1>12, DataTexts
  <2>2. zero # -1 => DataText((<<Label(".data")>> \o owe) \o <<i>>)
    BY <1>11, <2>1, DataTexts
  <2>. QED  BY <1>11, <2>2
<1>14. Said(t) = IF zero = -1 THEN Item(cur) ELSE (H \o Zeros(zero)) \o Item(cur)
  <2>1. CASE zero = -1
    BY <1>11, <2>1
  <2>2. CASE zero # -1
    <3>1. DataText(<<Label(".data")>> \o owe) /\ Said(<<Label(".data")>> \o owe) = H \o Zeros(zero)
      BY ONLY <1>12, <2>2, DataTexts
    <3>2. Said((<<Label(".data")>> \o owe) \o <<i>>) = (H \o Zeros(zero)) \o Item(cur)
      <4>1. PICK u, v : u = <<Label(".data")>> \o owe /\ v = <<i>>
        OBVIOUS
      <4>2. DataText(u) /\ DataText(v) /\ Said(u) = H \o Zeros(zero) /\ Said(v) = Item(cur)
        BY ONLY <1>11, <3>1, <4>1
      <4>3. Said(u \o v) = (H \o Zeros(zero)) \o Item(cur)
        BY ONLY <4>2, DataTwo, ZenonT(60)
      <4>. QED  BY ONLY <4>1, <4>3
    <3>. QED  BY <2>2, <3>2
  <2>. HIDE DEF t
  <2>. QED  BY <2>1, <2>2
<1>. HIDE DEF t
<1>15. H \in Seq(Marks)
  BY <1>5, HeadingIs
<1>16. ASSUME Emitted' = Emitted \o Said(t) PROVE OpenData'
  <2>. HIDE DEF H, W
  <2>1. Emitted' = W \o (H \o Bytes(g))
    <3>1. CASE zero = -1
      <4>1. Emitted = W \o (H \o Bytes(h)) /\ Bytes(h) \in Seq(Marks)
        BY <1>6, <3>1 DEF OpenAt, W, H
      <4>2. Emitted' = (W \o (H \o Bytes(h))) \o Item(cur)
        BY <1>14, <1>16, <3>1, <4>1
      <4>3. AssocMore(W, H, Bytes(h), Item(cur))
        BY ONLY <1>5, <1>9, <1>15, <4>1, CatMore
      <4>. QED  BY ONLY <1>9, <4>2, <4>3 DEF AssocMore
    <3>2. CASE zero # -1
      <4>1. Emitted = W /\ Bytes(h) = Zeros(zero) /\ Bytes(h) \in Seq(Marks)
        BY <1>6, <3>2 DEF OpenAt, W, H
      <4>2. Emitted' = W \o ((H \o Bytes(h)) \o Item(cur))
        BY <1>14, <1>16, <3>2, <4>1
      <4>3. Assoc(H, Bytes(h), Item(cur))
        BY ONLY <1>9, <1>15, <4>1, CatAssoc
      <4>. QED  BY ONLY <1>9, <4>2, <4>3 DEF Assoc
    <3>. QED  BY <3>1, <3>2
  <2>2. zero' = -1 => Emitted' = Wanted(Len(src) - 1) \o (Heading(Len(src), ".data") \o Bytes(g))
                      /\ Section(g) = ".data"
    BY <1>9, <2>1 DEF H, W
  <2>3. zero' = -1 /\ pc' = "data"
    BY <1>1
  <2>4. Wanted(Len(src) - 1)' = Wanted(Len(src) - 1)
    BY <1>10 DEF W
  <2>. QED  BY ONLY <1>5, <1>9, <1>10, <2>2, <2>3, <2>4, OpenNext
<1>17. UNCHANGED <<funcperm, funout, file>> /\ pc' = "data"
  BY <1>1
<1>. QED  BY <1>1, <1>10, <1>13, <1>16, <1>17, DataTextNext

LEMMA DatZText ==
  ASSUME UnitInv, UnitInv', TextInv, NEW n \in 0 .. 2, DatZ(n)
  PROVE  TextInv'
<1>. DEFINE item == [k |-> "z", n |-> n]
<1>. PICK t : t = IF zero = -1 THEN <<Fill(n)>> ELSE << >>
  OBVIOUS
<1>. PICK W, H : W = Wanted(Len(src) - 1) /\ H = Heading(Len(src), ".data")
  OBVIOUS
<1>0. n \in Nat
  OBVIOUS
<1>1. /\ pc = "data" /\ cur = NoItem /\ pc' = "data" /\ Read(item) /\ cur' = NoItem
      /\ UNCHANGED <<funcperm, file, curfile, stash, funout, ord, left, owed>>
      /\ zero = -1 => Put(t) /\ zero' = -1
      /\ zero # -1 => zero' = zero + n /\ UNCHANGED <<rawout, outf>>
  BY DEF DatZ
<1>2. item \in Items /\ item.k = "z" /\ Item(item) = Zeros(n)
  <2>1. item \in [k : {"z"}, n : Nat] /\ item.k = "z" /\ item.n = n
    BY <1>0
  <2>2. item \in Items
    BY <2>1 DEF Items
  <2>. QED  BY <2>1, <2>2 DEF Item
<1>. HIDE DEF item
<1>3. /\ DataInput /\ SrcRead' /\ Len(src') = Len(src) /\ ItemsOf' = Append(ItemsOf, item)
      /\ Wanted(Len(src) - 1)' = Wanted(Len(src) - 1)
  BY <1>1, <1>2, ReadText
<1>4. PICK h : h = Handled
  OBVIOUS
<1>5. h = ItemsOf /\ h \in Seq(Items) /\ Len(src) \in Nat /\ W \in Seq(Marks) /\ H \in Seq(Marks)
  BY <1>1, <1>4, OpenFacts, HeadingIs
<1>6. OpenAt(h)
  BY <1>1, <1>4, OpenIs
<1>7. PICK g : g = Append(h, item)
  OBVIOUS
<1>8. g \in Seq(Items) /\ Bytes(g) = Bytes(h) \o Zeros(n)
  BY ONLY <1>2, <1>5, <1>7, BytesAppend
<1>9. Section(g) = Section(h)
  BY ONLY <1>2, <1>5, <1>7, SectionAppend
<1>10. Handled' = g
  BY <1>1, <1>2, <1>3, <1>5, <1>7, <1>8, HandledNext
<1>11. Zeros(n) \in Seq(Marks)
  BY <1>0, ZerosIs
<1>12. Put(t) /\ DataText(t) /\ Said(t) = IF zero = -1 THEN Zeros(n) ELSE << >>
  <2>1. CASE zero = -1
    <3>1. DataLine(Fill(n)) /\ Line(Fill(n)) = Zeros(n)
      BY <1>0, <1>5, DataLinesSay, LineKinds DEF DataLine
    <3>2. DataText(<<Fill(n)>>) /\ Said(<<Fill(n)>>) = Zeros(n)
      BY <3>1, DataTexts
    <3>. QED  BY <1>1, <2>1, <3>2
  <2>2. CASE zero # -1
    <3>1. Put(<< >>) /\ DataText(<< >>) /\ Said(<< >>) = << >>
      BY <1>1, <2>2, PutNothing, DataTexts
    <3>. QED  BY <2>2, <3>1
  <2>. QED  BY <2>1, <2>2
<1>13. ASSUME Emitted' = Emitted \o Said(t) PROVE OpenData'
  <2>1. ASSUME zero = -1 PROVE zero' = -1 /\ Emitted' = W \o (H \o Bytes(g)) /\ Section(g) = ".data"
    <3>1. Emitted = W \o (H \o Bytes(h)) /\ Bytes(h) \in Seq(Marks) /\ Section(h) = ".data"
      BY <1>6, <2>1 DEF OpenAt
    <3>2. Emitted' = (W \o (H \o Bytes(h))) \o Zeros(n)
      BY <1>12, <1>13, <2>1, <3>1
    <3>3. AssocMore(W, H, Bytes(h), Zeros(n))
      BY ONLY <1>5, <1>11, <3>1, CatMore
    <3>4. Emitted' = W \o (H \o Bytes(g))
      BY ONLY <1>8, <3>2, <3>3 DEF AssocMore
    <3>. QED  BY <1>1, <1>9, <2>1, <3>1, <3>4
  <2>2. ASSUME zero # -1 PROVE zero' # -1 /\ Emitted' = W /\ Bytes(g) = Zeros(zero') /\ Section(g) = ".bss"
    <3>1. Emitted = W /\ Bytes(h) = Zeros(zero) /\ Section(h) = ".bss" /\ zero \in Nat
      BY <1>6, <2>2 DEF OpenAt
    <3>2. zero' = zero + n /\ zero' # -1
      BY <1>0, <1>1, <2>2, <3>1
    <3>3. Bytes(g) = Zeros(zero')
      BY <1>0, <1>8, <3>1, <3>2, ZerosIs
    <3>4. Emitted' = W
      BY <1>5, <1>12, <1>13, <2>2, <3>1
    <3>. QED  BY <1>9, <3>1, <3>2, <3>3, <3>4
  <2>3. zero' = -1 => Emitted' = Wanted(Len(src) - 1) \o (Heading(Len(src), ".data") \o Bytes(g))
                      /\ Section(g) = ".data"
    BY <2>1, <2>2
  <2>4. zero' # -1 => Emitted' = Wanted(Len(src) - 1) /\ Bytes(g) = Zeros(zero') /\ Section(g) = ".bss"
    BY <2>1, <2>2
  <2>. QED  BY ONLY <1>1, <1>3, <1>5, <1>8, <1>10, <2>3, <2>4, OpenNext
<1>14. UNCHANGED <<funcperm, funout, file>> /\ pc' = "data"
  BY <1>1
<1>. QED  BY <1>1, <1>3, <1>12, <1>13, <1>14, DataTextNext

LEMMA DatEndText ==
  ASSUME UnitInv, UnitInv', TextInv, DatEnd
  PROVE  TextInv'
<1>. PICK W, End : W = Wanted(Len(src) - 1) /\ End = [k |-> "end"]
  OBVIOUS
<1>. DEFINE s == IF zero = -1 THEN << >> ELSE <<Label(".bss"), Fill(zero)>>
            t == s \o <<End>>
<1>1. /\ pc = "data" /\ cur = NoItem /\ pc' = "top" /\ Put(t)
      /\ UNCHANGED <<funcperm, src, cur, file, curfile, stash, funout, ord, left, owed, zero>>
  BY DEF DatEnd, input, emitst
<1>2. PICK h : h = Handled
  OBVIOUS
<1>3. h = ItemsOf /\ h \in Seq(Items) /\ Len(src) \in Nat \ {0} /\ W \in Seq(Marks)
      /\ src[Len(src)].k = "data" /\ Wanted(Len(src)) = W \o Definition(Len(src))
  BY <1>1, <1>2, OpenFacts
<1>4. OpenAt(h)
  BY <1>1, <1>2, OpenIs
<1>5. /\ DataInput /\ SrcRead'
  <2>1. DataInput
    BY <1>1, DataSame, ReadingFacts
  <2>2. SrcRead'
    BY <1>1 DEF SrcRead, TextInv, Readable, Of
  <2>. QED  BY <2>1, <2>2
<1>6. PICK H : H = Heading(Len(src), Section(h))
  OBVIOUS
<1>7. H \in Seq(Marks)
  BY <1>3, <1>6, HeadingIs DEF Section
<1>8. DataText(<<End>>) /\ Said(<<End>>) = <<End>> /\ <<End>> \in Seq(Marks)
  <2>1. DataLine(End) /\ Line(End) = <<End>> /\ <<End>> \in Seq(Marks)
    BY <1>3, DataLinesSay DEF DataLine
  <2>. QED  BY <2>1, DataTexts
<1>9. Definition(Len(src)) = (H \o Bytes(h)) \o <<End>>
  BY <1>3, <1>6 DEF Definition, ItemsOf
<1>10. DataText(s) /\ Said(s) = IF zero = -1 THEN << >> ELSE H \o Bytes(h)
  <2>1. CASE zero = -1
    BY <2>1, DataTexts
  <2>2. CASE zero # -1
    <3>1. zero \in Nat /\ Bytes(h) = Zeros(zero) /\ Section(h) = ".bss"
      BY <1>4, <2>2 DEF OpenAt
    <3>2. /\ DataLine(Label(".bss")) /\ Line(Label(".bss")) = H
          /\ DataLine(Fill(zero)) /\ Line(Fill(zero)) = Bytes(h)
      BY <1>3, <1>6, <3>1, DataLinesSay, LineKinds DEF DataLine
    <3>3. /\ DataText(<<Label(".bss")>>) /\ Said(<<Label(".bss")>>) = H
          /\ DataText(<<Fill(zero)>>) /\ Said(<<Fill(zero)>>) = Bytes(h)
      BY <3>2, DataTexts
    <3>4. s = <<Label(".bss")>> \o <<Fill(zero)>>
      BY <2>2
    <3>. HIDE DEF s
    <3>5. DataText(s) /\ Said(s) = H \o Bytes(h)
      BY <3>3, <3>4, DataTexts
    <3>. QED  BY <2>2, <3>5
  <2>. QED  BY <2>1, <2>2
<1>. HIDE DEF s
<1>11. DataText(t) /\ Said(t) = Said(s) \o <<End>>
  <2>. PICK v : v = <<End>>
    OBVIOUS
  <2>1. DataText(v) /\ Said(v) = v
    BY <1>8
  <2>2. DataText(s \o v) /\ Said(s \o v) = Said(s) \o v
    BY ONLY <1>10, <2>1, DataTexts
  <2>. QED  BY ONLY <2>2, v = <<End>>
<1>. HIDE DEF t
<1>12. ASSUME Emitted' = Emitted \o Said(t) PROVE Emitted' = Wanted(Len(src))'
  <2>1. Emitted' = W \o Definition(Len(src))
    <3>1. CASE zero = -1
      <4>1. Emitted = W \o (H \o Bytes(h)) /\ Bytes(h) \in Seq(Marks)
        BY <1>4, <1>6, <3>1 DEF OpenAt
      <4>2. Said(t) = <<End>>
        <5>1. Said(s) = << >>
          BY <1>10, <3>1
        <5>. QED  BY <1>8, <1>11, <5>1
      <4>3. PICK c : c = H \o Bytes(h)
        OBVIOUS
      <4>4. Assoc(W, c, <<End>>)
        <5>1. c \in Seq(Marks)
          BY <1>7, <4>1, <4>3
        <5>. QED  BY ONLY <1>3, <1>8, <5>1, CatAssoc
      <4>5. Emitted' = (W \o c) \o <<End>> /\ Definition(Len(src)) = c \o <<End>>
        BY <1>9, <1>12, <4>1, <4>2, <4>3
      <4>. QED  BY ONLY <4>4, <4>5 DEF Assoc
    <3>2. CASE zero # -1
      <4>1. Emitted = W
        BY <1>4, <3>2 DEF OpenAt
      <4>2. Said(t) = (H \o Bytes(h)) \o <<End>>
        BY <1>10, <1>11, <3>2
      <4>. QED  BY <1>9, <1>12, <4>1, <4>2
    <3>. QED  BY <3>1, <3>2
  <2>2. Wanted(Len(src))' = Wanted(Len(src))
    <3>1. Len(src) \in 0 .. Len(src) /\ src' = src
      BY <1>1, <1>3
    <3>. QED  BY <3>1, SrcSame
  <2>. QED  BY <1>3, <2>1, <2>2
<1>13. UNCHANGED <<funcperm, funout, file>> /\ pc' = "top" /\ cur' = NoItem
  BY <1>1
<1>. QED  BY <1>1, <1>5, <1>11, <1>12, <1>13, DataTextNext

-----------------------------------------------------------------------------
(* Files and functions.                                                     *)

LEMMA WantedAll ==
  UnitInv /\ Readable /\ FilesNamed =>
    \A n \in 0 .. Len(src) : n # 0 => Wanted(n) = Wanted(n - 1) \o Definition(n)
BY WantedNext

\* A new definition.
LEMMA WantedNew ==
  ASSUME UnitInv, UnitInv', TextInv, Readable', FilesNamed',
         NEW d, src' = Append(src, d), NEW L, L = Len(src)
  PROVE  /\ L \in Nat /\ Wanted(L) \in Seq(Marks)
         /\ Wanted(Len(src))' = Wanted(L) \o Definition(L + 1)'
<1>2. /\ L \in Nat /\ Len(src') = L + 1 /\ DOMAIN src = 1 .. L
      /\ \A i \in DOMAIN src : src'[i] = src[i]
  BY SrcAppend DEF UnitInv, Shapes
<1>3. L \in 0 .. Len(src) /\ \A h \in 1 .. L : SameDef(h)
  BY <1>2 DEF SameDef
<1>4. Wanted(L)' = Wanted(L) /\ Wanted(L) \in Seq(Marks)
  BY <1>3, WantedKept, WantedNext DEF TextInv
<1>5. Wanted(L + 1)' = Wanted(L) \o Definition(L + 1)'
  <2>1. \A n \in 0 .. Len(src') : n # 0 => Wanted(n)' = Wanted(n - 1)' \o Definition(n)'
    <3>1. (UnitInv /\ Readable /\ FilesNamed =>
             \A n \in 0 .. Len(src) : n # 0 => Wanted(n) = Wanted(n - 1) \o Definition(n))'
      BY WantedAll, PTL
    <3>. QED  BY <3>1
  <2>2. L + 1 \in 0 .. Len(src') /\ L + 1 # 0 /\ (L + 1) - 1 = L
    BY <1>2
  <2>3. Wanted(L + 1)' = Wanted((L + 1) - 1)' \o Definition(L + 1)'
    BY <2>1, <2>2
  <2>4. Wanted((L + 1) - 1)' = Wanted(L)'
    BY <2>2
  <2>. QED  BY <1>4, <2>3, <2>4
<1>6. Wanted(Len(src))' = Wanted(L + 1)'
  BY <1>2
<1>. QED  BY <1>2, <1>4, <1>5, <1>6

LEMMA SrcReadNew ==
  ASSUME UnitInv, TextInv, NEW d, src' = Append(src, d), d.k \in {"file", "func"}
  PROVE  SrcRead'
<1>1. /\ Len(src) \in Nat /\ DOMAIN src = 1 .. Len(src) /\ DOMAIN src' = 1 .. Len(src) + 1
      /\ \A i \in DOMAIN src : src'[i] = src[i]
      /\ src'[Len(src) + 1] = d
      /\ Of("data")' = Of("data")
  BY SrcAppend DEF UnitInv, Shapes
<1>2. \A i \in DOMAIN src' : i \in DOMAIN src \/ i = Len(src) + 1
  BY <1>1
<1>3. Of("data") \subseteq DOMAIN src
  BY DEF Of
<1>. QED  BY <1>1, <1>2, <1>3 DEF SrcRead, TextInv, Readable

LEMMA DbgFileText ==
  ASSUME UnitInv, UnitInv', TextInv, NEW f \in Files, DbgFile(f)
  PROVE  TextInv'
<1>. PICK d, L, l : d = [k |-> "file", name |-> f] /\ L = Len(src) /\ l = [k |-> "file", n |-> curfile', name |-> f]
  OBVIOUS
<1>. PICK t : t = IF f \in ToSet(file) THEN << >> ELSE <<l>>
  OBVIOUS
<1>1. /\ pc = "top" /\ pc' = "top" /\ src' = Append(src, d)
      /\ UNCHANGED <<funcperm, cur, zero, stash, funout, ord, left, owed>>
      /\ f \in ToSet(file) => UNCHANGED <<file, rawout, outf>>
      /\ f \notin ToSet(file) => file' = Append(file, f) /\ Put(<<l>>)
  BY DEF DbgFile
<1>2. d.k = "file" /\ d.name = f
  OBVIOUS
<1>3. /\ L \in Nat /\ DOMAIN src = 1 .. L /\ DOMAIN src' = 1 .. L + 1 /\ Len(src') = L + 1
      /\ \A i \in DOMAIN src : src'[i] = src[i]
      /\ src'[L + 1] = d
      /\ Of("func")' = Of("func") /\ Of("file")' = Of("file") \cup {L + 1}
  BY <1>1, <1>2, SrcAppend DEF UnitInv, Shapes
<1>4. SrcRead'
  BY <1>1, <1>2, SrcReadNew
<1>5. Put(t) /\ CanRead(t) /\ Said(t) = IF f \in ToSet(file) THEN << >> ELSE <<[k |-> "file", name |-> f]>>
  <2>1. CASE f \in ToSet(file)
    BY <1>1, <2>1, PutNothing
  <2>2. CASE f \notin ToSet(file)
    <3>1. Line(l) = <<[k |-> "file", name |-> f]>>
      BY DEF Line
    <3>2. [k |-> "file", name |-> f] \in Marks
      BY DEF Marks
    <3>3. Line(l) \in Seq(Marks)
      <4>1. \A m \in Marks : <<m>> \in Seq(Marks)
        OBVIOUS
      <4>. QED  BY ONLY <3>1, <3>2, <4>1
    <3>. QED  BY <1>1, <2>2, <3>1, <3>3, SaidOne
  <2>. QED  BY <2>1, <2>2
<1>6. IsSeq(t) /\ \A j \in DOMAIN t : t[j].k \notin CodeLines \cup {"fp"}
  <2>1. DOMAIN <<l>> = {1} /\ <<l>>[1] = l /\ DOMAIN << >> = {}
    BY SeqOne
  <2>. QED  BY <1>5, <2>1 DEF CanRead, CodeLines
<1>7. Written' = Written \cup ToSet(t)
  <2>1. IsSeq(outf) /\ Buffers(rawout) /\ (funcperm => Len(rawout) # 0)
    BY <1>1, ReadingFacts
  <2>. QED  BY <1>1, <1>5, <1>6, <2>1, PutLines
<1>8. Readable'
  BY <1>4, <1>5, <1>7, ReadableStep DEF TextInv
<1>9. FilesNamed'
  <2>1. ToSet(file') = ToSet(file) \cup {f}
    <3>1. CASE f \in ToSet(file)
      BY <1>1, <3>1
    <3>2. CASE f \notin ToSet(file)
      <4>1. IsSeq(file)
        BY SeqType DEF UnitInv, Shapes
      <4>. QED  BY <1>1, <3>2, <4>1, SeqAppend
    <3>. QED  BY <3>1, <3>2
  <2>2. \A i \in Of("file") : i \in DOMAIN src
    BY DEF Of
  <2>3. {src'[i].name : i \in Of("file")'} = {src[i].name : i \in Of("file")} \cup {f}
    BY <1>2, <1>3, <2>2
  <2>. QED  BY <2>1, <2>3 DEF FilesNamed, TextInv
<1>10. Wanted(L) \in Seq(Marks) /\ Wanted(Len(src))' = Wanted(L) \o Definition(L + 1)'
  BY <1>1, <1>8, <1>9, WantedNew
<1>11. Definition(L + 1)' = Said(t)
  <2>1. Named(L + 1)' <=> f \in ToSet(file)
    <3>1. Named(L + 1)' <=> \E h \in 1 .. (L + 1) - 1 : src'[h].k = "file" /\ src'[h].name = f
      BY <1>2, <1>3 DEF Named
    <3>2. (L + 1) - 1 = L
      BY <1>3
    <3>3. Named(L + 1)' <=> \E h \in 1 .. L : src[h].k = "file" /\ src[h].name = f
      BY <1>3, <3>1, <3>2
    <3>4. f \in ToSet(file) <=> \E h \in Of("file") : f = src[h].name
      BY DEF TextInv, FilesNamed
    <3>5. \A h : h \in Of("file") <=> h \in 1 .. L /\ src[h].k = "file"
      BY <1>3 DEF Of
    <3>. QED  BY <3>3, <3>4, <3>5
  <2>2. Definition(L + 1)' = IF Named(L + 1)' THEN << >> ELSE <<[k |-> "file", name |-> f]>>
    BY <1>2, <1>3 DEF Definition
  <2>. QED  BY <1>5, <2>1, <2>2
<1>12. Emitted' = Wanted(Len(src))'
  <2>1. Emitted' = Emitted \o Said(t)
    BY <1>1, <1>5, <1>8, EmittedPut DEF TextInv
  <2>2. Emitted = Wanted(L)
    BY <1>1 DEF TextInv, SaysAll
  <2>. QED  BY <1>10, <1>11, <2>1, <2>2
<1>13. CodeRight' /\ OpenCode' /\ EachOnce' /\ ConstsLast'
  <2>1. \A i \in Of("func") : src'[i] = src[i]
    BY <1>3 DEF Of
  <2>. QED  BY <1>1, <1>3, <1>5, <1>6, <2>1, PlainStep
<1>14. SaysAll'
  <2>1. funcperm' => outf' = << >>
    BY <1>1, <1>5 DEF TextInv, SaysAll, Put
  <2>. QED  BY <1>1, <1>12, <2>1 DEF SaysAll
<1>15. OpenData'
  <2>1. cur' = NoItem
    BY <1>1 DEF TextInv, OpenData
  <2>. QED  BY <1>1, <2>1 DEF OpenData
<1>. QED  BY <1>8, <1>9, <1>13, <1>14, <1>15 DEF TextInv

\* Definitions that stay.
LEMMA CodeMore ==
  ASSUME NEW t, NEW d, NEW e, CodeGiven(t, d), CodeBy(t, d),
         \A i \in DOMAIN d : i \in DOMAIN e /\ e[i] = d[i]
  PROVE  CodeGiven(t, e) /\ CodeBy(t, e)
<1>1. CodeGiven(t, e)
  BY DEF CodeGiven
<1>2. \A i \in DOMAIN t : t[i].k = "func" => e[t[i].id].consts = d[t[i].id].consts
  BY DEF CodeGiven
<1>. QED  BY <1>1, <1>2, CodeKept

\* The line of a function that starts.
LEMMA FuncLine ==
  ASSUME NEW l, l.k = "func", NEW d, l.id \in DOMAIN d, d[l.id].k = "func", d[l.id].consts = << >>
  PROVE  /\ CodeGiven(<<l>>, d) /\ CodeBy(<<l>>, d)
         /\ CanRead(<<l>>) /\ Said(<<l>>) = <<[k |-> "func"]>> /\ <<[k |-> "func"]>> \in Seq(Marks)
<1>1. IsSeq(<<l>>) /\ DOMAIN <<l>> = {1} /\ <<l>>[1] = l
  BY SeqOne
<1>2. IsSeq(<< >>) /\ DOMAIN << >> = {}
  <2>1. IsSeq(<< >>)
    BY SeqOne
  <2>. QED  BY <2>1
<1>3. CodeGiven(<<l>>, d)
  BY <1>1, <1>2 DEF CodeGiven
<1>4. CodeBy(<<l>>, d)
  BY <1>1, <1>2 DEF CodeBy
<1>5. Line(l) = <<[k |-> "func"]>>
  BY DEF Line
<1>6. <<[k |-> "func"]>> \in Seq(Marks)
  BY HeadingIs
<1>. QED  BY <1>3, <1>4, <1>5, <1>6, SaidOne

\* A function begins in a buffer of its own: what was said before it stays.
LEMMA EmittedFunc ==
  ASSUME UnitInv, UnitInv', TextInv, Readable', pc = "top", funcperm, NEW t,
         funout' = Append(funout, t), UNCHANGED <<funcperm, rawout>>
  PROVE  Emitted' = Emitted \o <<[k |-> "func"]>>
<1>. PICK n, F : n = Len(rawout) /\ F = <<[k |-> "func"]>>
  OBVIOUS
<1>1. /\ Len(funout) \in Nat /\ n = Len(funout) + 1 /\ IsSeq(rawout) /\ DOMAIN rawout = 1 .. n
      /\ Len(funout') = n
  <2>1. IsSeq(rawout) /\ IsSeq(funout) /\ n = Len(funout) + 1
    BY DEF UnitInv, TypeOK, Shapes, Buffers
  <2>. QED  BY <2>1, SeqAt, SeqAppend
<1>2. \A i \in 1 .. n - 1 : Piece(i)' = Piece(i)
  <2>1. ASSUME NEW i \in 1 .. n - 1 PROVE i <= Len(funout) /\ i <= Len(funout')
    BY <1>1
  <2>. QED  BY <2>1 DEF Piece
<1>3. Pieces(n - 1)' = Pieces(n - 1)
  <2>1. n - 1 \in Nat
    BY <1>1
  <2>. QED  BY <1>2, <2>1, PiecesKept
<1>4. n <= Len(funout') /\ ~ (n <= Len(funout)) /\ n \in DOMAIN rawout
  BY <1>1
<1>5. Said(rawout[n]) \in Seq(Marks) /\ F \in Seq(Marks)
  BY <1>4, CanReadAll, SaidSeq, HeadingIs DEF TextInv
<1>6. Piece(n) = Said(rawout[n]) /\ Piece(n)' = Said(rawout[n]) \o F
  <2>1. Piece(n) = Said(rawout[n]) \o << >>
    BY <1>4 DEF Piece
  <2>2. Piece(n)' = Said(rawout[n]) \o F
    BY <1>4 DEF Piece, Said, Line
  <2>. QED  BY <1>5, <2>1, <2>2
<1>7. Pieces(n - 1) \in Seq(Marks) /\ Pieces(n) = Pieces(n - 1) \o Piece(n)
  <2>1. n \in 0 .. Len(rawout) /\ n # 0 /\ n - 1 \in 0 .. Len(rawout)
    BY <1>1
  <2>. QED  BY <2>1, PiecesNext DEF TextInv
<1>8. Pieces(n)' = Pieces(n - 1)' \o Piece(n)'
  <2>1. (UnitInv /\ Readable => \A m \in 0 .. Len(rawout) : m # 0 => Pieces(m) = Pieces(m - 1) \o Piece(m))'
    BY PiecesAll, PTL
  <2>2. n \in 0 .. Len(rawout') /\ n # 0
    BY <1>1
  <2>. QED  BY <2>1, <2>2
<1>9. Assoc(Pieces(n - 1), Said(rawout[n]), F)
  BY <1>5, <1>7, CatAssoc
<1>10. Pieces(n)' = Pieces(n) \o F
  BY <1>3, <1>6, <1>7, <1>8, <1>9, Zenon DEF Assoc
<1>. QED  BY <1>10 DEF Emitted

LEMMA FuncText ==
  ASSUME UnitInv, UnitInv', TextInv, NEW locs \in BOOLEAN, Func(locs)
  PROVE  TextInv'
<1>. PICK L, d, l : /\ L = Len(src)
                    /\ d = [k |-> "func", consts |-> << >>, file |-> IF locs THEN <<src[LastFile].name>> ELSE << >>]
                    /\ l = [k |-> "func", id |-> L + 1, loc |-> IF locs THEN curfile ELSE 0]
  OBVIOUS
<1>. PICK t, F : t = <<l>> /\ F = <<[k |-> "func"]>>
  OBVIOUS
<1>1. /\ pc = "top" /\ pc' = "func" /\ src' = Append(src, d)
      /\ UNCHANGED <<funcperm, cur, zero, file, curfile, stash, rawout, ord, left, owed>>
      /\ funcperm => funout' = Append(funout, t) /\ outf' = outf
      /\ ~ funcperm => outf' = outf \o t /\ funout' = funout
  BY DEF Func, emitst
<1>2. d.k = "func" /\ d.consts = << >> /\ l.k = "func" /\ l.id = L + 1
  OBVIOUS
<1>3. /\ L \in Nat /\ DOMAIN src = 1 .. L /\ DOMAIN src' = 1 .. L + 1 /\ Len(src') = L + 1
      /\ \A i \in DOMAIN src : src'[i] = src[i]
      /\ src'[L + 1] = d
      /\ Of("file")' = Of("file") /\ Of("func")' = Of("func") \cup {L + 1}
  BY <1>1, <1>2, SrcAppend DEF UnitInv, Shapes
<1>4. SrcRead'
  BY <1>1, <1>2, SrcReadNew
<1>5. IsSeq(outf) /\ Buffers(funout) /\ IsSeq(funout) /\ IsSeq(t) /\ ToSet(t) = {l} /\ DOMAIN t = {1} /\ t[1] = l
      /\ t # << >>
  <2>1. IsSeq(t) /\ ToSet(t) = {l} /\ DOMAIN t = {1} /\ t[1] = l
    BY SeqOne
  <2>2. t # << >>
    OBVIOUS
  <2>. QED  BY <2>1, <2>2 DEF UnitInv, Shapes, Buffers
<1>6. CodeGiven(t, src') /\ CodeBy(t, src') /\ CanRead(t) /\ Said(t) = F /\ F \in Seq(Marks)
  <2>1. L + 1 \in DOMAIN src'
    BY <1>3
  <2>. QED  BY <1>2, <1>3, <2>1, FuncLine
<1>7. Written' = Written \cup ToSet(t)
  <2>1. CASE funcperm
    <3>1. TextOf(funout') = TextOf(funout) \cup ToSet(t)
      BY <1>1, <1>5, <2>1, BufferNew
    <3>2. outf' = outf /\ rawout' = rawout
      BY <1>1, <2>1
    <3>. QED  BY <3>1, <3>2 DEF Written, Plain
  <2>2. CASE ~ funcperm
    <3>1. ToSet(outf \o t) = ToSet(outf) \cup ToSet(t) /\ outf' = outf \o t
      BY ONLY <1>1, <1>5, <2>2, SeqCat
    <3>2. funout' = funout /\ rawout' = rawout
      BY <1>1, <2>2
    <3>. QED  BY <3>1, <3>2 DEF Written, Plain
  <2>. QED  BY <2>1, <2>2
<1>8. Readable'
  BY <1>4, <1>6, <1>7, ReadableStep DEF TextInv
<1>9. FilesNamed'
  <2>1. \A i \in Of("file") : src'[i] = src[i]
    BY <1>3 DEF Of
  <2>2. {src'[i].name : i \in Of("file")'} = {src[i].name : i \in Of("file")}
    BY ONLY <1>3, <2>1
  <2>3. file' = file /\ FilesNamed
    BY <1>1 DEF TextInv
  <2>. QED  BY <2>2, <2>3 DEF FilesNamed
<1>10. Wanted(L) \in Seq(Marks) /\ Wanted(Len(src))' = Wanted(L) \o F
  <2>1. Definition(L + 1)' = F
    BY <1>2, <1>3 DEF Definition
  <2>. QED  BY <1>1, <1>8, <1>9, <2>1, WantedNew
<1>11. Emitted' = Wanted(Len(src))'
  <2>1. Emitted = Wanted(L)
    BY <1>1 DEF TextInv, SaysAll
  <2>2. CASE funcperm
    <3>1. Emitted' = Emitted \o F
      BY <1>1, <1>8, <2>2, EmittedFunc
    <3>. QED  BY <1>10, <2>1, <3>1
  <2>3. CASE ~ funcperm
    <3>1. Said(outf \o t) = Said(outf) \o Said(t)
      BY <1>6, CanReadAll, SaidCat DEF TextInv
    <3>2. Emitted' = Said(outf') /\ Emitted = Said(outf)
      BY <1>1, <2>3 DEF Emitted
    <3>. QED  BY <1>1, <1>6, <1>10, <2>1, <2>3, <3>1, <3>2
  <2>. QED  BY <2>2, <2>3
<1>12. /\ CodeGiven(outf, src') /\ CodeBy(outf, src')
       /\ \A n \in DOMAIN funout : CodeBy(funout[n], src')
  <2>1. CodeGiven(outf, src) /\ \A n \in DOMAIN funout : CodeGiven(funout[n], src)
    BY CodesGiven
  <2>2. CodeBy(outf, src) /\ \A n \in DOMAIN funout : CodeBy(funout[n], src)
    BY CodeInIs DEF TextInv, CodeRight
  <2>3. \A i \in DOMAIN src : i \in DOMAIN src' /\ src'[i] = src[i]
    BY <1>3
  <2>. QED  BY <2>1, <2>2, <2>3, CodeMore
<1>13. funcperm => /\ DOMAIN funout' = 1 .. Len(funout) + 1 /\ Len(funout) \in Nat /\ DOMAIN funout = 1 .. Len(funout)
                   /\ \A n \in DOMAIN funout : funout'[n] = funout[n]
                   /\ funout'[Len(funout) + 1] = t /\ Len(funout') = Len(funout) + 1
  BY <1>1, <1>5, SeqAppend, SMTT(40)
<1>14. CodeRight'
  <2>1. CodeIn(outf)'
    <3>1. CodeBy(outf', src')
      <4>1. CASE funcperm
        BY <1>1, <1>12, <4>1
      <4>2. CASE ~ funcperm
        BY <1>1, <1>6, <1>12, <4>2, CodeCat
      <4>. QED  BY <4>1, <4>2
    <3>. QED  BY <3>1 DEF CodeIn, CodeBy
  <2>2. ASSUME NEW n \in DOMAIN funout'
        PROVE  /\ CodeBy(funout'[n], src') /\ Said(funout'[n]) = F
               /\ funout'[n] # << >> /\ funout'[n][1].k = "func"
               /\ \A i \in DOMAIN funout'[n] : i > 1 => funout'[n][i].k = "ref"
    <3>1. CASE n \in DOMAIN funout /\ funout'[n] = funout[n]
      BY <1>12, <3>1 DEF TextInv, CodeRight
    <3>2. CASE funout'[n] = t
      BY <1>2, <1>5, <1>6, <3>2
    <3>3. CASE funcperm
      <4>1. n \in DOMAIN funout \/ n = Len(funout) + 1
        BY <1>13, <3>3
      <4>. QED  BY <1>13, <3>1, <3>2, <3>3, <4>1
    <3>4. CASE ~ funcperm
      BY <1>1, <3>1, <3>4
    <3>. QED  BY <3>3, <3>4
  <2>3. ASSUME NEW n \in DOMAIN funout' PROVE CodeIn(funout[n])' /\ Said(funout[n])' = F
    <3>. PICK s : s = funout'[n]
      OBVIOUS
    <3>1. CodeIn(s)'
      BY <2>2, CodeInIs
    <3>2. CodeIn(funout[n])'
      BY <3>1 DEF CodeIn
    <3>. QED  BY <2>2, <3>2
  <2>4. \A n \in DOMAIN rawout' : \A i \in DOMAIN rawout'[n] : rawout'[n][i].k \notin CodeLines
    BY <1>1 DEF TextInv, CodeRight
  <2>. QED  BY <2>1, <2>2, <2>3, <2>4 DEF CodeRight
<1>15. OpenCode'
  <2>. PICK s : s = IF funcperm THEN funout'[Len(funout')] ELSE outf'
    OBVIOUS
  <2>1. /\ IsSeq(s) /\ Len(s) \in DOMAIN s /\ Len(s) \in Nat /\ s[Len(s)] = l
    <3>1. CASE funcperm
      <4>1. s = t /\ Len(t) = 1
        BY <1>13, <3>1
      <4>. QED  BY <1>5, <4>1
    <3>2. CASE ~ funcperm
      <4>1. s = outf \o t /\ Len(t) = 1
        BY <1>1, <3>2
      <4>2. /\ IsSeq(s) /\ Len(s) = Len(outf) + Len(t) /\ Len(outf) \in Nat
            /\ DOMAIN s = 1 .. Len(s) /\ \A i \in 1 .. Len(t) : s[Len(outf) + i] = t[i]
        <5>1. /\ IsSeq(outf \o t) /\ Len(outf \o t) = Len(outf) + Len(t) /\ Len(outf) \in Nat
              /\ DOMAIN (outf \o t) = 1 .. Len(outf \o t)
              /\ \A i \in 1 .. Len(t) : (outf \o t)[Len(outf) + i] = t[i]
          BY ONLY <1>5, SeqCat
        <5>. QED  BY ONLY <4>1, <5>1
      <4>. QED  BY <1>5, <4>1, <4>2
    <3>. QED  BY <3>1, <3>2
  <2>2. src'[Len(src')].consts = << >> /\ Len(src') = L + 1
    BY <1>2, <1>3
  <2>3. Len(s) - Len(<< >>) = Len(s)
    BY <2>1
  <2>4. s = IF funcperm' THEN funout'[Len(funout')] ELSE outf'
    BY <1>1
  <2>. QED  BY <1>2, <2>1, <2>2, <2>3, <2>4 DEF OpenCode
<1>16. EachOnce'
  <2>0. \A i \in Of("func") : i \in 1 .. L /\ i # L + 1
    BY <1>3 DEF Of
  <2>1. CASE funcperm
    <3>1. outf' = outf /\ Lines("func")' = Lines("func")
      BY <1>1, <2>1 DEF Lines
    <3>. PICK N : N = Len(funout) + 1
      OBVIOUS
    <3>2. \A n \in DOMAIN funout : FunId(n)' = FunId(n) /\ FunId(n) \in Of("func")
      BY <1>13, <2>1 DEF FunId, TextInv, EachOnce
    <3>3. FunId(N)' = L + 1
      <4>1. funout'[N] = t
        BY <1>13, <2>1
      <4>. QED  BY <1>2, <1>5, <4>1 DEF FunId
    <3>4. \A n : n \in DOMAIN funout' <=> n \in DOMAIN funout \/ n = N
      BY <1>13, <2>1
    <3>5. {FunId(n)' : n \in DOMAIN funout'} = Of("func")'
      <4>1. {FunId(n) : n \in DOMAIN funout} = Of("func")
        BY <2>1 DEF TextInv, EachOnce
      <4>2. {FunId(n)' : n \in DOMAIN funout'} = {FunId(n) : n \in DOMAIN funout} \cup {L + 1}
        BY <3>2, <3>3, <3>4
      <4>. QED  BY <1>3, <4>1, <4>2
    <3>6. ASSUME NEW m \in DOMAIN funout', NEW n \in DOMAIN funout', FunId(m)' = FunId(n)' PROVE m = n
      <4>1. m \in DOMAIN funout /\ n \in DOMAIN funout => m = n
        BY <2>1, <3>2, <3>6 DEF TextInv, EachOnce
      <4>. QED  BY <2>0, <3>2, <3>3, <3>4, <3>6, <4>1
    <3>7. \A i, j \in Lines("func")' : i < j =>
            outf'[i].id # outf'[j].id /\ (~ funcperm' => outf'[i].id < outf'[j].id)
      BY <1>1, <3>1 DEF TextInv, EachOnce
    <3>. QED  BY <1>1, <2>1, <3>5, <3>6, <3>7 DEF EachOnce
  <2>2. CASE ~ funcperm
    <3>1. /\ Len(outf) \in Nat
          /\ \A i \in Lines("func") : i \in Lines("func")' /\ outf'[i] = outf[i] /\ i \in 1 .. Len(outf)
          /\ \A i \in Lines("func")' :
               \/ i \in Lines("func") /\ outf'[i] = outf[i]
               \/ \E j \in DOMAIN t : t[j].k = "func" /\ i = Len(outf) + j /\ outf'[i] = t[j]
          /\ \A j \in DOMAIN t : Len(outf) + j \in Lines(t[j].k)' /\ outf'[Len(outf) + j] = t[j]
      <4>1. IsSeq(outf) /\ IsSeq(t) /\ outf' = outf \o t
        BY <1>1, <1>5, <2>2
      <4>. QED  BY ONLY <4>1, OutGrows, SMTT(40)
    <3>. PICK N : N = Len(outf) + 1
      OBVIOUS
    <3>2. N \in Lines("func")' /\ outf'[N].id = L + 1 /\ N \notin Lines("func")
      BY <1>2, <1>5, <3>1
    <3>3. \A i \in Lines("func")' : i = N \/ (i \in Lines("func") /\ outf'[i] = outf[i] /\ i < N)
      BY <1>5, <3>1
    <3>4. OutIds = Of("func")
      BY <2>2 DEF TextInv, EachOnce
    <3>5. OutIds' = Of("func")'
      <4>1. OutIds' = OutIds \cup {L + 1}
        BY <3>1, <3>2, <3>3 DEF OutIds
      <4>. QED  BY <1>3, <3>4, <4>1
    <3>6. \A i \in Lines("func") : outf[i].id \in 1 .. L
      BY <2>0, <3>4 DEF OutIds
    <3>7. ASSUME NEW i \in Lines("func")', NEW j \in Lines("func")', i < j
          PROVE  outf'[i].id # outf'[j].id /\ outf'[i].id < outf'[j].id
      <4>1. i # N /\ i \in Lines("func") /\ outf'[i] = outf[i]
        BY <3>1, <3>3, <3>7
      <4>2. CASE j = N
        <5>1. outf'[i].id \in 1 .. L /\ outf'[j].id = L + 1
          BY <3>2, <3>6, <4>1, <4>2
        <5>. QED  BY <1>3, <5>1
      <4>3. CASE j # N
        BY <2>2, <3>3, <3>7, <4>1, <4>3 DEF TextInv, EachOnce
      <4>. QED  BY <4>2, <4>3
    <3>. QED  BY <1>1, <2>2, <3>5, <3>7 DEF EachOnce
  <2>. QED  BY <2>1, <2>2
<1>17. SaysAll'
  <2>1. funcperm' => outf' = << >>
    BY <1>1 DEF TextInv, SaysAll
  <2>. QED  BY <1>1, <1>11, <2>1 DEF SaysAll
<1>18. OpenData'
  <2>1. cur' = NoItem
    BY <1>1 DEF TextInv, OpenData
  <2>. QED  BY <1>1, <2>1 DEF OpenData
<1>19. ConstsLast'
  <2>1. (UnitInv /\ pc \notin {"fin", "done"} => Lines("fp") = {} /\ ConstsLast)'
    BY NoConsts, PTL
  <2>. QED  BY <1>1, <2>1
<1>. QED  BY <1>8, <1>9, <1>14, <1>15, <1>16, <1>17, <1>18, <1>19 DEF TextInv

\* A reference is added to the last function of a text.
RefAdded(s, d, e, n, r, f, c) ==
  /\ CodeGiven(s, d) /\ CodeBy(s, d)
  /\ f \in DOMAIN s /\ s[f].k = "func" /\ s[f].id = n
  /\ c \in Nat /\ c = Len(d[n].consts) /\ f = Len(s) - c
  /\ \A i \in DOMAIN s : s[i].k = "func" /\ s[i].id = n => i = f
  /\ DOMAIN e[n].consts = 1 .. c + 1
  /\ \A i \in DOMAIN d : i # n => e[i] = d[i]
  /\ r.k = "ref" /\ r.id = n /\ r.at = c + 1

LEMMA CodeRef ==
  ASSUME NEW s, NEW d, NEW e, NEW n, NEW r, NEW f, NEW c, RefAdded(s, d, e, n, r, f, c)
  PROVE  CodeBy(s \o <<r>>, e)
<1>. USE DEF RefAdded
<1>. PICK v : v = <<r>>
  OBVIOUS
<1>. PICK u : u = s \o v
  OBVIOUS
<1>0. IsSeq(s) /\ IsSeq(v) /\ Len(v) = 1 /\ v[1] = r
  BY SeqOne DEF CodeGiven
<1>1. /\ Len(u) = Len(s) + 1 /\ Len(s) \in Nat /\ DOMAIN s = 1 .. Len(s) /\ DOMAIN u = 1 .. Len(s) + 1
      /\ \A i \in DOMAIN s : i \in DOMAIN u /\ u[i] = s[i]
      /\ u[Len(s) + 1] = r
  <2>2. /\ Len(u) = Len(s) + Len(v) /\ Len(s) \in Nat /\ Len(v) \in Nat
        /\ DOMAIN s = 1 .. Len(s) /\ DOMAIN u = 1 .. Len(u)
        /\ \A i \in 1 .. Len(s) : u[i] = s[i]
        /\ \A i \in 1 .. Len(v) : u[Len(s) + i] = v[i]
    BY <1>0, SeqCat
  <2>. QED  BY ONLY <1>0, <2>2
<1>2. \A i \in DOMAIN u : i \in DOMAIN s \/ i = Len(s) + 1
  BY <1>1
<1>3. DOMAIN d[n].consts = 1 .. c /\ f \in Nat /\ c \in Nat /\ f + c = Len(s)
  <2>1. IsSeq(d[n].consts)
    BY DEF CodeGiven
  <2>2. DOMAIN d[n].consts = 1 .. c
    BY <2>1, SeqAt
  <2>. QED  BY <1>1, <2>2
<1>3a. f + (c + 1) = Len(s) + 1
  BY ONLY <1>3
<1>4. ASSUME NEW i \in DOMAIN u, u[i].k = "func", NEW m \in DOMAIN e[u[i].id].consts
      PROVE  i + m \in DOMAIN u /\ IsRef(u[i + m], u[i].id, m)
  <2>1. i \in DOMAIN s /\ u[i] = s[i] /\ s[i].id \in DOMAIN d
    BY <1>1, <1>2, <1>4 DEF CodeGiven
  <2>2. ASSUME m \in DOMAIN d[s[i].id].consts PROVE i + m \in DOMAIN u /\ IsRef(u[i + m], u[i].id, m)
    <3>1. i + m \in DOMAIN s /\ IsRef(s[i + m], s[i].id, m)
      BY <1>4, <2>1, <2>2 DEF CodeBy
    <3>. QED  BY <1>1, <2>1, <3>1
  <2>3. CASE s[i].id # n
    BY <1>4, <2>1, <2>2, <2>3
  <2>4. CASE s[i].id = n
    <3>1. i = f /\ m \in 1 .. c + 1
      BY <1>4, <2>1, <2>4
    <3>2. CASE m = c + 1
      <4>1. i + m = Len(s) + 1
        BY ONLY <1>3a, <3>1, <3>2
      <4>2. u[i + m] = r /\ i + m \in DOMAIN u
        BY <1>1, <4>1
      <4>. QED  BY <2>1, <2>4, <3>2, <4>2 DEF IsRef
    <3>3. CASE m # c + 1
      <4>1. m \in 1 .. c
        BY <3>1, <3>3
      <4>. QED  BY <1>3, <2>2, <2>4, <4>1
    <3>. QED  BY <3>2, <3>3
  <2>. QED  BY <2>3, <2>4
<1>5. ASSUME NEW i \in DOMAIN u, u[i].k = "ref"
      PROVE  \E g \in DOMAIN u : u[g].k = "func" /\ u[g].id = u[i].id /\ i = g + u[i].at
  <2>1. CASE i \in DOMAIN s
    <3>1. PICK g \in DOMAIN s : s[g].k = "func" /\ s[g].id = s[i].id /\ i = g + s[i].at
      BY <1>1, <1>5, <2>1 DEF CodeBy
    <3>. QED  BY <1>1, <2>1, <3>1
  <2>2. CASE i = Len(s) + 1
    <3>1. u[i] = r /\ f \in DOMAIN u /\ u[f] = s[f]
      BY <1>1, <2>2
    <3>2. i = f + (c + 1)
      BY ONLY <1>3a, <2>2
    <3>. QED  BY <3>1, <3>2
  <2>. QED  BY <1>2, <2>1, <2>2
<1>6. CodeBy(u, e)
  BY <1>4, <1>5 DEF CodeBy
<1>. QED  BY <1>6

\* The step of FuncConst, in parts.
Refers(n, c, r, bits) ==
  /\ pc = "func" /\ pc' = "func"
  /\ UNCHANGED <<funcperm, cur, zero, file, curfile, rawout, ord, left, owed>>
  /\ n = Len(src) /\ n \in Of("func") /\ n \in DOMAIN src /\ n \in Nat
  /\ c \in Nat /\ c = Len(src[n].consts) /\ IsSeq(src[n].consts)
  /\ r.k = "ref" /\ r.id = n /\ r.at = c + 1 /\ PutFn(<<r>>)
  /\ Len(src') = n /\ DOMAIN src' = DOMAIN src /\ IsSeq(src) /\ DOMAIN src = 1 .. n
  /\ \A i \in DOMAIN src : i # n => src'[i] = src[i]
  /\ \A i \in DOMAIN src : src'[i].k = src[i].k
  /\ Len(src'[n].consts) = c + 1 /\ DOMAIN src'[n].consts = 1 .. c + 1
  /\ \A kind : Of(kind)' = Of(kind)

LEMMA FuncConstIs ==
  ASSUME UnitInv, NEW bits \in Bits, FuncConst(bits)
  PROVE  \E n, c, r : Refers(n, c, r, bits)
<1>. PICK n : n = Len(src)
  OBVIOUS
<1>. PICK consts : consts = src[n].consts
  OBVIOUS
<1>1. /\ pc = "func" /\ pc' = "func"
      /\ src' = [src EXCEPT ![n].consts = Append(@, bits)]
      /\ UNCHANGED <<funcperm, cur, zero, file, curfile, rawout, ord, left, owed>>
  BY DEF FuncConst
<1>2. PICK l : l = [k |-> "ref", id |-> n, at |-> Len(consts) + 1, n |-> StashIndex(stash', bits)]
  OBVIOUS
<1>3. PutFn(<<l>>)
  BY <1>2 DEF FuncConst
<1>4. IsSeq(src)
  BY DEF UnitInv, Shapes
<1>5. /\ n \in Of("func") /\ n \in DOMAIN src /\ src[n].k = "func"
      /\ DOMAIN src[n] = {"k", "consts", "file"} /\ IsSeq(consts)
  BY <1>1 DEF UnitInv, Definitions, Of
<1>6. PICK d : d = [src[n] EXCEPT !.consts = Append(@, bits)]
  OBVIOUS
<1>7. d.k = src[n].k /\ d.consts = Append(consts, bits)
  BY <1>5, <1>6
<1>8. Len(consts) \in Nat /\ Len(d.consts) = Len(consts) + 1 /\ DOMAIN d.consts = 1 .. Len(consts) + 1
  BY <1>5, <1>7, SeqAppend
<1>9. src' = [src EXCEPT ![n] = d]
  BY <1>1, <1>6
<1>10. /\ Len(src') = n /\ DOMAIN src' = DOMAIN src
       /\ \A i \in DOMAIN src : i # n => src'[i] = src[i]
       /\ src'[n] = d /\ \A kind : Of(kind)' = Of(kind)
  BY <1>4, <1>5, <1>7, <1>9, SrcChange
<1>11. DOMAIN src = 1 .. n /\ n \in Nat
  BY <1>4, SeqAt
<1>12. \A i \in DOMAIN src : src'[i].k = src[i].k
  BY <1>7, <1>10
<1>13. l.k = "ref" /\ l.id = n /\ l.at = Len(consts) + 1
  BY <1>2
<1>14. Refers(n, Len(consts), l, bits)
  BY <1>1, <1>3, <1>4, <1>5, <1>8, <1>10, <1>11, <1>12, <1>13 DEF Refers
<1>. QED  BY <1>14

LEMMA FuncConstText ==
  ASSUME UnitInv, UnitInv', TextInv, NEW bits \in Bits, FuncConst(bits)
  PROVE  TextInv'
<1>. PICK n, c, r : Refers(n, c, r, bits)
  BY FuncConstIs
<1>. PICK F : F = <<[k |-> "func"]>>
  OBVIOUS
<1>. PICK v : v = <<r>>
  OBVIOUS
<1>1. /\ pc = "func" /\ pc' = "func"
      /\ UNCHANGED <<funcperm, cur, zero, file, curfile, rawout, ord, left, owed>>
      /\ Len(src) = n /\ n \in Of("func") /\ n \in DOMAIN src /\ n \in Nat
      /\ c \in Nat /\ c = Len(src[n].consts) /\ IsSeq(src[n].consts)
      /\ r.k = "ref" /\ r.id = n /\ r.at = c + 1 /\ PutFn(v)
      /\ Len(src') = n /\ DOMAIN src' = DOMAIN src /\ IsSeq(src) /\ DOMAIN src = 1 .. n
  BY DEF Refers
<1>2. /\ \A i \in DOMAIN src : i # n => src'[i] = src[i]
      /\ \A i \in DOMAIN src : src'[i].k = src[i].k
      /\ Len(src'[n].consts) = c + 1 /\ DOMAIN src'[n].consts = 1 .. c + 1
      /\ \A kind : Of(kind)' = Of(kind)
  BY DEF Refers
<1>3. \A kind, i : i \in Of(kind) <=> i \in DOMAIN src /\ src[i].k = kind
  BY DEF Of
<1>4. src[n].k = "func" /\ \A i \in Of("file") \cup Of("data") : i # n
  BY <1>1, <1>3
<1>5. SrcRead'
  <2>1. \A i \in DOMAIN src' : src'[i].k \in {"file", "func", "data"}
    BY <1>1, <1>2 DEF TextInv, Readable
  <2>2. \A i \in Of("data")' : src'[i].items \in Seq(Items)
    BY <1>2, <1>3, <1>4 DEF TextInv, Readable
  <2>. QED  BY <2>1, <2>2 DEF SrcRead
<1>6. IsSeq(v) /\ ToSet(v) = {r} /\ DOMAIN v = {1} /\ v[1] = r /\ Len(v) = 1
  BY SeqOne
<1>7. Line(r) = << >> /\ Line(r) \in Seq(Marks)
  BY <1>1, SaidNothing
<1>8. CanRead(v) /\ Said(v) = << >>
  BY <1>7, SaidOne
<1>9. IsSeq(outf) /\ Buffers(funout) /\ IsSeq(funout) /\ (funcperm => funout # << >> /\ Len(funout) \in DOMAIN funout)
      /\ (~ funcperm => funout = << >>)
  <2>1. IsSeq(outf) /\ Buffers(funout) /\ IsSeq(funout) /\ (funcperm => funout # << >>)
        /\ (~ funcperm => funout = << >>)
    BY <1>1 DEF UnitInv, Shapes, Buffers
  <2>. QED  BY <2>1, SeqAt
<1>10. /\ Len(funout') = Len(funout) /\ Written' = Written \cup ToSet(v)
       /\ ~ funcperm => outf' = outf \o v /\ funout' = funout
       /\ funcperm => funout' = [funout EXCEPT ![Len(funout)] = @ \o v] /\ outf' = outf
  <2>1. funcperm => Len(funout) # 0
    BY <1>9, SeqAt
  <2>2. /\ Len(funout') = Len(funout) /\ Written' = Written \cup ToSet(v)
        /\ ~ funcperm => outf' = outf \o v /\ funout' = funout
    BY <1>1, <1>6, <1>9, <2>1, PutFnLines
  <2>3. funcperm => funout' = [funout EXCEPT ![Len(funout)] = @ \o v] /\ outf' = outf
    BY <1>1 DEF PutFn
  <2>. QED  BY <2>2, <2>3
<1>11. Readable'
  BY <1>5, <1>8, <1>10, ReadableStep DEF TextInv
<1>12. FilesNamed'
  <2>1. {src'[i].name : i \in Of("file")'} = {src[i].name : i \in Of("file")}
    BY <1>2, <1>3, <1>4
  <2>2. file' = file /\ FilesNamed
    BY <1>1 DEF TextInv
  <2>. QED  BY <2>1, <2>2 DEF FilesNamed
<1>13. Wanted(n)' = Wanted(n)
  <2>1. \A h \in 1 .. n : SameDef(h)
    BY <1>1, <1>2, <1>4 DEF SameDef
  <2>2. n \in 0 .. Len(src)
    BY <1>1
  <2>. QED  BY <2>1, <2>2, WantedKept DEF TextInv
<1>14. CanRead(outf) /\ \A m \in DOMAIN funout : CanRead(funout[m])
  BY CanReadAll DEF TextInv
<1>15. Emitted' = Emitted
  <2>1. CASE funcperm
    BY <1>1, <1>10, <2>1 DEF Emitted, Pieces, Piece
  <2>2. CASE ~ funcperm
    <3>1. Said(outf \o v) = Said(outf) \o Said(v)
      BY <1>8, <1>14, SaidCat
    <3>2. Said(outf) \in Seq(Marks)
      BY <1>14, SaidSeq
    <3>3. Said(outf \o v) = Said(outf)
      BY <1>8, <3>1, <3>2, SMTT(40)
    <3>4. Said(outf') = Said(outf)
      BY <1>10, <2>2, <3>3
    <3>. QED  BY <1>1, <2>2, <3>4 DEF Emitted
  <2>. QED  BY <2>1, <2>2
<1>16. SaysAll'
  <2>1. Emitted' = Wanted(Len(src))'
    <3>1. Emitted = Wanted(n)
      BY <1>1 DEF TextInv, SaysAll
    <3>. QED  BY <1>1, <1>13, <1>15, <3>1
  <2>2. funcperm' => outf' = << >>
    BY <1>1, <1>10 DEF TextInv, SaysAll
  <2>. QED  BY <1>1, <2>1, <2>2 DEF SaysAll
<1>17. OpenData'
  <2>1. cur' = NoItem
    BY <1>1 DEF TextInv, OpenData
  <2>. QED  BY <1>1, <2>1 DEF OpenData
<1>18. ConstsLast'
  <2>1. (UnitInv /\ pc \notin {"fin", "done"} => Lines("fp") = {} /\ ConstsLast)'
    BY NoConsts, PTL
  <2>. QED  BY <1>1, <2>1
\* The text of the function that is open.
<1>19. PICK s : s = IF funcperm THEN funout[Len(funout)] ELSE outf
  OBVIOUS
<1>20. PICK f : f = Len(s) - c
  OBVIOUS
<1>21. f \in DOMAIN s /\ s[f].k = "func" /\ s[f].id = n
  BY <1>1, <1>19, <1>20 DEF TextInv, OpenCode
<1>22. CodeGiven(s, src) /\ CodeBy(s, src) /\ CanRead(s) /\ IsSeq(s)
  <2>1. CodeGiven(s, src) /\ CodeIn(s)
    BY <1>9, <1>19, CodesGiven DEF TextInv, CodeRight
  <2>. QED  BY <1>9, <1>14, <1>19, <2>1, CodeInIs DEF CanRead
<1>23. \A i \in DOMAIN s : s[i].k = "func" /\ s[i].id = n => i = f
  <2>1. CASE funcperm
    <3>1. \A i \in DOMAIN s : i \in Nat \ {0} /\ (i > 1 => s[i].k = "ref")
      <4>1. \A i \in DOMAIN s : i > 1 => s[i].k = "ref"
        BY <1>9, <1>19, <2>1 DEF TextInv, CodeRight
      <4>2. \A i \in DOMAIN s : i \in Nat \ {0}
        BY <1>22, SeqAt
      <4>. QED  BY <4>1, <4>2
    <3>2. \A i \in DOMAIN s : s[i].k = "func" => i = 1
      BY <3>1
    <3>. QED  BY <1>21, <3>2
  <2>2. CASE ~ funcperm
    <3>1. s = outf
      BY <1>19, <2>2
    <3>2. ASSUME NEW i \in DOMAIN s, s[i].k = "func", s[i].id = n PROVE i = f
      <4>1. i \in Lines("func") /\ f \in Lines("func")
        BY <1>21, <3>1, <3>2 DEF Lines
      <4>2. i \in Nat /\ f \in Nat
        BY <1>21, <1>22, SeqAt
      <4>3. ~ (i < f) /\ ~ (f < i)
        BY <1>21, <3>1, <3>2, <4>1 DEF TextInv, EachOnce
      <4>. QED  BY ONLY <4>2, <4>3
    <3>. QED  BY <3>2
  <2>. QED  BY <2>1, <2>2
<1>24. CodeBy(s \o v, src')
  <2>1. f \in DOMAIN s /\ c = Len(src[n].consts) /\ f = Len(s) - c /\ c \in Nat
    BY <1>1, <1>20, <1>21
  <2>2. RefAdded(s, src, src', n, r, f, c)
    BY ONLY <1>1, <1>2, <1>21, <1>22, <1>23, <2>1 DEF RefAdded
  <2>3. v = <<r>>
    OBVIOUS
  <2>. QED  BY ONLY <2>2, <2>3, CodeRef
<1>25. /\ Len(s \o v) = Len(s) + 1 /\ Len(s) \in Nat /\ DOMAIN s = 1 .. Len(s) /\ DOMAIN (s \o v) = 1 .. Len(s) + 1
       /\ \A i \in 1 .. Len(s) : (s \o v)[i] = s[i]
       /\ (s \o v)[Len(s) + 1] = r
  <2>1. /\ Len(s \o v) = Len(s) + Len(v) /\ Len(s) \in Nat
        /\ DOMAIN s = 1 .. Len(s) /\ DOMAIN (s \o v) = 1 .. Len(s \o v)
        /\ \A i \in 1 .. Len(s) : (s \o v)[i] = s[i]
        /\ \A i \in 1 .. Len(v) : (s \o v)[Len(s) + i] = v[i]
    BY ONLY <1>6, <1>22, SeqCat
  <2>. QED  BY ONLY <1>6, <2>1
<1>26. Said(s \o v) = Said(s)
  <2>1. Said(s \o v) = Said(s) \o Said(v) /\ Said(s) \in Seq(Marks)
    BY <1>8, <1>22, SaidCat, SaidSeq
  <2>. QED  BY <1>8, <2>1, SMTT(40)
<1>27. PICK u : u = s \o v
  OBVIOUS
\* The other texts.
<1>28. ASSUME NEW t, CodeGiven(t, src), CodeBy(t, src), \A i \in DOMAIN t : t[i].k = "func" => t[i].id # n
       PROVE  CodeBy(t, src')
  <2>1. \A i \in DOMAIN t : t[i].k = "func" => src'[t[i].id].consts = src[t[i].id].consts
    BY <1>2, <1>28 DEF CodeGiven
  <2>. QED  BY <1>28, <2>1, CodeKept
<1>29. CASE funcperm
  <2>. PICK N : N = Len(funout)
    OBVIOUS
  <2>1. /\ s = funout[N] /\ N \in DOMAIN funout /\ outf' = outf /\ DOMAIN funout' = DOMAIN funout
        /\ funout'[N] = u /\ Len(funout') = N
        /\ \A m \in DOMAIN funout : m # N => funout'[m] = funout[m]
    BY <1>9, <1>10, <1>19, <1>27, <1>29
  <2>2. 1 \in DOMAIN s /\ u[1] = s[1] /\ u # << >> /\ f = 1
    <3>1. s # << >> /\ s[1].k = "func"
      BY <2>1 DEF TextInv, CodeRight
    <3>2. 1 \in DOMAIN s
      BY <1>22, <3>1, SeqAt
    <3>3. u[1] = s[1] /\ Len(u) # 0
      BY <1>25, <1>27, <3>2
    <3>4. \A i \in DOMAIN s : i > 1 => s[i].k = "ref"
      BY <2>1 DEF TextInv, CodeRight
    <3>5. f = 1
      BY <1>21, <1>25, <3>4
    <3>6. u # << >>
      <4>1. Len(<< >>) = 0
        OBVIOUS
      <4>. QED  BY ONLY <3>3, <4>1
    <3>. QED  BY <3>2, <3>3, <3>5, <3>6
  <2>3. \A m \in DOMAIN funout : FunId(m)' = FunId(m)
    BY <2>1, <2>2 DEF FunId
  <2>4. FunId(N) = n
    BY <1>21, <2>1, <2>2 DEF FunId
  <2>5. ASSUME NEW m \in DOMAIN funout
        PROVE  /\ CodeBy(funout'[m], src') /\ Said(funout'[m]) = F
               /\ funout'[m] # << >> /\ funout'[m][1].k = "func"
               /\ \A i \in DOMAIN funout'[m] : i > 1 => funout'[m][i].k = "ref"
    <3>0. /\ CodeIn(funout[m]) /\ Said(funout[m]) = F
          /\ funout[m] # << >> /\ funout[m][1].k = "func"
          /\ \A i \in DOMAIN funout[m] : i > 1 => funout[m][i].k = "ref"
      BY DEF TextInv, CodeRight
    <3>1. CASE m = N
      <4>1. CodeBy(u, src') /\ Said(u) = F /\ u # << >> /\ u[1].k = "func"
        BY <1>24, <1>26, <1>27, <2>1, <2>2, <3>0, <3>1
      <4>2. \A i \in DOMAIN u : i > 1 => u[i].k = "ref"
        <5>1. \A i \in DOMAIN u : (i \in DOMAIN s /\ u[i] = s[i]) \/ u[i] = r
          BY <1>25, <1>27
        <5>. QED  BY <1>1, <2>1, <3>0, <3>1, <5>1
      <4>. QED  BY <2>1, <3>1, <4>1, <4>2
    <3>2. CASE m # N
      <4>. PICK t : t = funout[m]
        OBVIOUS
      <4>1. FunId(m) # n
        BY <1>29, <2>1, <2>4, <3>2 DEF TextInv, EachOnce
      <4>2. CodeGiven(t, src) /\ CodeBy(t, src)
        BY <3>0, CodesGiven, CodeInIs
      <4>3. \A i \in DOMAIN t : i \in Nat \ {0}
        BY <4>2, SeqAt DEF CodeGiven
      <4>4. \A i \in DOMAIN t : t[i].k = "func" => t[i].id # n
        BY <3>0, <4>1, <4>3 DEF FunId
      <4>5. CodeBy(t, src')
        BY <1>28, <4>2, <4>4
      <4>. QED  BY <2>1, <3>0, <3>2, <4>5
    <3>. QED  BY <3>1, <3>2
  <2>6. CodeRight'
    <3>1. ASSUME NEW m \in DOMAIN funout' PROVE CodeIn(funout[m])'
      <4>. PICK t : t = funout'[m]
        OBVIOUS
      <4>1. CodeIn(t)'
        BY <2>1, <2>5, CodeInIs
      <4>. QED  BY <4>1 DEF CodeIn
    <3>2. CodeIn(outf)'
      <4>. PICK t : t = outf'
        OBVIOUS
      <4>0. t = << >>
        BY <1>1, <1>29, <2>1 DEF TextInv, SaysAll
      <4>1. CodeBy(t, src')
        BY <4>0 DEF CodeBy
      <4>2. CodeIn(t)'
        BY <4>1, CodeInIs
      <4>. QED  BY <4>2 DEF CodeIn
    <3>3. \A m \in DOMAIN rawout' : \A i \in DOMAIN rawout'[m] : rawout'[m][i].k \notin CodeLines
      BY <1>1 DEF TextInv, CodeRight
    <3>. QED  BY <2>1, <2>5, <3>1, <3>2, <3>3 DEF CodeRight
  <2>7. EachOnce'
    <3>1. Lines("func")' = Lines("func") /\ OutIds' = OutIds
      BY <2>1 DEF Lines, OutIds
    <3>2. {FunId(m)' : m \in DOMAIN funout'} = Of("func")'
      <4>1. {FunId(m) : m \in DOMAIN funout} = Of("func")
        BY <1>29 DEF TextInv, EachOnce
      <4>. QED  BY <1>2, <2>1, <2>3, <4>1
    <3>3. \A a, b \in DOMAIN funout' : FunId(a)' = FunId(b)' => a = b
      BY <1>29, <2>1, <2>3 DEF TextInv, EachOnce
    <3>4. \A i, j \in Lines("func")' : i < j =>
            outf'[i].id # outf'[j].id /\ (~ funcperm' => outf'[i].id < outf'[j].id)
      BY <1>1, <2>1, <3>1 DEF TextInv, EachOnce
    <3>. QED  BY <1>1, <1>29, <3>2, <3>3, <3>4 DEF EachOnce
  <2>8. OpenCode'
    <3>1. u = IF funcperm' THEN funout'[Len(funout')] ELSE outf'
      BY <1>1, <1>29, <2>1
    <3>2. Len(u) - Len(src'[Len(src')].consts) = f /\ f \in DOMAIN u /\ u[f] = s[f]
      BY <1>1, <1>2, <1>20, <1>21, <1>25, <1>27
    <3>. QED  BY <1>1, <1>21, <3>1, <3>2 DEF OpenCode
  <2>. QED  BY <1>11, <1>12, <1>16, <1>17, <1>18, <2>6, <2>7, <2>8 DEF TextInv
<1>30. CASE ~ funcperm
  <2>1. s = outf /\ outf' = u /\ funout' = << >> /\ DOMAIN funout' = {}
    BY <1>9, <1>10, <1>19, <1>27, <1>30
  <2>2. CodeRight'
    <3>1. CodeIn(u)'
      BY <1>24, <1>27, CodeInIs
    <3>2. CodeIn(outf)'
      BY <2>1, <3>1 DEF CodeIn
    <3>3. \A m \in DOMAIN rawout' : \A i \in DOMAIN rawout'[m] : rawout'[m][i].k \notin CodeLines
      BY <1>1 DEF TextInv, CodeRight
    <3>. QED  BY <2>1, <3>2, <3>3 DEF CodeRight
  <2>3. Lines("func")' = Lines("func") /\ \A i \in Lines("func") : outf'[i] = outf[i]
    <3>1. \A i \in DOMAIN outf : i \in DOMAIN u /\ u[i] = outf[i]
      BY <1>25, <1>27, <2>1
    <3>2. \A i \in DOMAIN u : (i \in DOMAIN outf /\ u[i] = outf[i]) \/ u[i] = r
      BY <1>25, <1>27, <2>1
    <3>. QED  BY <1>1, <2>1, <3>1, <3>2 DEF Lines
  <2>4. OutIds' = OutIds
    BY <2>3 DEF OutIds
  <2>5. EachOnce'
    <3>1. \A i, j \in Lines("func")' : i < j =>
            outf'[i].id # outf'[j].id /\ (~ funcperm' => outf'[i].id < outf'[j].id)
      BY <1>1, <2>3 DEF TextInv, EachOnce
    <3>2. OutIds' = Of("func")'
      BY <1>2, <1>30, <2>4 DEF TextInv, EachOnce
    <3>. QED  BY <1>1, <1>30, <3>1, <3>2 DEF EachOnce
  <2>6. OpenCode'
    <3>1. u = IF funcperm' THEN funout'[Len(funout')] ELSE outf'
      BY <1>1, <1>30, <2>1
    <3>2. Len(u) - Len(src'[Len(src')].consts) = f /\ f \in DOMAIN u /\ u[f] = s[f]
      BY <1>1, <1>2, <1>20, <1>21, <1>25, <1>27
    <3>. QED  BY <1>1, <1>21, <3>1, <3>2 DEF OpenCode
  <2>. QED  BY <1>11, <1>12, <1>16, <1>17, <1>18, <2>2, <2>5, <2>6 DEF TextInv
<1>. QED  BY <1>29, <1>30

-----------------------------------------------------------------------------
(* From the end of a function to the end of the output.                     *)

LEMMA FuncEndText ==
  ASSUME UnitInv, UnitInv', TextInv, FuncEnd
  PROVE  TextInv'
<1>. PICK e : e = << >>
  OBVIOUS
<1>1. /\ pc = "func" /\ pc' = "top"
      /\ funcperm => rawout' = Append(rawout, e)
      /\ ~ funcperm => rawout' = rawout
      /\ UNCHANGED <<funcperm, src, cur, zero, file, curfile, stash, funout, ord, left, owed, outf>>
  BY DEF FuncEnd, input, emitst
<1>2. IsSeq(e) /\ ToSet(e) = {} /\ DOMAIN e = {} /\ CanRead(e) /\ Said(e) = << >>
  <2>1. IsSeq(e) /\ ToSet(e) = {}
    BY SeqOne
  <2>2. DOMAIN e = {}
    OBVIOUS
  <2>3. CanRead(e) /\ Said(e) = << >>
    BY DataTexts DEF DataText
  <2>. QED  BY <2>1, <2>2, <2>3
<1>3. IsSeq(outf) /\ Buffers(rawout) /\ IsSeq(rawout)
  BY DEF UnitInv, Shapes, Buffers
<1>4. Written' = Written
  <2>1. TextOf(rawout') = TextOf(rawout)
    <3>1. CASE funcperm
      BY ONLY <1>1, <1>2, <1>3, <3>1, BufferNew, ZenonT(60)
    <3>2. CASE ~ funcperm
      BY <1>1, <3>2
    <3>. QED  BY <3>1, <3>2
  <2>2. outf' = outf /\ funout' = funout
    BY <1>1
  <2>. QED  BY <2>1, <2>2 DEF Written, Plain
<1>5. Readable'
  <2>1. SrcRead'
    BY <1>1 DEF TextInv, Readable, SrcRead, Of
  <2>. QED  BY <1>4, <2>1 DEF TextInv, Readable, SrcRead
<1>6. FilesNamed'
  BY <1>1 DEF TextInv, FilesNamed, Of
<1>7. Emitted' = Emitted
  <2>1. CASE ~ funcperm
    BY <1>1, <2>1 DEF Emitted
  <2>2. CASE funcperm
    <3>. PICK n : n = Len(rawout)
      OBVIOUS
    <3>1. /\ n = Len(funout) /\ n \in Nat /\ DOMAIN rawout = 1 .. n
          /\ Len(rawout') = n + 1 /\ rawout'[n + 1] = e /\ \A i \in 1 .. n : rawout'[i] = rawout[i]
      <4>1. n = Len(funout)
        BY <1>1, <2>2 DEF UnitInv, TypeOK
      <4>2. /\ Len(rawout) \in Nat /\ DOMAIN rawout = 1 .. Len(rawout)
            /\ Len(rawout') = Len(rawout) + 1 /\ rawout'[Len(rawout) + 1] = e
            /\ \A i \in 1 .. Len(rawout) : rawout'[i] = rawout[i]
        BY ONLY <1>1, <1>3, <2>2, SeqAppend
      <4>. QED  BY <4>1, <4>2
    <3>2. \A i \in 1 .. n : Piece(i)' = Piece(i)
      BY <1>1, <3>1 DEF Piece
    <3>3. Pieces(n)' = Pieces(n)
      BY <3>1, <3>2, PiecesKept
    <3>4. Piece(n + 1)' = << >>
      <4>1. ~ (n + 1 <= Len(funout))
        BY <3>1
      <4>2. Piece(n + 1)' = Said(e) \o << >>
        BY <1>1, <3>1, <4>1 DEF Piece
      <4>3. << >> \o << >> = << >>
        OBVIOUS
      <4>. QED  BY <1>2, <4>2, <4>3
    <3>5. Pieces(n + 1)' = Pieces(n)' \o Piece(n + 1)'
      <4>1. (UnitInv /\ Readable => \A m \in 0 .. Len(rawout) : m # 0 => Pieces(m) = Pieces(m - 1) \o Piece(m))'
        BY PiecesAll, PTL
      <4>2. n + 1 \in 0 .. Len(rawout') /\ n + 1 # 0 /\ (n + 1) - 1 = n
        BY <3>1
      <4>3. Pieces(n + 1)' = Pieces((n + 1) - 1)' \o Piece(n + 1)'
        BY <1>5, <4>1, <4>2
      <4>4. Pieces((n + 1) - 1)' = Pieces(n)'
        BY <4>2
      <4>. QED  BY <4>3, <4>4
    <3>6. Pieces(n) \in Seq(Marks)
      <4>1. n \in 0 .. Len(rawout)
        BY <3>1
      <4>. QED  BY <4>1, PiecesNext DEF TextInv
    <3>7. Pieces(n + 1)' = Pieces(n)
      BY <3>3, <3>4, <3>5, <3>6
    <3>. QED  BY <1>1, <2>2, <3>1, <3>7 DEF Emitted
  <2>. QED  BY <2>1, <2>2
<1>8. SaysAll'
  <2>1. Wanted(Len(src))' = Wanted(Len(src))
    BY <1>1 DEF Wanted, Definition, Named
  <2>. QED  BY <1>1, <1>7, <2>1 DEF TextInv, SaysAll
<1>9. CodeRight'
  <2>1. CodeIn(outf)' /\ \A n \in DOMAIN funout : CodeIn(funout[n])'
    BY <1>1 DEF TextInv, CodeRight, CodeIn
  <2>2. \A n \in DOMAIN rawout' : \A i \in DOMAIN rawout'[n] : rawout'[n][i].k \notin CodeLines
    <3>1. CASE ~ funcperm
      BY <1>1, <3>1 DEF TextInv, CodeRight
    <3>2. CASE funcperm
      <4>1. /\ DOMAIN rawout' = 1 .. Len(rawout) + 1 /\ Len(rawout) \in Nat /\ DOMAIN rawout = 1 .. Len(rawout)
            /\ \A n \in 1 .. Len(rawout) : rawout'[n] = rawout[n]
            /\ rawout'[Len(rawout) + 1] = e
        BY <1>1, <1>3, <3>2, SeqAppend
      <4>2. \A n \in DOMAIN rawout' : (n \in DOMAIN rawout /\ rawout'[n] = rawout[n]) \/ rawout'[n] = e
        BY <4>1
      <4>. QED  BY <1>2, <4>2 DEF TextInv, CodeRight
    <3>. QED  BY <3>1, <3>2
  <2>3. \A n \in DOMAIN funout : Said(funout[n])' = Said(funout[n])
    BY <1>1
  <2>. QED  BY <1>1, <2>1, <2>2, <2>3 DEF TextInv, CodeRight
<1>10. EachOnce'
  BY <1>1 DEF TextInv, EachOnce, FunId, Of, OutIds, Lines
<1>11. OpenData' /\ OpenCode'
  BY <1>1 DEF TextInv, OpenData, OpenCode
<1>12. ConstsLast'
  BY <1>1 DEF TextInv, ConstsLast, Lines
<1>. QED  BY <1>5, <1>6, <1>8, <1>9, <1>10, <1>11, <1>12 DEF TextInv

\* Nothing is read or written.
LEMMA NothingRead ==
  ASSUME TextInv, pc # "data", pc' \notin {"func", "data"},
         UNCHANGED <<src, cur, file, funcperm, rawout, funout>>, Written' = Written
  PROVE  /\ Readable' /\ FilesNamed' /\ OpenData' /\ OpenCode'
         /\ Wanted(Len(src))' = Wanted(Len(src)) /\ Of("func")' = Of("func")
         /\ \A n : FunId(n)' = FunId(n) /\ Pieces(n)' = Pieces(n)
         /\ funcperm => Emitted' = Emitted
         /\ CodeIn(outf)' => CodeRight'
<1>1. Of("func")' = Of("func") /\ Of("data")' = Of("data") /\ Of("file")' = Of("file")
  BY DEF Of
<1>2. Readable' /\ FilesNamed'
  BY <1>1 DEF TextInv, Readable, FilesNamed
<1>3. OpenData' /\ OpenCode'
  BY DEF TextInv, OpenData, OpenCode
<1>4. Wanted(Len(src))' = Wanted(Len(src))
  BY DEF Wanted, Definition, Named
<1>5. \A n : FunId(n)' = FunId(n) /\ Pieces(n)' = Pieces(n)
  BY DEF FunId, Pieces, Piece
<1>6. funcperm => Emitted' = Emitted
  BY DEF Emitted, Pieces, Piece
<1>7. CodeIn(outf)' => CodeRight'
  <2>1. \A n \in DOMAIN funout : CodeIn(funout[n])' /\ Said(funout[n])' = Said(funout[n])
    BY DEF TextInv, CodeRight, CodeIn
  <2>. QED  BY <2>1 DEF TextInv, CodeRight
<1>. QED  BY <1>1, <1>2, <1>3, <1>4, <1>5, <1>6, <1>7

\* Nor is the output.
LEMMA NothingWritten ==
  ASSUME TextInv, pc # "data", pc' \notin {"func", "data"},
         UNCHANGED <<src, cur, file, funcperm, rawout, funout, outf>>
  PROVE  /\ Readable' /\ FilesNamed' /\ OpenData' /\ OpenCode' /\ CodeRight' /\ ConstsLast'
         /\ Wanted(Len(src))' = Wanted(Len(src)) /\ Of("func")' = Of("func")
         /\ \A n : FunId(n)' = FunId(n) /\ Pieces(n)' = Pieces(n)
         /\ Emitted' = Emitted
         /\ Lines("func")' = Lines("func") /\ OutIds' = OutIds
<1>1. Written' = Written
  BY DEF Written, Plain
<1>2. CodeIn(outf)' /\ ConstsLast'
  BY DEF TextInv, CodeRight, CodeIn, ConstsLast, Lines
<1>3. Lines("func")' = Lines("func") /\ OutIds' = OutIds
  BY DEF Lines, OutIds
<1>4. ~ funcperm => Emitted' = Emitted
  BY DEF Emitted
<1>. QED  BY <1>1, <1>2, <1>3, <1>4, NothingRead

LEMMA FinishText ==
  ASSUME UnitInv, UnitInv', TextInv, Finish
  PROVE  TextInv'
<1>1. /\ pc = "top" /\ pc' = IF funcperm THEN "flush" ELSE "fin"
      /\ ord' = [i \in DOMAIN funout |-> i]
      /\ UNCHANGED <<funcperm, src, cur, zero, file, curfile, stash, rawout, funout, outf>>
  BY DEF Finish, input, emitst
<1>2. /\ Readable' /\ FilesNamed' /\ OpenData' /\ OpenCode' /\ CodeRight' /\ ConstsLast'
      /\ Wanted(Len(src))' = Wanted(Len(src)) /\ Of("func")' = Of("func")
      /\ \A n : FunId(n)' = FunId(n) /\ Pieces(n)' = Pieces(n)
      /\ Emitted' = Emitted
      /\ Lines("func")' = Lines("func") /\ OutIds' = OutIds
  BY <1>1, NothingWritten
<1>3. SaysAll'
  <2>1. Emitted = Wanted(Len(src)) /\ (funcperm => outf = << >>)
    BY <1>1 DEF TextInv, SaysAll
  <2>2. ~ funcperm => Said(outf') = Wanted(Len(src))
    BY <1>1, <2>1 DEF Emitted
  <2>. QED  BY <1>1, <1>2, <2>1, <2>2 DEF SaysAll
<1>4. EachOnce'
  <2>1. \A n \in DOMAIN funout' : \E m \in DOMAIN funout' : ord'[m] = n
    BY <1>1
  <2>2. \A m, n \in DOMAIN funout' : ord'[m] = ord'[n] => m = n
    BY <1>1
  <2>3. pc' # "copy" /\ (~ funcperm \/ pc' \in {"fin", "done"} => ~ funcperm)
    BY <1>1
  <2>4. funcperm' => /\ {FunId(n)' : n \in DOMAIN funout'} = Of("func")'
                     /\ \A m, n \in DOMAIN funout' : FunId(m)' = FunId(n)' => m = n
    BY <1>1, <1>2 DEF TextInv, EachOnce
  <2>5. \A i, j \in Lines("func")' : i < j =>
          outf'[i].id # outf'[j].id /\ (~ funcperm' => outf'[i].id < outf'[j].id)
    BY <1>1, <1>2 DEF TextInv, EachOnce
  <2>6. ~ funcperm' \/ pc' \in {"fin", "done"} => OutIds' = Of("func")'
    BY <1>1, <1>2, <2>3 DEF TextInv, EachOnce
  <2>. QED  BY <2>1, <2>2, <2>3, <2>4, <2>5, <2>6 DEF EachOnce
<1>. QED  BY <1>2, <1>3, <1>4 DEF TextInv

\* What stays of EachOnce while the order of the functions changes.
LEMMA OrderChanged ==
  ASSUME TextInv, funcperm, pc # "data", pc' \in {"flush", "copy"},
         UNCHANGED <<src, cur, file, funcperm, rawout, funout, outf>>,
         \A n \in DOMAIN funout : \E m \in DOMAIN funout : ord'[m] = n,
         \A m, n \in DOMAIN funout : ord'[m] = ord'[n] => m = n,
         pc' = "copy" => OutIds = {} /\ left' = 0
  PROVE  EachOnce'
<1>1. /\ Of("func")' = Of("func") /\ \A n : FunId(n)' = FunId(n)
      /\ Lines("func")' = Lines("func") /\ OutIds' = OutIds
  BY NothingWritten
<1>2. {FunId(n)' : n \in DOMAIN funout'} = Of("func")'
      /\ \A m, n \in DOMAIN funout' : FunId(m)' = FunId(n)' => m = n
  BY <1>1 DEF TextInv, EachOnce
<1>3. pc' = "copy" => OutIds' = {FunId(ord[m])' : m \in 1 .. left'}
  <2>1. 1 .. 0 = {}
    OBVIOUS
  <2>. QED  BY <1>1, <2>1
<1>4. \A i, j \in Lines("func")' : i < j =>
        outf'[i].id # outf'[j].id /\ (~ funcperm' => outf'[i].id < outf'[j].id)
  BY <1>1 DEF TextInv, EachOnce
<1>. QED  BY <1>2, <1>3, <1>4 DEF EachOnce

LEMMA SwapText ==
  ASSUME UnitInv, UnitInv', TextInv, NEW j \in 1 .. left, Swap(j)
  PROVE  TextInv'
<1>1. /\ pc = "flush" /\ pc' = "flush" /\ left > 1
      /\ ord' = [ord EXCEPT ![left] = ord[j], ![j] = ord[left]]
      /\ UNCHANGED <<funcperm, src, cur, zero, file, curfile, stash, rawout, funout, outf>>
  BY DEF Swap, input, emitst
<1>2. /\ Readable' /\ FilesNamed' /\ OpenData' /\ OpenCode' /\ CodeRight' /\ ConstsLast'
      /\ Wanted(Len(src))' = Wanted(Len(src)) /\ Emitted' = Emitted
  BY <1>1, NothingWritten
<1>3. SaysAll'
  BY <1>1, <1>2 DEF TextInv, SaysAll
<1>4. PICK D : D = DOMAIN funout
  OBVIOUS
<1>5. /\ D = 1 .. Len(funout) /\ ord \in [D -> D] /\ left \in D /\ j \in D /\ funcperm
  <2>1. IsSeq(funout) /\ ord \in [1 .. Len(funout) -> 1 .. Len(funout)] /\ funcperm
        /\ left \in 0 .. Len(funout)
    BY <1>1 DEF UnitInv, Shapes, TypeOK, Buffers
  <2>2. DOMAIN funout = 1 .. Len(funout) /\ Len(funout) \in Nat
    BY <2>1, SeqAt
  <2>. QED  BY <1>1, <1>4, <2>1, <2>2
<1>6. /\ \A n \in D : \E m \in D : ord[m] = n
      /\ \A m, n \in D : ord[m] = ord[n] => m = n
  BY <1>1, <1>4 DEF TextInv, EachOnce
<1>7. \A m \in D : ord'[m] = IF m = j THEN ord[left] ELSE IF m = left THEN ord[j] ELSE ord[m]
  BY <1>1, <1>5
<1>8. \A n \in D : \E m \in D : ord'[m] = n
  <2>1. ASSUME NEW n \in D PROVE \E m \in D : ord'[m] = n
    <3>1. PICK m \in D : ord[m] = n
      BY <1>6
    <3>2. CASE m = j
      <4>1. ord'[left] = n
        BY <1>5, <1>7, <3>1, <3>2
      <4>. QED  BY <1>5, <4>1
    <3>3. CASE m = left /\ m # j
      <4>1. ord'[j] = n
        BY <1>5, <1>7, <3>1, <3>3
      <4>. QED  BY <1>5, <4>1
    <3>4. CASE m # left /\ m # j
      BY <1>7, <3>1, <3>4
    <3>. QED  BY <3>2, <3>3, <3>4
  <2>. QED  BY <2>1
<1>9. ASSUME NEW m \in D, NEW n \in D, ord'[m] = ord'[n] PROVE m = n
  <2>. DEFINE from(x) == IF x = j THEN left ELSE IF x = left THEN j ELSE x
  <2>1. from(m) \in D /\ from(n) \in D /\ ord'[m] = ord[from(m)] /\ ord'[n] = ord[from(n)]
    BY <1>5, <1>7
  <2>. HIDE DEF from
  <2>2. from(m) = from(n)
    BY <1>6, <1>9, <2>1
  <2>. QED  BY <2>2 DEF from
<1>10. EachOnce'
  BY <1>1, <1>4, <1>5, <1>8, <1>9, OrderChanged
<1>. QED  BY <1>2, <1>3, <1>10 DEF TextInv

LEMMA ShuffledText ==
  ASSUME UnitInv, UnitInv', TextInv, Shuffled
  PROVE  TextInv'
<1>1. /\ pc = "flush" /\ pc' = "copy" /\ left' = 0
      /\ UNCHANGED <<funcperm, src, cur, zero, file, curfile, stash, rawout, funout, outf, ord>>
  BY DEF Shuffled, input, emitst
<1>2. /\ Readable' /\ FilesNamed' /\ OpenData' /\ OpenCode' /\ CodeRight' /\ ConstsLast'
      /\ Wanted(Len(src))' = Wanted(Len(src)) /\ Emitted' = Emitted
  BY <1>1, NothingWritten
<1>3. funcperm /\ outf = << >>
  BY <1>1 DEF TextInv, SaysAll, UnitInv, Shapes
<1>4. SaysAll'
  <2>1. Said(outf') = << >>
    BY <1>1, <1>3, DataTexts
  <2>2. Pieces(left)' = << >>
    <3>1. Pieces(0)' = Pieces(0)
      BY <1>1, NothingWritten
    <3>2. Pieces(0) = << >>
      <4>1. 0 \in 0 .. Len(rawout)
        BY SeqAt DEF UnitInv, Shapes, Buffers
      <4>. QED  BY <4>1, PiecesNext DEF TextInv
    <3>. QED  BY <1>1, <3>1, <3>2
  <2>. QED  BY <1>1, <1>2, <2>1, <2>2 DEF TextInv, SaysAll
<1>5. EachOnce'
  <2>1. OutIds = {}
    BY <1>3 DEF OutIds, Lines
  <2>2. /\ \A n \in DOMAIN funout : \E m \in DOMAIN funout : ord'[m] = n
        /\ \A m, n \in DOMAIN funout : ord'[m] = ord'[n] => m = n
    BY <1>1 DEF TextInv, EachOnce
  <2>. QED  BY <1>1, <1>3, <2>1, <2>2, OrderChanged
<1>. QED  BY <1>2, <1>4, <1>5 DEF TextInv

\* What was before a function and the function: its line is the only one there.
LEMMA TwoTexts ==
  ASSUME NEW a, NEW b, NEW d, CodeGiven(a, d), CodeGiven(b, d), CodeBy(b, d),
         b # << >>, b[1].k = "func", \A i \in DOMAIN b : i > 1 => b[i].k = "ref",
         \A i \in DOMAIN a : a[i].k \notin CodeLines
  PROVE  /\ IsSeq(a \o b) /\ ToSet(a \o b) = ToSet(a) \cup ToSet(b)
         /\ CodeGiven(a \o b, d) /\ CodeBy(a \o b, d)
         /\ Len(a) + 1 \in DOMAIN (a \o b) /\ Len(a) + 1 \in Nat /\ (a \o b)[Len(a) + 1] = b[1]
         /\ \A i \in DOMAIN (a \o b) : (a \o b)[i].k = "func" => i = Len(a) + 1
<1>. PICK t : t = a \o b
  OBVIOUS
<1>1. /\ IsSeq(t) /\ ToSet(t) = ToSet(a) \cup ToSet(b)
      /\ Len(t) = Len(a) + Len(b) /\ Len(a) \in Nat /\ Len(b) \in Nat
      /\ DOMAIN a = 1 .. Len(a) /\ DOMAIN b = 1 .. Len(b) /\ DOMAIN t = 1 .. Len(t)
      /\ \A i \in 1 .. Len(a) : t[i] = a[i]
      /\ \A i \in 1 .. Len(b) : t[Len(a) + i] = b[i]
  BY SeqCat DEF CodeGiven
<1>2. ASSUME NEW i \in DOMAIN t
      PROVE  \/ i \in DOMAIN a /\ t[i] = a[i]
             \/ \E j \in DOMAIN b : i = Len(a) + j /\ t[i] = b[j]
  <2>1. CASE i <= Len(a)
    <3>1. i \in 1 .. Len(a)
      BY <1>1, <2>1
    <3>. QED  BY <1>1, <3>1
  <2>2. CASE ~ (i <= Len(a))
    <3>1. i - Len(a) \in 1 .. Len(b) /\ Len(a) + (i - Len(a)) = i
      BY <1>1, <2>2
    <3>. QED  BY <1>1, <3>1
  <2>. QED  BY <2>1, <2>2
<1>3. CodeGiven(t, d)
  BY <1>1, <1>2 DEF CodeGiven
<1>4. CodeBy(t, d)
  <2>1. CodeBy(a, d)
    BY CodeNone
  <2>. QED  BY <2>1, CodeCat
<1>5. 1 \in DOMAIN b
  <2>1. IsSeq(b)
    BY DEF CodeGiven
  <2>2. Len(b) \in DOMAIN b
    BY <2>1, SeqAt
  <2>. QED  BY <1>1, <2>2
<1>6. Len(a) + 1 \in DOMAIN t /\ Len(a) + 1 \in Nat /\ t[Len(a) + 1] = b[1]
  BY <1>1, <1>5
<1>7. ASSUME NEW i \in DOMAIN t, t[i].k = "func" PROVE i = Len(a) + 1
  <2>1. PICK j \in DOMAIN b : i = Len(a) + j /\ t[i] = b[j]
    BY <1>2, <1>7 DEF CodeLines
  <2>2. ~ (j > 1) /\ j \in 1 .. Len(b)
    BY <1>1, <1>7, <2>1
  <2>3. j = 1
    BY <1>1, <2>2
  <2>. QED  BY <2>1, <2>3
<1>. QED  BY <1>1, <1>3, <1>4, <1>6, <1>7

\* The functions in the output, when it grows.
LEMMA FuncsGrow ==
  ASSUME IsSeq(outf), NEW t, IsSeq(t), outf' = outf \o t
  PROVE  /\ Len(outf) \in Nat
         /\ \A i \in Lines("func") : i \in Lines("func")' /\ outf'[i] = outf[i] /\ i \in 1 .. Len(outf)
         /\ \A i \in Lines("func")' :
              \/ i \in Lines("func") /\ outf'[i] = outf[i]
              \/ \E j \in DOMAIN t : t[j].k = "func" /\ i = Len(outf) + j /\ outf'[i] = t[j]
         /\ \A j \in DOMAIN t : t[j].k = "func" => Len(outf) + j \in Lines("func")' /\ outf'[Len(outf) + j] = t[j]
<1>1. /\ Len(outf) \in Nat
      /\ \A kind : \A i \in Lines(kind) : i \in Lines(kind)' /\ outf'[i] = outf[i] /\ i \in 1 .. Len(outf)
      /\ \A kind : \A i \in Lines(kind)' :
           \/ i \in Lines(kind) /\ outf'[i] = outf[i]
           \/ \E j \in DOMAIN t : t[j].k = kind /\ i = Len(outf) + j /\ outf'[i] = t[j]
      /\ \A j \in DOMAIN t : Len(outf) + j \in Lines(t[j].k)' /\ outf'[Len(outf) + j] = t[j]
  BY OutGrows
<1>2. \A j \in DOMAIN t : t[j].k = "func" => Len(outf) + j \in Lines("func")' /\ outf'[Len(outf) + j] = t[j]
  BY <1>1
<1>. QED  BY <1>1, <1>2, SMTT(40)

LEMMA CopyOutText ==
  ASSUME UnitInv, UnitInv', TextInv, CopyOut
  PROVE  TextInv'
<1>. PICK n : n = left + 1
  OBVIOUS
<1>. PICK k : k = ord[n]
  OBVIOUS
<1>. PICK a, b, F : a = rawout[n] /\ b = funout[k] /\ F = <<[k |-> "func"]>>
  OBVIOUS
<1>. PICK t : t = a \o b
  OBVIOUS
<1>1. /\ pc = "copy" /\ pc' = "copy" /\ left < Len(funout) /\ outf' = outf \o t /\ left' = n
      /\ UNCHANGED <<funcperm, src, cur, zero, file, curfile, stash, rawout, funout, ord>>
  BY DEF CopyOut, input, emitst
<1>2. /\ IsSeq(outf) /\ Buffers(rawout) /\ Buffers(funout) /\ IsSeq(funout) /\ IsSeq(rawout) /\ funcperm
      /\ ord \in [1 .. Len(funout) -> 1 .. Len(funout)] /\ left \in 0 .. Len(funout)
      /\ Len(rawout) = Len(funout) + 1
  BY <1>1 DEF UnitInv, Shapes, TypeOK, Buffers
<1>3. /\ Len(funout) \in Nat /\ DOMAIN funout = 1 .. Len(funout) /\ DOMAIN rawout = 1 .. Len(funout) + 1
      /\ n \in DOMAIN funout /\ n \in DOMAIN rawout /\ k \in DOMAIN funout /\ n \in Nat /\ n # 0 /\ left = n - 1
      /\ n <= Len(funout) /\ left \in Nat
  <2>1. Len(funout) \in Nat /\ DOMAIN funout = 1 .. Len(funout) /\ DOMAIN rawout = 1 .. Len(funout) + 1
    BY <1>2, SeqAt
  <2>2. n \in 1 .. Len(funout)
    BY <1>1, <1>2, <2>1
  <2>3. k \in DOMAIN funout
    BY <1>2, <2>1, <2>2
  <2>. QED  BY <1>2, <2>1, <2>2, <2>3
<1>4. IsSeq(a) /\ IsSeq(b) /\ CanRead(a) /\ CanRead(b) /\ CanRead(outf)
      /\ CodeGiven(a, src) /\ CodeGiven(b, src) /\ CodeGiven(outf, src)
  BY <1>2, <1>3, CanReadAll, CodesGiven DEF TextInv, Buffers
<1>5. /\ CodeBy(b, src) /\ Said(b) = F /\ b # << >> /\ b[1].k = "func" /\ b[1].id = FunId(k)
      /\ \A i \in DOMAIN b : i > 1 => b[i].k = "ref"
      /\ \A i \in DOMAIN a : a[i].k \notin CodeLines
      /\ CodeBy(outf, src)
  BY <1>3, CodeInIs DEF TextInv, CodeRight, FunId
<1>6. t = a \o b
  OBVIOUS
<1>7. PICK p : p = Len(a) + 1
  OBVIOUS
<1>8. /\ CodeGiven(t, src) /\ CodeBy(t, src) /\ IsSeq(t) /\ ToSet(t) = ToSet(a) \cup ToSet(b)
      /\ p \in DOMAIN t /\ p \in Nat /\ t[p] = b[1]
      /\ \A i \in DOMAIN t : t[i].k = "func" => i = p
  BY ONLY <1>4, <1>5, <1>6, <1>7, TwoTexts
<1>10. /\ p \in DOMAIN t /\ t[p].k = "func" /\ t[p].id = FunId(k) /\ p \in Nat /\ p # 0
       /\ \A i \in DOMAIN t : t[i].k = "func" => i = p
  <2>1. p # 0
    <3>1. DOMAIN t = 1 .. Len(t)
      BY <1>8, SeqAt
    <3>. QED  BY <1>8, <3>1
  <2>. QED  BY <1>5, <1>8, <2>1
<1>11. Written' = Written
  <2>1. ToSet(t) \subseteq Written
    BY <1>3, <1>8, InText DEF Written, Plain
  <2>2. outf' = outf \o t /\ UNCHANGED <<rawout, funout>>
    BY <1>1
  <2>. QED  BY ONLY <1>2, <1>8, <2>1, <2>2, CopyFacts
<1>12. CodeIn(outf)'
  <2>1. CodeBy(outf \o t, src)
    BY <1>4, <1>5, <1>8, CodeCat
  <2>2. CodeBy(outf', src')
    BY <1>1, <2>1
  <2>. QED  BY <2>2 DEF CodeIn, CodeBy
<1>13. /\ Readable' /\ FilesNamed' /\ OpenData' /\ OpenCode' /\ CodeRight'
       /\ Wanted(Len(src))' = Wanted(Len(src)) /\ Of("func")' = Of("func")
       /\ \A i : FunId(i)' = FunId(i) /\ Pieces(i)' = Pieces(i)
       /\ Emitted' = Emitted
  BY <1>1, <1>2, <1>11, <1>12, NothingRead
<1>14. Said(outf') = Pieces(n)
  <2>1. Said(t) = Said(a) \o F /\ CanRead(t)
    <3>1. CanRead(t) /\ Said(t) = Said(a) \o Said(b)
      BY ONLY <1>4, <1>6, SaidCat
    <3>. QED  BY <1>5, <3>1
  <2>2. Said(outf \o t) = Said(outf) \o Said(t)
    BY ONLY <1>4, <2>1, SaidCat
  <2>3. Said(outf) = Pieces(n - 1)
    BY <1>1, <1>3 DEF TextInv, SaysAll
  <2>4. Piece(n) = Said(a) \o F
    BY <1>3 DEF Piece
  <2>5. Pieces(n) = Pieces(n - 1) \o Piece(n)
    <3>1. n \in 0 .. Len(rawout)
      BY <1>2, <1>3
    <3>. QED  BY <1>3, <3>1, PiecesNext DEF TextInv
  <2>. QED  BY <1>1, <2>1, <2>2, <2>3, <2>4, <2>5
<1>15. SaysAll'
  <2>1. Said(outf)' = Pieces(left)'
    BY <1>1, <1>13, <1>14
  <2>. QED  BY <1>1, <1>13, <2>1 DEF TextInv, SaysAll
<1>16. ConstsLast'
  <2>1. (UnitInv /\ pc \notin {"fin", "done"} => Lines("fp") = {} /\ ConstsLast)'
    BY NoConsts, PTL
  <2>. QED  BY <1>1, <2>1
<1>17. PICK N : N = Len(outf) + p
  OBVIOUS
<1>18. /\ N \in Lines("func")' /\ outf'[N].id = FunId(k) /\ N \notin Lines("func")
       /\ \A i \in Lines("func") : i \in Lines("func")' /\ outf'[i] = outf[i] /\ i < N
       /\ \A i \in Lines("func")' : i = N \/ (i \in Lines("func") /\ outf'[i] = outf[i] /\ i < N)
  <2>1. /\ Len(outf) \in Nat
        /\ \A i \in Lines("func") : i \in Lines("func")' /\ outf'[i] = outf[i] /\ i \in 1 .. Len(outf)
        /\ \A i \in Lines("func")' :
             \/ i \in Lines("func") /\ outf'[i] = outf[i]
             \/ \E j \in DOMAIN t : t[j].k = "func" /\ i = Len(outf) + j /\ outf'[i] = t[j]
        /\ \A j \in DOMAIN t : t[j].k = "func" => Len(outf) + j \in Lines("func")' /\ outf'[Len(outf) + j] = t[j]
    <3>1. IsSeq(outf) /\ IsSeq(t) /\ outf' = outf \o t
      BY <1>1, <1>2, <1>8
    <3>. QED  BY ONLY <3>1, FuncsGrow
  <2>2. N \in Lines("func")' /\ outf'[N].id = FunId(k)
    BY <1>10, <1>17, <2>1
  <2>3. \A i \in Lines("func") : i < N
    BY <1>10, <1>17, <2>1
  <2>4. N \notin Lines("func")
    BY <1>10, <1>17, <2>1
  <2>5. \A i \in Lines("func")' : i = N \/ (i \in Lines("func") /\ outf'[i] = outf[i] /\ i < N)
    <3>1. \A j \in DOMAIN t : t[j].k = "func" => Len(outf) + j = N
      BY <1>10, <1>17
    <3>. QED  BY <2>1, <2>3, <3>1
  <2>. QED  BY <2>1, <2>2, <2>3, <2>4, <2>5
<1>19. OutIds = {FunId(ord[m]) : m \in 1 .. n - 1}
  BY <1>1, <1>3 DEF TextInv, EachOnce
<1>20. \A m \in 1 .. n - 1 : FunId(ord[m]) # FunId(k)
  <2>1. ASSUME NEW m \in 1 .. n - 1 PROVE FunId(ord[m]) # FunId(k)
    <3>1. m \in DOMAIN funout /\ m # n
      BY <1>3
    <3>2. ord[m] \in DOMAIN funout /\ ord[m] # k
      BY <1>1, <1>2, <1>3, <3>1 DEF TextInv, EachOnce
    <3>. QED  BY <1>2, <1>3, <3>2 DEF TextInv, EachOnce
  <2>. QED  BY <2>1
<1>21. OutIds' = {FunId(ord[m])' : m \in 1 .. left'}
  <2>1. OutIds' = OutIds \cup {FunId(k)}
    BY <1>18 DEF OutIds
  <2>2. \A m : m \in 1 .. n <=> m \in 1 .. n - 1 \/ m = n
    BY <1>3
  <2>3. OutIds' = {FunId(ord[m]) : m \in 1 .. n}
    BY <1>19, <2>1, <2>2
  <2>4. \A m : FunId(ord[m])' = FunId(ord[m])
    BY <1>1 DEF FunId
  <2>. QED  BY <1>1, <2>3, <2>4
<1>22. ASSUME NEW i \in Lines("func")', NEW j \in Lines("func")', i < j PROVE outf'[i].id # outf'[j].id
  <2>1. i \in Nat /\ j \in Nat
    <3>1. IsSeq(outf)'
      BY DEF UnitInv, Shapes
    <3>. QED  BY <3>1, SeqAt DEF Lines
  <2>2. i # N /\ i \in Lines("func") /\ outf'[i] = outf[i]
    <3>1. ~ (N < j)
      BY <1>18, <2>1
    <3>. QED  BY <1>18, <1>22, <3>1
  <2>3. CASE j = N
    <3>1. outf[i].id \in OutIds
      BY <2>2 DEF OutIds
    <3>. QED  BY <1>18, <1>19, <1>20, <2>2, <2>3, <3>1
  <2>4. CASE j # N
    BY <1>18, <1>22, <2>2, <2>4 DEF TextInv, EachOnce
  <2>. QED  BY <2>3, <2>4
<1>23. EachOnce'
  <2>1. {FunId(m)' : m \in DOMAIN funout'} = Of("func")'
        /\ \A l, m \in DOMAIN funout' : FunId(l)' = FunId(m)' => l = m
    BY <1>1, <1>2, <1>13 DEF TextInv, EachOnce
  <2>2. /\ \A m \in DOMAIN funout' : \E l \in DOMAIN funout' : ord'[l] = m
        /\ \A l, m \in DOMAIN funout' : ord'[l] = ord'[m] => l = m
    BY <1>1 DEF TextInv, EachOnce
  <2>3. funcperm' /\ pc' = "copy"
    BY <1>1, <1>2
  <2>. QED  BY <1>21, <1>22, <2>1, <2>2, <2>3 DEF EachOnce
<1>. QED  BY <1>13, <1>15, <1>16, <1>23 DEF TextInv

\* The output grows by lines that are not of functions.
LEMMA QuietGrows ==
  ASSUME UnitInv, TextInv, src' = src, NEW t, IsSeq(t), \A i \in DOMAIN t : t[i].k \notin CodeLines,
         outf' = outf \o t
  PROVE  /\ CodeIn(outf)'
         /\ Lines("func")' = Lines("func") /\ OutIds' = OutIds
         /\ \A i \in Lines("func") : outf'[i] = outf[i]
<1>1. IsSeq(outf)
  BY DEF UnitInv, Shapes
<1>2. CodeIn(outf)'
  <2>1. CodeGiven(t, src) /\ CodeBy(t, src)
    <3>1. CodeBy(t, src)
      BY CodeNone
    <3>. QED  BY <3>1 DEF CodeGiven, CodeLines
  <2>2. CodeGiven(outf, src) /\ CodeBy(outf, src)
    BY CodesGiven, CodeInIs DEF TextInv, CodeRight
  <2>3. CodeBy(outf \o t, src)
    BY <2>1, <2>2, CodeCat
  <2>. QED  BY <2>3, CodeInIs
<1>3. /\ \A i \in Lines("func") : i \in Lines("func")' /\ outf'[i] = outf[i]
      /\ \A i \in Lines("func")' :
           \/ i \in Lines("func") /\ outf'[i] = outf[i]
           \/ \E j \in DOMAIN t : t[j].k = "func" /\ i = Len(outf) + j /\ outf'[i] = t[j]
  BY <1>1, FuncsGrow
<1>4. \A j \in DOMAIN t : t[j].k # "func"
  BY DEF CodeLines
<1>5. Lines("func")' = Lines("func")
  BY <1>3, <1>4
<1>6. OutIds' = OutIds
  BY <1>3, <1>5 DEF OutIds
<1>. QED  BY <1>2, <1>3, <1>5, <1>6

LEMMA CopyLastText ==
  ASSUME UnitInv, UnitInv', TextInv, CopyLast
  PROVE  TextInv'
<1>. PICK n : n = left + 1
  OBVIOUS
<1>. PICK t : t = rawout[n]
  OBVIOUS
<1>1. /\ pc = "copy" /\ pc' = "fin" /\ left = Len(funout) /\ outf' = outf \o t
      /\ UNCHANGED <<funcperm, src, cur, zero, file, curfile, stash, rawout, funout, ord, left>>
  BY DEF CopyLast, input, emitst
<1>2. /\ IsSeq(outf) /\ Buffers(rawout) /\ Buffers(funout) /\ IsSeq(funout) /\ IsSeq(rawout) /\ funcperm
      /\ ord \in [1 .. Len(funout) -> 1 .. Len(funout)]
      /\ Len(rawout) = Len(funout) + 1
  BY <1>1 DEF UnitInv, Shapes, TypeOK, Buffers
<1>3. /\ Len(funout) \in Nat /\ DOMAIN funout = 1 .. Len(funout) /\ DOMAIN rawout = 1 .. n
      /\ n \in DOMAIN rawout /\ n \in Nat /\ n # 0 /\ left = n - 1 /\ n = Len(rawout)
      /\ ~ (n <= Len(funout))
  <2>1. Len(funout) \in Nat /\ DOMAIN funout = 1 .. Len(funout) /\ DOMAIN rawout = 1 .. Len(rawout)
    BY <1>2, SeqAt
  <2>. QED  BY <1>1, <1>2, <2>1
<1>4. /\ IsSeq(t) /\ CanRead(t) /\ CanRead(outf) /\ \A i \in DOMAIN t : t[i].k \notin CodeLines
  BY <1>2, <1>3, CanReadAll DEF TextInv, Buffers, CodeRight
<1>5. /\ CodeIn(outf)' /\ Lines("func")' = Lines("func") /\ OutIds' = OutIds
      /\ \A i \in Lines("func") : outf'[i] = outf[i]
  BY <1>1, <1>4, QuietGrows
<1>6. Written' = Written
  <2>1. ToSet(t) \subseteq Written
    BY <1>3, InText DEF Written, Plain
  <2>2. outf' = outf \o t /\ UNCHANGED <<rawout, funout>>
    BY <1>1
  <2>. QED  BY ONLY <1>2, <1>4, <2>1, <2>2, CopyFacts
<1>7. /\ Readable' /\ FilesNamed' /\ OpenData' /\ OpenCode' /\ CodeRight'
      /\ Wanted(Len(src))' = Wanted(Len(src)) /\ Of("func")' = Of("func")
      /\ \A i : FunId(i)' = FunId(i)
  BY <1>1, <1>2, <1>5, <1>6, NothingRead
<1>8. Said(outf') = Wanted(Len(src))
  <2>1. Said(outf \o t) = Said(outf) \o Said(t)
    BY ONLY <1>4, SaidCat
  <2>2. Said(outf) = Pieces(n - 1)
    BY <1>1, <1>3 DEF TextInv, SaysAll
  <2>3. Piece(n) = Said(t)
    <3>1. Piece(n) = Said(t) \o << >>
      BY <1>3 DEF Piece
    <3>2. Said(t) \in Seq(Marks)
      BY <1>4, SaidSeq
    <3>. QED  BY <3>1, <3>2
  <2>4. Pieces(n) = Pieces(n - 1) \o Piece(n)
    <3>1. n \in 0 .. Len(rawout)
      BY <1>3
    <3>. QED  BY <1>3, <3>1, PiecesNext DEF TextInv
  <2>5. Pieces(n) = Wanted(Len(src))
    BY <1>1, <1>2, <1>3 DEF TextInv, SaysAll, Emitted
  <2>. QED  BY <1>1, <2>1, <2>2, <2>3, <2>4, <2>5
<1>9. SaysAll'
  <2>1. Said(outf)' = Wanted(Len(src))'
    BY <1>7, <1>8
  <2>. QED  BY <1>1, <2>1 DEF SaysAll
<1>10. ConstsLast'
  <2>1. \A l \in Written' : l.k # "fp"
    BY <1>1, <1>6 DEF UnitInv, ConstsOnce
  <2>2. ToSet(outf') \subseteq Written'
    BY DEF Written, Plain
  <2>3. \A i \in Lines("fp")' : FALSE
    BY <2>1, <2>2, InSeq DEF Lines
  <2>. QED  BY <2>3 DEF ConstsLast
<1>11. OutIds' = Of("func")'
  <2>1. OutIds = {FunId(ord[m]) : m \in DOMAIN funout}
    BY <1>1, <1>3 DEF TextInv, EachOnce
  <2>2. /\ \A i \in DOMAIN funout : \E m \in DOMAIN funout : ord[m] = i
        /\ \A m \in DOMAIN funout : ord[m] \in DOMAIN funout
    BY <1>1, <1>2, <1>3 DEF TextInv, EachOnce
  <2>3. OutIds = {FunId(i) : i \in DOMAIN funout}
    BY <2>1, <2>2
  <2>. QED  BY <1>2, <1>5, <1>7, <2>3 DEF TextInv, EachOnce
<1>12. EachOnce'
  <2>1. {FunId(m)' : m \in DOMAIN funout'} = Of("func")'
        /\ \A l, m \in DOMAIN funout' : FunId(l)' = FunId(m)' => l = m
    BY <1>1, <1>2, <1>7 DEF TextInv, EachOnce
  <2>2. ASSUME NEW i \in Lines("func")', NEW j \in Lines("func")', i < j
        PROVE  outf'[i].id # outf'[j].id /\ (~ funcperm' => outf'[i].id < outf'[j].id)
    <3>1. i \in Lines("func") /\ j \in Lines("func") /\ outf'[i] = outf[i] /\ outf'[j] = outf[j]
      BY <1>5
    <3>. QED  BY <1>1, <2>2, <3>1 DEF TextInv, EachOnce
  <2>3. pc' = "fin"
    BY <1>1
  <2>. QED  BY <1>11, <2>1, <2>2, <2>3 DEF EachOnce
<1>. QED  BY <1>7, <1>9, <1>10, <1>12 DEF TextInv

LEMMA EmitFpText ==
  ASSUME UnitInv, UnitInv', TextInv, NEW i \in owed, EmitFp(i)
  PROVE  TextInv'
<1>. PICK l : l = [k |-> "fp", n |-> i, bits |-> stash[i]]
  OBVIOUS
<1>. PICK t : t = <<l>>
  OBVIOUS
<1>1. /\ pc = "fin" /\ pc' = "fin" /\ outf' = outf \o t
      /\ UNCHANGED <<funcperm, src, cur, zero, file, curfile, stash, rawout, funout, ord, left>>
  BY DEF EmitFp, input, emitst
<1>2. IsSeq(t) /\ ToSet(t) = {l} /\ DOMAIN t = {1} /\ t[1] = l /\ l.k = "fp"
  BY SeqOne
<1>3. IsSeq(outf) /\ CanRead(outf) /\ CanRead(t) /\ Said(t) = << >>
  <2>1. Line(l) = << >> /\ Line(l) \in Seq(Marks)
    BY <1>2, SaidNothing
  <2>2. CanRead(<<l>>) /\ Said(<<l>>) = << >>
    BY <2>1, SaidOne
  <2>. QED  BY <2>2, CanReadAll DEF UnitInv, Shapes, TextInv
<1>4. \A j \in DOMAIN t : t[j].k \notin CodeLines
  BY <1>2 DEF CodeLines
<1>5. /\ CodeIn(outf)' /\ Lines("func")' = Lines("func") /\ OutIds' = OutIds
      /\ \A j \in Lines("func") : outf'[j] = outf[j]
  BY <1>1, <1>2, <1>4, QuietGrows
<1>6. Written' = Written \cup ToSet(t)
  <2>1. ToSet(outf') = ToSet(outf) \cup ToSet(t)
    BY <1>1, <1>2, <1>3, SeqCat
  <2>2. TextOf(rawout') = TextOf(rawout) /\ TextOf(funout') = TextOf(funout)
    BY <1>1
  <2>. QED  BY <2>1, <2>2 DEF Written, Plain
<1>7. /\ Wanted(Len(src))' = Wanted(Len(src)) /\ Of("func")' = Of("func")
      /\ \A n : FunId(n)' = FunId(n)
  BY <1>1 DEF Wanted, Definition, Named, Of, FunId
<1>8. Readable'
  <2>1. SrcRead'
    BY <1>1 DEF TextInv, Readable, SrcRead, Of
  <2>2. Readable
    BY DEF TextInv
  <2>. QED  BY ONLY <1>3, <1>6, <2>1, <2>2, ReadableStep
<1>9. FilesNamed' /\ OpenData' /\ OpenCode'
  BY <1>1 DEF TextInv, FilesNamed, Of, OpenData, OpenCode
<1>10. CodeRight'
  <2>1. \A n \in DOMAIN funout : CodeIn(funout[n])' /\ Said(funout[n])' = Said(funout[n])
    BY <1>1 DEF TextInv, CodeRight, CodeIn
  <2>. QED  BY <1>1, <1>5, <2>1 DEF TextInv, CodeRight
<1>11. SaysAll'
  <2>1. Said(outf \o t) = Said(outf) \o Said(t)
    BY ONLY <1>3, SaidCat
  <2>2. Said(outf) \in Seq(Marks)
    BY <1>3, SaidSeq
  <2>3. Said(outf') = Said(outf)
    <3>1. Said(outf') = Said(outf) \o << >>
      BY <1>1, <1>3, <2>1
    <3>2. PICK S : S = Said(outf)
      OBVIOUS
    <3>3. S \o << >> = S
      BY ONLY <2>2, <3>2
    <3>. QED  BY <3>1, <3>2, <3>3
  <2>4. Said(outf)' = Wanted(Len(src))'
    BY <1>1, <1>7, <2>3 DEF TextInv, SaysAll
  <2>. QED  BY <1>1, <2>4 DEF SaysAll
<1>12. EachOnce'
  <2>1. funcperm' => /\ {FunId(m)' : m \in DOMAIN funout'} = Of("func")'
                     /\ \A h, m \in DOMAIN funout' : FunId(h)' = FunId(m)' => h = m
    BY <1>1, <1>7 DEF TextInv, EachOnce
  <2>2. ASSUME NEW h \in Lines("func")', NEW j \in Lines("func")', h < j
        PROVE  outf'[h].id # outf'[j].id /\ (~ funcperm' => outf'[h].id < outf'[j].id)
    <3>1. h \in Lines("func") /\ j \in Lines("func") /\ outf'[h] = outf[h] /\ outf'[j] = outf[j]
      BY <1>5
    <3>2. outf[h].id # outf[j].id /\ (~ funcperm => outf[h].id < outf[j].id)
      <4>1. EachOnce
        BY DEF TextInv
      <4>. QED  BY ONLY <2>2, <3>1, <4>1 DEF EachOnce
    <3>3. funcperm' = funcperm
      BY <1>1
    <3>. QED  BY ONLY <3>1, <3>2, <3>3
  <2>3. OutIds' = Of("func")' /\ pc' = "fin"
    BY <1>1, <1>5, <1>7 DEF TextInv, EachOnce
  <2>. QED  BY <2>1, <2>2, <2>3 DEF EachOnce
<1>13. ConstsLast'
  <2>1. /\ Len(outf') = Len(outf) + 1 /\ Len(outf) \in Nat
        /\ DOMAIN outf = 1 .. Len(outf) /\ DOMAIN outf' = 1 .. Len(outf) + 1
        /\ \A j \in 1 .. Len(outf) : outf'[j] = outf[j]
        /\ outf'[Len(outf) + 1] = l
    <3>1. /\ Len(outf') = Len(outf) + Len(t) /\ Len(outf) \in Nat
          /\ DOMAIN outf = 1 .. Len(outf) /\ DOMAIN outf' = 1 .. Len(outf')
          /\ \A j \in 1 .. Len(outf) : outf'[j] = outf[j]
          /\ \A j \in 1 .. Len(t) : outf'[Len(outf) + j] = t[j]
      BY <1>1, <1>2, <1>3, SeqCat
    <3>2. Len(t) = 1
      BY SeqOne
    <3>. QED  BY <1>2, <3>1, <3>2
  <2>2. ASSUME NEW h \in Lines("fp")', NEW j \in DOMAIN outf', h < j PROVE outf'[j].k = "fp"
    <3>1. CASE j = Len(outf) + 1
      BY <1>2, <2>1, <3>1
    <3>2. CASE j # Len(outf) + 1
      <4>1. h \in DOMAIN outf' /\ outf'[h].k = "fp"
        BY DEF Lines
      <4>2. h \in DOMAIN outf /\ j \in DOMAIN outf
        BY <2>1, <2>2, <3>2, <4>1
      <4>3. h \in Lines("fp")
        BY <2>1, <4>1, <4>2 DEF Lines
      <4>. QED  BY <2>1, <2>2, <4>2, <4>3 DEF TextInv, ConstsLast
    <3>. QED  BY <3>1, <3>2
  <2>. QED  BY <2>2 DEF ConstsLast
<1>. QED  BY <1>8, <1>9, <1>10, <1>11, <1>12, <1>13 DEF TextInv

LEMMA EmitFinText ==
  ASSUME UnitInv, UnitInv', TextInv, EmitFin
  PROVE  TextInv'
<1>1. /\ pc = "fin" /\ pc' = "done"
      /\ UNCHANGED <<funcperm, src, cur, zero, file, curfile, stash, rawout, funout, ord, left, outf>>
  BY DEF EmitFin, input, emitst, bufs
<1>2. /\ Readable' /\ FilesNamed' /\ OpenData' /\ OpenCode' /\ CodeRight' /\ ConstsLast'
      /\ Wanted(Len(src))' = Wanted(Len(src)) /\ Of("func")' = Of("func")
      /\ \A n : FunId(n)' = FunId(n)
      /\ Lines("func")' = Lines("func") /\ OutIds' = OutIds
  BY <1>1, NothingWritten
<1>3. SaysAll'
  <2>1. Said(outf)' = Wanted(Len(src))'
    BY <1>1, <1>2 DEF TextInv, SaysAll
  <2>. QED  BY <1>1, <2>1 DEF SaysAll
<1>4. EachOnce'
  <2>1. funcperm' => /\ {FunId(m)' : m \in DOMAIN funout'} = Of("func")'
                     /\ \A h, m \in DOMAIN funout' : FunId(h)' = FunId(m)' => h = m
    BY <1>1, <1>2 DEF TextInv, EachOnce
  <2>2. \A h, j \in Lines("func")' : h < j =>
          outf'[h].id # outf'[j].id /\ (~ funcperm' => outf'[h].id < outf'[j].id)
    BY <1>1, <1>2 DEF TextInv, EachOnce
  <2>3. OutIds' = Of("func")' /\ pc' = "done"
    BY <1>1, <1>2 DEF TextInv, EachOnce
  <2>. QED  BY <2>1, <2>2, <2>3 DEF EachOnce
<1>. QED  BY <1>2, <1>3, <1>4 DEF TextInv

LEMMA InitText ==
  ASSUME Init, UnitInv
  PROVE  TextInv
<1>. PICK e : e = << >>
  OBVIOUS
<1>1. /\ pc = "top" /\ src = e /\ cur = NoItem /\ zero = 0 /\ file = e /\ outf = e /\ funout = e
      /\ rawout = IF funcperm THEN <<e>> ELSE e
  BY DEF Init
<1>2. IsSeq(e) /\ ToSet(e) = {} /\ DOMAIN e = {} /\ Len(e) = 0 /\ CanRead(e) /\ Said(e) = << >>
  <2>1. IsSeq(e) /\ ToSet(e) = {}
    BY SeqOne
  <2>2. CanRead(e) /\ Said(e) = << >>
    BY DataTexts DEF DataText
  <2>. QED  BY <2>1, <2>2
<1>3. /\ DOMAIN <<e>> = {1} /\ <<e>>[1] = e /\ Len(<<e>>) = 1
  BY SeqOne
<1>4. \A kind : Of(kind) = {} /\ Lines(kind) = {}
  BY <1>1, <1>2 DEF Of, Lines
<1>5. \A n \in DOMAIN rawout : rawout[n] = e
  BY <1>1, <1>2, <1>3
<1>6. Written = {}
  <2>1. TextOf(rawout) = {} /\ TextOf(funout) = {}
    BY <1>1, <1>2, <1>5 DEF TextOf
  <2>. QED  BY <1>1, <1>2, <2>1 DEF Written, Plain
<1>7. Readable /\ FilesNamed /\ ConstsLast
  BY <1>1, <1>2, <1>4, <1>6 DEF Readable, FilesNamed, ConstsLast
<1>8. OpenData /\ OpenCode
  BY <1>1 DEF OpenData, OpenCode
<1>9. CodeRight
  BY <1>1, <1>2, <1>5 DEF CodeRight, CodeIn
<1>10. EachOnce
  <2>1. OutIds = {} /\ {FunId(n) : n \in DOMAIN funout} = {}
    BY <1>1, <1>2, <1>4 DEF OutIds
  <2>. QED  BY <1>1, <1>2, <1>4, <2>1 DEF EachOnce
<1>11. Wanted(Len(src)) = << >>
  <2>1. 0 \in 0 .. Len(src)
    BY <1>1, <1>2
  <2>2. Wanted(0) = << >>
    BY <1>7, <2>1, WantedNext
  <2>. QED  BY <1>1, <1>2, <2>2
<1>12. Emitted = << >>
  <2>1. CASE ~ funcperm
    BY <1>1, <1>2, <2>1 DEF Emitted
  <2>2. CASE funcperm
    <3>1. Len(rawout) = 1 /\ 1 \in DOMAIN rawout
      BY <1>1, <1>3, <2>2
    <3>2. Piece(1) = << >>
      <4>1. ~ (1 <= Len(funout))
        BY <1>1, <1>2
      <4>2. Piece(1) = Said(e) \o << >>
        BY <1>5, <3>1, <4>1 DEF Piece
      <4>3. << >> \o << >> = << >>
        OBVIOUS
      <4>. QED  BY <1>2, <4>2, <4>3
    <3>3. Pieces(1) = Pieces(0) \o Piece(1) /\ Pieces(0) = << >>
      <4>1. 1 \in 0 .. Len(rawout) /\ 1 # 0 /\ 1 - 1 = 0
        BY <3>1
      <4>2. Pieces(1) = Pieces(1 - 1) \o Piece(1) /\ Pieces(0) = << >>
        BY <1>7, <4>1, PiecesNext
      <4>. QED  BY <4>1, <4>2
    <3>4. << >> \o << >> = << >>
      OBVIOUS
    <3>. QED  BY <2>2, <3>1, <3>2, <3>3, <3>4 DEF Emitted
  <2>. QED  BY <2>1, <2>2
<1>13. SaysAll
  BY <1>1, <1>11, <1>12 DEF SaysAll
<1>. QED  BY <1>7, <1>8, <1>9, <1>10, <1>13 DEF TextInv

LEMMA StepText ==
  ASSUME UnitInv, TextInv, [Next]_vars
  PROVE  TextInv'
<1>1. UnitInv'
  BY StepHolds
<1>2. CASE Next
  BY <1>1, <1>2, DbgFileText, FuncText, FuncConstText, FuncEndText, DatStartText, DatZText,
     DatFieldText, DatItemText, DatEndText, FinishText, SwapText, ShuffledText,
     CopyOutText, CopyLastText, EmitFpText, EmitFinText DEF Next
<1>3. CASE UNCHANGED vars
  <2>1. UNCHANGED <<pc, funcperm, src, cur, zero, file, curfile, stash,
                    rawout, funout, ord, left, owed, outf>>
    BY <1>3 DEF vars, input, emitst, bufs
  <2>2. /\ \A kind : Lines(kind)' = Lines(kind) /\ Of(kind)' = Of(kind)
        /\ Written' = Written /\ OutIds' = OutIds
        /\ \A n : FunId(n)' = FunId(n) /\ Pieces(n)' = Pieces(n) /\ Wanted(n)' = Wanted(n)
        /\ Emitted' = Emitted /\ \A t : CodeIn(t)' = CodeIn(t)
    BY <2>1 DEF Lines, Of, Written, Plain, OutIds, FunId, Pieces, Piece, Wanted, Definition, Named,
                Emitted, CodeIn
  <2>3. Readable' /\ FilesNamed' /\ ConstsLast'
    BY <2>1, <2>2 DEF TextInv, Readable, FilesNamed, ConstsLast
  <2>4. OpenData' /\ OpenCode'
    BY <2>1, <2>2 DEF TextInv, OpenData, OpenCode, Handled
  <2>5. SaysAll'
    BY <2>1, <2>2 DEF TextInv, SaysAll
  <2>6. CodeRight'
    BY <2>1, <2>2 DEF TextInv, CodeRight, CodeIn
  <2>7. EachOnce'
    BY <2>1, <2>2 DEF TextInv, EachOnce
  <2>. QED  BY <2>3, <2>4, <2>5, <2>6, <2>7 DEF TextInv
<1>. QED  BY <1>2, <1>3

\* The invariant of the text that was written so far, wherever it is.
THEOREM TextInvariant == Spec => []TextInv
<1>1. Init => TextInv
  BY InitHolds, InitText
<1>2. UnitInv /\ TextInv /\ [Next]_vars => TextInv'
  BY StepText
<1>. QED  BY <1>1, <1>2, UnitInvariant, PTL DEF Spec

\* The text says what the input says, in its order and each function once, with
\* the permutation of functions and without it, whatever the divpickfun() of
\* main.c returns; the constants are at its end.
THEOREM TextKeptCorrect == Spec => []TextKept
<1>1. TextInv => TextKept
  BY DEF TextInv, TextKept, SaysAll, CodeRight, EachOnce, ConstsLast
<1>. QED  BY <1>1, TextInvariant, PTL
=============================================================================
