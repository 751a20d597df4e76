---------------------------------- MODULE Load ----------------------------------
(***************************************************************************)
(* Load elimination: load.c.  For every load, def() walks back over the    *)
(* blocks for the instructions that wrote its bytes, and logs what must be *)
(* inserted, at positions counted before anything is inserted, to put the  *)
(* bytes together; it may fail, and what it logged is then taken back.     *)
(*                                                                         *)
(* A slice is [ref, off, sz, cls], a mask a set of bytes.  func() runs     *)
(* this pass before any loop is known, so no block is in a deeper loop     *)
(* than another and def() never inserts a load: load() is left out.        *)
(***************************************************************************)
EXTENDS Alias

Mask(sz) == 0 .. sz - 1
MoveUp(msk, k) == {n + k : n \in msk}

\* What def() works on, its log, and the classes of all temporaries.
LogIns(c, cls, op, a0, a1, l) ==
  LET t == Max(DOMAIN c.cls) + 1
  IN  [c EXCEPT !.cls = @ @@ (t :> cls), !.ref = Tm(t),
                !.log = Append(@, [phi |-> FALSE, blk |-> l.blk, off |-> l.off,
                                   ins |-> Ins(op, cls, Tm(t), a0, a1)])]
With(c, r) == [c EXCEPT !.ref = r]
Cast(c, cls, l) ==
  LET up(d, from, to, op) == IF from THEN LogIns(d, to, op, d.ref, R, l) ELSE d
      cls0 == c.cls[Id(c.ref)]
  IN  IF ~ IsTmp(c.ref) \/ cls0 = cls \/ (cls = "w" /\ cls0 = "l") THEN c
      ELSE IF ~ Wide(cls0) /\ Wide(cls)
      THEN up(up(up(c, cls0 = "s", "w", "cast"), TRUE, "l", "extuw"), cls = "d", "d", "cast")
      ELSE up(up(c, cls0 = "d" /\ cls # "l", "l", "cast"), cls0 # "d" \/ cls # "w", cls, "cast")
MaskTo(c, cls, msk, l) ==
  LET d == Cast(c, cls, l) IN LogIns(d, cls, "and", d.ref, Bits(msk), l)

\* killsl(): the address of the slice is an offset from what is defined here.
Kills(al, to, sl) ==
  IsTmp(sl.ref) /\ al[Id(sl.ref)].type \in {"Loc", "Esc", "Unk"} /\ to = Tm(al[Id(sl.ref)].base)

\* The load, store or blit that ends before position k of a block.
Access(is, k) ==
  LET i == is[k]
  IN  CASE IsLoad(i.op)  -> [at |-> k, addr |-> i.arg[1], sz |-> LoadSz(i), val |-> i.to]
        [] IsStore(i.op) -> [at |-> k, addr |-> i.arg[2], sz |-> StoreSz(i), val |-> i.arg[1]]
        [] i.op = "blit1" -> [at |-> k - 1, addr |-> is[k - 1].arg[2],
                              sz |-> Abs(Id(i.arg[1])), val |-> R]
        [] OTHER -> [at |-> 0, addr |-> R, sz |-> 0, val |-> R]

\* The part of a blit's source that a slice at a distance of off needs.
BlitSlice(src, sl, off, sz) ==
  LET room == IF off < 0 THEN sl.sz + off ELSE sl.sz
      have == IF off < 0 THEN sz ELSE sz - off
  IN  [ref |-> src, off |-> IF off < 0 THEN 0 ELSE off, cls |-> sl.cls,
       sz |-> IF have > room THEN room ELSE have]

\* Mutant: the temporaries are taken back, the log is not.
FailedLogged(c, d) == [c EXCEPT !.ref = R, !.log = d.log]

\* What def() did since c, up to d, is taken back: the log and the temporaries.
Failed(c, d) == [c EXCEPT !.ref = R]

\* Mutant: the last phi logged for a block is taken, whatever it is for.
LoggedOfBlock(c, sl, b) ==
  SelectSeq(c.log, LAMBDA e : e.phi /\ e.blk = b /\ e.sl.ref = sl.ref)

\* The phi that was logged for the same bytes at the start of b.
Logged(c, sl, b) ==
  SelectSeq(c.log, LAMBDA e : e.phi /\ e.blk = b /\ e.sl.ref = sl.ref
                              /\ e.sl.off = sl.off /\ e.sl.sz = sl.sz)

RECURSIVE Def(_, _, _, _, _, _, _, _)

\* The bytes msk of sl from an access that must write them, at a distance of
\* off; msk1 are the bytes it writes, z how many it has from there.
FromAccess(f, al, c, sl, msk, b, acc, off0, l) ==
  LET blit == acc.val = R
      src  == BlitSlice(f.ins[b][acc.at].arg[1], sl, off0, acc.sz)
      sz   == IF blit THEN src.sz ELSE acc.sz
      off  == IF blit /\ off0 > 0 THEN 0 ELSE off0
      msk1 == MoveUp(Mask(sz), - off) \cap Mask(sl.sz)
      dist == Abs(off)
      cls  == IF sl.sz > 4 THEN "l" ELSE "w"
      c0   == IF blit THEN Def(f, al, c, src, Mask(sz), b, acc.at - 1, l)
              ELSE With(c, acc.val)
      cls1 == IF off > 0 /\ off + sl.sz > 4 THEN "l" ELSE cls
      c1   == IF off = 0 THEN c0
              ELSE LET d == Cast(c0, cls1, l)
                   IN  LogIns(d, cls1, IF off < 0 THEN "shl" ELSE "shr", d.ref, Num(dist), l)
      c2   == IF msk1 \cap msk # msk1 \/ dist + sz < sl.sz
              THEN MaskTo(c1, cls, msk1 \cap msk, l) ELSE c1
      rest == Def(f, al, c2, sl, msk \ msk1, b, acc.at - 1, l)
      c3   == IF msk \subseteq msk1 THEN c2
              ELSE LogIns(rest, cls, "or", c2.ref, rest.ref, l)
  IN  IF msk1 \cap msk = {} THEN Def(f, al, c, sl, msk, b, acc.at - 1, l)
      ELSE IF c0.ref = R THEN Failed(c, c0)
      ELSE IF ~ msk \subseteq msk1 /\ rest.ref = R THEN Failed(c, rest)
      ELSE IF msk = Mask(sl.sz) THEN Cast(c3, sl.cls, l) ELSE c3

\* At the start of b: a phi logged before, the one predecessor, or a new phi
\* of what all predecessors have.
FromPreds(f, al, c, sl, msk, b, l) ==
  LET cls    == IF sl.sz > 4 THEN "l" ELSE "w"
      ps     == Preds(f, b)
      logged == Logged(c, sl, b)
      fit(d) == IF msk # Mask(sl.sz) THEN MaskTo(d, cls, msk, l) ELSE d
      t      == Max(DOMAIN c.cls) + 1
      c0     == [c EXCEPT !.cls = @ @@ (t :> sl.cls),
                          !.log = Append(@, [phi |-> TRUE, blk |-> b, sl |-> sl,
                                             to |-> Tm(t), cls |-> sl.cls, arg |-> << >>])]
      arg(d, p) ==
        IF d.ref = R THEN d
        ELSE LET e == Def(f, al, d, sl, Mask(sl.sz), p, Len(f.ins[p]),
                          [blk |-> p, off |-> Len(f.ins[p])])
             IN  IF e.ref = R THEN e
                 ELSE [e EXCEPT !.log[Len(c.log) + 1].arg = Append(@, <<p, e.ref>>)]
      all    == FoldLeft(arg, With(c0, Tm(t)), ps)
  IN  IF logged # << >>
      THEN IF msk # Mask(sl.sz) THEN MaskTo(With(c, logged[1].to), cls, msk, l)
           ELSE Cast(With(c, logged[1].to), sl.cls, l)
      ELSE IF ps = << >> \/ \E n \in DOMAIN f.phi[b] : Kills(al, f.phi[b][n].to, sl)
      THEN Failed(c, c)
      ELSE IF Len(ps) = 1
      THEN LET d == Def(f, al, c, sl, msk, ps[1], Len(f.ins[ps[1]]), l)
           IN  IF d.ref = R THEN Failed(c, d) ELSE d
      ELSE IF all.ref = R THEN Failed(c, all) ELSE fit(With(all, Tm(t)))

\* def(), before position k of b, for a use at l.
Def(f, al, c, sl, msk, b, k, l) ==
  IF k = 0 THEN FromPreds(f, al, c, sl, msk, b, l)
  ELSE LET i   == f.ins[b][k]
           acc == Access(f.ins[b], k)
           how == AliasOf(al, sl.ref, sl.off, sl.sz, acc.addr, acc.sz)
           go(n) == Def(f, al, c, sl, msk, b, n, l)
       IN  CASE Kills(al, i.to, sl) -> Failed(c, c)
             [] i.op = "call" -> IF Escapes(al, sl.ref) THEN Failed(c, c) ELSE go(k - 1)
             [] acc.at = 0 /\ ~ Kills(al, i.to, sl) /\ i.op # "call" -> go(k - 1)
             [] acc.at # 0 /\ ~ Kills(al, i.to, sl) ->
                  IF how.how = "Must" THEN FromAccess(f, al, c, sl, msk, b, acc, how.delta, l)
                  ELSE IF how.how = "No" \/ IsLoad(i.op) THEN go(acc.at - 1) ELSE Failed(c, c)

-----------------------------------------------------------------------------
(***************************************************************************)
(* loadopt().  got has what def() found for every load; the log is sorted  *)
(* by block, phis first, then by position, then by age.                    *)
(***************************************************************************)
Loads(f) ==
  FlattenSeq([n \in 1 .. Cardinality(Blocks(f)) |->
    LET is == f.ins[n - 1]
    IN  SelectSeq([k \in DOMAIN is |-> <<n - 1, k>>], LAMBDA p : IsLoad(is[p[2]].op))])

\* What becomes of a load when its bytes are in r.
Replaced(i, r) ==
  IF r = R THEN i
  ELSE [i EXCEPT !.arg = <<r, R>>,
          !.op = IF i.op = "load" \/ (i.op \in {"loadsw", "loaduw"} /\ i.cls # "l")
                 THEN "copy" ELSE Ext[i.op]]

Found(f, al) ==
  LET look(s, p) ==
        LET i == f.ins[p[1]][p[2]]
            c == Def(f, al, s.c, [ref |-> i.arg[1], off |-> 0, sz |-> LoadSz(i), cls |-> i.cls],
                     Mask(LoadSz(i)), p[1], p[2] - 1, [blk |-> p[1], off |-> p[2] - 1])
        IN  [c |-> c, got |-> s.got @@ (p :> c.ref)]
  IN  FoldLeft(look, [c |-> [cls |-> ClassOf(f), log |-> << >>, ref |-> R],
                      got |-> << >>], Loads(f))

WithFound(f, s) ==
  LET new(b, n) == SelectSeq(s.c.log, LAMBDA e : ~ e.phi /\ e.blk = b /\ e.off = n)
      phis(b)   == SelectSeq(s.c.log, LAMBDA e : e.phi /\ e.blk = b)
      found(b, n) == IF <<b, n>> \in DOMAIN s.got THEN s.got[<<b, n>>] ELSE R
      is(b, n)  == IF n > Len(f.ins[b]) THEN << >> ELSE <<Replaced(f.ins[b][n], found(b, n))>>
  IN  [f EXCEPT
         !.phi = [b \in Blocks(f) |->
            [n \in DOMAIN phis(b) |-> [to |-> phis(b)[n].to, cls |-> phis(b)[n].cls,
                                        arg |-> phis(b)[n].arg]] \o f.phi[b]],
         !.ins = [b \in Blocks(f) |->
            FlattenSeq([n \in 1 .. Len(f.ins[b]) + 1 |->
              [k \in DOMAIN new(b, n - 1) |-> new(b, n - 1)[k].ins] \o is(b, n)])]]

LoadOpt(f, al) == WithFound(f, Found(f, al))
================================================================================
