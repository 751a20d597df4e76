----------------------------------- MODULE Mem -----------------------------------
(***************************************************************************)
(* Stack slots: promote() and coalesce() of mem.c, and the copies that     *)
(* simpl.c makes of blits.                                                 *)
(*                                                                         *)
(* coalesce() numbers the memory accesses of the function in one walk from *)
(* its end, gives every slot one range of numbers in which it holds bytes  *)
(* that are read, removes stores out of range and slots without one, and   *)
(* puts slots whose ranges do not overlap in one place.                    *)
(***************************************************************************)
EXTENDS Load

Uses(f, t) ==
  UNION {{<<"phi", b, n>> : n \in {n \in DOMAIN f.phi[b] :
                                     \E a \in ToSet(f.phi[b][n].arg) : a[2] = Tm(t)}} \cup
         {<<"ins", b, n>> : n \in {n \in DOMAIN f.ins[b] : Tm(t) \in ToSet(f.ins[b][n].arg)}} \cup
         {<<"jmp", b, 0>> : x \in {f.jmp[b].arg} \cap {Tm(t)}} : b \in Blocks(f)}
At(f, u) == f.ins[u[2]][u[3]]

\* Every instruction changed by g, which is given its place too.
MapIns(f, g(_, _)) ==
  Once([f EXCEPT !.ins = [b \in DOMAIN @ |-> [n \in DOMAIN @[b] |-> g(@[b][n], <<"ins", b, n>>)]]])

-----------------------------------------------------------------------------
(***************************************************************************)
(* promote(), before the function is in ssa form.                          *)
(***************************************************************************)
StoreClass == [storeb |-> "w", storeh |-> "w", storew |-> "w", storel |-> "l",
               stores |-> "s", stored |-> "d"]
AccessSz(i) == IF IsLoad(i.op) THEN LoadSz(i) ELSE StoreSz(i)

\* The slot is only loaded and stored to, in one size and one class.
Uniform(f, i) ==
  LET uses == {At(f, u) : u \in {u \in Uses(f, Id(i.to)) : u[1] = "ins"}}
  IN  /\ Cardinality(DefIns(f, Id(i.to))) = 1
      /\ \A u \in Uses(f, Id(i.to)) : u[1] = "ins"
      /\ \A u \in uses : IsLoad(u.op) \/ (IsStore(u.op) /\ u.arg[2] = i.to /\ u.arg[1] # i.to)
      /\ \A u, v \in uses : AccessSz(u) = AccessSz(v)
      /\ \A u, v \in {u \in uses : IsStore(u.op)} : StoreClass[u.op] = StoreClass[v.op]

StoredClasses(f, t) ==
  {StoreClass[At(f, u).op] : u \in {u \in Uses(f, t) : IsStore(At(f, u).op)}}

\* An access to a promoted slot whose stores have class k.
Promoted(i, k) ==
  IF IsStore(i.op) THEN Ins("copy", k, i.arg[2], i.arg[1], R)
  ELSE [i EXCEPT !.op =
          IF i.op = "load" \/ (i.op \in {"loadsw", "loaduw"} /\ k # "l")
          THEN IF IntBase(k) # IntBase(i.cls) THEN "cast" ELSE "copy"
          ELSE Ext[i.op]]

\* A slot that is loaded and never stored to is an error of the input.
Promote(f) ==
  LET slot(g, i) ==
        LET t == Id(i.to)
            k == CHOOSE k \in StoredClasses(g, t) : TRUE
        IN  IF i.op # "alloc" \/ ~ Uniform(g, i) THEN g
            ELSE IF Uses(g, t) # {} /\ StoredClasses(g, t) = {} THEN [g EXCEPT !.err = TRUE]
            ELSE MapIns(g, LAMBDA j, u : IF j = i THEN Nop
                                         ELSE IF u \in Uses(g, t) THEN Promoted(j, k) ELSE j)
  IN  FoldLeft(slot, f, f.ins[0])

-----------------------------------------------------------------------------
(***************************************************************************)
(* Ranges [a, b) of instruction numbers; none has b = 0.                   *)
(***************************************************************************)
NoRange == [a |-> 0, b |-> 0]
RIn(r, n) == r.a <= n /\ n < r.b
ROvlap(r, q) == r.b # 0 /\ q.b # 0 /\ r.a < q.b /\ q.a < r.b
RAdd(r, n) == IF r.b = 0 THEN [a |-> n, b |-> n + 1]
              ELSE IF n < r.a THEN [r EXCEPT !.a = n]
              ELSE IF n >= r.b THEN [r EXCEPT !.b = n + 1] ELSE r

LastIp == 100     \* INT_MAX - 1
AllBits == 0 .. NBit - 1

\* The slots that coalesce() is about, in the order of the temporaries.
SlotsOf(f, al) ==
  LET ok(t) == al[t].type = "Loc" /\ al[t].slot = t /\ BlockOf(f, t) = 0 /\ al[t].sz # -1
      ts == SelectSeq([t \in 1 .. TopTemp(f) |-> t], LAMBDA t : t \in Temps(f) /\ ok(t))
  IN  [n \in DOMAIN ts |-> [t |-> ts[n], sz |-> al[ts[n]].sz, m |-> al[ts[n]].m, l |-> {},
                            r |-> NoRange, s |-> 0, st |-> << >>]]

\* slot(): the slot that r is an address in.
SlotAt(sl, al, r) ==
  LET a == GetAlias(al, r)
  IN  IF a.type # "Loc" THEN {} ELSE {n \in DOMAIN sl : sl[n].t = a.base}
OffOf(al, r) == GetAlias(al, r).off

LoadSlot(sl, al, r, x, ip) ==
  [n \in DOMAIN sl |->
     IF n \notin SlotAt(sl, al, r) THEN sl[n]
     ELSE LET l == (sl[n].l \cup MoveUp(x, OffOf(al, r))) \cap sl[n].m
          IN  [sl[n] EXCEPT !.l = l, !.r = IF l # {} THEN RAdd(@, ip) ELSE @]]

StoreSlot(sl, al, r, x, ip, at) ==
  [n \in DOMAIN sl |->
     IF n \notin SlotAt(sl, al, r) THEN sl[n]
     ELSE IF sl[n].l = {} THEN [sl[n] EXCEPT !.st = Append(@, [ip |-> ip, at |-> at])]
     ELSE [sl[n] EXCEPT !.r = RAdd(@, ip), !.l = @ \ MoveUp(x, OffOf(al, r))]]

\* The last block of the loops with header b, by maxrpo().
LoopEnd(f, b) == LET body == LoopBody(f, b) IN IF body = {} THEN -1 ELSE Max(body)

\* One instruction of the walk; s has the slots and the number.
AccessIp(f, al, s, b, n) ==
  LET i == f.ins[b][n]
  IN  CASE i.op = "argc" ->
             [s EXCEPT !.ip = s.ip - 1, !.sl = LoadSlot(@, al, i.arg[2], AllBits, s.ip - 1)]
        [] IsLoad(i.op) ->
             [s EXCEPT !.ip = s.ip - 1, !.sl = LoadSlot(@, al, i.arg[1], Mask(LoadSz(i)), s.ip - 1)]
        [] IsStore(i.op) ->
             [s EXCEPT !.ip = s.ip - 1,
                       !.sl = StoreSlot(@, al, i.arg[2], Mask(StoreSz(i)), s.ip, <<b, n>>)]
        [] i.op = "blit0" ->
             LET x == Mask(Abs(Id(f.ins[b][n + 1].arg[1])))
                 q == StoreSlot(s.sl, al, i.arg[2], x, s.ip, <<b, n>>)
             IN  [s EXCEPT !.ip = s.ip - 1, !.sl = LoadSlot(q, al, i.arg[1], x, s.ip - 1)]
        [] OTHER -> s

\* One block; s.br has the ranges of those after it.
BlockIp(f, al, s0, b) ==
  LET begin(q) ==
        LET from == {m \in Succs(f, b) : m > b /\ RIn(q.r, s0.br[m].a)}
        IN  IF from = {} THEN [q EXCEPT !.l = {}]
            ELSE [q EXCEPT !.l = q.m, !.r = RAdd(@, s0.ip - 1)]
      s1 == [s0 EXCEPT !.br[b] = [a |-> 0, b |-> s0.ip], !.ip = @ - 1,
                       !.sl = [n \in DOMAIN @ |-> begin(@[n])]]
      s2 == IF f.jmp[b].type = "retc"
            THEN [s1 EXCEPT !.ip = s1.ip - 1,
                            !.sl = LoadSlot(@, al, f.jmp[b].arg, AllBits, s1.ip - 1)]
            ELSE s1
      s3 == FoldLeft(LAMBDA s, n : Once(AccessIp(f, al, s, b, n)), s2,
                     Reverse([n \in DOMAIN f.ins[b] |-> n]))
      loop == LoopEnd(f, b)
      end(q) == IF q.l = {} THEN q
                ELSE [q EXCEPT !.r = IF loop = -1 THEN RAdd(@, s3.ip)
                                     ELSE RAdd(RAdd(@, s3.ip), s3.br[loop].b - 1)]
  IN  Once([s3 EXCEPT !.sl = [n \in DOMAIN @ |-> end(@[n])], !.br[b].a = s3.ip,
                      !.bad = @ \/ (loop = b /\ \E n \in DOMAIN s3.sl : s3.sl[n].l # {})])

\* The slots with their ranges; bad when "b->loop > n" does not hold.
SlotRanges(f, al) ==
  FoldLeft(LAMBDA s, b : BlockIp(f, al, s, b),
           [sl |-> SlotsOf(f, al), ip |-> LastIp, bad |-> FALSE,
            br |-> [b \in Blocks(f) |-> NoRange]],
           Reverse(InOrder(f)))

-----------------------------------------------------------------------------
(***************************************************************************)
(* What is removed: stores nobody reads, slots nobody reads with all that  *)
(* is computed from their address.                                         *)
(***************************************************************************)
DeadStores(sl) ==
  UNION {{<<"ins", q.at[1], q.at[2]>> : q \in {q \in ToSet(sl[n].st) : ~ RIn(sl[n].r, q.ip)}} :
           n \in DOMAIN sl}

\* Mutant: only the first half of a blit goes.
RemoveInsHalf(f, at) == MapIns(f, LAMBDA i, u : IF u \in at THEN Nop ELSE i)

\* An instruction is removed, the second half of a blit with it.
RemoveIns(f, at) ==
  MapIns(f, LAMBDA i, u :
    IF u \in at \/ (i.op = "blit1" /\ <<u[1], u[2], u[3] - 1>> \in at) THEN Nop ELSE i)

\* The temporaries that hold an address in a slot of ts, or what is there.
Derived(f, ts) ==
  LET isload(t) == \E d \in DefIns(f, t) : IsLoad(f.ins[d[1]][d[2]].op)
      more(s) == s \cup UNION {{Id(At(f, u).to) : u \in {u \in Uses(f, t) : u[1] = "ins" /\ IsTmp(At(f, u).to)}} :
                               t \in {t \in s : ~ isload(t)}}
  IN  FoldLeft(LAMBDA s, n : more(s), ts, [n \in 1 .. Cardinality(Temps(f)) |-> n])

KillSlots(f, ts) ==
  LET dead  == Derived(f, ts)
      loads == {t \in dead : \E d \in DefIns(f, t) : IsLoad(f.ins[d[1]][d[2]].op)}
      uses  == UNION {Uses(f, t) : t \in dead \ loads}
      change(i, u) ==
        CASE IsTmp(i.to) /\ Id(i.to) \in loads -> [i EXCEPT !.op = "copy", !.arg = <<UNDEF, R>>]
          [] IsTmp(i.to) /\ Id(i.to) \in dead \ loads -> Nop
          [] u \in uses /\ i.op = "argc" -> [i EXCEPT !.arg[2] = Num(0)]
          [] u \in uses /\ ~ IsTmp(i.to) /\ i.op # "argc" -> Nop
          [] i.op = "blit1" /\ <<u[1], u[2], u[3] - 1>> \in uses -> Nop
          [] OTHER -> i
      g == MapIns(f, change)
  IN  [g EXCEPT !.jmp = [b \in DOMAIN @ |-> IF <<"jmp", b, 0>> \in uses
                                            THEN [type |-> "ret", arg |-> R] ELSE @[b]],
                !.err = @ \/ \E u \in uses : u[1] = "phi"]

-----------------------------------------------------------------------------
(***************************************************************************)
(* Slots in one place: by decreasing size every slot that is in no place   *)
(* yet is one, and takes the later ones that overlap with none of its own. *)
(***************************************************************************)
Sorted(sl) == SortSeq(sl, LAMBDA p, q : p.sz > q.sz \/ (p.sz = q.sz /\ p.r.a < q.r.a))

\* Mutant: only the range of the first slot of a place counts.
TakesFirst(sl, n, m, r) ==
  /\ sl[m].s = 0 /\ sl[m].r.b # 0
  /\ ~ ROvlap(sl[n].r, sl[m].r)

Takes(sl, n, m, r) ==
  /\ sl[m].s = 0 /\ sl[m].r.b # 0
  /\ ROvlap(r, sl[m].r) => \A k \in n .. m - 1 : sl[k].s = sl[n].t => ~ ROvlap(sl[k].r, sl[m].r)

Fuse(sl0) ==
  LET place(sl, n) ==
        IF sl[n].s # 0 THEN sl
        ELSE FoldLeft(LAMBDA q, m :
               IF ~ Takes(q.sl, n, m, q.r) THEN q
               ELSE [sl |-> [q.sl EXCEPT ![m].s = sl[n].t],
                     r |-> RAdd(RAdd(q.r, q.sl[m].r.a), q.sl[m].r.b - 1)],
               [sl |-> [sl EXCEPT ![n].s = sl[n].t], r |-> sl[n].r],
               [m \in 1 .. Len(sl) - n |-> n + m]).sl
  IN  FoldLeft(place, sl0, [n \in DOMAIN sl0 |-> n])

\* Slot q goes to the place of another; the earlier alloc stays.
MoveSlot(f, q) ==
  LET pos(t) == CHOOSE n \in DOMAIN f.ins[0] : f.ins[0][n].to = Tm(t)
      old == pos(q.t)  new == pos(q.s)
      is  == IF old < new THEN [f.ins[0] EXCEPT ![old] = f.ins[0][new], ![new] = Nop]
             ELSE [f.ins[0] EXCEPT ![old] = Nop]
      sub(r) == IF r = Tm(q.t) THEN Tm(q.s) ELSE r
      g   == MapIns([f EXCEPT !.ins[0] = is],
                    LAMBDA i, u : [i EXCEPT !.arg = <<sub(@[1]), sub(@[2])>>])
  IN  [g EXCEPT !.jmp = [b \in DOMAIN @ |-> [@[b] EXCEPT !.arg = sub(@)]],
                !.err = @ \/ \E u \in Uses(f, q.t) : u[1] = "phi"]

\* Blits between slots of one place go backwards when they move bytes up.
TurnedBlits(f, al, sl) ==
  LET turn(i, u) ==
        IF i.op # "blit1" THEN i
        ELSE LET d == f.ins[u[2]][u[3] - 1]
                 ss == SlotAt(sl, al, d.arg[1])
                 sd == SlotAt(sl, al, d.arg[2])
             IN  IF \E n \in ss, m \in sd :
                      sl[n].s = sl[m].s /\ OffOf(al, d.arg[1]) < OffOf(al, d.arg[2])
                 THEN [i EXCEPT !.arg[1] = Num(- Id(@))] ELSE i
  IN  MapIns(f, turn)

Coalesce(f, al) ==
  LET s    == SlotRanges(f, al)
      live == SelectSeq(s.sl, LAMBDA q : q.r.b # 0)
      dead == {q.t : q \in {q \in ToSet(s.sl) : q.r.b = 0}}
      sl   == Fuse(Sorted(live))
      g    == KillSlots(RemoveIns([f EXCEPT !.err = s.bad], DeadStores(s.sl)), dead)
      h    == FoldLeft(LAMBDA x, q : IF q.s = q.t THEN x ELSE MoveSlot(x, q), g, sl)
  IN  TurnedBlits(h, al, sl)

-----------------------------------------------------------------------------
(***************************************************************************)
(* simpl(): a blit becomes loads and stores of at most eight bytes, from   *)
(* the low addresses up, or down when its size is negative.  They are      *)
(* emitted from the last to the first.                                     *)
(***************************************************************************)
Chunks(n) == [k \in 1 .. n \div 8 |-> 8] \o
             SelectSeq(<<4, 2, 1>>, LAMBDA c : (n % (2 * c)) >= c)
Before(cs, k) == FoldLeft(LAMBDA x, n : x + cs[n], 0, [n \in 1 .. k |-> n])

ChunkOp == (8 :> <<"storel", "load", "l">>) @@ (4 :> <<"storew", "load", "w">>) @@
           (2 :> <<"storeh", "loaduh", "w">>) @@ (1 :> <<"storeb", "loadub", "w">>)

\* blit(), with the temporaries after t.
BlitCode(src, dst, sz, t) ==
  LET cs  == Chunks(Abs(sz))
      off(k) == IF sz >= 0 THEN sz - Before(cs, k) ELSE Before(cs, k - 1)
      one(k) == LET o == ChunkOp[cs[k]]  u == t + 3 * k - 2
                IN  <<Ins("add", "l", Tm(u + 2), src, Num(off(k))),
                      Ins(o[2], o[3], Tm(u), Tm(u + 2), R),
                      Ins("add", "l", Tm(u + 1), dst, Num(off(k))),
                      Ins(o[1], "w", R, Tm(u), Tm(u + 1))>>
  IN  FlattenSeq(Reverse([k \in DOMAIN cs |-> one(k)]))

Simpl(f) ==
  LET step(s, i) ==
        IF i.op = "blit1"
        THEN LET src == s.pend[1]  dst == s.pend[2]
             IN  [s EXCEPT !.is = @ \o BlitCode(src, dst, Id(i.arg[1]), s.t),
                           !.t = @ + 3 * Len(Chunks(Abs(Id(i.arg[1]))))]
        ELSE IF i.op = "blit0" THEN [s EXCEPT !.pend = i.arg]
        ELSE [s EXCEPT !.is = Append(@, i)]
      block(s, b) ==
        LET q == FoldLeft(step, [t |-> s.t, is |-> << >>, pend |-> << >>], s.f.ins[b])
        IN  [t |-> q.t, f |-> [s.f EXCEPT !.ins[b] = q.is]]
  IN  FoldLeft(block, [t |-> TopTemp(f), f |-> f], InOrder(f)).f
==================================================================================
