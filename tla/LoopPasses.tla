----------------------------- MODULE LoopPasses -----------------------------
(***************************************************************************)
(* Passes that look for a loop, or a beginning, of a certain form and      *)
(* write another (passes/ir/loop_unroll.cpp, fold_counted_div_loop.cpp,    *)
(* zero_loop_to_memset.cpp, promote_loop_store.cpp, sink_local_init.cpp).  *)
(***************************************************************************)
EXTENDS GvnGcm

CONSTANT UnrollLimit   \* a loop with as many instructions is not unrolled (16 in the code)

OrderOps == {"lt", "le", "ge", "gt"}

\* The way into b other than from x, and what phi id takes from p.
OtherPred(f, b, x) == f.pred[b][3 - Position(f.pred[b], x)]
Incoming(f, id, p) == f.inst[id].args[Position(f.pred[f.inst[id].bb], p)]
SetIncoming(f, id, p, v) == [f EXCEPT !.inst[id].args[Position(f.pred[f.inst[id].bb], p)] = v]
DefinedIn(f, L, v) == IsInst(v) /\ f.inst[v[2]].bb \in L
UsersOutside(f, L, id) == {u \in Users(f, InstRef(id)) : f.inst[u].bb \notin L}
ReplaceUsesIn(f, S, v, w) ==
  [f EXCEPT !.inst = Strict([u \in DOMAIN @ |->
     IF u \in S THEN [@[u] EXCEPT !.args = Replaced(@, v, w)] ELSE @[u]])]
BeforeTerminator(f, b, i) == Insert(f, b, Len(f.insts[b]), i)
AfterPhis(f, b, i) == Insert(f, b, Len(Phis(f, b)) + 1, i)

\* x compared with y, x on side k.
Compared(op, k, x, y) == IF k = 1 THEN Binary(op, x, y) ELSE Binary(op, y, x)

-----------------------------------------------------------------------------
\* loop_unroll: a block h that ends in `if (ix < n) h else end`, where ix is a phi of h
\* plus constants.
SelfLoops(f) ==
  LET Among(info) ==
        SelectSeq(f.bbs, LAMBDA h : h \in DeepestLoops(info) /\ LoopBody(f, info, h) = {h})
  IN  Among(LoopInfo(f, DomBy(f)))
Preheader(f, h) == OtherPred(f, h, h)
LoopExit(f, h) == Succ(f, h)[2]
CondOf(f, b) == Terminator(f, b).args[1]
Repeats(f, h) ==
  /\ Len(f.pred[h]) = 2 /\ Terminator(f, h).op = "branch"
  /\ Succ(f, h)[1] = h /\ Op(f, CondOf(f, h)) \in OrderOps

\* The block before branches to h or to where h leaves to.
Guarded(f, h) ==
  /\ Terminator(f, Preheader(f, h)).op = "branch"
  /\ Succ(f, Preheader(f, h)) = <<h, LoopExit(f, h)>> /\ Len(f.pred[LoopExit(f, h)]) = 2

\* A loop that is always entered gets such a branch, on a constant, and phis for what is
\* used after it.
Escape(f, h, id) ==
  LET end == LoopExit(f, h)
      out == UsersOutside(f, {h}, id)
      phi == Insert(f, end, 1, Inst("phi", <<InstRef(id), Undef>>))
  IN  IF out = {} THEN f ELSE ReplaceUsesIn(phi, out, InstRef(id), InstRef(NextId(f)))
AddGuard(f, h) ==
  LET b == Preheader(f, h)
      end == LoopExit(f, h)
      branch == [Branch(Const(1), h, end) EXCEPT !.bb = b]
  IN  Through(LAMBDA g, id : Escape(g, h, id),
              [f EXCEPT !.inst[Last(f.insts[b])] = branch, !.pred[end] = Append(@, b)], f.insts[h])

\* v without the constants added to it.
RECURSIVE Increments(_, _, _)
Increments(f, v, step) ==
  LET i == f.inst[v[2]]
  IN  IF Op(f, v) = "add" /\ IsConst(i.args[2])
      THEN Increments(f, i.args[1], Wrap(step + i.args[2][2])) ELSE [of |-> v, step |-> step]

\* The loop as counted by side k of its condition, and the side of i0 in the guard.
Counter(f, h, k) ==
  LET cond == f.inst[CondOf(f, h)[2]]
      inc == Increments(f, cond.args[k], 0)
      phi == IF Op(f, inc.of) = "phi" /\ f.inst[inc.of[2]].bb = h THEN inc.of[2] ELSE 0
      guard == CondOf(f, Preheader(f, h))
  IN  [op |-> cond.op, k |-> k, ix |-> cond.args[k], n |-> cond.args[3 - k],
       step |-> inc.step, phi |-> phi, guard |-> guard,
       i0 |-> IF phi = 0 THEN Null ELSE Incoming(f, phi, Preheader(f, h))]
Test(c, i) == Eval(c.op, IF c.k = 1 THEN i ELSE c.n[2], IF c.k = 1 THEN c.n[2] ELSE i) = 1
GuardSide(f, c) ==
  LET g == f.inst[c.guard[2]]
  IN  CASE IsConst(c.guard) -> c.k
        [] g.op = c.op /\ g.args = <<c.i0, c.n>> -> 1
        [] IsRev(c.op, g.op) /\ g.args = <<c.n, c.i0>> -> 2
        [] OTHER -> 0
Counts(f, h, c) ==
  /\ c.phi # 0 /\ Incoming(f, c.phi, h) = c.ix
  /\ IF IsConst(c.guard)
     THEN c.guard[2] # 0 /\ IsConst(c.i0) /\ IsConst(c.n) /\ Test(c, c.i0[2])
     ELSE Op(f, c.guard) \in OrderOps /\ GuardSide(f, c) # 0
Unrolled(f, h) == SelectSeq(f.insts[h], LAMBDA id : f.inst[id].op \notin {"phi", "branch"})
FewInsts(f, h) ==
  /\ Len(Unrolled(f, h)) < UnrollLimit
  /\ \A id \in ToSet(Unrolled(f, h)) : f.inst[id].op \notin {"call", "alloca"}

\* s.map: what stands for the values of the last copy.
Mapped(map, v) == IF IsInst(v) /\ v[2] \in DOMAIN map THEN map[v[2]] ELSE v
CloneInst(s, b, id) ==
  LET i == s.f.inst[id]
      args == Strict([k \in DOMAIN i.args |-> Mapped(s.map, i.args[k])])
  IN  [f |-> BeforeTerminator(s.f, b, [i EXCEPT !.args = args]),
       map |-> (id :> InstRef(NextId(s.f))) @@ s.map]
Clone(s, b, ids) == Through(LAMBDA t, id : CloneInst(t, b, id), s, ids)
NextValues(f, h) ==
  Through(LAMBDA map, x : map @@ (x :> Incoming(f, x, h)), <<>>, Phis(f, h))

\* All iterations one after the other; values that phis take from each other are
\* followed one phi at a time.
RECURSIVE CloneRest(_, _, _, _, _)
CloneRest(s, h, c, ids, i) ==
  LET Follow(t) ==
        Through(LAMBDA r, x : [r EXCEPT !.map[x] = Mapped(r.map, Incoming(r.f, x, h))], t, Phis(s.f, h))
  IN  IF Test(c, i) THEN CloneRest(Follow(Clone(s, h, ids)), h, c, ids, Wrap(i + c.step)) ELSE s
UnrollWhole(f, h, c) ==
  LET end == LoopExit(f, h)
      b == Preheader(f, h)
      s == CloneRest([f |-> f, map |-> NextValues(f, h)], h, c, Unrolled(f, h), Wrap(c.i0[2] + c.step))
      Leave(g, x) == SetIncoming(g, x, h, Mapped(s.map, Incoming(g, x, h)))
      Start(g, x) == DeleteInst(ReplaceUses(g, InstRef(x), Incoming(f, x, b)), x)
      Straight(g) == [g EXCEPT !.inst[Last(g.insts[h])] = [Jump(end) EXCEPT !.bb = h], !.pred[h] = <<b>>]
  IN  Through(Start, Straight(Through(Leave, s.f, Phis(f, end))), Phis(f, h))

\* Two iterations at a time while there are two, then one more if there is one.  The
\* guard is taken for two: its counter is increased.
GuardTwo(f, h, c, id) ==
  LET at == f.inst[id].bb
      Place(g) == Position(g.insts[at], id)
      sum == Insert(f, at, Place(f), Binary("add", c.i0, Const(c.step)))
      test == Insert(sum, at, Place(sum),
                     Compared(f.inst[id].op, GuardSide(f, c), InstRef(NextId(f)), c.n))
  IN  [test EXCEPT !.inst[Last(f.insts[Preheader(f, h)])].args = <<InstRef(NextId(sum))>>]
LoopTwo(f, h, c) ==
  LET s == Clone([f |-> f, map |-> NextValues(f, h)], h, Unrolled(f, h))
      sum == BeforeTerminator(s.f, h, Binary("add", Mapped(s.map, c.ix), Const(c.step)))
      test == BeforeTerminator(sum, h, Compared(c.op, c.k, InstRef(NextId(s.f)), c.n))
  IN  [s EXCEPT !.f = [test EXCEPT !.inst[Last(f.insts[h])].args = <<InstRef(NextId(sum))>>]]

\* Blocks odd, which tests for one more, and odd + 1, which is it.
AddOdd(f, h, c, odd) ==
  LET end == LoopExit(f, h)
      cond == AddInst(NewBlock(NewBlock(f)), odd, Compared(c.op, c.k, Null, c.n))
      branch == AddInst(cond, odd, Branch(InstRef(NextId(f)), odd + 1, end))
      at == Position(f.bbs, h) + 1
  IN  [AddInst(branch, odd + 1, Jump(end)) EXCEPT
         !.bbs = InsertAt(InsertAt(@, at, odd), at + 1, odd + 1),
         !.inst[Last(f.insts[Preheader(f, h)])].to[2] = odd, !.inst[Last(f.insts[h])].to[2] = odd,
         !.pred[odd] = <<Preheader(f, h), h>>, !.pred[odd + 1] = <<odd>>]
Pair(f, odd, x, y) == Insert(f, odd, Len(f.insts[odd]) - 1, Inst("phi", <<x, y>>))

\* The loop's phis meet again in odd (s.met), and so do those after the loop, in one that
\* is there already or in a new one.
MeetLoopPhi(s, h, odd, x) ==
  LET v == Mapped(s.map, Incoming(s.f, x, h))
      f == SetIncoming(s.f, x, h, v)
  IN  [s EXCEPT !.f = Pair(f, odd, Incoming(f, x, Preheader(f, h)), v),
                !.met = @ @@ (x :> InstRef(NextId(f)))]
MeetEndPhi(s, h, odd, x) ==
  LET b == Preheader(s.f, h)
      v == Incoming(s.f, x, b)
      w == Mapped(s.map, Incoming(s.f, x, h))
      same == SelectSeq(Phis(s.f, odd), LAMBDA p : s.f.inst[p].args = <<v, w>>)
  IN  [s EXCEPT !.f = IF same # <<>> THEN SetIncoming(@, x, b, InstRef(same[1]))
                      ELSE SetIncoming(Pair(@, odd, v, w), x, b, InstRef(NextId(@)))]
LastOne(s, h, c, end, odd) ==
  LET cond == Last(Front(s.f.insts[odd]))
      one == Clone([s EXCEPT !.f.inst[cond].args[c.k] = s.met[c.phi]], odd + 1, Unrolled(s.f, h))
      Leave(g, x) == SetIncoming(g, x, h, Mapped(one.map, Incoming(g, x, h)))
      From(p) == IF p = h THEN odd + 1 ELSE odd
  IN  [Through(Leave, one.f, Phis(s.f, end)) EXCEPT
         !.pred[end] = Strict([k \in DOMAIN @ |-> From(@[k])])]
UnrollTwice(f, h, c, guard) ==
  LET end == LoopExit(f, h)
      odd == Len(f.insts) + 1
      OddPhis(s) == Through(LAMBDA t, x : MeetLoopPhi(t, h, odd, x),
                            [f |-> AddOdd(s.f, h, c, odd), map |-> s.map, met |-> <<>>], Phis(f, h))
      EndPhis(s) == Through(LAMBDA t, x : MeetEndPhi(t, h, odd, x),
                            [s EXCEPT !.map = s.met @@ @], Phis(f, end))
  IN  LastOne(EndPhis(OddPhis(LoopTwo(GuardTwo(f, h, c, guard), h, c))), h, c, end, odd)

\* About as often as the loop runs, when that is known.  A guard on a constant gets a
\* comparison of its own.
Times(c) == Quotient(Wrap(c.n[2] - c.i0[2]), c.step)
UnrollCounted(f, h, k) ==
  LET c == Counter(f, h, k)
      known == IsConst(c.guard)
      g == IF known THEN BeforeTerminator(f, Preheader(f, h), Compared(c.op, c.k, c.i0, c.n)) ELSE f
  IN  CASE k = 0 -> f
        [] k # 0 /\ (~FewInsts(f, h) \/ c.step = 0) -> g
        [] OTHER -> IF IsConst(c.i0) /\ IsConst(c.n) /\ Times(c) \in 1..32 THEN UnrollWhole(g, h, c)
                    ELSE UnrollTwice(g, h, c, IF known THEN NextId(f) ELSE c.guard[2])
UnrollLoop(f, h) ==
  LET Unroll(g) == UnrollCounted(g, h, SelectInSeq(<<1, 2>>, LAMBDA k : Counts(g, h, Counter(g, h, k))))
  IN  CASE ~Repeats(f, h) -> f
        [] Guarded(f, h) -> Unroll(f)
        [] Terminator(f, Preheader(f, h)).op = "jump" /\ Len(f.pred[LoopExit(f, h)]) = 1 -> Unroll(AddGuard(f, h))
        [] OTHER -> f
LoopUnroll(f) == Through(UnrollLoop, f, SelfLoops(f))

-----------------------------------------------------------------------------
\* A loop of two blocks: h, which tests, and a body that jumps back.
BodySide(f, h) ==
  SelectInSeq(Succ(f, h), LAMBDA b : Terminator(f, b).op = "jump" /\ Succ(f, b) = <<h>>)
TwoBlocks(f, h) ==
  /\ Terminator(f, h).op = "branch" /\ Len(f.pred[h]) = 2
  /\ BodySide(f, h) # 0 /\ f.pred[Succ(f, h)[BodySide(f, h)]] = <<h>>

\* The comparison a branch depends on, itself or as c # 0; 0 if it does not.
ComparisonOf(f, v) ==
  LET w == IF Op(f, v) = "ne" /\ f.inst[v[2]].args[2] = Const(0) THEN f.inst[v[2]].args[1] ELSE v
  IN  IF Op(f, w) \in OrderOps THEN w[2] ELSE 0

\* What v is below: v < n or n > v.
BoundOf(op, args, v) ==
  CASE op = "lt" /\ args[1] = v -> args[2] [] op = "gt" /\ args[2] = v -> args[1] [] OTHER -> Null

\* The phis of h that start with 0 and are increased by one.
CountersFrom0(f, h, body) ==
  SelectSeq(Phis(f, h), LAMBDA x :
    LET next == Incoming(f, x, body)
    IN  /\ Incoming(f, x, OtherPred(f, h, body)) = Const(0)
        /\ Op(f, next) = "add"
        /\ f.inst[next[2]].args \in {<<InstRef(x), Const(1)>>, <<Const(1), InstRef(x)>>})

\* fold_counted_div_loop: x / 2^m, n times, is x / 2^(m * n), which is 0 when no bit of a
\* word is left.
WordBits == CHOOSE k \in 1..32 : 2 ^ k = 2 * Half
Log2(n) == CHOOSE k \in 0..30 : 2 ^ k = n
DividesBy(f, x, next) ==
  LET i == f.inst[next[2]]
  IN  IF Op(f, next) = "div" /\ i.args[1] = InstRef(x) /\ IsConst(i.args[2]) /\ IsPowerOfTwo(i.args[2][2])
      THEN i.args[2][2] ELSE 0
FoldDivision(f, h, body, exit, n, x) ==
  LET d == DividesBy(f, x, Incoming(f, x, body))
      out == UsersOutside(f, {h, body}, x)
      start == Incoming(f, x, OtherPred(f, h, body))
      shift == Log2(d) * n
      div == AfterPhis(f, exit, Binary("div", start, Const(2 ^ shift)))
      Becomes(g, v) == ReplaceUsesIn(g, out, InstRef(x), v)
  IN  CASE d = 0 \/ \E u \in out : f.inst[u].bb # exit -> f
        [] shift = 0 -> Becomes(f, start)
        [] shift \in 1..(WordBits - 2) -> Becomes(div, InstRef(NextId(f)))
        [] shift >= WordBits -> Becomes(f, Const(0))
        [] OTHER -> f
FoldLoop(f, h) ==
  LET cmp == f.inst[ComparisonOf(f, CondOf(f, h))]
      body == Succ(f, h)[1]
      N(x) == BoundOf(cmp.op, cmp.args, InstRef(x))
      counters == SelectSeq(CountersFrom0(f, h, body), LAMBDA x :
                    f.inst[Incoming(f, x, body)[2]].args[1] = InstRef(x) /\ IsConst(N(x)) /\ N(x)[2] >= 0)
      Divisions(c) ==
        Through(LAMBDA g, x : FoldDivision(g, h, body, Succ(f, h)[2], N(c)[2], x), f, Unlisted(Phis(f, h), c))
  IN  IF ~TwoBlocks(f, h) \/ BodySide(f, h) # 1 \/ ComparisonOf(f, CondOf(f, h)) = 0 \/ counters = <<>> THEN f
      ELSE Divisions(counters[1])
FoldCountedDivLoop(f) == Through(FoldLoop, f, f.bbs)

-----------------------------------------------------------------------------
\* zero_loop_to_memset: for i below a bound, a[i] = 0 and nothing else.
Inverted(op) == CASE op = "lt" -> "ge" [] op = "le" -> "gt" [] op = "ge" -> "lt" [] op = "gt" -> "le"
ZeroStore(f, h, body, iv) ==
  LET L == {h, body}
      step == Incoming(f, iv, body)[2]
      rest == Unlisted(Front(f.insts[body]), step)
      i == f.inst[rest[1]]
  IN  IF /\ f.inst[step].bb = body /\ UsersOutside(f, L, step) = {} /\ Len(rest) = 1
         /\ i.op = "store" /\ i.args[3] = Const(0) /\ i.args[2] = InstRef(iv) /\ ~DefinedIn(f, L, i.args[1])
      THEN i.args[1] ELSE Null
Reusable(f, L, bound) ==
  /\ bound # Null /\ ~DefinedIn(f, L, bound)
  /\ IsConst(bound) => bound[2] > 0 /\ bound[2] * 4 < Half

\* The header leaves the loop or goes to the memset, which leaves it too.
MemsetBody(f, body, arr, bound, exit) ==
  LET mul == IF IsConst(bound) THEN f ELSE AddInst(f, body, Binary("mul", bound, Const(4)))
      bytes == IF IsConst(bound) THEN Const(bound[2] * 4) ELSE InstRef(NextId(f))
      call == [Inst("call", <<arr, Const(0), bytes>>) EXCEPT !.sym = "memset"]
  IN  AddInst(AddInst(mul, body, call), body, Jump(exit))
ToMemset(f, h, body, exit, arr, bound) ==
  LET dropped == DropEdge(f, body, h)
      phis == ToSet(Phis(f, exit))
      gone == ToSet(f.insts[body])
      Of(u) == CASE u \in gone -> Deleted
                 [] u \in phis -> [f.inst[u] EXCEPT !.args = Append(@, Incoming(f, u, h))]
                 [] OTHER -> dropped.inst[u]
  IN  MemsetBody([dropped EXCEPT !.inst = Strict([u \in DOMAIN @ |-> Of(u)]), !.insts[body] = <<>>,
                                 !.pred[exit] = Append(@, body)], body, arr, bound, exit)
ZeroLoop(f, h) ==
  LET k == BodySide(f, h)
      body == Succ(f, h)[k]
      exit == Succ(f, h)[3 - k]
      cmp == f.inst[ComparisonOf(f, CondOf(f, h))]
      iv == CountersFrom0(f, h, body)[1]
      bound == BoundOf(IF k = 1 THEN cmp.op ELSE Inverted(cmp.op), cmp.args, InstRef(iv))
      arr == ZeroStore(f, h, body, iv)
  IN  IF /\ TwoBlocks(f, h) /\ ComparisonOf(f, CondOf(f, h)) # 0 /\ CountersFrom0(f, h, body) # <<>>
         /\ Reusable(f, {h, body}, bound) /\ arr # Null
         /\ \A x \in ToSet(Phis(f, exit)) : ~DefinedIn(f, {h, body}, Incoming(f, x, h))
      THEN ToMemset(f, h, body, exit, arr, bound) ELSE f
ZeroLoopToMemset(f) == Through(ZeroLoop, f, f.bbs)

-----------------------------------------------------------------------------
\* promote_loop_store: a loop that its header leaves, with one store of the sum of
\* something and what is there.
Latches(f, h, L) == Preds(f, h) \cap L
LeftByHeader(f, h, L) ==
  /\ Terminator(f, h).op = "branch" /\ Len(f.pred[h]) = 2 /\ Cardinality(Latches(f, h, L)) = 1
  /\ \A p \in Latches(f, h, L) : Succ(f, p) = <<h>>
  /\ Cardinality(Exits(f, L)) = 1 /\ \A e \in Exits(f, L) : e[1] = h

\* The loads whose sum store x stores, if from the same place.
UpdatedLoads(f, x) ==
  LET sum == f.inst[x].args[3]
  IN  IF f.inst[x].op # "store" \/ Op(f, sum) # "add" THEN <<>>
      ELSE SelectSeq(f.inst[sum[2]].args, LAMBDA v : Op(f, v) = "load" /\ SameAddr(f.inst[v[2]], f.inst[x]))
InstsIn(f, L) == UNION {ToSet(f.insts[b]) : b \in L}
Updates(f, L) == {x \in InstsIn(f, L) : UpdatedLoads(f, x) # <<>>}

RECURSIVE Root(_, _)
Root(f, v) == IF Op(f, v) = "gep" THEN Root(f, f.inst[v[2]].args[1]) ELSE v
MemorySafe(f, L, x, load) ==
  LET d == f.inst[x].sym
  IN  \A u \in InstsIn(f, L) \ {x, load} :
        CASE f.inst[u].op \in {"load", "store"} -> ~Alias(f, d, f.inst[u].sym)
          [] f.inst[u].op = "call" -> ~(HasSideEffect(f.inst[u].sym) /\ IsArrCallAlias(f, d, f.inst[u]))
          [] OTHER -> TRUE
Promotable(f, h, L, x) ==
  LET i == f.inst[x]
      latch == CHOOSE p \in Latches(f, h, L) : TRUE
  IN  /\ ~DefinedIn(f, L, i.args[1]) /\ ~DefinedIn(f, L, i.args[2]) /\ Root(f, i.args[1])[1] # "param"
      /\ MemorySafe(f, L, x, UpdatedLoads(f, x)[1][2]) /\ i.bb \in {latch} \cup Preds(f, latch)

\* The sum is kept in a phi, loaded before the loop and stored after it.
PromoteStore(f, h, L, x) ==
  LET i == f.inst[x]
      latch == CHOOSE p \in Latches(f, h, L) : TRUE
      pre == CHOOSE p \in Preds(f, h) \ L : TRUE
      exit == (CHOOSE e \in Exits(f, L) : TRUE)[2]
      init == BeforeTerminator(f, pre, Access("load", i.sym, <<i.args[1], i.args[2], Null>>))
      acc == InstRef(NextId(init))
      summed == ReplaceUses(AddPhi(init, h), UpdatedLoads(f, x)[1], acc)
      join == Inst("phi", Strict([k \in DOMAIN f.pred[latch] |->
                                    IF f.pred[latch][k] = i.bb THEN i.args[3] ELSE acc]))
      joined == IF i.bb = latch THEN summed ELSE Insert(summed, latch, 1, join)
      next == IF i.bb = latch THEN i.args[3] ELSE InstRef(NextId(summed))
      carried == SetIncoming(SetIncoming(joined, acc[2], pre, InstRef(NextId(f))), acc[2], latch, next)
  IN  DeleteInst(AfterPhis(carried, exit, [i EXCEPT !.args[3] = acc]), x)
PromoteLoop(f, h, L) ==
  LET x == CHOOSE u \in Updates(f, L) : TRUE
  IN  IF LeftByHeader(f, h, L) /\ Cardinality(Updates(f, L)) = 1 /\ Promotable(f, h, L, x)
      THEN PromoteStore(f, h, L, x) ELSE f
PromoteLoopStore(f) ==
  LET Among(info) == Through(LAMBDA g, h : PromoteLoop(g, h, LoopBody(f, info, h)), f,
                             SelectSeq(f.bbs, LAMBDA b : b \in DeepestLoops(info)))
  IN  Among(LoopInfo(f, DomBy(f)))

-----------------------------------------------------------------------------
\* sink_local_init: memsets of local arrays to 0 go from the entry to the way on from a
\* branch that returns otherwise.
IsZeroMemset(f, i) ==
  /\ i.op = "call" /\ i.sym = "memset" /\ i.args[2] = Const(0) /\ IsConst(i.args[3])
  /\ i.args[3][2] >= 0 /\ Op(f, Root(f, i.args[1])) = "alloca"
ReturnsAtOnce(f, b) == Len(f.insts[b]) = 1 /\ Terminator(f, b).op = "return"
IsGuardBlock(f, b) ==
  \A id \in ToSet(f.insts[b]) : f.inst[id].op \in BinaryOps \cup {"phi", "branch", "jump"}

\* The branch, and the side that goes on; none is <<>>.
RECURSIVE EarlyReturn(_, _, _)
EarlyReturn(f, work, guards) ==
  LET b == Last(work)
      on == SelectSeq(<<1, 2>>, LAMBDA k : ~ReturnsAtOnce(f, Succ(f, b)[k]))
      next == IF Terminator(f, b).op = "jump" THEN Succ(f, b)
              ELSE Strict([k \in DOMAIN on |-> Succ(f, b)[on[k]]])
  IN  CASE work = <<>> -> <<>>
        [] b \in guards \/ ~IsGuardBlock(f, b) -> EarlyReturn(f, Front(work), guards)
        [] Terminator(f, b).op = "branch" /\ Len(on) = 1 -> <<b, on[1]>>
        [] OTHER -> EarlyReturn(f, Front(work) \o next, guards \cup {b})

\* A new block on that way, with the memsets.
SinkTo(f, memsets, b, k) ==
  LET on == Succ(f, b)[k]
      split == Len(f.insts) + 1
      g == AddInst(NewBlock(f), split, Jump(on))
  IN  Through(LAMBDA e, id : TransferInst(e, id, split),
              [g EXCEPT !.bbs = InsertAt(@, Position(@, on), split),
                        !.inst[Last(f.insts[b])].to[k] = split, !.pred[split] = <<b>>,
                        !.pred[on][Position(f.pred[on], b)] = split],
              memsets)
SinkLocalInit(f) ==
  LET memsets == SelectSeq(f.insts[Entry(f)], LAMBDA id : IsZeroMemset(f, f.inst[id]))
      others == ToSet(f.insts[Entry(f)]) \ ToSet(memsets)
      early == EarlyReturn(f, Succ(f, Entry(f)), {})
  IN  IF memsets = <<>> \/ (\E id \in others : f.inst[id].op \in {"load", "store", "call"}) \/ early = <<>>
      THEN f ELSE SinkTo(f, memsets, early[1], early[2])
=============================================================================
