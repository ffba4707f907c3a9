------------------------------- MODULE GvnGcm -------------------------------
(***************************************************************************)
(* Dead-code elimination with the removal of useless loops, global value   *)
(* numbering and global code motion (passes/ir/dce.cpp,                    *)
(* remove_useless_loop.cpp, gvn_gcm.cpp).                                  *)
(***************************************************************************)
EXTENDS MemDep

InstsOf(args) == {v[2] : v \in {w \in ToSet(args) : IsInst(w)}}

\* What instructions with an effect need, directly or not.
RECURSIVE Needed(_, _, _)
Needed(f, S, found) ==
  LET new == UNION {InstsOf(f.inst[u].args) : u \in S} \ found
  IN  IF new = {} THEN found ELSE Needed(f, new, found \cup new)

RemoveDead(f) ==
  LET roots == {u \in ToSet(Listed(f)) : HasEffect(f.inst[u])}
      vis == Needed(f, roots, roots)
  IN  Through(DeleteInst, f, SelectSeq(Listed(f), LAMBDA u : u \notin vis))

\* The ways into and out of the loop with blocks L: <<x, s>> from x inside to s outside.
Entering(f, h, L) == Preds(f, h) \ L
Exits(f, L) == {e \in UNION {{<<x, s>> : s \in ToSet(Succ(f, x))} : x \in L} : e[2] \notin L}

\* One way in, one block to leave to, which cannot tell from where; nothing in the loop
\* has an effect or is used outside.
IsUseless(f, h, L) ==
  LET exit == (CHOOSE e \in Exits(f, L) : TRUE)[2]
      from == {k \in DOMAIN f.pred[exit] : f.pred[exit][k] \in L}
      inside == UNION {ToSet(f.insts[b]) : b \in L}
  IN  /\ Cardinality(Entering(f, h, L)) = 1
      /\ Cardinality({e[2] : e \in Exits(f, L)}) = 1
      /\ \A u \in ToSet(Phis(f, exit)) : \A j, k \in from : f.inst[u].args[j] = f.inst[u].args[k]
      /\ \A u \in inside :
           /\ f.inst[u].op \notin {"return", "store"}
           /\ ~(f.inst[u].op = "call" /\ HasSideEffect(f.inst[u].sym))
           /\ \A v \in Users(f, InstRef(u)) : f.inst[v].bb \in L

\* The block before the loop goes on after it.
SkipLoop(f, h, L) ==
  LET before == CHOOSE p \in Entering(f, h, L) : TRUE
      exit == (CHOOSE e \in Exits(f, L) : TRUE)[2]
      keep == SelectSeq([k \in DOMAIN f.pred[exit] |-> k], LAMBDA k : f.pred[exit][k] \notin L)
      k0 == SelectInSeq(f.pred[exit], LAMBDA p : p \in L)
      Kept(s, x) == Append(Strict([k \in DOMAIN keep |-> s[keep[k]]]), x)
      phis == ToSet(Phis(f, exit))
      inside == UNION {ToSet(f.insts[b]) : b \in L}
  IN  [Redirect(f, before, h, exit) EXCEPT
         !.pred[exit] = Kept(@, before),
         !.inst = Strict([u \in DOMAIN @ |->
            IF u \in phis THEN [@[u] EXCEPT !.args = Kept(@, @[k0])]
            ELSE IF u \in inside THEN Deleted ELSE @[u]]),
         !.insts = Strict([b \in DOMAIN @ |-> IF b \in L THEN <<>> ELSE @[b]]),
         !.bbs = SelectSeq(@, LAMBDA b : b \notin L)]

RemoveLoop(s, h, L) ==
  IF IsUseless(s.f, h, L) THEN [f |-> SkipLoop(s.f, h, L), changed |-> TRUE] ELSE s
RemoveUselessLoops(f) ==
  LET Among(info) == Through(LAMBDA s, h : RemoveLoop(s, h, LoopBody(f, info, h)),
                             [f |-> f, changed |-> FALSE],
                             SelectSeq(f.bbs, LAMBDA b : b \in DeepestLoops(info)))
  IN  Among(LoopInfo(f, DomBy(f)))

RECURSIVE Dce(_)
Dce(f) ==
  LET Again(s) == IF s.changed THEN Dce(s.f) ELSE s.f IN Again(RemoveUselessLoops(RemoveDead(f)))

-----------------------------------------------------------------------------
\* vn is the list of values numbered so far, and the number of each.
IsPureCall(f, i) == i.op = "call" /\ Pure(i.sym) /\ \A k \in DOMAIN i.args : Op(f, i.args[k]) # "gep"
Commutes(op) == op \in {"add", "mul", "eq", "ne"}

RECURSIVE VnOf(_, _, _), FindEq(_, _, _, _)

\* The numbers of the first n of args.
VnOfAll(f, vn, args, n) ==
  Through(LAMBDA s, k : LET r == VnOf(f, s.vn, args[k]) IN [vn |-> r.vn, vals |-> Append(s.vals, r.val)],
          [vn |-> vn, vals |-> <<>>], [k \in 1..n |-> k])

\* A gep without an index is its array, if that is a parameter or an element.
ArrNumbered(f, v, arr) ==
  IF \/ arr.val[1] = "param" /\ IsParamArray(f.decl[arr.val[2]])
     \/ Op(f, arr.val) = "gep"
  THEN arr ELSE FindEq(f, arr.vn, v, 1)
IndexNumbered(f, v, index) ==
  IF index.val = Const(0) THEN ArrNumbered(f, v, VnOf(f, index.vn, f.inst[v[2]].args[1]))
  ELSE FindEq(f, index.vn, v, 1)
EqOf(f, vn, v) ==
  LET i == f.inst[v[2]]
  IN  CASE i.op \in BinaryOps -> FindEq(f, VnOfAll(f, vn, i.args, 2).vn, v, 1)
        [] i.op = "gep" -> IndexNumbered(f, v, VnOf(f, vn, i.args[2]))
        [] OTHER -> FindEq(f, vn, v, 1)

IsNumbered(f, i) == i.op \in BinaryOps \cup {"gep", "load"} \/ IsPureCall(f, i)
NewVn(f, vn, v) ==
  LET Settled(e) == [vn |-> [e.vn EXCEPT !.of[v] = e.val], val |-> e.val]
  IN  IF ~IsInst(v) \/ ~IsNumbered(f, f.inst[v[2]]) THEN [vn |-> vn, val |-> v]
      ELSE Settled(EqOf(f, vn, v))
VnOf(f, vn, v) ==
  IF v \in DOMAIN vn.of THEN [vn |-> vn, val |-> vn.of[v]]
  ELSE NewVn(f, [keys |-> Append(vn.keys, v), of |-> vn.of @@ (v :> v)], v)

\* Instructions x and y, the latter v, could compute the same, and do, with operands as.
Comparable(x, y) ==
  CASE x.op \in BinaryOps -> y.op \in BinaryOps
    [] x.op = "load" -> y.op \in {"load", "store"}
    [] x.op = "call" -> y.op = "call" /\ y.sym = x.sym
    [] OTHER -> y.op = x.op
Equal(x, y, v, as, bs) ==
  LET cross == as[1] = bs[2] /\ as[2] = bs[1]
  IN  CASE x.op \in BinaryOps -> \/ x.op = y.op /\ (as = bs \/ (cross /\ Commutes(x.op)))
                                 \/ cross /\ IsRev(x.op, y.op)
        [] y.op = "load" -> as = bs /\ x.args[3] = y.args[3]
        [] y.op = "store" -> as = bs /\ x.args[3] = v
        [] OTHER -> as = bs

\* The k-th value numbered, w, or a later one, computes what v does; both have their
\* operands numbered in e, those of v first.
FoundEq(f, e, v, k) ==
  LET x == f.inst[v[2]]
      w == e.vn.keys[k]
      y == f.inst[w[2]]
      n == Len(e.vals) \div 2
  IN  IF Equal(x, y, w, SubSeq(e.vals, 1, n), SubSeq(e.vals, n + 1, 2 * n))
      THEN [vn |-> e.vn, val |-> IF y.op = "store" THEN y.args[3] ELSE e.vn.of[w]]
      ELSE FindEq(f, e.vn, v, k + 1)
FindEq(f, vn, v, k) ==
  LET x == f.inst[v[2]]
      w == vn.keys[k]
      n == IF x.op = "call" THEN Len(x.args) ELSE 2
      operands == SubSeq(x.args, 1, n) \o SubSeq(f.inst[w[2]].args, 1, n)
  IN  IF k > Len(vn.keys) THEN [vn |-> vn, val |-> v]
      ELSE IF ~IsInst(w) \/ w = v \/ ~Comparable(x, f.inst[w[2]]) THEN FindEq(f, vn, v, k + 1)
      ELSE FoundEq(f, VnOfAll(f, vn, operands, 2 * n), v, k)

\* The last key takes the place of one that goes.
Forget(vn, v) ==
  IF v \notin DOMAIN vn.of THEN vn
  ELSE [keys |-> Front(ReplaceAt(vn.keys, Position(vn.keys, v), Last(vn.keys))),
        of |-> Fixed([w \in (DOMAIN vn.of) \ {v} |-> vn.of[w]])]
ReplaceWith(g, id, v) ==
  IF v = InstRef(id) THEN g
  ELSE [f |-> DeleteInst(ReplaceUses(g.f, InstRef(id), v), id), vn |-> Forget(g.vn, InstRef(id))]
Numbered(g, id) ==
  LET By(r) == ReplaceWith([g EXCEPT !.vn = r.vn], id, r.val) IN By(VnOf(g.f, g.vn, InstRef(id)))

-----------------------------------------------------------------------------
IsPowerOfTwo(n) == n > 0 /\ \E k \in 0..30 : n = 2 ^ k

\* x - x / n * n, n a power of two, is a remainder after all.
IsPow2Mod(f, x) ==
  LET mul == f.inst[x.args[2][2]]
      div == f.inst[mul.args[1][2]]
      factor == mul.args[2]
  IN  /\ x.op = "sub" /\ Op(f, x.args[2]) = "mul" /\ Op(f, mul.args[1]) = "div"
      /\ IsConst(factor) /\ IsPowerOfTwo(factor[2])
      /\ div.args[2] = factor /\ div.args[1] = x.args[1]

\* a + C1 + C2 and its like: one operation on a.  Subtractions of constants become
\* additions.
AsAdd(i) == IF i.op = "sub" /\ IsConst(i.args[2])
            THEN [i EXCEPT !.op = "add", !.args[2] = Const(Wrap(-@[2]))] ELSE i
TryFoldLhs(f, id) ==
  LET x == AsAdd(f.inst[id])
      l == x.args[1][2]
      lhs == AsAdd(f.inst[l])
      r == x.args[2][2]
      lr == lhs.args[2][2]
      merged == [x EXCEPT !.op = IF x.op = lhs.op THEN "add" ELSE "rsb",
                          !.args = <<lhs.args[1], Const(Wrap(IF x.op = "add" THEN r + lr ELSE r - lr))>>]
  IN  IF ~IsConst(f.inst[id].args[2]) THEN f
      ELSE IF Op(f, x.args[1]) \in BinaryOps /\ IsConst(f.inst[l].args[2])
      THEN [f EXCEPT !.inst[l] = lhs,
                     !.inst[id] = IF {x.op, lhs.op} \subseteq {"add", "rsb"} THEN merged ELSE x]
      ELSE [f EXCEPT !.inst[id] = x]

NumberBinary(g, id) ==
  LET i == g.f.inst[id]
      x == IF IsConst(i.args[1]) /\ CanSwap(i.op) THEN SwapOperand(i) ELSE i
      f == TryFoldLhs([g.f EXCEPT !.inst[id] = x], id)
      mod == Insert(g.f, i.bb, Position(g.f.insts[i.bb], id),
                    Binary("mod", i.args[1], g.f.inst[i.args[2][2]].args[2]))
      simple == OptimizedValue(f.inst[id])
  IN  IF IsPow2Mod(g.f, i) THEN ReplaceWith([g EXCEPT !.f = mod], id, InstRef(NextId(g.f)))
      ELSE IF IsConst(x.args[1]) /\ IsConst(x.args[2])
      THEN ReplaceWith(g, id, Const(Eval(x.op, x.args[1][2], x.args[2][2])))
      ELSE IF simple # Null THEN ReplaceWith([g EXCEPT !.f = f], id, simple)
      ELSE Numbered([g EXCEPT !.f = f], id)

\* A phi of one value, under different names or not.
\* Operands are numbered up to the first that differs.
SameSoFar(f, s, v) ==
  LET Then(r) == IF s.val = Null \/ r.val = s.val THEN [vn |-> r.vn, val |-> r.val, same |-> TRUE]
                 ELSE [s EXCEPT !.vn = r.vn, !.same = FALSE]
  IN  IF s.same THEN Then(VnOf(f, s.vn, v)) ELSE s
NumberPhi(g, id) ==
  LET Done(r) == IF r.same THEN ReplaceWith([g EXCEPT !.vn = r.vn], id, r.val) ELSE [g EXCEPT !.vn = r.vn]
  IN  Done(Through(LAMBDA s, v : SameSoFar(g.f, s, v), [vn |-> g.vn, val |-> Null, same |-> TRUE],
                   g.f.inst[id].args))

\* The offset of a load with constant indices, through the geps before it.
RECURSIVE ConstOffset(_, _, _)
ConstOffset(f, i, k) ==
  LET outer == ConstOffset(f, f.inst[i.args[1][2]], k - 1)
  IN  IF k = 0 THEN 0 ELSE i.args[2][2] * ElementSize(f.decl[i.sym], k) + outer
RECURSIVE ConstIndices(_, _, _)
ConstIndices(f, i, k) == k = 0 \/ (IsConst(i.args[2]) /\ ConstIndices(f, f.inst[i.args[1][2]], k - 1))

NumberLoad(g, id) ==
  LET i == g.f.inst[id]
      d == g.f.decl[i.sym]
  IN  IF d.glob /\ d.const /\ ConstIndices(g.f, i, Len(d.dims))
      THEN ReplaceWith(g, id, Const(d.init[ConstOffset(g.f, i, Len(d.dims)) + 1]))
      ELSE Numbered(g, id)

NumberInst(g, id) ==
  LET i == g.f.inst[id]
  IN  CASE i.op \in BinaryOps -> NumberBinary(g, id)
        [] i.op = "phi" -> NumberPhi(g, id)
        [] i.op = "load" -> NumberLoad(g, id)
        [] i.op = "gep" \/ IsPureCall(g.f, i) -> Numbered(g, id)
        [] i.op = "store" ->
             [g EXCEPT !.vn = [keys |-> Append(@.keys, InstRef(id)), of |-> @.of @@ (InstRef(id) :> InstRef(id))]]
        [] OTHER -> g

\* The first half of the pass: block by block, in reverse post-order.
NumberAll(f) ==
  Through(LAMBDA g, b : Through(NumberInst, g, g.f.insts[b]),
          [f |-> f, vn |-> [keys |-> <<>>, of |-> <<>>]], Rpo(f)).f
Gvn(f) == Dce(ClearMemdep(NumberAll(ComputeMemdep(f))))

-----------------------------------------------------------------------------
Moves(f, i) == i.op \in BinaryOps \cup {"gep", "load"} \/ IsPureCall(f, i)

\* To the end of block b.
TransferInst(f, id, b) ==
  LET g == [f EXCEPT !.insts[f.inst[id].bb] = Unlisted(@, id), !.inst[id].bb = b]
  IN  [g EXCEPT !.insts[b] = InsertAt(@, Len(@), id)]

\* Each operand first; then below the deepest of them.
RECURSIVE ScheduleEarly(_, _, _)
ScheduleEarly(s, level, id) ==
  LET i == s.f.inst[id]
      AfterOperand(t, k) ==
        LET u == t.f.inst[id].args[k][2]
            e == ScheduleEarly(t, level, u)
        IN  IF ~IsInst(t.f.inst[id].args[k]) THEN t
            ELSE IF level[e.f.inst[id].bb] < level[e.f.inst[u].bb]
            THEN [e EXCEPT !.f = TransferInst(@, id, e.f.inst[u].bb)] ELSE e
      seen == [s EXCEPT !.vis = @ \cup {id}]
  IN  IF id \in s.vis THEN s
      ELSE IF ~Moves(s.f, i) THEN seen
      ELSE Through(AfterOperand, [seen EXCEPT !.f = TransferInst(@, id, Entry(@))],
                   [k \in DOMAIN i.args |-> k])

\* The nearest block that dominates a and b.
RECURSIVE FindLca(_, _, _, _)
FindLca(D, level, a, b) ==
  IF a = b THEN a
  ELSE IF level[b] < level[a] THEN FindLca(D, level, Idom(D, a), b)
  ELSE IF level[a] < level[b] THEN FindLca(D, level, a, Idom(D, b))
  ELSE FindLca(D, level, Idom(D, a), Idom(D, b))

\* Where u uses id: a phi does so at the end of the block the operand comes from.
UseBlocks(f, u, id) ==
  IF f.inst[u].op \in {"phi", "memphi"}
  THEN {f.pred[f.inst[u].bb][k] : k \in {j \in DOMAIN f.inst[u].args : f.inst[u].args[j] = InstRef(id)}}
  ELSE {f.inst[u].bb}
LcaOf(f, info, S) ==
  LET b == CHOOSE x \in S : TRUE
  IN  IF S = {} THEN 0
      ELSE Through(LAMBDA a, c : IF c \in S THEN FindLca(info.D, info.level, a, c) ELSE a, b, f.bbs)

\* From lca up to the block early, the first of the least loop depth.
RECURSIVE BestOf(_, _, _, _)
BestOf(info, lca, early, best) ==
  LET b == IF DepthOf(info.loops, lca) < DepthOf(info.loops, best) THEN lca ELSE best
  IN  IF lca = early THEN b ELSE BestOf(info, Idom(info.D, lca), early, b)

\* A mutant: it stays at the end of the block.
BeforeUsersNone(f, id) == f

\* Before its first user in the block that is no phi, if there is one.
BeforeUsers(f, id) ==
  LET b == f.inst[id].bb
      users == Users(f, InstRef(id))
      k == SelectInSeq(f.insts[b], LAMBDA u : u \in users /\ f.inst[u].op # "phi")
      s == Unlisted(f.insts[b], id)
  IN  IF k = 0 THEN f
      ELSE [f EXCEPT !.insts[b] = InsertAt(s, Position(s, f.insts[b][k]), id)]

\* As late as the users allow, out of loops as far as the operands allow.
RECURSIVE ScheduleLate(_, _, _)
ScheduleLate(s, info, id) ==
  LET users == Users(s.f, InstRef(id))
      t == Through(LAMBDA r, u : IF u \in users THEN ScheduleLate(r, info, u) ELSE r,
                   [s EXCEPT !.vis = @ \cup {id}], [u \in DOMAIN s.f.inst |-> u])
      lca == LcaOf(t.f, info, UNION {UseBlocks(t.f, u, id) : u \in users})
      best == BestOf(info, lca, t.f.inst[id].bb, lca)
  IN  IF id \in s.vis THEN s
      ELSE IF ~Moves(s.f, s.f.inst[id]) THEN [s EXCEPT !.vis = @ \cup {id}]
      ELSE [t EXCEPT !.f = BeforeUsers(TransferInst(@, id, best), id)]

\* A comparison only the branch of its block uses goes right before the branch.
CompareLast(f, b) ==
  LET t == Last(f.insts[b])
      c == f.inst[t].args[1]
      s == Unlisted(f.insts[b], c[2])
  IN  IF /\ f.inst[t].op = "branch" /\ Op(f, c) \in CompareOps
         /\ f.inst[c[2]].bb = b /\ Users(f, c) = {t}
      THEN [f EXCEPT !.insts[b] = InsertAt(s, Len(s), c[2])] ELSE f

\* The second half.  inst_changed: there is new work for the first.
Schedule(f, info) ==
  LET Early(s, id) == ScheduleEarly(s, info.level, id)
      Late(s, id) == ScheduleLate(s, info, id)
      insts == Listed(f)
  IN  Through(Late, [f |-> Through(Early, [f |-> f, vis |-> {}], insts).f, vis |-> {}], insts).f
TreeOf(f, D) ==
  [D |-> D, level |-> Fixed([b \in Blocks(f) |-> DomLevel(f, D, b)]), loops |-> LoopInfo(f, D)]
GcmOf(f) == Through(CompareLast, Schedule(f, TreeOf(f, DomBy(f))), f.bbs)
Gcm(f) == Bbopt(ClearMemdep(GcmOf(ComputeMemdep(f))))
=============================================================================
