--------------------------------- MODULE Cfg ---------------------------------
(***************************************************************************)
(* What the passes know of the control-flow graph: dominators, dominance   *)
(* frontiers, natural loops and orders of the blocks (passes/ir/cfg.cpp),  *)
(* and its clean-up (passes/ir/bbopt.cpp).                                 *)
(***************************************************************************)
EXTENDS Ir

Preds(f, b) == ToSet(f.pred[b])

\* Sweeps over the blocks until none loses a dominator.
RECURSIVE DomByFrom(_, _)
DomByFrom(f, D) ==
  LET Keep(E, b) == [E EXCEPT ![b] = {x \in @ : x = b \/ \A p \in Preds(f, b) : x \in E[p]}]
      E == Through(Keep, D, Tail(f.bbs))
  IN  IF E = D THEN D ELSE DomByFrom(f, E)
DomBy(f) ==
  DomByFrom(f, [b \in Blocks(f) |-> IF b = Entry(f) THEN {b} ELSE Blocks(f)])

\* The dominator that dominates no other strict dominator.
Idom(D, b) == CHOOSE d \in D[b] \ {b} : \A x \in D[b] \ {b, d} : d \notin D[x]

RECURSIVE DomLevel(_, _, _)
DomLevel(f, D, b) == IF b = Entry(f) THEN 0 ELSE 1 + DomLevel(f, D, Idom(D, b))

\* The blocks from x upwards that do not strictly dominate to.
RECURSIVE Climb(_, _, _)
Climb(D, x, to) ==
  IF x = to \/ x \notin D[to] THEN {x} \cup Climb(D, Idom(D, x), to) ELSE {}

\* A mutant: the climb ends at the header of a loop, which is in its own frontier.
FrontierOfOthers(f, D) ==
  Fixed([b \in Blocks(f) |-> {y \in Blocks(f) \ {b} :
    /\ b \notin D[y]
    /\ \E p \in Preds(f, y) : b \in D[p]}])

Frontier(f, D) ==
  LET edges == UNION {{<<x, y>> : y \in ToSet(Succ(f, x))} : x \in Blocks(f)}
      climbs == {<<e[2], Climb(D, e[1], e[2])>> : e \in edges}
  IN  Fixed([b \in Blocks(f) |-> {c[1] : c \in {d \in climbs : b \in d[2]}}])

\* Where values assigned in the blocks S meet: the frontier of S, of that, and so on.
RECURSIVE Meets(_, _, _)
Meets(DF, S, found) ==
  LET new == UNION {DF[b] : b \in S} \ found
  IN  IF new = {} THEN found ELSE Meets(DF, new, found \cup new)

-----------------------------------------------------------------------------
\* Loops are known by their headers: of[b] is the innermost loop of b, parent the loop
\* around a loop.
RECURSIVE Outermost(_, _), Around(_, _), CollectFrom(_, _, _, _), CollectLoops(_, _, _, _)
Outermost(info, l) == IF l \in DOMAIN info.parent THEN Outermost(info, info.parent[l]) ELSE l
Around(info, l) ==
  {l} \cup IF l \in DOMAIN info.parent THEN Around(info, info.parent[l]) ELSE {}
LoopsOf(info, b) == IF b \in DOMAIN info.of THEN Around(info, info.of[b]) ELSE {}
DepthOf(info, b) == Cardinality(LoopsOf(info, b))
LoopBody(f, info, h) == {b \in Blocks(f) : h \in LoopsOf(info, b)}

\* Backwards from the back edges of h, through whole loops found before.
CollectFrom(f, info, h, work) ==
  IF work = <<>> THEN info
  ELSE LET p == Last(work)
           rest == Front(work)
           sub == Outermost(info, info.of[p])
           outside == SelectSeq(f.pred[sub],
                        LAMBDA q : q \notin DOMAIN info.of \/ info.of[q] # sub)
       IN  IF p \notin DOMAIN info.of
           THEN CollectFrom(f, [info EXCEPT !.of = @ @@ (p :> h)], h,
                            IF p = h THEN rest ELSE rest \o f.pred[p])
           ELSE IF sub = h THEN CollectFrom(f, info, h, rest)
           ELSE CollectFrom(f, [info EXCEPT !.parent = @ @@ (sub :> h)], h, rest \o outside)

\* Inner headers first: the dominator tree in post-order.
CollectLoops(f, D, info, h) ==
  LET children == SelectSeq(f.bbs, LAMBDA b : b # Entry(f) /\ Idom(D, b) = h)
      inner == Through(LAMBDA i, s : CollectLoops(f, D, i, s), info, children)
  IN  CollectFrom(f, inner, h, SelectSeq(f.pred[h], LAMBDA p : h \in D[p]))
LoopInfo(f, D) == CollectLoops(f, D, [of |-> <<>>, parent |-> <<>>], Entry(f))

DeepestLoops(info) ==
  {info.of[b] : b \in DOMAIN info.of} \ {info.parent[l] : l \in DOMAIN info.parent}

RECURSIVE PostOrder(_, _, _)
PostOrder(f, done, b) ==   \* done: the blocks visited and those left, in order
  IF b \in done.vis THEN done
  ELSE LET d == Through(LAMBDA e, s : PostOrder(f, e, s),
                        [done EXCEPT !.vis = @ \cup {b}], Succ(f, b))
       IN  [d EXCEPT !.po = Append(@, b)]
Visited(f) == PostOrder(f, [vis |-> {}, po |-> <<>>], Entry(f))
Rpo(f) == Reverse(Visited(f).po) \o <<>>

-----------------------------------------------------------------------------
\* The edge from x to b goes, with its operand in the phis of b.
DropOperand(f, b, k) ==
  LET phis == ToSet(Phis(f, b))
  IN  [f EXCEPT !.pred[b] = RemoveAt(@, k),
                !.inst = Strict([u \in DOMAIN @ |->
                   IF u \in phis THEN [@[u] EXCEPT !.args = RemoveAt(@, k)] ELSE @[u]])]
DropEdge(f, x, b) == DropOperand(f, b, Position(f.pred[b], x))

\* A branch on a constant, or with one target, becomes a jump.
FoldBranch(s, b) ==
  LET t == Terminator(s.f, b)
      same == t.to[1] = t.to[2]
      kept == IF IsConst(t.args[1]) /\ t.args[1][2] = 0 THEN 2 ELSE 1
      jump == [Jump(t.to[kept]) EXCEPT !.bb = b]
  IN  IF t.op = "branch" /\ (IsConst(t.args[1]) \/ same)
      THEN [f |-> DropEdge([s.f EXCEPT !.inst[Last(s.f.insts[b])] = jump], b, t.to[3 - kept]),
            changed |-> s.changed \/ ~IsConst(t.args[1])]
      ELSE s

\* A mutant: phis are not looked at.
NeedsBlockNever(f, b, target) == FALSE

\* A phi at the target must still tell the ways to it apart.
NeedsBlock(f, b, target) ==
  /\ StartsWithPhi(f, target)
  /\ \E p \in Preds(f, b) : Terminator(f, p).op = "branch" /\ target \in ToSet(Succ(f, p))

BypassTo(f, b, target) ==
  LET k == Position(f.pred[target], b)
      preds == f.pred[b]
      phis == ToSet(Phis(f, target))
      g == Through(LAMBDA e, p : Redirect(e, p, b, target), f, preds)
      Extended(args) == RemoveAt(args, k) \o Strict([p \in DOMAIN preds |-> args[k]])
  IN  [g EXCEPT !.pred[target] = RemoveAt(@, k) \o preds,
                !.inst = Strict([u \in DOMAIN @ |->
                   IF u \in phis THEN [@[u] EXCEPT !.args = Extended(@)] ELSE @[u]]),
                !.bbs = Unlisted(@, b), !.insts[b] = <<>>,
                !.inst[Last(f.insts[b])] = Deleted]

\* An empty block that jumps elsewhere is left out of the way.
Bypass(s, b) ==
  LET t == Terminator(s.f, b)
      empty == t.op = "jump" /\ Len(s.f.insts[b]) = 1
  IN  IF empty /\ t.to[1] # b /\ ~NeedsBlock(s.f, b, t.to[1])
      THEN [f |-> BypassTo(s.f, b, t.to[1]), changed |-> TRUE] ELSE s

RECURSIVE SimplifyJumps(_)
SimplifyJumps(f) ==
  LET Again(h) == IF h.changed THEN SimplifyJumps(h.f) ELSE h.f
  IN  Again(Through(Bypass, Through(FoldBranch, [f |-> f, changed |-> FALSE], f.bbs), Tail(f.bbs)))

\* Unreachable blocks go; their instructions remain users of their operands.
RemoveUnreachable(f) ==
  LET vis == Visited(f).vis
      Cut(e, b) == IF b \in vis THEN e
                   ELSE Through(LAMBDA g, s : IF s \in vis THEN DropEdge(g, b, s) ELSE g, e, Succ(f, b))
  IN  [Through(Cut, f, f.bbs) EXCEPT !.bbs = SelectSeq(@, LAMBDA b : b \in vis)]

\* A phi with one operand is that operand.
RemoveSinglePhis(s, b) ==
  LET Step(g, id) == DeleteInst(ReplaceUses(g, InstRef(id), g.inst[id].args[1]), id)
  IN  IF Len(s.f.pred[b]) # 1 \/ Phis(s.f, b) = <<>> THEN s
      ELSE [f |-> Through(Step, s.f, Phis(s.f, b)), inst_changed |-> TRUE]

\* A block that only b jumps to becomes part of b.
RECURSIVE MergeJumps(_, _)
MergeJumps(f, b) ==
  LET t == Last(f.insts[b])
      target == f.inst[t].to[1]
      moved == ToSet(f.insts[target])
      succ == ToSet(Succ(f, target))
  IN  IF b \notin Blocks(f) \/ f.inst[t].op # "jump" \/ Len(f.pred[target]) # 1 THEN f
      ELSE MergeJumps(
             [f EXCEPT !.insts[b] = Front(@) \o f.insts[target], !.insts[target] = <<>>,
                       !.inst = Strict([u \in DOMAIN @ |-> IF u = t THEN Deleted
                                   ELSE IF u \in moved THEN [@[u] EXCEPT !.bb = b] ELSE @[u]]),
                       !.pred = Strict([s \in DOMAIN @ |-> IF s \in succ
                                   THEN ReplaceAt(@[s], Position(@[s], target), b) ELSE @[s]]),
                       !.bbs = Unlisted(@, target)], b)

MergeAll(s) == [s EXCEPT !.f = Through(MergeJumps, @, @.bbs)]

\* A mutant: every clean-up counts as a change.
TidyChanges(f) == MergeAll(Through(RemoveSinglePhis, [f |-> f, inst_changed |-> TRUE], f.bbs))

\* inst_changed: a phi was replaced, which may give value numbering new work.
Tidy(f) == MergeAll(Through(RemoveSinglePhis, [f |-> f, inst_changed |-> FALSE], f.bbs))
Bbopt(f) == Tidy(RemoveUnreachable(SimplifyJumps(f)))
=============================================================================
