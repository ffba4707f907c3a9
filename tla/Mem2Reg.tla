------------------------------- MODULE Mem2Reg -------------------------------
(***************************************************************************)
(* The promotion of local integers to values (passes/ir/mem2reg.cpp).      *)
(***************************************************************************)
EXTENDS Cfg

\* The order in which renaming visits the blocks, each with the block whose values it
\* starts from: every visit pushes the successors on a stack.
RECURSIVE WalkFrom(_, _, _)
WalkFrom(f, stack, walk) ==
  LET top == Last(stack)
      visited == \E k \in DOMAIN walk : walk[k][1] = top[1]
      next == Strict([k \in DOMAIN Succ(f, top[1]) |-> <<Succ(f, top[1])[k], top[1]>>])
  IN  IF stack = <<>> THEN walk
      ELSE IF visited THEN WalkFrom(f, Front(stack), walk)
      ELSE WalkFrom(f, Front(stack) \o next, Append(walk, top))
Walk(f) == WalkFrom(f, <<<<Entry(f), 0>>>>, <<>>)

\* What the phis of the successors of b take from it; value gives the operand of those
\* in the set phis.
Offer(f, b, phis, value) ==
  LET Operand(g, x) ==
        LET k == Position(f.pred[x], b)
        IN  [g EXCEPT !.inst = Strict([u \in DOMAIN @ |->
               IF u \in phis /\ @[u].bb = x THEN [@[u] EXCEPT !.args[k] = value[u]] ELSE @[u]])]
  IN  Through(Operand, f, Succ(f, b))

Allocas(f) ==
  SelectSeq(Listed(f), LAMBDA id : f.inst[id].op = "alloca" /\ f.decl[f.inst[id].sym].dims = <<>>)
Promotes(f, allocas, i, op) == i.op = op /\ \E a \in allocas : i.args[1] = InstRef(a)

\* A phi for alloca a wherever two of its stores meet.
PlacePhis(s, DF, a) ==
  LET defs == {b \in Blocks(s.f) : \E id \in ToSet(s.f.insts[b]) :
                 Promotes(s.f, {a}, s.f.inst[id], "store")}
      at == SelectSeq(s.f.bbs, LAMBDA b : b \in Meets(DF, defs, {}))
  IN  Through(LAMBDA t, b : [f |-> AddPhi(t.f, b), var |-> t.var @@ (NextId(t.f) :> a)], s, at)

\* var: the alloca of a phi placed here.  A load gives the value the variable has, a
\* store and a phi change it.
RenameInst(s, id) ==
  LET i == s.f.inst[id]
      a == i.args[1][2]
  IN  CASE id \in s.allocas -> [s EXCEPT !.f = DeleteInst(@, id)]
        [] Promotes(s.f, s.allocas, i, "load") ->
             [s EXCEPT !.f = DeleteInst(ReplaceUses(@, InstRef(id), s.now[a]), id)]
        [] Promotes(s.f, s.allocas, i, "store") ->
             [s EXCEPT !.f = DeleteInst(@, id), !.now[a] = i.args[3]]
        [] id \in DOMAIN s.var -> [s EXCEPT !.now[s.var[id]] = InstRef(id)]
        [] OTHER -> s

RenameBlock(s, step) ==
  LET b == step[1]
      t == Through(RenameInst, [s EXCEPT !.now = s.at[step[2]]], s.f.insts[b])
      value == [u \in DOMAIN s.var |-> t.now[s.var[u]]]
  IN  [t EXCEPT !.f = Offer(@, b, DOMAIN s.var, value), !.at = @ @@ (b :> t.now)]

PromoteAllocas(f) ==
  LET allocas == ToSet(Allocas(f))
      DF == Frontier(f, DomBy(f))
      start == [a \in allocas |-> Undef]
      Rename(placed) ==
        Through(RenameBlock,
                [f |-> placed.f, var |-> placed.var, allocas |-> allocas, now |-> start,
                 at |-> (0 :> start)], Walk(placed.f)).f
  IN  Rename(Through(LAMBDA s, a : PlacePhis(s, DF, a), [f |-> f, var |-> <<>>], Allocas(f)))
Mem2Reg(f) == PromoteAllocas(Bbopt(f).f)
=============================================================================
