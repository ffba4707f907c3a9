------------------------------- MODULE MemDep -------------------------------
(***************************************************************************)
(* Which stores a load may see, and which loads a store must stay behind   *)
(* (passes/ir/memdep.cpp); the removal of dead stores by it                *)
(* (passes/ir/dead_store_elim.cpp), and the globals that are constants     *)
(* (passes/ir/mark_global_const.cpp).                                      *)
(***************************************************************************)
EXTENDS Mem2Reg

\* Dimensions agree from the last one back; the unknown one agrees with all.
DimAlias(dim1, dim2) ==
  LET n == IF Len(dim1) < Len(dim2) THEN Len(dim1) ELSE Len(dim2)
      Same(l, r) == l = 0 \/ r = 0 \/ l = r
  IN  \A k \in 0..(n - 1) : Same(dim1[Len(dim1) - k], dim2[Len(dim2) - k])

\* Different array parameters are taken to be different arrays.
Alias(f, d1, d2) ==
  LET param(d) == IsParamArray(f.decl[d])
  IN  IF param(d1) # param(d2)
      THEN f.decl[d1].glob # f.decl[d2].glob /\ DimAlias(f.decl[d1].dims, f.decl[d2].dims)
      ELSE d1 = d2

\* A call may change what is not the function's own, and what it is given.
IsArrCallAlias(f, d, call) ==
  \/ IsParamArray(f.decl[d]) \/ f.decl[d].glob
  \/ \E k \in DOMAIN call.args :
       \/ Op(f, call.args[k]) = "gep" /\ Alias(f, d, f.inst[call.args[k][2]].sym)
       \/ Op(f, call.args[k]) = "alloca" /\ d = f.inst[call.args[k][2]].sym

\* Tokens, and the instructions made for them, go.
ClearMemdep(f) ==
  LET virtual == {u \in DOMAIN f.inst : f.inst[u].op \in {"memop", "memphi"}}
      live == {u \in DOMAIN f.inst : f.inst[u].op \notin {"memop", "memphi", "deleted"}}
      Cleared(u) == IF u \in virtual THEN Deleted
                    ELSE IF f.inst[u].op = "load" THEN [f.inst[u] EXCEPT !.args[3] = Null]
                    ELSE f.inst[u]
      top == CHOOSE n \in live : \A u \in live : u =< n
  IN  [f EXCEPT !.inst = Strict([u \in 1..top |-> Cleared(u)]),
                !.insts = Strict([b \in DOMAIN @ |-> SelectSeq(@[b], LAMBDA u : u \notin virtual)]),
                !.mem_phis = Strict([b \in DOMAIN @ |-> <<>>])]

\* The loads of each array, and what may change it.
Loads(f) == SelectSeq(Listed(f), LAMBDA u : f.inst[u].op = "load")
MayChange(f, d, i) ==
  \/ i.op = "store" /\ Alias(f, d, i.sym)
  \/ i.op = "call" /\ HasSideEffect(i.sym) /\ IsArrCallAlias(f, d, i)
StoresOf(f) ==
  Fixed([d \in {f.inst[u].sym : u \in ToSet(Loads(f))} |->
           {u \in ToSet(Listed(f)) : MayChange(f, d, f.inst[u])}])
BlocksOf(f, S) == {f.inst[u].bb : u \in S}

\* Memphis for key (an array, or a load) where the blocks S meet.
PlaceMemPhis(f, DF, S, sym, n) ==
  Through(LAMBDA g, b : AddMemPhi(g, b, sym, n), f,
          SelectSeq(f.bbs, LAMBDA b : b \in Meets(DF, S, {})))

\* s.now: the token of each key so far; s.key gives the key of a memphi.
PassMemPhis(s, b) ==
  Through(LAMBDA t, u : IF u \in DOMAIN s.key THEN [t EXCEPT !.now[s.key[u]] = InstRef(u)] ELSE t,
          s, s.f.mem_phis[b])

\* Loads take the token of their array; a store or a call is the token from then on.
LoadTokens(s, u) ==
  LET i == s.f.inst[u]
  IN  CASE i.op = "load" -> [s EXCEPT !.f.inst[u].args[3] = s.now[i.sym]]
        [] i.op \in {"store", "call"} ->
             [s EXCEPT !.now = Fixed([d \in DOMAIN @ |-> IF u \in s.stores[d] THEN InstRef(u) ELSE @[d]])]
        [] OTHER -> s

\* A memop before a store takes the token of its load: the load itself, or a memphi.
OpTokens(s, u) ==
  LET i == s.f.inst[u]
  IN  CASE i.op = "load" -> [s EXCEPT !.now[u] = InstRef(u)]
        [] i.op = "memop" -> [s EXCEPT !.f.inst[u].args[1] = s.now[i.n]]
        [] OTHER -> s

Passed(s, b, Step(_, _)) ==
  LET t == Through(Step, PassMemPhis([s EXCEPT !.now = s.at[b[2]]], b[1]), s.f.insts[b[1]])
      value == [u \in DOMAIN s.key |-> t.now[s.key[u]]]
  IN  [t EXCEPT !.f = Offer(@, b[1], DOMAIN s.key, value), !.at = @ @@ (b[1] :> t.now)]

\* Memphis no one uses go, until there are none.
RECURSIVE PruneMemPhis(_)
PruneMemPhis(f) ==
  LET unused == {u \in DOMAIN f.inst : f.inst[u].op = "memphi" /\ Users(f, InstRef(u)) = {}}
  IN  IF unused = {} THEN f
      ELSE PruneMemPhis(Through(DeleteInst, f, SelectSeq([u \in DOMAIN f.inst |-> u],
                                                         LAMBDA u : u \in unused)))

\* First from loads to the stores they may see: a memphi for each array.
LoadDeps(f, g, DF, stores) ==
  LET HasPhi(h, d) == \E v \in DOMAIN h.inst : h.inst[v].op = "memphi" /\ h.inst[v].sym = d
      Place(h, u) == IF HasPhi(h, f.inst[u].sym) THEN h
                     ELSE PlaceMemPhis(h, DF, BlocksOf(f, stores[f.inst[u].sym]), f.inst[u].sym, 0)
      undefined == [d \in DOMAIN stores |-> Undef]
      Tokens(h) ==
        Through(LAMBDA s, b : Passed(s, b, LoadTokens),
                [f |-> h, key |-> Fixed([u \in {v \in DOMAIN h.inst : h.inst[v].op = "memphi"} |->
                                           h.inst[u].sym]),
                 stores |-> stores, now |-> undefined, at |-> (0 :> undefined)], Walk(f)).f
  IN  Tokens(Through(Place, g, Loads(f)))

\* Before each store a load may see, a memop for that load.
AddMemOps(f, g, stores) ==
  LET Before(h, u, s) == Insert(h, h.inst[s].bb, Position(h.insts[h.inst[s].bb], s),
                                [Inst("memop", <<Null>>) EXCEPT !.n = u])
  IN  Through(LAMBDA h, u : Through(LAMBDA e, s : Before(e, u, s), h,
                                    SelectSeq(Listed(f), LAMBDA s : s \in stores[f.inst[u].sym])),
              g, Loads(f))

\* Then from stores to the loads they must stay behind: memphis for each load.
StoreDeps(f, g, DF) ==
  LET unread == [u \in ToSet(Loads(f)) |-> Undef]
      Tokens(h) ==
        Through(LAMBDA s, b : Passed(s, b, OpTokens),
                [f |-> h, key |-> Fixed([v \in {w \in DOMAIN h.inst : h.inst[w].op = "memphi" /\ h.inst[w].n # 0}
                                           |-> h.inst[v].n]),
                 now |-> unread, at |-> (0 :> unread)], Walk(f)).f
  IN  Tokens(Through(LAMBDA h, u : PlaceMemPhis(h, DF, {f.inst[u].bb}, "", u), g, Loads(f)))

MemDeps(f, DF, stores) ==
  PruneMemPhis(StoreDeps(f, AddMemOps(f, LoadDeps(f, f, DF, stores), stores), DF))
ComputeMemdep(f) == MemDeps(f, Frontier(f, DomBy(f)), StoresOf(f))

-----------------------------------------------------------------------------
SameAddr(i, j) == i.sym = j.sym /\ i.args[1] = j.args[1] /\ i.args[2] = j.args[2]

\* What follows id in its block.
Rest(f, id) ==
  LET s == f.insts[f.inst[id].bb] IN SubSeq(s, Position(s, id) + 1, Len(s))

\* x stores what was loaded from the same place, and nothing has changed the place since.
SameValueStore(f, x) ==
  LET i == f.inst[x]
      load == i.args[3]
      l == f.inst[load[2]]
      between == SubSeq(Rest(f, load[2]), 1, Position(Rest(f, load[2]), x) - 1)
      Preserves(j) ==
        CASE j.op = "store" -> Alias(f, j.sym, l.sym) => j.args[3] = load
          [] j.op = "call" -> ~(HasSideEffect(j.sym) /\ IsArrCallAlias(f, l.sym, j))
          [] OTHER -> TRUE
  IN  /\ Op(f, load) = "load" /\ l.bb = i.bb /\ SameAddr(i, l)
      /\ \A k \in DOMAIN between : Preserves(f.inst[between[k]])

\* Of the loads, calls and stores after x that touch its array, the first is a store to
\* the same place.
Overwritten(f, x) ==
  LET i == f.inst[x]
      Stops(j) == \/ j.op = "load" /\ Alias(f, i.sym, j.sym)
                  \/ j.op = "call" /\ HasSideEffect(j.sym) /\ IsArrCallAlias(f, i.sym, j)
                  \/ j.op = "store" /\ SameAddr(i, j)
      k == SelectInSeq(Rest(f, x), LAMBDA u : Stops(f.inst[u]))
  IN  k # 0 /\ f.inst[Rest(f, x)[k]].op = "store"

DeadStoreElim(f) ==
  Through(LAMBDA g, id : IF g.inst[id].op = "store" /\ (SameValueStore(g, id) \/ Overwritten(g, id))
                         THEN DeleteInst(g, id) ELSE g, f, Listed(f))

\* A global integer no one stores to is a constant.
HasStore(f, d) ==
  \E u \in Users(f, GlobalRef(d)) \cup {v \in ToSet(Listed(f)) : f.inst[v].op = "call"} :
    f.inst[u].op = "store" \/ (f.inst[u].op = "call" /\ d = "g" /\ f.inst[u].sym \in {"bump", "next"})
MarkGlobalConst(f) ==
  [f EXCEPT !.decl = [d \in DOMAIN @ |->
     IF @[d].glob /\ @[d].dims = <<>> /\ ~HasStore(f, d) THEN [@[d] EXCEPT !.const = TRUE] ELSE @[d]]]
=============================================================================
