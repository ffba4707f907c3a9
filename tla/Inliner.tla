------------------------------ MODULE Inliner ------------------------------
(***************************************************************************)
(* The body of a small function in the place of a call                     *)
(* (passes/ir/inline_func.cpp).  Which functions are inlined into which,   *)
(* and what that does to summaries, is module CallGraph's; this is what    *)
(* happens to blocks, predecessors, phis and values.                       *)
(***************************************************************************)
EXTENDS ConvertSsa, GvnGcm

CONSTANT Defined   \* of the functions called, those that are defined in the program:
                  \* their decl, params, body, is_int

\* What they have become by then: no pass in between changes one that calls no other and has
\* neither a stable store nor a loop of a known length.
Callees == Fixed([fn \in DOMAIN Defined |-> Gcm(Gvn(Bbopt(Mem2Reg(ConvertFunc(Defined[fn]))).f)).f])

CanInline(f, fn) ==
  /\ f.pred[Entry(f)] = <<>> /\ Len(Listed(f)) < 32
  /\ \A id \in ToSet(Listed(f)) : f.inst[id].op # "alloca" /\ ~(f.inst[id].op = "call" /\ f.inst[id].sym = fn)

\* A call in f: the callee's parameters, what they stand for, where the call's block goes
\* on (ret) and the copies of the callee's blocks come after.
Site(f, id, callee) ==
  LET i == f.inst[id]
  IN  [callee |-> callee, params |-> Defined[i.sym].params, args |-> i.args,
       arrays |-> [k \in DOMAIN i.args |-> IF Op(f, i.args[k]) = "gep" THEN f.inst[i.args[k][2]].sym
                                           ELSE i.args[k][2]],
       bb |-> i.bb, ret |-> Len(f.insts) + 1]
Copied(site, b) == site.ret + Position(site.callee.bbs, b)
GetSym(site, d) == IF Contains(site.params, d) THEN site.arrays[Position(site.params, d)] ELSE d
Got(s, site, v) ==
  CASE IsInst(v) -> s.map[v[2]]
    [] v[1] = "param" -> site.args[Position(site.params, v[2])]
    [] OTHER -> v

\* The block is split after the call: the successors have ret as a predecessor instead.
Split(f, id, site) ==
  LET rest == Rest(f, id)
      at == Position(f.bbs, site.bb)
      copies == [k \in DOMAIN site.callee.bbs |-> site.ret + k]
      Follow(g, b) == [g EXCEPT !.pred[b][Position(g.pred[b], site.bb)] = site.ret]
      g == Through(LAMBDA h, k : NewBlock(h), Through(Follow, f, Succ(f, site.bb)), <<0>> \o copies)
  IN  [g EXCEPT !.bbs = SubSeq(@, 1, at) \o copies \o <<site.ret>> \o SubSeq(@, at + 1, Len(@)),
                !.insts[site.bb] = SubSeq(@, 1, Position(@, id)), !.insts[site.ret] = rest,
                !.inst = Strict([u \in DOMAIN @ |-> IF Contains(rest, u) THEN [@[u] EXCEPT !.bb = site.ret]
                                                    ELSE @[u]])]

\* Instructions in turn; a return becomes a jump to ret, with a value (s.rets) for the phi
\* there; the operands of phis are filled in when all are there.
CopyPhi(s, b, id) == [s EXCEPT !.f = AddPhi(@, b), !.map = (id :> InstRef(NextId(s.f))) @@ @]
CopyReturn(s, site, b, i) ==
  [s EXCEPT !.f = [AddInst(@, b, Jump(site.ret)) EXCEPT !.pred[site.ret] = Append(@, b)],
            !.rets = Append(@, Got(s, site, i.args[1]))]
CopyOther(s, site, b, id, i) ==
  LET copy == [i EXCEPT !.args = Strict([k \in DOMAIN @ |-> Got(s, site, @[k])]),
                        !.to = Strict([k \in DOMAIN @ |-> Copied(site, @[k])]),
                        !.sym = IF i.op \in {"gep", "load", "store"} THEN GetSym(site, @) ELSE @]
  IN  [s EXCEPT !.f = AddInst(@, b, copy), !.map = (id :> InstRef(NextId(s.f))) @@ @]
CopyInst(s, site, b, id) ==
  LET i == site.callee.inst[id]
  IN  CASE i.op = "phi" -> CopyPhi(s, b, id)
        [] i.op = "return" -> CopyReturn(s, site, b, i)
        [] OTHER -> CopyOther(s, site, b, id, i)
CopyBlock(s, site, c) ==
  LET b == Copied(site, c)
      preds == site.callee.pred[c]
  IN  Through(LAMBDA t, id : CopyInst(t, site, b, id),
              [s EXCEPT !.f.pred[b] = Strict([k \in DOMAIN preds |-> Copied(site, preds[k])])],
              site.callee.insts[c])
FillPhis(s, site) ==
  LET phis == SelectSeq(Listed(site.callee), LAMBDA id : site.callee.inst[id].op = "phi")
      From(id) == site.callee.inst[id].args
      Filled(f, id) == [f EXCEPT !.inst[s.map[id][2]].args =
                          Strict([k \in DOMAIN From(id) |-> Got(s, site, From(id)[k])])]
  IN  [s EXCEPT !.f = Through(Filled, @, phis)]

\* The call's block jumps to the copy of the entry, and ret has the result.
Joint(s, id, site, is_int) ==
  LET entry == Copied(site, Entry(site.callee))
      f == [AddInst(s.f, site.bb, Jump(entry)) EXCEPT !.pred[entry] = Append(@, site.bb)]
      phi == [AddPhi(f, site.ret) EXCEPT !.inst[NextId(f)].args = s.rets]
  IN  DeleteInst(IF is_int THEN ReplaceUses(phi, InstRef(id), InstRef(NextId(f))) ELSE f, id)

CopyBody(f, id, site) ==
  Through(LAMBDA t, b : CopyBlock(t, site, b), [f |-> Split(f, id, site), map |-> <<>>, rets |-> <<>>],
          Rpo(site.callee))
InlineAt(f, id, site) == Joint(FillPhis(CopyBody(f, id, site), site), id, site, Defined[f.inst[id].sym].is_int)
InlineCalls(f, callees) ==
  LET can_inline == {fn \in DOMAIN callees : CanInline(callees[fn], fn)}
      calls == SelectSeq(Listed(f), LAMBDA id : f.inst[id].op = "call" /\ f.inst[id].sym \in can_inline)
  IN  Through(LAMBDA g, id : InlineAt(g, id, Site(g, id, callees[g.inst[id].sym])), f, calls)
InlineFunc(f) == InlineCalls(f, Callees)
=============================================================================
