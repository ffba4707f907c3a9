--------------------------------- MODULE Ir ---------------------------------
(***************************************************************************)
(* The intermediate representation of structure/ir.hpp: functions of basic *)
(* blocks, instructions that use one another as operands, the edits the    *)
(* passes make, and what a function does when it runs.  A block that is    *)
(* deleted leaves the list of blocks, but its instructions stay: they are  *)
(* still on the lists of users of their operands.                          *)
(***************************************************************************)
EXTENDS Values, SequencesExt, FiniteSets

Const(n) == <<"const", n>>
InstRef(id) == <<"inst", id>>
GlobalRef(d) == <<"global", d>>
ParamRef(d) == <<"param", d>>
Undef == <<"undef", 0>>
Null == <<"null", 0>>
IsConst(v) == v[1] = "const"
IsInst(v) == v[1] = "inst"

CompareOps == {"lt", "le", "ge", "gt", "eq", "ne"}
BinaryOps == CompareOps \cup {"add", "sub", "rsb", "mul", "div", "mod"}
TerminatorOps == {"branch", "jump", "return"}

\* sym is the array of an access or an alloca, or the function of a call; n is the
\* multiplier of a gep, or the load that a memop or a memphi is for.
Inst(op, args) == [op |-> op, args |-> args, sym |-> "", n |-> 0, to |-> <<>>, bb |-> 0]
Binary(op, l, r) == Inst(op, <<l, r>>)
Branch(cond, left, right) == [Inst("branch", <<cond>>) EXCEPT !.to = <<left, right>>]
Jump(next) == [Inst("jump", <<>>) EXCEPT !.to = <<next>>]
Access(op, sym, args) == [Inst(op, args) EXCEPT !.sym = sym]
Deleted == Inst("deleted", <<>>)

NoBlocks(decl) ==
  [bbs |-> <<>>, insts |-> <<>>, pred |-> <<>>, mem_phis |-> <<>>, inst |-> <<>>, decl |-> decl]
NewBlock(f) ==
  [f EXCEPT !.insts = Append(@, <<>>), !.pred = Append(@, <<>>), !.mem_phis = Append(@, <<>>)]
ListBlock(f, b) == [f EXCEPT !.bbs = Append(@, b)]
Entry(f) == f.bbs[1]
Blocks(f) == ToSet(f.bbs)

Op(f, v) == IF IsInst(v) THEN f.inst[v[2]].op ELSE v[1]
NextId(f) == Len(f.inst) + 1
\* A mutant: the instruction does not know its block.
InsertStray(f, b, k, i) == [f EXCEPT !.inst = Append(@, i), !.insts[b] = InsertAt(@, k, NextId(f))]
Insert(f, b, k, i) ==
  [f EXCEPT !.inst = Append(@, [i EXCEPT !.bb = b]), !.insts[b] = InsertAt(@, k, NextId(f))]
AddInst(f, b, i) == Insert(f, b, Len(f.insts[b]) + 1, i)
Unfilled(f, b) == Strict([k \in DOMAIN f.pred[b] |-> Null])
AddPhi(f, b) == Insert(f, b, 1, Inst("phi", Unfilled(f, b)))
AddMemPhi(f, b, sym, n) ==
  [f EXCEPT !.inst = Append(@, [Inst("memphi", Unfilled(f, b)) EXCEPT !.sym = sym, !.n = n, !.bb = b]),
            !.mem_phis[b] = <<NextId(f)>> \o @]

\* The same for functions on other domains.
Fixed(g) == g @@ <<>>

\* The instructions of the function, block by block.
Listed(f) == Through(LAMBDA s, b : s \o f.insts[b], <<>>, f.bbs)

Unlisted(s, id) == SelectSeq(s, LAMBDA x : x # id)
Position(s, x) == SelectInSeq(s, LAMBDA y : y = x)
\* A mutant: the instruction remains a user of its operands.
RemoveInst(f, id) ==
  [f EXCEPT !.insts[f.inst[id].bb] = Unlisted(@, id),
            !.mem_phis[f.inst[id].bb] = Unlisted(@, id)]
DeleteInst(f, id) ==
  [f EXCEPT !.insts[f.inst[id].bb] = Unlisted(@, id),
            !.mem_phis[f.inst[id].bb] = Unlisted(@, id), !.inst[id] = Deleted]
Users(f, v) == {u \in DOMAIN f.inst : Contains(f.inst[u].args, v)}
Replaced(args, v, w) == Strict([k \in DOMAIN args |-> IF args[k] = v THEN w ELSE args[k]])
ReplaceUses(f, v, w) ==
  [f EXCEPT !.inst = Strict([u \in DOMAIN f.inst |->
     IF Contains(f.inst[u].args, v) THEN [f.inst[u] EXCEPT !.args = Replaced(@, v, w)] ELSE f.inst[u]])]

Terminator(f, b) == f.inst[Last(f.insts[b])]
Valid(f, b) == f.insts[b] # <<>> /\ Terminator(f, b).op \in TerminatorOps
Succ(f, b) == Terminator(f, b).to
Redirect(f, b, x, y) ==
  LET t == Last(f.insts[b])
  IN  [f EXCEPT !.inst[t].to[Position(Succ(f, b), x)] = y]
Phis(f, b) == SelectSeq(f.insts[b], LAMBDA id : f.inst[id].op = "phi")
StartsWithPhi(f, b) == f.inst[f.insts[b][1]].op = "phi"

HasEffect(i) == i.op \in TerminatorOps \cup {"store"} \/ (i.op = "call" /\ HasSideEffect(i.sym))

\* What is in no block of the function any more and still uses what is.
StaleUsers(f) ==
  LET in == ToSet(Listed(f))
  IN  {u \in DOMAIN f.inst : u \notin in /\ f.inst[u].op \notin {"deleted", "memphi"}
                             /\ \E v \in ToSet(f.inst[u].args) : IsInst(v) /\ v[2] \in in}

-----------------------------------------------------------------------------
\* Constants to the right, and operations by a neutral or absorbing constant.
Swapped(op) ==
  CASE op = "sub" -> "rsb" [] op = "lt" -> "gt" [] op = "gt" -> "lt"
    [] op = "le" -> "ge" [] op = "ge" -> "le" [] OTHER -> op
CanSwap(op) == op \in BinaryOps \ {"rsb", "div", "mod"}
SwapOperand(i) == [i EXCEPT !.op = Swapped(i.op), !.args = <<@[2], @[1]>>]

OptimizedValue(i) ==
  LET l == i.args[1]
      r == i.args[2]
  IN  CASE ~IsConst(r) -> Null
        [] i.op \in {"add", "sub"} /\ r[2] = 0 -> l
        [] i.op = "mul" /\ r[2] = 0 -> Const(0)
        [] i.op \in {"mul", "div"} /\ r[2] = 1 -> l
        [] i.op = "mod" /\ r[2] = 1 -> Const(0)
        [] OTHER -> Null

-----------------------------------------------------------------------------
\* A function at work: the block it is at, where it came from, what its
\* instructions gave.  RunBlock runs one block.
Started(f, mem) ==
  [at |-> Entry(f), from |-> 0, env |-> Strict([id \in DOMAIN f.inst |-> Poison]),
   mem |-> mem, out |-> <<>>, moved |-> FALSE, returns |-> FALSE, val |-> 0]

ValueAt(r, in, v) ==
  CASE v[1] = "const" -> v[2]
    [] v[1] = "inst" -> r.env[v[2]]
    [] v[1] = "global" -> <<v[2], 0>>
    [] v[1] = "param" -> in[v[2]]
    [] OTHER -> Poison

\* An array parameter is the address of the region it is bound to.
Bound(f, in) == [d \in DOMAIN in |-> IF IsParamArray(f.decl[d]) THEN <<in[d], 0>> ELSE in[d]]

Goto(r, b) == [r EXCEPT !.from = r.at, !.at = b, !.moved = TRUE]
Return(r, v) == [r EXCEPT !.returns = TRUE, !.val = v, !.moved = TRUE]

RunInst(f, in, r, id) ==
  LET i == f.inst[id]
      a == Strict([k \in DOMAIN i.args |-> ValueAt(r, in, i.args[k])])
      Gives(v) == [r EXCEPT !.env[id] = v]
  IN  CASE i.op \in BinaryOps -> Gives(Eval(i.op, a[1], a[2]))
        [] i.op = "load" -> Gives(Read(r.mem, Shifted(a[1], a[2])))
        [] i.op = "gep" -> Gives(Shifted(a[1], a[2] * i.n))
        [] i.op = "store" -> [r EXCEPT !.mem = Written(@, Shifted(a[1], a[2]), a[3])]
        [] i.op = "alloca" -> Gives(<<i.sym, 0>>)
        [] i.op = "call" ->
             LET c == Call(i.sym, a, r.mem)
             IN  [r EXCEPT !.env[id] = c.val, !.mem = c.mem, !.out = @ \o c.out]
        [] i.op = "branch" -> IF a[1] = Poison THEN Return(r, Poison)
                              ELSE Goto(r, i.to[IF a[1] # 0 THEN 1 ELSE 2])
        [] i.op = "jump" -> Goto(r, i.to[1])
        [] i.op = "return" -> Return(r, a[1])
        [] OTHER -> r

\* The phis of a block read what their operands were when it was entered.
EnterBlock(f, in, r) ==
  LET k == Position(f.pred[r.at], r.from)
      phis == ToSet(Phis(f, r.at))
  IN  [r EXCEPT !.env = Strict([id \in DOMAIN @ |->
         IF id \in phis THEN ValueAt(r, in, f.inst[id].args[k]) ELSE @[id]])]

RunBlock(f, in, r) ==
  Through(LAMBDA s, id : IF s.moved THEN s ELSE RunInst(f, in, s, id),
          [EnterBlock(f, in, r) EXCEPT !.moved = FALSE], f.insts[r.at])
=============================================================================
