----------------------------- MODULE ConvertSsa -----------------------------
(***************************************************************************)
(* The translation of a checked syntax tree to the intermediate            *)
(* representation (conv/ssa.cpp).  A context is the function so far, the   *)
(* block that instructions are added to, the (continue, break) targets of  *)
(* the loops around, and the value of the last expression converted.       *)
(***************************************************************************)
EXTENDS Ir

CONSTANT ZeroLimit   \* more zeros than this are initialised by memset (10 in the code)

Emit(c, i) == [c EXCEPT !.f = AddInst(@, c.bb, i), !.val = InstRef(NextId(c.f))]
At(c, b) == [c EXCEPT !.bb = b]
NewBlocks(c, n) == [c EXCEPT !.f = Through(LAMBDA f, k : NewBlock(f), @, [k \in 1..n |-> k])]
List(c, bs) == [c EXCEPT !.f = Through(ListBlock, @, bs)]
NextBlock(c) == Len(c.f.insts) + 1

\* What a declaration stands for: Decl::value.
DeclValue(c, d) ==
  IF c.f.decl[d].glob THEN GlobalRef(d)
  ELSE IF IsParamArray(c.f.decl[d]) THEN ParamRef(d) ELSE c.alloca[d]

\* One gep for each index, starting at the array itself.
Levels(c, sym, index) ==
  Through(LAMBDA e, k : Emit(e, [Access("gep", sym, <<e.val, index[k]>>)
                                   EXCEPT !.n = ElementSize(c.f.decl[sym], k)]),
          [c EXCEPT !.val = DeclValue(c, sym)], [k \in DOMAIN index |-> k])

RECURSIVE ConvertExpr(_, _), ConvertStmt(_, _)

ConvertExprs(c, es) ==
  Through(LAMBDA d, e : LET x == ConvertExpr(d, e) IN [x EXCEPT !.vals = Append(d.vals, x.val)],
          [c EXCEPT !.vals = <<>>], es)

\* l && r and l || r: r has a block of its own, and a phi joins the two.  The phi is
\* made before the predecessors are known: the two there will be, in this order.
ConvertRight(g, e, rhs) == ConvertExpr(At(Emit(g, Branch(g.val, rhs, rhs + 1)), rhs), e.r)
Joined(j, b, l) ==
  [j EXCEPT !.f = Insert(@, b, 1, Inst("phi", <<l, j.val>>)), !.val = InstRef(NextId(j.f))]
LogicBlocks(l, e, rhs) ==
  LET d == List(NewBlocks(l, 2), <<rhs>>)
  IN  IF e.tag = "and" THEN d ELSE Emit(d, Binary("eq", l.val, Const(0)))
AfterRight(r, after) == At(List(Emit(r, Jump(after)), <<after>>), after)
ConvertLogic(l, e) ==
  LET rhs == NextBlock(l)
      Join(r) == Joined([AfterRight(r, rhs + 1) EXCEPT !.val = r.val], rhs + 1, l.val)
  IN  Join(ConvertRight(LogicBlocks(l, e, rhs), e, rhs))

\* The indices in d: a load with all of them, an address with fewer.
ConvertIndex(d, e) ==
  LET whole == Len(e.dims) = Len(d.f.decl[e.sym].dims)
      Loaded(a) == Emit(a, Access("load", e.sym, <<a.val, Last(d.vals), Null>>))
  IN  IF e.dims = <<>>
      THEN Emit(d, IF whole THEN Access("load", e.sym, <<DeclValue(d, e.sym), Const(0), Null>>)
                            ELSE Access("gep", e.sym, <<DeclValue(d, e.sym), Const(0)>>))
      ELSE IF whole THEN Loaded(Levels(d, e.sym, Front(d.vals)))
                    ELSE Levels(d, e.sym, d.vals)

\* l % r is l - r * (l / r): the target has no remainder.
ConvertMod(d) ==
  LET Times(q) == Emit(q, Binary("mul", d.vals[2], q.val))
      Minus(m) == Emit(m, Binary("sub", d.vals[1], m.val))
  IN  Minus(Times(Emit(d, Binary("div", d.vals[1], d.vals[2]))))

\* An expression, its parts converted in d.
ConvertWith(d, e) ==
  CASE e.tag = "num" -> [d EXCEPT !.val = Const(e.n)]
    [] e.tag = "index" -> ConvertIndex(d, e)
    [] e.tag = "call" -> Emit(d, [Inst("call", d.vals) EXCEPT !.sym = e.fn])
    [] e.tag = "mod" -> ConvertMod(d)
    [] OTHER -> Emit(d, Binary(e.tag, d.vals[1], d.vals[2]))
PartsOf(e) ==
  CASE e.tag = "num" -> <<>> [] e.tag = "index" -> e.dims [] e.tag = "call" -> e.args
    [] OTHER -> <<e.l, e.r>>
ConvertExpr(c, e) ==
  IF e.tag \in {"and", "or"} THEN ConvertLogic(ConvertExpr(c, e.l), e)
  ELSE ConvertWith(ConvertExprs(c, PartsOf(e)), e)

-----------------------------------------------------------------------------
\* A declaration allocates, then stores its initial values; where many are zero, after
\* a memset that stores the zeros.
InitStores(d, x, a) ==
  LET zero == {k \in DOMAIN d.vals : d.vals[k] = Const(0)}
      memset == Cardinality(zero) > ZeroLimit /\ d.f.decl[x.sym].dims # <<>>
      Store(e, k) == IF memset /\ k \in zero THEN e
                     ELSE Emit(e, Access("store", x.sym, <<a, Const(k - 1), d.vals[k]>>))
  IN  Through(Store,
              IF ~memset THEN d
              ELSE Emit(d, [Inst("call", <<a, Const(0), Const(d.f.decl[x.sym].dims[1] * 4)>>)
                              EXCEPT !.sym = "memset"]),
              [k \in DOMAIN d.vals |-> k])
Declared(a, x) == InitStores(ConvertExprs([a EXCEPT !.alloca = @ @@ (x.sym :> a.val)], x.init), x, a.val)
ConvertDecl(c, x) == Declared(Emit(c, Access("alloca", x.sym, <<>>)), x)

\* The indices and the value are in d.
ConvertAssign(d, x) ==
  LET index == Front(d.vals)
      Stored(a) == Emit(a, Access("store", x.sym,
                     <<a.val, IF index = <<>> THEN Const(0) ELSE Last(index), Last(d.vals)>>))
  IN  Stored(Levels(d, x.sym, IF index = <<>> THEN <<>> ELSE Front(index)))

\* A block's statements after a jump out of it are not converted.
ConvertBlock(c, body) ==
  Through(LAMBDA d, x : IF d.left THEN d
                        ELSE [ConvertStmt(d, x) EXCEPT !.left = x.tag \in {"continue", "break", "return"}],
          [c EXCEPT !.left = FALSE], body)

JumpUnlessDone(c, b) == IF Valid(c.f, c.bb) THEN c ELSE Emit(c, Jump(b))

\* The condition is in d.
ConvertIf(d, x) ==
  LET then == NextBlock(d)
      end == then + 2
      Test == Emit(List(NewBlocks(d, 3), <<then, then + 1, end>>), Branch(d.val, then, then + 1))
      Side(c, b, body) == JumpUnlessDone(ConvertBlock(At(c, b), body), end)
  IN  At(Side(Side(Test, then, x.yes), then + 1, x.no), end)

WhileBody(d, x, cond) ==
  ConvertBlock([At(Emit(d, Branch(d.val, cond + 1, cond + 2)), cond + 1)
                  EXCEPT !.loops = Append(@, <<cond, cond + 2>>)], x.body)
ConvertWhile(c, x) ==
  LET cond == NextBlock(c)
      Test == At(Emit(List(NewBlocks(c, 3), <<cond, cond + 1>>), Jump(cond)), cond)
      body == WhileBody(ConvertExpr(Test, x.cond), x, cond)
  IN  At(List(JumpUnlessDone([body EXCEPT !.loops = Front(@)], cond), <<cond + 2>>), cond + 2)

ConvertStmt(c, x) ==
  CASE x.tag = "decl" -> ConvertDecl(c, x)
    [] x.tag = "assign" -> ConvertAssign(ConvertExprs(c, Append(x.dims, x.rhs)), x)
    [] x.tag = "if" -> ConvertIf(ConvertExpr(c, x.cond), x)
    [] x.tag = "while" -> ConvertWhile(c, x)
    [] x.tag = "block" -> ConvertBlock(c, x.stmts)
    [] x.tag = "return" -> LET d == ConvertExpr(c, x.val) IN Emit(d, Inst("return", <<d.val>>))
    [] x.tag = "expr" -> ConvertExpr(c, x.val)
    [] x.tag = "continue" -> Emit(c, Jump(Last(c.loops)[1]))
    [] x.tag = "break" -> Emit(c, Jump(Last(c.loops)[2]))

\* Scalar parameters are copied to variables.
ConvertParam(c, d) ==
  LET a == Emit(c, Access("alloca", d, <<>>))
  IN  IF IsParamArray(c.f.decl[d]) THEN c
      ELSE Emit([a EXCEPT !.alloca = @ @@ (d :> a.val)],
                Access("store", d, <<a.val, Const(0), ParamRef(d)>>))

\* An edge from x to b for each time b is a successor of x, in the order of the blocks.
Predecessors(f) ==
  LET Edges(x, b) == Strict([k \in DOMAIN SelectSeq(Succ(f, x), LAMBDA y : y = b) |-> x])
  IN  [f EXCEPT !.pred = Strict([b \in DOMAIN f.insts |->
         FlattenSeq(Strict([k \in DOMAIN f.bbs |-> Edges(f.bbs[k], b)]))])]

ConvertFunc(p) ==
  LET c == [f |-> ListBlock(NewBlock(NoBlocks(p.decl)), 1), bb |-> 1, loops |-> <<>>,
            alloca |-> <<>>, val |-> Null, vals |-> <<>>, left |-> FALSE]
      Ended(d) == IF Valid(d.f, d.bb) THEN d ELSE Emit(d, Inst("return", <<Const(0)>>))
  IN  Predecessors(Ended(Through(ConvertStmt, Through(ConvertParam, c, p.params), p.body)).f)
=============================================================================
