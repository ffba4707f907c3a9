---------------------------- MODULE MCOptimiser ----------------------------
(***************************************************************************)
(* Programs for the optimiser: loops with work that may or may not leave   *)
(* them, branches that meet, nested loops that are left early, stores and  *)
(* loads of arrays that may be the same, arithmetic with constants.        *)
(***************************************************************************)
EXTENDS Optimiser

Num(k) == [tag |-> "num", n |-> k]
At1(d, dims) == [tag |-> "index", sym |-> d, dims |-> dims]
Var(d) == At1(d, <<>>)
CallOf(fn, args) == [tag |-> "call", fn |-> fn, args |-> args]
Do2(op, x, y) == [tag |-> op, l |-> x, r |-> y]
Decl(d, init) == [tag |-> "decl", sym |-> d, init |-> init]
Set(d, dims, e) == [tag |-> "assign", sym |-> d, dims |-> dims, rhs |-> e]
Let(d, e) == Set(d, <<>>, e)
If(c, yes, no) == [tag |-> "if", cond |-> c, yes |-> yes, no |-> no]
While(c, body) == [tag |-> "while", cond |-> c, body |-> body]
Block(body) == [tag |-> "block", stmts |-> body]
Ret(e) == [tag |-> "return", val |-> e]
Expr(e) == [tag |-> "expr", val |-> e]
Put(e) == Expr(CallOf("put", <<e>>))
Break == [tag |-> "break"]
Continue == [tag |-> "continue"]

DeclOf(dims, glob, const, init) == [dims |-> dims, glob |-> glob, const |-> const, init |-> init]
LocalInt == DeclOf(<<>>, FALSE, FALSE, <<>>)
LocalArray(dims) == DeclOf(dims, FALSE, FALSE, <<>>)

\* Scalars n (a parameter), i, j, s, x; the array parameter p; local arrays a, b[2][2];
\* the globals g, c and h[3], and the constant table t[2][2].
Decls ==
  [n |-> LocalInt, i |-> LocalInt, j |-> LocalInt, s |-> LocalInt, x |-> LocalInt,
   p |-> LocalArray(<<0>>), a |-> LocalArray(<<3>>), b |-> LocalArray(<<4, 2>>),
   g |-> DeclOf(<<>>, TRUE, FALSE, <<1>>), c |-> DeclOf(<<>>, TRUE, FALSE, <<2>>),
   h |-> DeclOf(<<3>>, TRUE, FALSE, <<1, 2, 3>>), t |-> DeclOf(<<4, 2>>, TRUE, TRUE, <<1, 2, 3, 0>>)]

\* p is an array of its own or the global h.
On(body, ns, ps) == [decl |-> Decls, params |-> <<"n", "p">>, body |-> body,
                     inputs |-> {[n |-> k, p |-> r] : k \in ns, r \in ps}]
Prog(body) == On(body, {0, 2}, {"heap", "h"})

VarN == Var("n")
VarI == Var("i")
VarJ == Var("j")
VarS == Var("s")
VarX == Var("x")
Plus(d, e) == Let(d, Do2("add", Var(d), e))
Less(x, y) == Do2("lt", x, y)
Both(x, y) == Do2("and", x, y)
Either(x, y) == Do2("or", x, y)

-----------------------------------------------------------------------------
\* Loops over i whose work does or does not change with i, and what interferes with it.
Loop(body) ==
  Prog(<<Decl("s", <<Num(0)>>), Decl("i", <<Num(0)>>),
         While(Less(VarI, VarN), body \o <<Plus("i", Num(1))>>), Put(VarS), Ret(VarS)>>)
Work == {Do2("mul", VarN, Num(2)), At1("h", <<VarI>>), At1("h", <<Num(1)>>), CallOf("square", <<VarN>>),
         CallOf("readg", <<>>), Var("g"), At1("t", <<Num(1), VarI>>), Do2("mod", VarI, Num(2))}
Interference ==
  {<<>>, <<Set("h", <<Num(1)>>, VarI)>>, <<Set("p", <<VarI>>, VarS)>>, <<Expr(CallOf("bump", <<>>))>>,
   <<If(Do2("gt", VarS, Num(2)), <<Break>>, <<>>)>>,
   <<If(Less(VarS, Num(3)), <<Plus("i", Num(1)), Continue>>, <<Plus("s", Num(1))>>)>>}
Loops == {Loop(<<Plus("s", w)>> \o e) : w \in Work, e \in Interference}

\* Branches on conditions that are evaluated in part or known, and what meets after them.
Conditions == {Less(VarN, Num(2)), Both(Less(VarX, VarN), Less(Num(0), At1("p", <<Num(0)>>))),
               Either(Do2("eq", VarN, Num(0)), Less(At1("h", <<Num(0)>>), VarX)),
               Num(1), Do2("gt", VarX, Num(2))}
Arms == {<<>>, <<Let("x", Num(2))>>, <<Put(Num(1))>>, <<Ret(Num(3))>>}
Others == Arms \cup {<<Let("x", At1("h", <<Num(1)>>)), Let("g", VarX)>>,
                     <<If(Less(VarN, Num(1)), <<Let("x", Num(3))>>, <<>>)>>}
Branch2(e, yes, no) ==
  Prog(<<Decl("x", <<Num(1)>>), Decl("s", <<VarN>>), If(e, yes, no), Plus("s", VarX), Plus("s", Var("g")),
         Ret(VarS)>>)
Branches == {Branch2(e, y, z) : e \in Conditions, y \in Arms, z \in Others}

\* Two loops, one in the other; the inner one is of no use when nothing happens in it.
Nest(inner, after) ==
  Prog(<<Decl("s", <<Num(0)>>), Decl("a", <<Num(0), Num(0), Num(1)>>), Decl("i", <<Num(0)>>),
         While(Less(VarI, VarN),
           <<Decl("j", <<Num(0)>>), While(Less(VarJ, Num(2)), Append(inner, Plus("j", Num(1))))>>
             \o after \o <<Plus("i", Num(1))>>), Plus("s", At1("a", <<Num(1)>>)), Ret(VarS)>>)
Inner == {<<>>, <<Plus("s", Do2("mul", VarI, Num(2)))>>, <<Plus("s", At1("p", <<VarI>>))>>,
          <<If(Both(Less(VarI, VarJ), Less(VarS, VarN)), <<Break>>, <<>>), Plus("s", VarJ)>>,
          <<If(Do2("gt", VarJ, VarI), <<Ret(VarS)>>, <<Set("a", <<VarJ>>, VarI)>>)>>}
After == {<<>>, <<Plus("s", VarJ)>>, <<If(Do2("ge", VarS, Num(2)), <<Break>>, <<>>)>>}
Nests == {Nest(y, z) : y \in Inner, z \in After}

\* Stores and loads of arrays that are the same, may be or are not, with the same index
\* or not.
Stores == {Set("a", <<Num(0)>>, Num(1)), Set("h", <<Num(1)>>, VarS)}
Accesses ==
  Stores \cup
  {Set("a", <<VarN>>, VarS), Set("p", <<Num(1)>>, VarN), Set("b", <<VarN, Num(0)>>, Num(3)),
   Expr(CallOf("poke", <<Var("a"), Num(0), VarS>>)), Let("s", At1("a", <<Num(0)>>)),
   Plus("s", At1("h", <<Num(1)>>)), Plus("s", At1("p", <<Num(1)>>)),
   Plus("s", At1("b", <<Num(0), VarN>>))}
Memories ==
  {On(<<Decl("s", <<VarN>>), Decl("a", <<Num(2), Num(0), VarN>>),
        Decl("b", <<Num(0), Num(0), Num(0), Num(1)>>), x, y, z,
        Plus("s", At1("a", <<Num(0)>>)), Ret(VarS)>>, {0, 1}, {"heap", "h"}) : x, y \in Accesses, z \in Stores}

\* Arithmetic that simplifies.
Terms ==
  {VarN, Do2("add", Do2("add", VarN, Num(1)), Num(2)), Do2("sub", Do2("add", Num(2), VarN), Num(3)),
   Do2("sub", Num(2), Do2("sub", Num(3), VarN)), Do2("sub", Do2("sub", Num(3), VarN), Num(1)),
   Do2("mod", VarN, Num(2)), Do2("div", VarN, Num(1)), Do2("mul", VarN, Num(0)),
   Do2("mod", VarN, Num(3)), Less(VarN, Num(2)), Do2("gt", Num(2), VarN), CallOf("square", <<VarN>>),
   At1("t", <<Num(1), Num(0)>>), Var("c"), Do2("mul", Num(2), VarN), Do2("add", VarN, VarN)}
Subtrahends ==
  {VarN, Do2("add", Do2("add", VarN, Num(1)), Num(2)), Do2("sub", Num(2), Do2("sub", Num(3), VarN)),
   Do2("mod", VarN, Num(2)), Do2("mul", VarN, Num(0)), Less(VarN, Num(2)), Do2("mul", Num(2), VarN)}
Sums == {On(<<Ret(Do2(op, y, z))>>, {-7, 3}, {"heap"}) : op \in {"sub", "eq"}, y \in Terms, z \in Subtrahends}

-----------------------------------------------------------------------------
\* A loop that tests after its body, within a test of its own or with bounds that are
\* known; what it adds up and what it does to arrays.
TestAfter(body, c) == While(Num(1), body \o <<If(c, <<>>, <<Break>>)>>)
Added == {VarI, At1("h", <<Do2("mod", VarI, Num(3))>>), Do2("mul", VarS, VarN), Num(1)}
Counted(body, d) == body \o <<Plus("i", Num(d))>>
Repeat(body, d, start, c) ==
  <<Decl("s", <<Num(1)>>), Decl("i", <<Num(start)>>), If(c, <<TestAfter(Counted(body, d), c)>>, <<>>)>>
Steps == {<<1, 0, Less(VarI, VarN)>>, <<2, 0, Less(VarI, VarN)>>, <<1, -2, Do2("le", VarI, VarN)>>,
          <<-1, 4, Do2("gt", VarI, VarN)>>, <<1, 0, Do2("gt", VarN, VarI)>>}
          \cup {<<1, 0, Less(VarI, Num(k))>> : k \in {1, 2, 5}} \cup {<<2, 1, Do2("le", VarI, Num(k))>> : k \in {1, 4}}
Bodies == {<<Plus("s", w)>> : w \in Added}
          \cup {<<Set("p", <<Do2("mod", VarI, Num(2))>>, VarS), Plus("s", At1("p", <<Num(1)>>))>>}
Repeating ==
  {On(Repeat(b, c[1], c[2], c[3]) \o <<Put(VarS), Ret(Do2("add", VarS, VarI))>>, {-1, 0, 2, 3}, {"h"}) :
     b \in Bodies, c \in Steps}

\* Loops that write zeros, or nearly.
Zeroing(d, body, to) ==
  On(<<Decl("s", <<Num(0)>>), Decl("a", <<VarN, Num(1), VarN>>), Decl("i", <<Num(0)>>),
       While(to, body \o <<Plus("i", Num(1))>>), Plus("s", At1(d, <<Num(0)>>)),
       Ret(Do2("add", VarS, At1(d, <<Num(2)>>)))>>, {-1, 1, 3}, {"heap"})
Bounds == {Less(VarI, VarN), Less(VarI, Num(2)), Do2("gt", VarN, VarI), Do2("le", VarI, Num(2))}
Zeros == {Zeroing(d, b, to) : d \in {"a", "h", "p"}, to \in Bounds,
            b \in UNION {{<<Set(d, <<VarI>>, Num(0))>>, <<Set(d, <<VarI>>, VarI)>>} : d \in {"a", "h", "p"}}}

\* Divisions that repeat.
Dividing(d, k, more) ==
  On(<<Decl("x", <<VarN>>), Decl("s", <<Num(0)>>), Decl("i", <<Num(0)>>),
       While(Less(VarI, Num(k)), <<Let("x", Do2("div", VarX, Num(d)))>> \o more \o <<Plus("i", Num(1))>>),
       Ret(Do2("add", VarX, VarS))>>, {-16, -9, 7, 15}, {"h"})
Dividings == {Dividing(d, k, more) : d \in {1, 2, 3, 4}, k \in 0..5, more \in {<<>>, <<Plus("s", VarX)>>}}

\* Sums kept in an array.
Keeping(d, e, k, more, w) ==
  On(<<Decl("s", <<Num(0)>>), Decl("a", <<Num(1), VarN, Num(2)>>), Decl("i", <<Num(0)>>),
       While(Less(VarI, VarN),
             <<If(e, <<Set(d, <<k>>, Do2("add", At1(d, <<k>>), w))>>, <<>>)>> \o more \o <<Plus("i", Num(1))>>),
       Put(At1(d, <<k>>)), Ret(Do2("add", VarS, At1("h", <<Num(1)>>)))>>, {0, 1, 3}, {"heap", "h"})
Keepings == {Keeping(d, e, Num(1), more, w) : d \in {"a", "h", "p"}, e \in {Num(1), Less(Num(0), VarI)},
               more \in {<<>>, <<Plus("s", At1("a", <<Num(0)>>))>>, <<Plus("s", At1("p", <<Num(1)>>))>>},
               w \in {VarI, At1("h", <<VarI>>)}}

\* Arrays that are cleared first, and returns before they are used.
Clearing(before, e, after) ==
  On(<<Decl("x", <<VarN>>), Decl("a", <<Num(0), Num(0), Num(0)>>)>> \o before
       \o <<If(e, <<Ret(Num(3))>>, <<>>)>> \o after \o <<Ret(Do2("add", VarX, At1("a", <<VarN>>)))>>,
     {-1, 0, 1, 2}, {"h"})
Clearings ==
  {Clearing(b, e, c) :
     b \in {<<>>, <<If(Do2("eq", VarN, Num(1)), <<Let("x", Num(2))>>, <<>>)>>, <<Let("x", Var("g"))>>},
     e \in {Less(VarN, Num(0)), Both(Less(VarN, Num(2)), Do2("ne", VarN, Num(0))), Either(Less(VarN, Num(0)), Less(Num(1), VarN))},
     c \in {<<>>, <<Set("a", <<Num(1)>>, VarN)>>, <<If(Less(VarN, Num(1)), <<Ret(VarX)>>, <<>>)>>}}

\* The functions that are inlined: a store through a parameter, a global's next value, a
\* return on each of two ways, a loop.
ScalarsOf(ds) == [d \in ds |-> LocalInt]
BodyOf(params, decl, is_int, body) == [params |-> params, decl |-> decl, is_int |-> is_int, body |-> body]
MCDefined ==
  [poke |-> BodyOf(<<"q", "k", "v">>, ScalarsOf({"k", "v"}) @@ ("q" :> LocalArray(<<0>>)), FALSE,
                   <<Set("q", <<Var("k")>>, Var("v"))>>),
   next |-> BodyOf(<<>>, ScalarsOf({"v"}) @@ ("g" :> Decls["g"]), TRUE,
                   <<Decl("v", <<Var("g")>>), Plus("g", Num(1)), Ret(Var("v"))>>),
   pick |-> BodyOf(<<"k", "v">>, ScalarsOf({"k", "v"}), TRUE,
                   <<If(Less(Var("k"), Var("v")), <<Ret(Var("k"))>>, <<>>), Put(Var("v")),
                     Ret(Do2("sub", Var("k"), Var("v")))>>),
   evens |-> BodyOf(<<"k">>, ScalarsOf({"k", "v"}), TRUE,
                    <<Decl("v", <<Num(0)>>),
                      While(Less(Var("v"), Var("k")), <<Put(Var("v")), Plus("v", Num(2))>>), Ret(Var("v"))>>)]

\* Calls of them, on one way of two that meet, in a loop and in its condition.
Picked(x, y) == CallOf("pick", <<x, y>>)
Called1 ==
  {<<Let("x", Picked(VarN, Num(2)))>>, <<Let("x", CallOf("evens", <<VarN>>))>>, <<Expr(Picked(VarX, VarN))>>,
   <<Let("x", Picked(Picked(VarN, VarX), CallOf("evens", <<VarX>>)))>>,
   <<Expr(CallOf("poke", <<Var("p"), VarX, VarN>>)), Let("x", CallOf("next", <<>>))>>,
   <<Expr(CallOf("poke", <<At1("b", <<Num(1)>>), Num(0), VarX>>)), Let("x", At1("b", <<Num(1), Num(0)>>))>>}
Calling(calls) ==
  {calls,
   <<If(Less(VarN, VarX), calls, <<Let("s", Num(3))>>)>>,
   <<If(Less(VarN, VarX), calls \o <<Plus("s", VarX)>>, calls)>>,
   <<Decl("i", <<Num(0)>>), While(Less(VarI, VarN), calls \o <<Plus("i", Num(1)), Plus("s", VarX)>>)>>,
   <<Decl("i", <<Num(0)>>), While(Less(Picked(VarI, Num(1)), VarN), <<Plus("i", Num(1))>> \o calls)>>}
Calls ==
  {On(<<Decl("s", <<Num(0)>>), Decl("x", <<Num(1)>>), Decl("b", <<Num(0), Num(1), Num(2), VarN>>)>> \o body
        \o <<Ret(Do2("add", VarS, Do2("add", VarX, At1("p", <<Num(1)>>))))>>, {-1, 0, 2}, {"heap", "h"}) :
     body \in UNION {Calling(c) : c \in Called1}}

Simple == Repeating \cup Zeros \cup Dividings \cup Keepings \cup Clearings \cup Calls

MCPrograms == Loops \cup Branches \cup Nests \cup Memories \cup Sums \cup Simple

\* A store, a call that reads it, and a store over it.
ReadingCalls ==
  {Prog(<<Decl("a", <<Num(0), Num(1), VarN>>), Set("a", <<Num(0)>>, VarN),
          Decl("s", <<CallOf("peek", <<Var("a"), Num(0)>>)>>), Set("a", <<Num(0)>>, Num(3)),
          Ret(Do2("add", VarS, At1("a", <<k>>)))>>) : k \in {Num(0), VarN}}

MCPasses ==
  <<"mark_global_const", "mem2reg", "gvn_gcm", "loop_unroll", "gvn_gcm", "dead_store_elim",
    "sink_local_init", "inline_func", "fold_counted_div_loop", "zero_loop_to_memset", "promote_loop_store",
    "gvn_gcm", "dce">>
=============================================================================
