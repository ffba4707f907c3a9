----------------------------- MODULE Optimiser -----------------------------
(***************************************************************************)
(* A function on its way through the compiler's middle: converted, put     *)
(* through the passes one after another (passes/pass_manager.cpp), and run *)
(* as it is between any two of them.                                       *)
(***************************************************************************)
EXTENDS LoopPasses, Inliner

CONSTANTS Programs,   \* syntax trees, as in SourceProgram
          Passes,     \* the passes, in order
          None

VARIABLES source,   \* the program
          func,     \* its representation
          todo,     \* the passes left; "gcm" is the second half of "gvn_gcm"
          input,    \* what it is run on, None until it runs
          run,      \* the run
          out,      \* what it has shown
          result    \* what it returned
vars == <<source, func, todo, input, run, out, result>>

Source == INSTANCE SourceProgram WITH prog <- source, shown <- out

Init ==
  /\ source \in Programs /\ func = None /\ todo = <<"convert_ssa">> \o Passes
  /\ input = None /\ run = None /\ out = <<>> /\ result = None

Becomes(f, passes) ==
  /\ func' = f /\ todo' = passes
  /\ UNCHANGED <<source, input, run, out, result>>

Turn(pass) == input = None /\ todo # <<>> /\ todo[1] = pass

Convert == Turn("convert_ssa") /\ Becomes(ConvertFunc(source), Tail(todo))
GlobalConst == Turn("mark_global_const") /\ Becomes(MarkGlobalConst(func), Tail(todo))
Promote == Turn("mem2reg") /\ Becomes(Mem2Reg(func), Tail(todo))
Number == Turn("gvn_gcm") /\ Becomes(Gvn(Bbopt(func).f), <<"gcm">> \o Tail(todo))

\* Code motion follows users into their blocks; the model stops where the code would
\* follow one into a block that is gone (the assertion at gvn_gcm.cpp:233).
Move ==
  /\ Turn("gcm") /\ StaleUsers(func) = {}
  /\ \E g \in {Gcm(func)} :
       IF g.inst_changed THEN Becomes(g.f, <<"gvn">> \o Tail(todo)) ELSE Becomes(g.f, Tail(todo))
NumberAgain == Turn("gvn") /\ Becomes(Gvn(func), <<"gcm">> \o Tail(todo))

DropStores == Turn("dead_store_elim") /\ Becomes(DeadStoreElim(func), Tail(todo))
DropDead == Turn("dce") /\ Becomes(Dce(func), Tail(todo))

Unroll == Turn("loop_unroll") /\ Becomes(LoopUnroll(func), Tail(todo))
SinkInit == Turn("sink_local_init") /\ Becomes(SinkLocalInit(func), Tail(todo))
FoldDivisions == Turn("fold_counted_div_loop") /\ Becomes(FoldCountedDivLoop(func), Tail(todo))
ZeroLoops == Turn("zero_loop_to_memset") /\ Becomes(ZeroLoopToMemset(func), Tail(todo))
PromoteStores == Turn("promote_loop_store") /\ Becomes(PromoteLoopStore(func), Tail(todo))
LoopPass == Unroll \/ SinkInit \/ FoldDivisions \/ ZeroLoops \/ PromoteStores

Inline == Turn("inline_func") /\ Becomes(InlineFunc(func), Tail(todo))

Pass == Convert \/ GlobalConst \/ Promote \/ Number \/ Move \/ NumberAgain \/ DropStores \/ DropDead \/ LoopPass
        \/ Inline

\* Between value numbering and code motion a definition need not dominate its uses.
IsProgram == func # None /\ ~Turn("gcm")

Execute ==
  /\ IsProgram /\ input = None
  /\ input' \in source.inputs
  /\ run' = Started(func, Source!Memory(source, input'))
  /\ UNCHANGED <<source, func, todo, out, result>>

\* The run after the block it is at.
Ran == RunBlock(func, Bound(func, input), run)
RunStep ==
  /\ input # None /\ result = None
  /\ run' = [Ran EXCEPT !.out = <<>>]
  /\ out' = out \o Ran.out
  /\ result' = IF Ran.returns THEN Source!Outcome(source, Ran.val, Ran.mem) ELSE None
  /\ UNCHANGED <<source, func, todo, input>>

Next == Pass \/ Execute \/ RunStep

\* Weak fairness of Pass and of RunStep, which are enabled when these hold.
CanPass == input = None /\ todo # <<>> /\ ~(Turn("gcm") /\ StaleUsers(func) # {})
Running == input # None /\ result = None /\ [Ran EXCEPT !.out = <<>>] # run
Fairness == /\ []<>~CanPass \/ []<><<CanPass>>_todo
            /\ []<>~Running \/ []<><<Running>>_run
Spec == Init /\ [][Next]_vars /\ Fairness

-----------------------------------------------------------------------------
\* Every listed instruction is of a kind the passes know, in a listed block, jumps to
\* listed blocks and uses instructions that were made (structure/ir.hpp).
TypeOK ==
  /\ input \in {None} \cup source.inputs
  /\ func # None /\ input = None =>
       \A id \in ToSet(Listed(func)) :
         LET i == func.inst[id]
         IN  /\ i.op \in BinaryOps \cup TerminatorOps \cup
                           {"phi", "load", "store", "gep", "alloca", "call"}
             /\ i.bb \in Blocks(func) /\ ToSet(i.to) \subseteq Blocks(func)
             /\ InstsOf(i.args) \subseteq DOMAIN func.inst

\* Reference definitions, by paths: the blocks that can be reached from the blocks S
\* without going through d, and the blocks that d dominates.
RECURSIVE Avoiding(_, _, _)
Avoiding(f, d, S) ==
  LET new == UNION {ToSet(Succ(f, b)) : b \in S} \ (S \cup {d})
  IN  IF new = {} THEN S ELSE Avoiding(f, d, S \cup new)
Reachable(f) == Avoiding(f, 0, {Entry(f)})
Dominated(f) == Fixed([d \in Blocks(f) |-> Reachable(f) \ Avoiding(f, d, {Entry(f)} \ {d})])

\* Successors and predecessors agree; phis come first, with an operand for each way in,
\* and a jump, the only one, comes last.
WellFormed(f) ==
  \A b \in Blocks(f) :
    LET s == f.insts[b]
        Count(seq, x) == Cardinality({k \in DOMAIN seq : seq[k] = x})
    IN  /\ Valid(f, b) /\ \A k \in 1..(Len(s) - 1) : f.inst[s[k]].op \notin TerminatorOps
        /\ Preds(f, b) \subseteq Blocks(f)
        /\ \A x \in Blocks(f) : Count(f.pred[b], x) = Count(Succ(f, x), b)
        /\ \A k \in DOMAIN s : f.inst[s[k]].op = "phi" =>
             /\ Len(f.inst[s[k]].args) = Len(f.pred[b])
             /\ k > 1 => f.inst[s[k - 1]].op = "phi"

\* What is used is listed, and has been computed whichever way its use was reached.
Computed(f) ==
  LET dom == Dominated(f)
      Above(u, b) == LET d == f.inst[u].bb
                     IN  d \in Blocks(f) /\ Contains(f.insts[d], u) /\ b \in dom[d]
      Found(i, b, k, j) ==
        LET u == i.args[j][2]
        IN  CASE i.op = "phi" -> f.pred[b][j] \in Reachable(f) => Above(u, f.pred[b][j])
              [] OTHER -> \/ Contains(SubSeq(f.insts[b], 1, k - 1), u)
                          \/ f.inst[u].bb # b /\ Above(u, b)
  IN  \A b \in Reachable(f) : \A k \in DOMAIN f.insts[b] :
        LET i == f.inst[f.insts[b][k]]
        IN  \A j \in DOMAIN i.args : IsInst(i.args[j]) => Found(i, b, k, j)

\* Every pass leaves a function in SSA form: edges that bbopt.cpp moves and drops take
\* the operands of phis with them, and code that mem2reg.cpp and gvn_gcm.cpp replace or
\* move is still computed before it is used.
SsaForm == IsProgram /\ input = None => WellFormed(func) /\ Computed(func)

\* What leads to the tails of the back edges of header h without going through h.
RECURSIVE LeadsTo(_, _, _)
LeadsTo(f, h, S) ==
  LET new == UNION {Preds(f, b) : b \in S \ {h}} \ S
  IN  IF new = {} THEN S ELSE LeadsTo(f, h, S \cup new)

\* Dominators, dominance frontiers and nested loops as cfg.cpp computes them, by sweeps,
\* climbing and collecting in the post-order of the dominator tree, are what paths say.
AnalysesExact ==
  IsProgram /\ input = None /\ Blocks(func) = Reachable(func) =>
    LET D == DomBy(func)
        DF == Frontier(func, D)
        info == LoopInfo(func, D)
        dom == Dominated(func)
        Tails(h) == {p \in Preds(func, h) : p \in dom[h]}
        headers == {h \in Blocks(func) : Tails(h) # {}}
    IN  \A b \in Blocks(func) :
          /\ D[b] = {d \in Blocks(func) : b \in dom[d]}
          /\ DF[b] = {y \in Blocks(func) : Preds(func, y) \cap dom[b] # {} /\ y \notin dom[b] \ {b}}
          /\ LoopsOf(info, b) = {h \in headers : b \in LeadsTo(func, h, Tails(h) \cup {h})}

\* "dce has to be run before gvn_gcm, to make sure that this does not happen": when code
\* motion starts, the users of what it moves, whose blocks it looks for, are in blocks.
UsersListed == Turn("gcm") => StaleUsers(func) = {}

\* Value numbering starts again while code motion leaves it new work, and the passes come
\* to an end all the same (the loop of gvn_gcm.cpp's entry point).
PassesEnd == <>(todo = <<>> \/ input # None)

\* Run after any pass, the function shows, returns and stores what the source program
\* says, and it does return.
Refines == Source!Spec
=============================================================================
