------------------------------ MODULE CleanUp ------------------------------
(***************************************************************************)
(* What happens to a function after its registers are allocated: peephole  *)
(* simplification, the frame, the peephole pass again (the schedule made   *)
(* in between is module Scheduling's) and conditional execution.  At any   *)
(* point the function can be run next to the one that was allocated.       *)
(***************************************************************************)
EXTENDS SimplifyAsm, IfToCond

CONSTANTS Functions,  \* allocated functions, each with the arguments it is run on and,
                      \* of one operation with a constant, which it is
          Memory,     \* what memory holds when they are
          None

\* The registers when it is entered: two arguments, what the caller keeps in r4-r11 and
\* where to return to; the others hold nothing.
CallerRegs(args) ==
  [n \in 0..Lr |-> CASE n < 2 -> args[n + 1]
                     [] n \in CalleeSaved -> 100 + n
                     [] n = Lr -> 77
                     [] OTHER -> Poison]

\* What the frame must save and restore: the callee-saved registers and lr that some
\* instruction assigns.
\* A mutant: only the first block is searched.
DefinedRegsAtEntry(f) == {o[2] : o \in UNION {Def(x) : x \in ToSet(f.code[1])}}
DefinedRegs(f) == {o[2] : o \in UNION {Def(x) : x \in UNION {ToSet(f.code[b]) : b \in DOMAIN f.code}}}

\* The offset of an argument on the stack is known once the frame is; one that fits
\* becomes part of the access, and its move goes away.
FixupAt(insts, k, frame) ==
  LET n == insts[k].rhs[2] + frame
      folds == /\ k < Len(insts) /\ insts[k + 1].op \in AccessOps /\ n \in 0..4095
               /\ insts[k + 1].lhs = R(Sp) /\ IsEquiv(insts[k + 1].rhs, insts[k].dst)
               /\ insts[k + 1].shift[2] = 0
  IN  IF folds THEN Without([insts EXCEPT ![k + 1].rhs = I(n)], {k})
      ELSE [insts EXCEPT ![k].rhs = I(n), ![k].fixup = FALSE]
FixupBlock(insts, frame) ==
  Through(LAMBDA t, k : IF t[k].fixup THEN FixupAt(t, k, frame) ELSE t,
          insts, Reverse([k \in DOMAIN insts |-> k]))

ComputeStackInfo(f) ==
  LET saved == DefinedRegs(f) \cap CalleeSaved
      lr == Lr \in DefinedRegs(f)
      frame == f.stack_size + 4 * (Cardinality(saved) + (IF lr THEN 1 ELSE 0))
  IN  [f EXCEPT !.saved = saved, !.use_lr = lr, !.laid = TRUE,
                !.code = [b \in DOMAIN @ |-> FixupBlock(@[b], frame)]]

AsmPasses == <<"simplify_asm", "compute_stack_info", "simplify_asm", "if_to_cond">>
Passed(pass, f) ==
  CASE pass = "simplify_asm" -> SimplifyAsm(f)
    [] pass = "compute_stack_info" -> ComputeStackInfo(f)
    [] pass = "if_to_cond" -> IfToCond(f)

-----------------------------------------------------------------------------
VARIABLES allocated,  \* the function as it was allocated
          func,       \* as the passes have left it
          todo,       \* the passes it has still to go through
          input,      \* the arguments it is run with, or None
          model, run  \* what allocated and func do with them
vars == <<allocated, func, todo, input, model, run>>

Init ==
  /\ \E k \in Functions : allocated = k
  /\ func = allocated.func
  /\ todo = AsmPasses
  /\ input = None /\ model = None /\ run = None

RunPass ==
  /\ input = None /\ todo # <<>>
  /\ \E f \in {Passed(Head(todo), func)} : func' = f
  /\ todo' = Tail(todo)
  /\ UNCHANGED <<allocated, input, model, run>>

\* The caller's registers and memory are the same for both.
Enter ==
  /\ input = None
  /\ input' \in allocated.inputs
  /\ model' = Entered(allocated.func, CallerRegs(input'), Memory)
  /\ run' = Entered(func, CallerRegs(input'), Memory)
  /\ UNCHANGED <<allocated, func, todo>>

OneBlock(f, m) == IF Left(m) THEN m ELSE RunBlock(f, m)
Over == input # None /\ Left(model) /\ Left(run)
Ran == <<OneBlock(allocated.func, model), OneBlock(func, run)>>
RunStep ==
  /\ input # None /\ ~Over
  /\ \E r \in {Ran} : model' = r[1] /\ run' = r[2]
  /\ UNCHANGED <<allocated, func, todo, input>>

Next == RunPass \/ Enter \/ RunStep

\* The processor goes on: weak fairness of RunStep, which is enabled when CanRun holds.
CanRun == input # None /\ ~Over /\ Ran # <<model, run>>
Fairness == []<>~CanRun \/ []<><<CanRun>>_<<model, run>>
Spec == Init /\ [][Next]_vars /\ Fairness

-----------------------------------------------------------------------------
\* An instruction of a function that is laid out names registers that exist, accesses
\* that can be encoded and blocks of the function, and none follows the last block.
Placed(f, x) ==
  /\ \A o \in {x.dst, x.lhs, x.rhs} : IsReg(o) => o[2] \in 0..Lr
  /\ x.op \in {"branch", "jump"} => x.to \in DOMAIN f.code
  /\ x.op \in AccessOps /\ x.rhs[1] = "imm" => x.rhs[2] \in -4095..4095

\* TypeOK: the passes leave a function that can be encoded, and control stays inside it
\* (simplify_asm.cpp:49-51, if_to_cond.cpp:129-135).
TypeOK ==
  /\ \A b \in DOMAIN func.code : \A x \in ToSet(func.code[b]) : Placed(func, x)
  /\ func.saved \subseteq CalleeSaved
  /\ run # None /\ ~Left(run) => run.at[1] \in DOMAIN func.code /\ run.at[2] = 1

\* SameOutcome: whenever both are over, the function that went through the passes returned
\* what the allocated one returns, called the same functions with the same arguments and
\* left the same memory (simplify_asm.cpp:97-160, compute_stack_info.cpp:25-44,
\* if_to_cond.cpp:212-244).
SameOutcome == Over => Seen(run) = Seen(model)

\* ConstantsExact: whatever instructions stand for an operation with a constant, and
\* whatever the passes make of them, the result is the operation's (codegen.cpp:213-285,
\* 503-600).
ConstantsExact ==
  Over /\ allocated.computes # None =>
    run.reg[0] = Eval(allocated.computes[1], input[1], allocated.computes[2])

\* FrameKept: a function that is laid out returns to its caller with the stack pointer and
\* every callee-saved register as it found them (compute_stack_info.cpp:9-28 with the
\* prologue and epilogue of machine_code.cpp:221-249, 271-287).
FrameKept ==
  Over /\ func.laid =>
    /\ run.back = CallerRegs(input)[Lr]
    /\ run.reg[Sp] = Stack
    /\ \A n \in CalleeSaved : run.reg[n] = CallerRegs(input)[n]

\* RunsEnd: what was entered is left: no pass makes an endless loop of one that ends
\* (if_to_cond.cpp:58-138, 176-208).
RunsEnd == input # None ~> Over
=============================================================================
