---------------------------- MODULE MachineCode ----------------------------
(***************************************************************************)
(* Machine code after register allocation (structure/machine_code.hpp),    *)
(* the frame the printer puts around a function, and what the code does    *)
(* when it runs.  Blocks are numbered in order: one that does not end with *)
(* a jump or a return goes on with the next.                               *)
(***************************************************************************)
EXTENDS Values, SequencesExt, FiniteSets, Bitwise

CONSTANTS Stack,      \* the address in sp when the function is entered
          Shared      \* the addresses the caller may look at afterwards

Ip == 12
Sp == 13
Lr == 14
CalleeSaved == 4..11

\* Operands: a register fixed by the calling convention, an allocated one, an immediate.
R(n) == <<"pre", n>>
A(n) == <<"alloc", n>>
I(n) == <<"imm", n>>
IsReg(o) == o[1] \in {"pre", "alloc"}
IsEquiv(o, u) == IsReg(o) /\ IsReg(u) /\ o[2] = u[2]

OppositeCond ==
  [any |-> "any", eq |-> "ne", ne |-> "eq", ge |-> "lt", gt |-> "le", le |-> "gt", lt |-> "ge"]
Holds(cond, flags) == cond = "any" \/ Eval(cond, flags[1], flags[2]) = 1

BinaryOps == {"add", "sub", "rsb", "mul", "div", "and"}
FmaOps == {"mla", "mls", "smmla"}
AccessOps == {"load", "store"}
NoShift == <<"none", 0>>

\* The data of a store is its dst, the address of an access its lhs and the offset its
\* rhs; to is the target of a jump, or how many arguments a call has.  A fixup is the
\* offset of an argument on the stack, from where the caller put it.
Instr(op, dst, lhs, rhs) ==
  [op |-> op, cond |-> "any", dst |-> dst, lhs |-> lhs, rhs |-> rhs, acc |-> I(0), shift |-> NoShift,
   mode |-> "offset", to |-> 0, fixup |-> FALSE]
LongMul(dst, lhs, rhs) == Instr("smmul", dst, lhs, rhs)
Fma(op, dst, lhs, rhs, acc) == [Instr(op, dst, lhs, rhs) EXCEPT !.acc = acc]
Move(dst, rhs) == Instr("move", dst, I(0), rhs)
Compare(lhs, rhs) == Instr("compare", I(0), lhs, rhs)
Branch(cond, target) == [Instr("branch", I(0), I(0), I(0)) EXCEPT !.cond = cond, !.to = target]
Jump(target) == [Instr("jump", I(0), I(0), I(0)) EXCEPT !.to = target]
CallTo(arity) == [Instr("call", I(0), I(0), I(0)) EXCEPT !.to = arity]
Return == Instr("return", I(0), I(0), I(0))

IsSimple(x) == x.cond = "any" /\ x.shift[1] = "none"
\* A mutant: whatever is added.
IsIdentityOfAny(x) ==
  x.op \in {"add", "sub"} /\ IsEquiv(x.dst, x.lhs) /\ x.shift[1] = "none"
IsIdentity(x) ==
  x.op \in {"add", "sub"} /\ IsEquiv(x.dst, x.lhs) /\ x.rhs = I(0) /\ x.shift[1] = "none"

Def(x) ==
  (IF x.op \in BinaryOps \cup FmaOps \cup {"smmul", "move", "load"} THEN {x.dst} ELSE {})
    \cup (IF x.op \in AccessOps /\ x.mode # "offset" THEN {x.lhs} ELSE {})
    \cup (IF x.op = "call" THEN {R(n) : n \in 0..3 \cup {Lr, Ip}} ELSE {})
Use(x) ==
  CASE x.op \in BinaryOps \cup {"smmul", "load", "compare"} -> {x.lhs, x.rhs}
    [] x.op \in FmaOps -> {x.lhs, x.rhs, x.acc}
    [] x.op = "store" -> {x.dst, x.lhs, x.rhs}
    [] x.op = "move" -> {x.rhs}
    [] x.op = "call" -> {R(n) : n \in 0..(x.to - 1)}
    [] x.op = "return" -> {R(0)}
    [] OTHER -> {}

-----------------------------------------------------------------------------
\* The frame.  Until it is laid out, the arguments on the stack are found and the
\* registers restored by definition.
Func(code, size) ==
  [code |-> code, stack_size |-> size, laid |-> FALSE, saved |-> {}, use_lr |-> FALSE]
Saved(f) == SetToSortSeq(f.saved, <) \o (IF f.use_lr THEN <<Lr>> ELSE <<>>)

\* An immediate is eight bits, shifted by an even number of places.
CanEncode(n) == \E k \in 0..11 : n % (4 ^ k) = 0 /\ n \div (4 ^ k) \in 0..255

\* move_stack: sp moves by an immediate, or by r4 when no immediate will do.
MoveStack(f, reg, n) ==
  [reg EXCEPT ![Sp] = @ + n, ![4] = IF f.laid /\ ~CanEncode(f.stack_size) THEN f.stack_size ELSE @]

Put(mem, a, v) == [b \in DOMAIN mem \cup {a} |-> IF b = a THEN v ELSE mem[b]]
Get(mem, a) == IF a \in DOMAIN mem THEN mem[a] ELSE Poison

\* The function as it is entered with these registers and this memory.
Entered(f, reg, mem) ==
  LET top == Stack - 4 * Len(Saved(f))
      pushed == [b \in DOMAIN mem \cup {top + 4 * (k - 1) : k \in DOMAIN Saved(f)} |->
                   IF b \in top..(Stack - 1) THEN reg[Saved(f)[(b - top) \div 4 + 1]] ELSE mem[b]]
  IN  [reg |-> MoveStack(f, [reg EXCEPT ![Sp] = top], -f.stack_size), mem |-> pushed,
       flags |-> <<Poison, Poison>>, out |-> <<>>, at |-> <<1, 1>>, back |-> Poison]
Left(m) == m.back # Poison

\* pop restores in the order of push, and lr into pc.
Leave(f, m) ==
  IF ~f.laid
  THEN [m EXCEPT !.back = 0]
  ELSE LET up == MoveStack(f, m.reg, f.stack_size)
           popped == [n \in f.saved |-> Get(m.mem, up[Sp] + 4 * Cardinality({k \in f.saved : k < n}))]
           lr == Get(m.mem, up[Sp] + 4 * Cardinality(f.saved))
       IN  [m EXCEPT !.reg = [n \in DOMAIN up |->
                                IF n \in f.saved THEN popped[n]
                                ELSE IF n = Sp THEN up[Sp] + 4 * Len(Saved(f)) ELSE up[n]],
                     !.back = IF f.use_lr THEN lr ELSE up[Lr]]

-----------------------------------------------------------------------------
\* Registers are Width bits wide.
Width == CHOOSE w \in 1..31 : 2 ^ w = 2 * Half

\* A register or an immediate, shifted.
Value(m, o, shift) ==
  LET v == IF IsReg(o) THEN m.reg[o[2]] ELSE o[2]
  IN  IF v = Poison THEN Poison
      ELSE CASE shift[1] = "none" -> v
             [] shift[1] = "lsl" -> Wrap(v * 2 ^ shift[2])
             [] shift[1] = "asr" -> v \div 2 ^ shift[2]
             [] shift[1] = "lsr" -> Unsigned(v) \div 2 ^ shift[2]
Rhs(m, x) == Value(m, x.rhs, x.shift)
Assign(m, o, v) == [m EXCEPT !.reg[o[2]] = v]

\* The address an access goes to; a post-indexed one then moves its base.
Base(m, x) == m.reg[x.lhs[2]]
Address(m, x) == IF x.mode = "offset" THEN Eval("add", Base(m, x), Rhs(m, x)) ELSE Base(m, x)
WriteBack(m, x) ==
  IF x.mode = "offset" THEN m ELSE Assign(m, x.lhs, Eval("add", Base(m, x), Rhs(m, x)))

\* A function that is called shows its arguments and keeps no register it need not keep.
Called(m, arity) ==
  [m EXCEPT !.out = Append(@, [k \in 1..arity |-> m.reg[k - 1]]),
            !.reg = [n \in DOMAIN @ |-> IF n \in 0..3 \cup {Ip, Lr} THEN Poison ELSE @[n]],
            !.flags = <<Poison, Poison>>]

Computed(op, l, r, acc) ==
  IF Poison \in {l, r, acc} THEN Poison
  ELSE CASE op = "and" -> Wrap(Unsigned(l) & Unsigned(r))
         [] op = "smmul" -> HighWord(l, r)
         [] op = "smmla" -> Wrap(acc + HighWord(l, r))
         [] op = "mla" -> Wrap(acc + l * r)
         [] op = "mls" -> Wrap(acc - l * r)
         [] OTHER -> Eval(op, l, r)

Step(f, x, m) ==
  LET n == [m EXCEPT !.at[2] = @ + 1]
  IN  IF ~Holds(x.cond, m.flags) THEN n
      ELSE CASE x.op = "move" ->
                  Assign(n, x.dst, IF x.fixup /\ ~f.laid THEN x.rhs[2] + f.stack_size ELSE Rhs(m, x))
             [] x.op \in BinaryOps \cup FmaOps \cup {"smmul"} ->
                  Assign(n, x.dst, Computed(x.op, m.reg[x.lhs[2]], Rhs(m, x), Value(m, x.acc, NoShift)))
             [] x.op = "load" -> Assign(WriteBack(n, x), x.dst, Get(m.mem, Address(m, x)))
             [] x.op = "store" ->
                  WriteBack([n EXCEPT !.mem = Put(@, Address(m, x), m.reg[x.dst[2]])], x)
             [] x.op = "compare" -> [n EXCEPT !.flags = <<m.reg[x.lhs[2]], Value(m, x.rhs, NoShift)>>]
             [] x.op \in {"branch", "jump"} -> [n EXCEPT !.at = <<x.to, 1>>]
             [] x.op = "call" -> Called(n, x.to)
             [] x.op = "return" -> Leave(f, n)

\* From the beginning of a block until control leaves it.
RunBlock(f, m) ==
  LET b == m.at[1]
      insts == f.code[b]
      end == Through(LAMBDA n, k : IF n.at = <<b, k>> /\ ~Left(n) THEN Step(f, insts[k], n) ELSE n,
                     m, [k \in DOMAIN insts |-> k])
  IN  IF end.at = <<b, Len(insts) + 1>> /\ ~Left(end) THEN [end EXCEPT !.at = <<b + 1, 1>>] ELSE end

\* What the caller sees of a run that is over.
Seen(m) == [result |-> m.reg[0], out |-> m.out, mem |-> [a \in Shared |-> Get(m.mem, a)]]
=============================================================================
