------------------------------ MODULE Lowering ------------------------------
(***************************************************************************)
(* machine_code_generation of conv/codegen.cpp for one function: where the *)
(* operands of instructions are put, how comparisons become branches, how  *)
(* phis become moves, and how a call of the function to itself becomes a   *)
(* jump.  The machine code is then run beside the IR.                      *)
(*                                                                         *)
(* The virtual register of a variable or parameter is named after it, a    *)
(* fresh one after the place <<block, instruction, operand>> that asks for *)
(* it.  Arithmetic is modulo Modulus.  Loads, stores, globals and local    *)
(* arrays, which are binary operations as far as operands go, are not      *)
(* modelled, nor products and remainders that become shifts.               *)
(***************************************************************************)
EXTENDS Integers, Sequences, FiniteSets, SequencesExt

CONSTANTS
  Var,           \* values of the IR that instructions define
  None,          \* no variable
  Params,        \* the parameters of the function, in order
  Slots,         \* r0 to r3: the registers that arguments are passed in
  Const,         \* the constants of the program,
  Imm,           \* their values,
  Wide,          \* and those that can_encode_imm rejects
  Zero, One,     \* the constants 0 and 1
  Modulus,
  NumBlocks,
  Programs       \* functions: [arity |-> how many of Params, body |-> blocks of instructions]

Block == 1 .. NumBlocks
Param == {Params[i] : i \in DOMAIN Params}
Slot == {Slots[i] : i \in DOMAIN Slots}
Value == 0 .. Modulus - 1

ASSUME SizeAssumption == NumBlocks \in Nat \ {0} /\ Modulus \in Nat \ {0, 1}

ASSUME OperandAssumption ==
  /\ Var \cap (Param \cup Const) = {} /\ Param \cap Const = {} /\ None \notin Var
  /\ Wide \subseteq Const /\ {Zero, One} \subseteq Const \ Wide
  /\ Imm \in [Const -> Value] /\ Imm[Zero] = 0 /\ Imm[One] = 1
  /\ Params \in Seq(Param) /\ IsInjective(Params)

\* The slots are registers of their own, and no constant is named after a place.
ASSUME SlotAssumption ==
  /\ Slots \in Seq(Slot) /\ Len(Slots) > 0 /\ IsInjective(Slots)
  /\ Slot \cap (Var \cup Param \cup Const) = {} /\ None \notin Slot
  /\ \A r \in Slot \cup Const : r \notin Nat \X Nat \X (Nat \cup Const)

-----------------------------------------------------------------------------
(* The functions that are lowered.  An instruction has the fields op, dst, *)
(* args, cond, to (where it jumps) and in (the block each operand of a phi *)
(* comes from).                                                            *)

Terminators == {"jump", "branch", "return"}
Comparisons == {"lt", "ge", "gt", "le", "eq", "ne"}
Binary == {"add", "sub", "mul", "div", "and", "cmp"}

Instruction(f) ==
  [op : Terminators \cup Binary \cup {"alias", "call", "self", "phi"}, dst : Var \cup {None},
   args : Seq(Var \cup Const \cup {Params[i] : i \in 1 .. f.arity}),
   cond : Comparisons \cup {"any"}, to : Seq(2 .. NumBlocks), in : Seq(Block)]

PlacesOf(f) == UNION {{b} \X (DOMAIN f.body[b]) : b \in Block}
At(f, d) == f.body[d[1]][d[2]]
SuccOf(f, b) == LET l == f.body[b][Len(f.body[b])] IN {l.to[i] : i \in DOMAIN l.to}

\* Where v is an operand, and the instruction that defines it.
UsesOf(f, v) ==
  UNION {{<<d[1], d[2], i>> : i \in {h \in DOMAIN At(f, d).args : At(f, d).args[h] = v}} :
         d \in PlacesOf(f)}
DefIn(f, v) == At(f, CHOOSE d \in PlacesOf(f) : At(f, d).dst = v)

\* The phis that block b starts with.
IsPhi(f, b, j) == j \in DOMAIN f.body[b] /\ \A i \in 1 .. j : f.body[b][i].op = "phi"
PhisOf(f, b) ==
  SubSeq(f.body[b], 1, CHOOSE n \in 0 .. Len(f.body[b]) :
                         (n > 0 => IsPhi(f, b, n)) /\ ~IsPhi(f, b, n + 1))

\* Operands and targets of an instruction are those of its kind.
Shaped(f, x) ==
  /\ x.dst = None <=> x.op \in Terminators
  /\ x.op \in Binary => Len(x.args) = 2
  /\ x.op \in {"alias", "branch", "return"} => Len(x.args) = 1
  /\ x.op = "self" => Len(x.args) = f.arity
  /\ x.op = "phi" => Len(x.args) = Len(x.in)
  /\ Len(x.to) = CASE x.op = "jump" -> 1 [] x.op = "branch" -> 2 [] OTHER -> 0
  /\ x.op = "div" => x.args[2] \in Const /\ Imm[x.args[2]] # 0
  /\ x.op = "alias" => x.args[1] \notin Const
  /\ x.op = "cmp" => x.cond \in Comparisons

\* A block ends with its only jump, branch or return and starts with its phis, which
\* have an operand for each block before it; the entry has none.
BlockShaped(f, b) ==
  /\ f.body[b] \in Seq(Instruction(f)) /\ f.body[b] # <<>>
  /\ \A j \in DOMAIN f.body[b] :
       LET x == f.body[b][j]
       IN  /\ Shaped(f, x)
           /\ x.op \in Terminators <=> j = Len(f.body[b])
           /\ x.op = "phi" =>
                /\ b # 1 /\ \A i \in 1 .. j - 1 : f.body[b][i].op = "phi"
                /\ {x.in[i] : i \in DOMAIN x.in} = {p \in Block : b \in SuccOf(f, p)}

\* Without block a, what can be reached from the entry leaves b out.
Dominates(f, a, b) ==
  \E R \in SUBSET (Block \ {a}) :
    1 \in R \cup {a} /\ b \notin R /\ \A p \in R : SuccOf(f, p) \subseteq R \cup {a}

\* v is defined on every way to place j of block b.
DefinedAt(f, v, b, j) ==
  \E d \in PlacesOf(f) :
    At(f, d).dst = v /\ IF d[1] = b THEN d[2] < j ELSE Dominates(f, d[1], b)

\* SSA form.  Every block can be reached, and an address that is another name for its
\* operand comes before the blocks that it dominates in the list as well.
InSsaForm(f) ==
  /\ f.arity \in 0 .. Len(Params) /\ \A b \in Block : BlockShaped(f, b)
  /\ \A d, e \in PlacesOf(f) : At(f, d).dst = At(f, e).dst /\ At(f, d).dst # None => d = e
  /\ \A d \in PlacesOf(f) :
       LET x == At(f, d)
       IN  \A i \in DOMAIN x.args : x.args[i] \in Var =>
             IF x.op = "phi" THEN DefinedAt(f, x.args[i], x.in[i], Len(f.body[x.in[i]]) + 1)
             ELSE DefinedAt(f, x.args[i], d[1], d[2])
  /\ \A R \in SUBSET Block :
       1 \in R /\ (\A p \in R : SuccOf(f, p) \subseteq R) => R = Block
  /\ \A d \in PlacesOf(f), b \in Block :
       At(f, d).op = "alias" /\ Dominates(f, d[1], b) => d[1] <= b

ASSUME ProgramAssumption == \A f \in Programs : InSsaForm(f)

VARIABLES
  ir,            \* the function
  bb, k,         \* the block and the instruction that are translated
  before,        \* machine code of each block up to control_transfer_inst,
  after,         \* and from there on; <<>> while the pointer is null
  alias,         \* val_map: the operand of each variable
  resolved,      \* parameters in param_map
  shared,        \* divisors in shared_div_magic
  tailed,        \* converted_self_tail_call
  succ,          \* successors of each machine block
  at, from,      \* the run: the block, 0 at the end, and the block before it
  env, args,     \* the values of variables and parameters in the IR
  regs,          \* the registers that hold a value
  went, saw,     \* where the last block went and what it passed on, in IR and machine
  undefined,     \* the machine read a register that nothing had written
  pc

codeVars == <<before, after, alias, resolved, shared, tailed, succ>>
runVars == <<at, from, env, args, regs, went, saw, undefined>>
vars == <<ir, bb, k, codeVars, runVars, pc>>

-----------------------------------------------------------------------------
(* The function in the state.                                              *)

Body(b) == ir.body[b]
Inst(b, j) == Body(b)[j]
Places == PlacesOf(ir)
Succ(b) == SuccOf(ir, b)
Pred(b) == {p \in Block : b \in Succ(p)}

Phis(b) == PhisOf(ir, b)
Uses(v) == UsesOf(ir, v)
DefOf(v) == DefIn(ir, v)

IsCmp(v) == v \in Var /\ DefOf(v).op = "cmp"
AndOfCmps(v) ==
  v \in Var /\ DefOf(v).op = "and" /\ IsCmp(DefOf(v).args[1]) /\ IsCmp(DefOf(v).args[2])

Opposite(c) ==
  CASE c = "lt" -> "ge" [] c = "ge" -> "lt" [] c = "gt" -> "le" [] c = "le" -> "gt"
    [] c = "eq" -> "ne" [] c = "ne" -> "eq"

Holds(c, l, r) ==
  CASE c = "any" -> TRUE [] c = "lt" -> l < r [] c = "ge" -> l >= r [] c = "gt" -> l > r
    [] c = "le" -> l <= r [] c = "eq" -> l = r [] c = "ne" -> l # r

-----------------------------------------------------------------------------
(* Machine instructions.                                                   *)

MI(op, d, s, c, t) == [op |-> op, dst |-> d, src |-> s, cond |-> c, to |-> t]
Bin(op, d, l, r) == MI(op, d, <<l, r>>, "any", 0)
Mv(d, s) == MI("mv", d, <<s>>, "any", 0)
MvIf(c, d, s) == MI("mv", d, <<s>>, c, 0)
Cmp(l, r) == MI("cmp", None, <<l, r>>, "any", 0)
Branch(c, t) == MI("branch", None, <<>>, c, t)
Jump(t) == MI("jump", None, <<>>, "any", t)
Return == MI("return", None, <<Slots[1]>>, "any", 0)
LoadParam(p) == MI("load_param", p, <<>>, "any", 0)

SlotsOf(I) == {Slots[i] : i \in DOMAIN Slots \cap I}
IndexOf(r) == CHOOSE i \in DOMAIN Slots : Slots[i] = r

\* Where argument i is passed: a register, or the stack.
ArgSlot(i) == IF i <= Len(Slots) THEN Slots[i] ELSE <<i>>
OnStack(p) == \E i \in DOMAIN Params : Params[i] = p /\ i > Len(Slots)

-----------------------------------------------------------------------------
(* Operands.  With imm, a constant that can be encoded stays immediate     *)
(* (resolve); without, every constant is moved to a register first         *)
(* (resolve_no_imm).                                                       *)

Moved(o, imm) == o \in Const /\ (o \in Wide \/ ~imm)

OperandAt(o, imm, fresh) ==
  IF Moved(o, imm) THEN fresh ELSE IF o \in Var THEN alias[o] ELSE o

MoveAt(o, imm, fresh) == IF Moved(o, imm) THEN <<Mv(fresh, o)>> ELSE <<>>

Operand(j, i, imm) == OperandAt(Inst(bb, j).args[i], imm, <<bb, j, i>>)
Moves(j, i, imm) == MoveAt(Inst(bb, j).args[i], imm, <<bb, j, i>>)

\* A parameter is copied or loaded when it is first resolved: one in a register at
\* the start of the entry, one on the stack at the start of the block that
\* resolves it.  met lists the operands resolved and their blocks, in order.
Met(met) == {met[i][1] : i \in DOMAIN met} \cap (Param \ resolved)
FirstMet(p, met) ==
  met[CHOOSE i \in DOMAIN met : met[i][1] = p /\ \A h \in 1 .. i - 1 : met[h][1] # p][2]

\* Mutant: a parameter in a register too is copied where it is first resolved.
ParamCodeThere(p, met) ==
  IF OnStack(p) THEN [block |-> FirstMet(p, met), inst |-> LoadParam(p)]
  ELSE [block |-> FirstMet(p, met),
        inst |-> Mv(p, Slots[CHOOSE i \in DOMAIN Params : Params[i] = p])]

ParamCode(p, met) ==
  IF OnStack(p) THEN [block |-> FirstMet(p, met), inst |-> LoadParam(p)]
  ELSE [block |-> 1, inst |-> Mv(p, Slots[CHOOSE i \in DOMAIN Params : Params[i] = p])]

WithParams(code, met) ==
  [b \in Block |->
     LET new == {ParamCode(p, met) : p \in Met(met)}
     IN  SetToSeq({c.inst : c \in {n \in new : n.block = b}}) \o code[b]]

Resolve(code, met) ==
  before' = WithParams(code, met) /\ resolved' = resolved \cup Met(met)

\* The operands of instruction j.
ArgsMet(j) == [i \in DOMAIN Inst(bb, j).args |-> <<Inst(bb, j).args[i], bb>>]
Append1(insts) == [before EXCEPT ![bb] = @ \o insts]

-----------------------------------------------------------------------------
Init ==
  /\ ir \in Programs
  /\ bb = 1 /\ k = 1
  /\ before = [b \in Block |-> <<>>] /\ after = before
  /\ alias = [v \in Var |-> v] /\ resolved = {} /\ shared = {} /\ tailed = FALSE
  /\ succ = [b \in Block |-> Succ(b)]
  /\ at = 1 /\ from = 0
  /\ env = [v \in Var |-> 0] /\ args = [p \in Param |-> 0] /\ regs = [r \in {} |-> 0]
  /\ went = <<1, 1>> /\ saw = <<<<>>, <<>>>> /\ undefined = FALSE
  /\ pc = "select"

Selecting(op) == pc = "select" /\ k \in DOMAIN Body(bb) /\ Inst(bb, k).op = op

\* A product that only the next instruction uses, to add or to subtract it.
Fuses(b, j) ==
  /\ Inst(b, j).op = "mul" /\ j + 1 \in DOMAIN Body(b)
  /\ \E i \in {1, 2} :
       /\ Uses(Inst(b, j).dst) = {<<b, j + 1, i>>}
       /\ Inst(b, j + 1).op = "add" \/ (Inst(b, j + 1).op = "sub" /\ i = 2)

SelectBinary ==
  /\ \E op \in {"add", "sub", "mul"} : Selecting(op) /\ ~(op = "mul" /\ Fuses(bb, k))
  /\ LET x == Inst(bb, k)
         imm == x.op # "mul"
     IN  Resolve(Append1(Moves(k, 1, FALSE) \o Moves(k, 2, imm) \o
                         <<Bin(x.op, x.dst, Operand(k, 1, FALSE), Operand(k, 2, imm))>>),
                 ArgsMet(k))
  /\ k' = k + 1
  /\ UNCHANGED <<ir, bb, after, alias, shared, tailed, succ, runVars, pc>>

SelectFma ==
  /\ Selecting("mul") /\ Fuses(bb, k)
  /\ LET y == Inst(bb, k + 1)
         i == IF y.args[1] = Inst(bb, k).dst THEN 2 ELSE 1
         code == Moves(k, 1, FALSE) \o Moves(k, 2, FALSE) \o Moves(k + 1, i, TRUE)
         srcs == <<Operand(k, 1, FALSE), Operand(k, 2, FALSE), Operand(k + 1, i, TRUE)>>
     IN  Resolve(Append1(Append(code, MI(IF y.op = "add" THEN "mla" ELSE "mls", y.dst,
                                         srcs, "any", 0))),
                 Append(ArgsMet(k), <<y.args[i], bb>>))
  /\ k' = k + 2
  /\ UNCHANGED <<ir, bb, after, alias, shared, tailed, succ, runVars, pc>>

-----------------------------------------------------------------------------
(* Division by a constant, through a constant that divisions share when    *)
(* there are three of them and this one is not in the entry.               *)

Divisions(c) ==
  {d \in Places : Inst(d[1], d[2]).op = "div" /\ Inst(d[1], d[2]).args[2] = c}
Magic(c) == <<0, 0, c>>

\* The shared constant goes before the last instruction of the entry.
Materialized(code, c) == SubSeq(code, 1, Len(code) - 1) \o <<Mv(Magic(c), c), code[Len(code)]>>

SelectDiv ==
  /\ Selecting("div")
  /\ LET x == Inst(bb, k)
         local == Cardinality(Divisions(x.args[2])) < 3 \/ bb = 1
         magic == IF local THEN <<bb, k, 2>> ELSE Magic(x.args[2])
         code == Moves(k, 1, FALSE) \o (IF local THEN <<Mv(magic, x.args[2])>> ELSE <<>>)
                 \o <<Bin("div", x.dst, Operand(k, 1, FALSE), magic)>>
     IN  /\ Resolve(Append1(code), ArgsMet(k))
         /\ IF local \/ x.args[2] \in shared
            THEN UNCHANGED <<after, shared>>
            ELSE /\ after' = [after EXCEPT ![1] = Materialized(@, x.args[2])]
                 /\ shared' = shared \cup {x.args[2]}
  /\ k' = k + 1
  /\ UNCHANGED <<ir, bb, alias, tailed, succ, runVars, pc>>

\* getelementptr with the offset 0: another name for its operand.
SelectAlias ==
  /\ Selecting("alias")
  /\ alias' = [alias EXCEPT ![Inst(bb, k).dst] = Operand(k, 1, TRUE)]
  /\ Resolve(before, ArgsMet(k))
  /\ k' = k + 1
  /\ UNCHANGED <<ir, bb, after, shared, tailed, succ, runVars, pc>>

-----------------------------------------------------------------------------
(* Comparisons, conjunctions and branches.                                 *)

IsBranchAt(b, j) == j \in DOMAIN Body(b) /\ Inst(b, j).op = "branch"

\* A comparison that only the branch after it uses: the branch reads the flags.
FlagsOnly(b, j) ==
  Inst(b, j).op = "cmp" /\ IsBranchAt(b, j + 1) /\ Uses(Inst(b, j).dst) = {<<b, j + 1, 1>>}

\* A conjunction of two comparisons that only the branch after it uses.
BranchesOn(b, j) ==
  /\ Inst(b, j).op = "and" /\ IsBranchAt(b, j + 1)
  /\ Uses(Inst(b, j).dst) = {<<b, j + 1, 1>>}
  /\ AndOfCmps(Inst(b, j).dst)

\* used_by_branch_and: the branch will compare.
ComparedLater(v) == \E b \in Block : \E j \in DOMAIN Body(b) :
                      BranchesOn(b, j) /\ \E i \in {1, 2} : Uses(v) = {<<b, j, i>>}

Boolean(c, d, l, r) == <<Cmp(l, r), MvIf(c, d, One), MvIf(Opposite(c), d, Zero)>>

SelectCompare ==
  /\ Selecting("cmp")
  /\ LET x == Inst(bb, k)
         l == Operand(k, 1, FALSE)
         r == Operand(k, 2, TRUE)
         code == IF ComparedLater(x.dst) THEN <<>>
                 ELSE IF FlagsOnly(bb, k) THEN <<Cmp(l, r)>>
                 ELSE Boolean(x.cond, x.dst, l, r)
     IN  Resolve(Append1(Moves(k, 1, FALSE) \o Moves(k, 2, TRUE) \o code), ArgsMet(k))
  /\ k' = k + 1
  /\ UNCHANGED <<ir, bb, after, alias, shared, tailed, succ, runVars, pc>>

SelectAnd ==
  /\ Selecting("and")
  /\ LET x == Inst(bb, k)
         l == <<bb, k, 3>>
         r == <<bb, k, 4>>
     IN  Resolve(Append1(Moves(k, 1, FALSE) \o Moves(k, 2, TRUE) \o
                         (IF BranchesOn(bb, k) THEN <<>>
                          ELSE Boolean("ne", l, Operand(k, 1, FALSE), Zero)
                               \o Boolean("ne", r, Operand(k, 2, TRUE), Zero)
                               \o <<Bin("and", x.dst, l, r)>>)), ArgsMet(k))
  /\ k' = k + 1
  /\ UNCHANGED <<ir, bb, after, alias, shared, tailed, succ, runVars, pc>>

SelectJump ==
  /\ Selecting("jump")
  /\ after' = [after EXCEPT ![bb] = <<Jump(Inst(bb, k).to[1])>>]
  /\ k' = k + 1
  /\ UNCHANGED <<ir, bb, before, alias, resolved, shared, tailed, succ, runVars, pc>>

\* Mutant: the block that comes next is fallen into.
FallsThrough(c, l, r) ==
  IF l = bb + 1 THEN <<Branch(Opposite(c), r)>> ELSE <<Branch(c, l), Jump(r)>>

\* The block that comes next in the list is jumped to, the other branched to.
Branches(c, l, r) ==
  IF l = bb + 1 THEN <<Branch(Opposite(c), r), Jump(l)>> ELSE <<Branch(c, l), Jump(r)>>

SelectBranch ==
  /\ Selecting("branch") /\ ~AndOfCmps(Inst(bb, k).args[1]) /\ ~(k > 1 /\ FlagsOnly(bb, k - 1))
  /\ LET x == Inst(bb, k)
     IN  after' = [after EXCEPT ![bb] =
           <<Cmp(Operand(k, 1, FALSE), Zero)>> \o Branches("ne", x.to[1], x.to[2])]
  /\ Resolve(Append1(Moves(k, 1, FALSE)), ArgsMet(k))
  /\ k' = k + 1
  /\ UNCHANGED <<ir, bb, alias, shared, tailed, succ, runVars, pc>>

\* control_transfer_inst is the comparison, the last instruction of before.
SelectBranchOnFlags ==
  /\ Selecting("branch") /\ k > 1 /\ FlagsOnly(bb, k - 1)
  /\ LET x == Inst(bb, k)
         n == Len(before[bb])
     IN  /\ after' = [after EXCEPT ![bb] =
              <<before[bb][n]>> \o Branches(Inst(bb, k - 1).cond, x.to[1], x.to[2])]
         /\ before' = [before EXCEPT ![bb] = SubSeq(@, 1, n - 1)]
  /\ k' = k + 1
  /\ UNCHANGED <<ir, bb, alias, resolved, shared, tailed, succ, runVars, pc>>

\* emit_cmp puts the comparison first and its operands after it, except for a
\* constant of the second, which goes before control_transfer_inst.
SelectBranchOnAnd ==
  /\ Selecting("branch") /\ AndOfCmps(Inst(bb, k).args[1])
  /\ LET x == Inst(bb, k)
         conj == DefOf(x.args[1])
         c == [h \in {1, 2} |-> DefOf(conj.args[h])]
         \* operand i of comparison h
         o(h, i) == OperandAt(c[h].args[i], i = 2, <<bb, k, 2 * h + i - 2>>)
         m(h, i) == MoveAt(c[h].args[i], i = 2, <<bb, k, 2 * h + i - 2>>)
         cmp(h) == <<Cmp(o(h, 1), o(h, 2))>>
     IN  /\ after' = [after EXCEPT ![bb] =
              cmp(1) \o m(1, 1) \o m(1, 2) \o <<Branch(Opposite(c[1].cond), x.to[2])>>
              \o cmp(2) \o m(2, 1) \o Branches(c[2].cond, x.to[1], x.to[2])]
         /\ Resolve(Append1(m(2, 2)),
                    [i \in 1 .. 4 |-> <<c[(i + 1) \div 2].args[2 - (i % 2)], bb>>])
  /\ k' = k + 1
  /\ UNCHANGED <<ir, bb, alias, shared, tailed, succ, runVars, pc>>

-----------------------------------------------------------------------------
(* Calls and returns.                                                      *)

\* A call of the function to itself whose result is returned at once.
SelfTail(b, j) ==
  /\ Inst(b, j).op = "self" /\ ir.arity <= Len(Slots)
  /\ j + 1 \in DOMAIN Body(b) /\ Inst(b, j + 1).op = "return"
  /\ Uses(Inst(b, j).dst) = {<<b, j + 1, 1>>}

\* Each argument goes to its register, or through a register to the stack.
PassArg(i) ==
  LET imm == i <= Len(Slots)
  IN  Moves(k, i, imm) \o <<Mv(ArgSlot(i), Operand(k, i, imm))>>
PassArgs == FlattenSeq([i \in DOMAIN Inst(bb, k).args |-> PassArg(i)])

SelectCall ==
  /\ Selecting("call") \/ (Selecting("self") /\ ~SelfTail(bb, k))
  /\ LET x == Inst(bb, k)
         slots == [i \in DOMAIN x.args |-> ArgSlot(i)]
     IN  Resolve(Append1(PassArgs \o <<MI("call", None, slots, "any", 0), Mv(x.dst, Slots[1])>>),
                 ArgsMet(k))
  /\ k' = k + 1
  /\ UNCHANGED <<ir, bb, after, alias, shared, tailed, succ, runVars, pc>>

\* The return after it is skipped.
SelectSelfTail ==
  /\ Selecting("self") /\ SelfTail(bb, k)
  /\ Resolve(Append1(PassArgs), ArgsMet(k))
  /\ after' = [after EXCEPT ![bb] = <<Jump(1)>>]
  /\ succ' = [succ EXCEPT ![bb] = {1}]
  /\ tailed' = TRUE
  /\ k' = k + 2
  /\ UNCHANGED <<ir, bb, alias, shared, runVars, pc>>

SelectReturn ==
  /\ Selecting("return")
  /\ Resolve(Append1(Moves(k, 1, TRUE)), ArgsMet(k))
  /\ after' = [after EXCEPT ![bb] = <<Mv(Slots[1], Operand(k, 1, TRUE)), Return>>]
  /\ k' = k + 1
  /\ UNCHANGED <<ir, bb, alias, shared, tailed, succ, runVars, pc>>

SelectPhi ==
  /\ Selecting("phi")
  /\ k' = k + 1
  /\ UNCHANGED <<ir, bb, codeVars, runVars, pc>>

EndBlock ==
  /\ pc = "select" /\ k > Len(Body(bb))
  /\ IF bb < NumBlocks THEN bb' = bb + 1 /\ pc' = pc ELSE bb' = 1 /\ pc' = "phis"
  /\ k' = 1
  /\ UNCHANGED <<ir, codeVars, runVars>>

-----------------------------------------------------------------------------
(* Phis: a copy vr of each at the end of the predecessors, copied to it at *)
(* the start of the block; or straight to it, where that is safe.          *)

Vr(b, j) == <<b, j, 0>>

\* The operand of phi j of b from p, and the move it may need.
Incoming(b, j, p) ==
  LET x == Phis(b)[j]
      i == CHOOSE i \in DOMAIN x.in : x.in[i] = p
  IN  [arg |-> x.args[i],
       val |-> OperandAt(x.args[i], TRUE, <<b, j, i>>),
       move |-> MoveAt(x.args[i], TRUE, <<b, j, i>>)]

Assigned(pairs) ==
  FlattenSeq([j \in DOMAIN pairs |->
    IF pairs[j][1] = pairs[j][2] THEN <<>> ELSE <<Mv(pairs[j][1], pairs[j][2])>>])

EdgeMoves(b, p, direct) ==
  Assigned([j \in DOMAIN Phis(b) |->
    <<IF direct THEN Phis(b)[j].dst ELSE Vr(b, j), Incoming(b, j, p).val>>])

HeadMoves(b) == Assigned([j \in DOMAIN Phis(b) |-> <<Phis(b)[j].dst, Vr(b, j)>>])

\* Mutant: a phi may be assigned that another move still reads.
AnyOrder(moves) == TRUE

\* No move overwrites what another reads.
DirectSafe(moves) ==
  \A i, j \in DOMAIN moves : moves[i].src[1] # moves[j].dst

CanDirect(b) ==
  /\ tailed
  /\ \A p \in Pred(b) : succ[p] = {b} /\ DirectSafe(EdgeMoves(b, p, TRUE))

\* Every operand is resolved in its predecessor, phi after phi.
PhisMet(b) ==
  FlattenSeq([j \in DOMAIN Phis(b) |->
    LET x == Phis(b)[j] IN [i \in DOMAIN x.args |-> <<x.args[i], x.in[i]>>]])

LowerPhis ==
  /\ pc = "phis" /\ bb <= NumBlocks
  /\ LET direct == CanDirect(bb)
         code(p) == before[p] \o
           (IF p \in Pred(bb)
            THEN FlattenSeq([j \in DOMAIN Phis(bb) |-> Incoming(bb, j, p).move])
                 \o EdgeMoves(bb, p, direct)
            ELSE <<>>)
     IN  Resolve([p \in Block |->
                    (IF p = bb /\ ~direct THEN HeadMoves(bb) ELSE <<>>) \o code(p)],
                 PhisMet(bb))
  /\ bb' = bb + 1
  /\ UNCHANGED <<ir, k, after, alias, shared, tailed, succ, runVars, pc>>

\* The function is called with any arguments; those that fit are in registers.
CallFunction ==
  /\ pc = "phis" /\ bb > NumBlocks
  /\ pc' = "run"
  /\ args' \in [Param -> Value]
  /\ regs' = [r \in SlotsOf(1 .. ir.arity) |-> args'[Params[IndexOf(r)]]]
  /\ UNCHANGED <<ir, bb, k, codeVars, at, from, env, went, saw, undefined>>

-----------------------------------------------------------------------------
(* One block of the IR, and the same block of the machine code.            *)

Eval(op, l, r) ==
  CASE op \in {"add", "mla"} -> (l + r) % Modulus
    [] op \in {"sub", "mls"} -> (l - r) % Modulus
    [] op = "mul" -> (l * r) % Modulus
    [] op = "div" -> IF r = 0 THEN 0 ELSE l \div r
    [] op = "and" -> IF l # 0 /\ r # 0 THEN 1 ELSE 0

\* What an unknown function returns.
Result(vals) ==
  LET sum[i \in 0 .. Len(vals)] == IF i = 0 THEN 1 ELSE (sum[i - 1] + vals[i]) % Modulus
  IN  sum[Len(vals)]

IrVal(e, o) == IF o \in Const THEN Imm[o] ELSE IF o \in Var THEN e[o] ELSE args[o]

IrStep(s, b, j) ==
  LET x == Inst(b, j)
      vals == [i \in DOMAIN x.args |-> IrVal(s.env, x.args[i])]
      set(v) == [s EXCEPT !.env[x.dst] = v]
  IN  IF s.to # -1 THEN s ELSE
      CASE x.op \in {"add", "sub", "mul", "div", "and"} -> set(Eval(x.op, vals[1], vals[2]))
        [] x.op = "alias" -> set(vals[1])
        [] x.op = "cmp" -> set(IF Holds(x.cond, vals[1], vals[2]) THEN 1 ELSE 0)
        [] x.op = "call" \/ (x.op = "self" /\ ~SelfTail(b, j)) ->
             [set(Result(vals)) EXCEPT !.saw = Append(@, vals)]
        [] x.op = "self" /\ SelfTail(b, j) -> [s EXCEPT !.to = 1, !.args = vals]
        [] x.op = "jump" -> [s EXCEPT !.to = x.to[1]]
        [] x.op = "branch" -> [s EXCEPT !.to = IF vals[1] # 0 THEN x.to[1] ELSE x.to[2]]
        [] x.op = "return" -> [s EXCEPT !.to = 0, !.saw = Append(@, vals)]
        [] x.op = "phi" -> s

\* The phis take their values together, from the block before.
PhiEnv(b) ==
  [v \in Var |->
     IF \E j \in DOMAIN Phis(b) : Phis(b)[j].dst = v
     THEN IrVal(env, Incoming(b, CHOOSE j \in DOMAIN Phis(b) : Phis(b)[j].dst = v, from).arg)
     ELSE env[v]]

IrBlock ==
  LET run[j \in 0 .. Len(Body(at))] ==
        IF j = 0 THEN [env |-> PhiEnv(at), args |-> <<>>, saw |-> <<>>, to |-> -1]
        ELSE IrStep(run[j - 1], at, j)
  IN  run[Len(Body(at))]

Unwritten(s, x) == \E i \in DOMAIN x.src : x.src[i] \notin Const \cup DOMAIN s.regs

MachineStep(s, x) ==
  LET val(o) == IF o \in Const THEN Imm[o] ELSE IF o \in DOMAIN s.regs THEN s.regs[o] ELSE 0
      vals == [i \in DOMAIN x.src |-> val(x.src[i])]
      set(v) == [s EXCEPT !.regs = [r \in DOMAIN s.regs \cup {x.dst} |->
                                      IF r = x.dst THEN v ELSE s.regs[r]]]
      next ==
        IF ~Holds(x.cond, s.flags[1], s.flags[2]) THEN s ELSE
        CASE x.op \in {"add", "sub", "mul", "div", "and"} -> set(Eval(x.op, vals[1], vals[2]))
          [] x.op \in {"mla", "mls"} -> set(Eval(x.op, vals[3], vals[1] * vals[2]))
          [] x.op = "mv" -> set(vals[1])
          [] x.op = "load_param" -> set(args[x.dst])
          [] x.op = "cmp" -> [s EXCEPT !.flags = <<vals[1], vals[2]>>]
          [] x.op = "call" ->
               [s EXCEPT !.saw = Append(@, vals),
                         !.regs = [r \in (DOMAIN s.regs \ SlotsOf(Nat))
                                         \cup {Slots[1]} |->
                                     IF r = Slots[1] THEN Result(vals) ELSE s.regs[r]]]
          [] x.op \in {"branch", "jump"} -> [s EXCEPT !.to = x.to]
          [] x.op = "return" -> [s EXCEPT !.to = 0, !.saw = Append(@, vals)]
  IN  IF s.to # -1 THEN s
      ELSE IF Unwritten(s, x) THEN [next EXCEPT !.undefined = TRUE] ELSE next

MachineBlock ==
  LET code == before[at] \o after[at]
      run[n \in 0 .. Len(code)] ==
        IF n = 0
        THEN [regs |-> regs, flags |-> <<0, 0>>, saw |-> <<>>, to |-> -1, undefined |-> FALSE]
        ELSE MachineStep(run[n - 1], code[n])
  IN  run[Len(code)]

\* A new activation of the function has only its arguments.
RunBlock ==
  /\ pc = "run" /\ at # 0
  /\ LET i == IrBlock
         m == MachineBlock
     IN  /\ env' = i.env
         /\ args' = IF i.to # 1 THEN args
                    ELSE [p \in Param |-> LET n == CHOOSE n \in DOMAIN Params : Params[n] = p
                                         IN  IF n \in DOMAIN i.args THEN i.args[n] ELSE args[p]]
         /\ regs' = IF m.to # 1 THEN m.regs
                    ELSE [r \in DOMAIN m.regs \cap SlotsOf(Nat) |-> m.regs[r]]
         /\ went' = <<i.to, m.to>> /\ saw' = <<i.saw, m.saw>> /\ undefined' = m.undefined
         /\ at' = i.to
  /\ from' = at
  /\ UNCHANGED <<ir, bb, k, codeVars, pc>>

Next ==
  \/ SelectBinary \/ SelectFma \/ SelectDiv \/ SelectAlias \/ SelectCompare \/ SelectAnd
  \/ SelectJump \/ SelectBranch \/ SelectBranchOnFlags \/ SelectBranchOnAnd
  \/ SelectCall \/ SelectSelfTail \/ SelectReturn \/ SelectPhi \/ EndBlock
  \/ LowerPhis \/ CallFunction \/ RunBlock

Spec == Init /\ [][Next]_vars

-----------------------------------------------------------------------------
TypeOK ==
  /\ bb \in 1 .. NumBlocks + 1 /\ k \in Nat
  /\ \A b \in Block : \A c \in {before[b][i] : i \in DOMAIN before[b]}
                               \cup {after[b][i] : i \in DOMAIN after[b]} :
       c.to \in Block \cup {0} /\ c.cond \in {"any", "lt", "ge", "gt", "le", "eq", "ne"}
  /\ \A b \in Block : after[b] = <<>> \/ after[b][Len(after[b])].op \in {"jump", "return"}
  /\ alias \in [Var -> Var \cup Param] /\ resolved \subseteq Param /\ shared \subseteq Const
  /\ tailed \in BOOLEAN /\ succ \in [Block -> SUBSET Block]
  /\ at \in Block \cup {0} /\ from \in Block \cup {0}
  /\ env \in [Var -> Value] /\ args \in [Param -> Value]
  /\ \A r \in DOMAIN regs : regs[r] \in Value
  /\ undefined \in BOOLEAN /\ pc \in {"select", "phis", "run"}

\* The machine code goes where the IR goes, and passes on the same values: no
\* phi, comparison, fused product or argument is changed by where it is put.
SameRun == went[1] = went[2] /\ saw[1] = saw[2]

\* No instruction reads a register before it is written: constants, parameters and
\* shared divisors are in place on every path that leads to their uses.
OperandsDefined == ~undefined

\* "read from sp + (i-4)*4 in entry bb": once the entry has run, a parameter that was
\* passed on the stack and is used anywhere is in its register.
LoadedInEntry ==
  pc = "run" /\ at \notin {0, 1} => \A x \in resolved : OnStack(x) => x \in DOMAIN regs

=============================================================================
