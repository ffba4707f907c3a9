---------------------------- MODULE SimplifyAsm ----------------------------
(***************************************************************************)
(* The peephole pass (passes/asm/simplify_asm.cpp): each block is walked   *)
(* once, and an instruction is removed, or changed, by looking at its      *)
(* neighbours; what takes its place is looked at next.                     *)
(***************************************************************************)
EXTENDS MachineCode

Without(insts, S) ==
  LET kept == SelectSeq([k \in DOMAIN insts |-> k], LAMBDA k : k \notin S)
  IN  Strict([k \in DOMAIN kept |-> insts[kept[k]]])

HasZeroOffset(x) == x.mode = "offset" /\ x.rhs = I(0) /\ x.cond = "any"
CanWriteBack(x) == ~IsEquiv(x.dst, x.lhs)
Touches(x, o) == o \in Def(x) \cup Use(x)
BlocksLocalScan(x) == x.op \in {"jump", "branch", "return", "call"}

\* base = base + C, or a sum of base that a move puts into base.
BaseUpdates(x, base) ==
  /\ x.op \in {"add", "sub"} /\ IsSimple(x)
  /\ IsEquiv(x.lhs, base) /\ x.rhs[1] = "imm" /\ x.rhs[2] # 0
OffsetOf(x) == IF x.op = "sub" THEN -x.rhs[2] ELSE x.rhs[2]
MovesBack(x, base, sum) ==
  x.op = "move" /\ IsSimple(x) /\ IsEquiv(x.dst, base) /\ IsEquiv(x.rhs, sum)

\* A mutant: one too many.
IsValidOneMore(n) == n \in -4096..4096
IsValidAccessImmOffset(n) == n \in -4095..4095

\* What stands between i and j neither ends the scan nor touches one of the registers.
Clear(insts, i, j, regs) ==
  \A k \in (i + 1)..(j - 1) : ~BlocksLocalScan(insts[k]) /\ \A o \in regs : ~Touches(insts[k], o)
FoldAt(insts, i, j, gone) ==
  Without([insts EXCEPT ![i].mode = "postfix", ![i].rhs = I(OffsetOf(insts[j])), ![i].shift = NoShift], gone)

\* access [base, #0]; base = base + C becomes access [base], #C.
TryFoldPostIndex(insts, i) ==
  LET base == insts[i].lhs
      updates == {j \in (i + 1)..Len(insts) :
                    /\ BaseUpdates(insts[j], base) /\ Clear(insts, i, j, {base})
                    /\ ~\E k \in (i + 1)..(j - 1) : BaseUpdates(insts[k], base)}
      back(j) == {k \in (j + 1)..Len(insts) :
                    /\ MovesBack(insts[k], base, insts[j].dst)
                    /\ Clear(insts, j, k, {base, insts[j].dst})
                    /\ ~\E l \in (j + 1)..(k - 1) : MovesBack(insts[l], base, insts[j].dst)}
      valid == {j \in updates : IsValidAccessImmOffset(OffsetOf(insts[j]))}
  IN  IF ~HasZeroOffset(insts[i]) \/ ~CanWriteBack(insts[i]) \/ valid = {} THEN insts
      ELSE LET j == CHOOSE j \in valid : TRUE
           IN  IF IsEquiv(insts[j].dst, base) THEN FoldAt(insts, i, j, {j})
               ELSE IF back(j) = {} THEN insts
               ELSE FoldAt(insts, i, j, {j} \cup back(j))

\* The load reads what the store before it has just written.
ReadsBack(x, y) ==
  /\ y.op = "store" /\ IsEquiv(x.lhs, y.lhs)
  /\ x.rhs = y.rhs /\ x.shift = y.shift /\ x.mode = y.mode

\* x; movne x, 1; moveq x, 0 after a comparison of x with 0: the last move does nothing.
TruthOf(x, y, z) ==
  /\ x.rhs = I(0) /\ y.rhs = I(1) /\ z.rhs = I(0)
  /\ y.op = "move" /\ z.op = "move" /\ y.shift[1] = "none" /\ z.shift[1] = "none"
  /\ IsEquiv(x.lhs, y.dst) /\ IsEquiv(x.lhs, z.dst) /\ y.cond = "ne" /\ z.cond = "eq"

\* A move that the next one overwrites without reading it.
Overwrites(y, x) == y.op = "move" /\ IsEquiv(y.dst, x.dst) /\ ~IsEquiv(y.rhs, x.dst) /\ IsSimple(y)
Normal(x) == IF x.op = "move" /\ x.shift[2] = 0 THEN [x EXCEPT !.shift = NoShift] ELSE x

\* The places of block b of which the instruction at i, or one after it, is useless.
Useless(insts, i, b) ==
  LET x == insts[i]
      follows(n) == i + n <= Len(insts)
  IN  CASE x.op = "move" /\ IsEquiv(x.dst, x.rhs) /\ IsSimple(x) -> {i}
        [] x.op = "move" /\ ~(IsEquiv(x.dst, x.rhs) /\ IsSimple(x)) ->
             IF follows(1) /\ Overwrites(insts[i + 1], x) THEN {i} ELSE {}
        [] IsIdentity(x) -> {i}
        [] x.op = "jump" -> IF x.to = b + 1 THEN {i} ELSE {}
        [] x.op = "compare" -> IF follows(2) /\ TruthOf(x, insts[i + 1], insts[i + 2]) THEN {i + 2} ELSE {}
        [] OTHER -> {}

SimplifyAt(s, b) ==
  LET i == s.at
      insts == IF s.insts[i].op \in AccessOps THEN TryFoldPostIndex(s.insts, i)
               ELSE [s.insts EXCEPT ![i] = Normal(@)]
      gone == Useless(insts, i, b)
  IN  IF insts[i].op = "load" /\ i > 1 /\ ReadsBack(insts[i], insts[i - 1])
      THEN [insts |-> [insts EXCEPT ![i] = Move(insts[i].dst, insts[i - 1].dst)], at |-> i]
      ELSE [insts |-> Without(insts, gone), at |-> IF i \in gone THEN i ELSE i + 1]

SimplifyBlock(insts, b) ==
  Through(LAMBDA s, k : IF s.at > Len(s.insts) THEN s ELSE SimplifyAt(s, b),
          [insts |-> insts, at |-> 1], [k \in 1..(2 * Len(insts)) |-> k]).insts
SimplifyAsm(f) == [f EXCEPT !.code = [b \in DOMAIN @ |-> SimplifyBlock(@[b], b)]]
=============================================================================
