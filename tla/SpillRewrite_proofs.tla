------------------------- MODULE SpillRewrite_proofs -------------------------
(***************************************************************************)
(* Proofs about SpillRewrite for every block, of any length, and every     *)
(* Span.                                                                   *)
(*                                                                         *)
(* The first half of the invariant says what the rewriting leaves: spans   *)
(* that do not overlap, each loaded before a use that nothing in the span  *)
(* precedes, and stored after its last definition.  The second half follows *)
(* from it while the blocks run: n is in the slot or in the register of the *)
(* current span, and in both unless a store is still to come.              *)
(***************************************************************************)
EXTENDS SpillRewrite, TLAPS

Instrs == DOMAIN block

\* The instructions before this one have been rewritten.
Reached == IF pc = "rewrite" THEN i ELSE Len(block) + 1

\* What follows is about operands op, loads ld and stores st, when the
\* instructions before x are rewritten and the current span is v, with first
\* use u and last definition d.

Operands(op, x) ==
  \A j \in Instrs :
    /\ op[j] <= j
    /\ op[j] # 0 <=> (j < x /\ block[j] # "other")

\* Spans do not overlap.
Spans(op, v) ==
  /\ \A j, k \in Instrs : j <= k /\ op[k] # 0 => op[j] <= op[k]
  /\ v # 0 => \A j \in Instrs : op[j] <= v

\* An instruction of the span of j that comes before it and defines n.
DefinedBefore(op, j) ==
  \E k \in Instrs : k < j /\ block[k] \in Definition /\ op[k] = op[j]

\* A load gets what the span has not defined before; a use without one
\* follows another instruction of its span.
Loads(op, x, ld, v, u) ==
  /\ \A j \in Instrs :
       ld[j] # 0 => ld[j] = op[j] /\ block[j] = "use" /\ ~DefinedBefore(op, j)
  /\ \A j \in Instrs :
       block[j] = "use" /\ j < x /\ ld[j] = 0
         => j = u \/ \E k \in Instrs : k < j /\ op[k] = op[j]
  /\ u # 0 => u < x /\ block[u] = "use" /\ op[u] = v /\ ~DefinedBefore(op, u)

\* Each definition is stored by its span, then or later, and never between
\* the two conditional moves of a comparison.
Stores(op, x, st, v, d) ==
  /\ \A j \in Instrs :
       st[j] # 0 => st[j] = op[j] /\ block[j] \in Definition \ {"move_if"}
  /\ \A j \in Instrs :
       block[j] \in Definition /\ j < x
         => IF op[j] = v THEN j <= d ELSE \E k \in Instrs : j <= k /\ st[k] = op[j]
  /\ d # 0 => d < x /\ block[d] \in Definition /\ op[d] = v

Pairs(op, x, v) ==
  \A j \in Instrs :
    block[j] = "move_if" /\ j < x
      => IF j + 1 < x THEN op[j + 1] = op[j] ELSE op[j] = v

WellRewritten(op, x, ld, st, v, u, d) ==
  Spans(op, v) /\ Loads(op, x, ld, v, u) /\ Stores(op, x, st, v, d) /\ Pairs(op, x, v)

Rewritten == WellRewritten(operand, Reached, load, store, vreg, first_use, last_def)

Rewriting ==
  IF pc = "rewrite" THEN slot = Entry /\ n = Entry ELSE vreg = 0

\* Some definition was run and its store was not.
StorePending ==
  \E j, k \in Instrs :
    /\ j < i /\ i <= k /\ block[j] \in Definition
    /\ operand[j] = operand[k] /\ store[k] = operand[k]

\* The second of two conditional moves is next, and it will take place.
ElsePending == i > 1 /\ block[i - 1] = "move_if" /\ ~taken

Held ==
  pc # "rewrite" =>
    /\ slot = n \/ StorePending
    /\ \A j, k \in Instrs :
         j < i /\ i <= k /\ operand[j] # 0 /\ operand[j] = operand[k]
           => value[operand[j]] = n \/ ElsePending

\* The registers of spans are named after instructions that came before.
Named == vreg < i /\ Operands(operand, Reached)

Kept == UncutPairs(block) => Rewritten /\ Rewriting /\ Held /\ SpilledValueKept

-----------------------------------------------------------------------------
(* Types.                                                                  *)

LEMMA BlockFacts ==
  ASSUME block \in Blocks
  PROVE  /\ Len(block) \in Nat /\ Instrs = 1 .. Len(block)
         /\ \A j \in Instrs : block[j] \in Kind
         /\ \A j \in Instrs : block[j] = "move_if" => j + 1 \in Instrs /\ block[j + 1] = "move_else"
         /\ \A j \in Instrs : block[j] = "move_else" => j - 1 \in Instrs /\ block[j - 1] = "move_if"
  BY BlockAssumption DEF Instrs

\* What Rewrite makes of the current span and the operands, before it may cut.
Reg == IF block[i] # "other" /\ vreg = 0 THEN i ELSE vreg
FirstUse == IF block[i] = "use" /\ first_use = 0 /\ last_def = 0 THEN i ELSE first_use
LastDef == IF block[i] \in Definition THEN i ELSE last_def
Replaced == [operand EXCEPT ![i] = IF block[i] = "other" THEN 0 ELSE Reg]

LEMMA RewriteIs ==
  ASSUME Rewrite
  PROVE  /\ operand' = Replaced
         /\ IF i - 1 > Span
            THEN Checkpoint(Reg, FirstUse, LastDef)
            ELSE /\ vreg' = Reg /\ first_use' = FirstUse /\ last_def' = LastDef
                 /\ UNCHANGED <<load, store>>
  BY DEF Rewrite, Reg, FirstUse, LastDef, Replaced

LEMMA ScanTypes ==
  ASSUME TypeOK, Named, pc = "rewrite", i \in Instrs
  PROVE  /\ Reg \in 0 .. i /\ FirstUse \in 0 .. Len(block) /\ LastDef \in 0 .. Len(block)
         /\ block[i] # "other" => Reg # 0
         /\ Reg = 0 => FirstUse = 0 /\ LastDef = 0
         /\ Replaced \in [Instrs -> 0 .. Len(block)]
         /\ Replaced[i] = IF block[i] = "other" THEN 0 ELSE Reg
         /\ \A j \in Instrs : j # i => Replaced[j] = operand[j]
         /\ Operands(Replaced, i + 1)
<1>1. Len(block) \in Nat /\ Instrs = 1 .. Len(block) /\ block[i] \in Kind
  BY BlockFacts DEF TypeOK
<1>2. /\ Reg \in 0 .. i /\ FirstUse \in 0 .. Len(block) /\ LastDef \in 0 .. Len(block)
      /\ block[i] # "other" => Reg # 0
      /\ Reg = 0 => FirstUse = 0 /\ LastDef = 0
  BY <1>1 DEF TypeOK, Named, Kind, Definition, Reg, FirstUse, LastDef
<1>3. operand \in [Instrs -> 0 .. Len(block)]
  BY DEF TypeOK, Instrs
<1>4. /\ Replaced \in [Instrs -> 0 .. Len(block)]
      /\ Replaced[i] = IF block[i] = "other" THEN 0 ELSE Reg
      /\ \A j \in Instrs : j # i => Replaced[j] = operand[j]
  BY <1>1, <1>2, <1>3 DEF Replaced
<1>5. ASSUME NEW j \in Instrs
      PROVE  /\ Replaced[j] <= j
             /\ Replaced[j] # 0 <=> (j < i + 1 /\ block[j] # "other")
  <2>1. CASE j = i
    BY <1>1, <1>2, <1>4, <2>1
  <2>2. CASE j # i
    <3>1. Replaced[j] = operand[j] /\ (j < i + 1 <=> j < i)
      BY <1>1, <1>4, <2>2 DEF TypeOK
    <3> QED
      BY <3>1 DEF Named, Operands, Reached
  <2> QED
    BY <2>1, <2>2
<1> QED
  BY <1>2, <1>4, <1>5 DEF Operands

LEMMA RewriteTypes ==
  ASSUME TypeOK, Named, Rewrite
  PROVE  TypeOK' /\ Named'
<1>1. /\ Len(block) \in Nat /\ Instrs = 1 .. Len(block) /\ i \in Instrs
      /\ pc = "rewrite" /\ pc' = "rewrite" /\ i' = i + 1 /\ UNCHANGED <<block, runVars>>
  BY BlockFacts DEF TypeOK, Rewrite
<1>2. /\ Reg \in 0 .. Len(block) /\ Reg \in 0 .. i
      /\ FirstUse \in 0 .. Len(block) /\ LastDef \in 0 .. Len(block)
      /\ Reg = 0 => FirstUse = 0 /\ LastDef = 0
  BY <1>1, ScanTypes
<1>3. load' \in [Instrs -> 0 .. Len(block)] /\ store' \in [Instrs -> 0 .. Len(block)]
  <2>1. load \in [Instrs -> 0 .. Len(block)] /\ store \in [Instrs -> 0 .. Len(block)]
    BY DEF TypeOK, Instrs
  <2> QED
    BY RewriteIs, <1>2, <2>1 DEF Checkpoint
<1>4. /\ vreg' \in 0 .. i /\ first_use' \in 0 .. Len(block) /\ last_def' \in 0 .. Len(block)
      /\ vreg' = 0 => first_use' = 0 /\ last_def' = 0
  BY RewriteIs, <1>1, <1>2 DEF Checkpoint
<1>5. operand' \in [Instrs -> 0 .. Len(block)] /\ Operands(operand', i + 1)
  BY RewriteIs, <1>1, ScanTypes
<1>6. Value' = Value /\ Instrs' = Instrs
  BY <1>1 DEF Value, Instrs
<1>7. TypeOK'
  <2>1. i' \in 1 .. Len(block) + 1 /\ vreg' \in 0 .. Len(block)
    BY <1>1, <1>4
  <2> QED
    BY <1>1, <1>3, <1>4, <1>5, <1>6, <2>1 DEF TypeOK, Instrs, runVars
<1>8. Named'
  BY <1>1, <1>4, <1>5, <1>6 DEF Named, Operands, Reached
<1> QED
  BY <1>7, <1>8

LEMMA RunTypes ==
  ASSUME TypeOK, Named, Run
  PROVE  TypeOK' /\ Named'
<1>1. /\ Len(block) \in Nat /\ Instrs = 1 .. Len(block) /\ i \in Instrs /\ block[i] \in Kind
      /\ pc = "run" /\ pc' = "run" /\ i' = i + 1 /\ UNCHANGED <<block, rewriteVars>>
  BY BlockFacts DEF TypeOK, Run
<1>2. taken' \in BOOLEAN
  BY <1>1 DEF Run, TypeOK
<1>3. Loaded \in [Instrs -> Value]
  BY <1>1 DEF TypeOK, Loaded, Instrs
<1>4. i \in Value
  BY <1>1 DEF Value
<1>5. value' \in [Instrs -> Value] /\ n' \in Value
  BY <1>3, <1>4 DEF Run, TypeOK
<1>6. block[i] = "use" => operand[i] \in Instrs
  <2>1. operand \in [Instrs -> 0 .. Len(block)]
    BY DEF TypeOK, Instrs
  <2>2. block[i] = "use" => operand[i] # 0
    BY <1>1 DEF Named, Operands, Reached
  <2> QED
    BY <1>1, <2>1, <2>2
<1>7. store[i] # 0 => store[i] \in Instrs
  BY <1>1 DEF TypeOK, Instrs
<1>8. saw' \in Value \X Value
  BY <1>5, <1>6 DEF Run, TypeOK
<1>9. slot' \in Value
  BY <1>5, <1>7 DEF Run, TypeOK
<1>10. TypeOK'
  <2>1. Value' = Value /\ Instrs' = Instrs
    BY <1>1 DEF Value, Instrs
  <2>2. i' \in 1 .. Len(block) + 1
    BY <1>1
  <2> QED
    BY <1>1, <1>2, <1>5, <1>8, <1>9, <2>1, <2>2 DEF TypeOK, Instrs, rewriteVars
<1>11. Named'
  BY <1>1 DEF Named, Operands, Reached, Instrs, rewriteVars, TypeOK
<1> QED
  BY <1>10, <1>11

LEMMA EndOfBlockTypes ==
  ASSUME TypeOK, Named, EndOfBlock
  PROVE  TypeOK' /\ Named'
<1>1. /\ Len(block) \in Nat /\ Instrs = 1 .. Len(block)
      /\ pc = "rewrite" /\ pc' = "run" /\ i = Len(block) + 1 /\ i' = 1
      /\ vreg' = 0 /\ first_use' = 0 /\ last_def' = 0 /\ UNCHANGED <<block, operand, runVars>>
  BY BlockFacts DEF TypeOK, EndOfBlock, Instrs, Checkpoint
<1>2. load' \in [Instrs -> 0 .. Len(block)] /\ store' \in [Instrs -> 0 .. Len(block)]
  <2>1. /\ load \in [Instrs -> 0 .. Len(block)] /\ store \in [Instrs -> 0 .. Len(block)]
        /\ vreg \in 0 .. Len(block)
    BY DEF TypeOK, Instrs
  <2>2. /\ load' = IF first_use = 0 THEN load ELSE [load EXCEPT ![first_use] = vreg]
        /\ store' = IF last_def = 0 THEN store ELSE [store EXCEPT ![last_def] = vreg]
    BY DEF EndOfBlock, Checkpoint
  <2> QED
    BY <2>1, <2>2
<1>3. TypeOK'
  <2>1. Value' = Value /\ Instrs' = Instrs
    BY <1>1 DEF Value, Instrs
  <2> QED
    BY <1>1, <1>2, <2>1 DEF TypeOK, Instrs, runVars
<1>4. Reached' = Reached
  BY <1>1 DEF Reached
<1> QED
  BY <1>1, <1>3, <1>4 DEF Named, Operands, Reached, Instrs

LEMMA WellTyped == Spec => [](TypeOK /\ Named)
<1>1. Init => TypeOK /\ Named
  <2> SUFFICES ASSUME Init PROVE TypeOK /\ Named
    OBVIOUS
  <2>1. Len(block) \in Nat /\ Instrs = 1 .. Len(block)
    BY BlockFacts DEF Init
  <2> QED
    BY <2>1 DEF Init, TypeOK, Named, Operands, Reached, Instrs, Value, Entry, Garbage
<1>2. TypeOK /\ Named /\ [Next]_vars => TypeOK' /\ Named'
  <2> SUFFICES ASSUME TypeOK, Named, [Next]_vars
               PROVE  TypeOK' /\ Named'
    OBVIOUS
  <2>1. CASE Rewrite
    BY <2>1, RewriteTypes
  <2>2. CASE EndOfBlock
    BY <2>2, EndOfBlockTypes
  <2>3. CASE Run
    BY <2>3, RunTypes
  <2>4. CASE EndRun
    BY <2>4 DEF EndRun, TypeOK, Named, Operands, Reached, rewriteVars, runVars, Instrs, Value
  <2>5. CASE UNCHANGED vars
    BY <2>5 DEF vars, TypeOK, Named, Operands, Reached, Instrs, Value
  <2> QED
    BY <2>1, <2>2, <2>3, <2>4, <2>5 DEF Next
<1> QED
  BY <1>1, <1>2, PTL DEF Spec

\* Every state of the rewriting and of the run is well typed: in particular an
\* instruction with n has a register to read or write.
THEOREM TypeCorrect == Spec => []TypeOK
  BY WellTyped, PTL

-----------------------------------------------------------------------------
(* Rewriting: visiting an instruction, then cutting the span.              *)

\* Visiting instruction i leaves the spans in order.
LEMMA Scan ==
  ASSUME TypeOK, Named, pc = "rewrite", i \in Instrs, Rewritten
  PROVE  WellRewritten(Replaced, i + 1, load, store, Reg, FirstUse, LastDef)
<1> DEFINE op == Replaced
<1>1. /\ Len(block) \in Nat /\ Instrs = 1 .. Len(block) /\ i \in Int
      /\ \A j \in Instrs : block[j] \in Kind
      /\ \A j \in Instrs : block[j] = "move_if" => j + 1 \in Instrs /\ block[j + 1] = "move_else"
      /\ \A j \in Instrs : block[j] = "move_else" => j - 1 \in Instrs /\ block[j - 1] = "move_if"
  BY BlockFacts DEF TypeOK
<1>2. /\ vreg \in Nat /\ first_use \in Nat /\ last_def \in Nat
      /\ operand \in [Instrs -> Nat] /\ load \in [Instrs -> Nat] /\ store \in [Instrs -> Nat]
      /\ vreg < i /\ (vreg = 0 => first_use = 0 /\ last_def = 0)
  BY <1>1 DEF TypeOK, Named, Instrs
<1>3. /\ Spans(operand, vreg) /\ Loads(operand, i, load, vreg, first_use)
      /\ Stores(operand, i, store, vreg, last_def) /\ Pairs(operand, i, vreg)
      /\ Operands(operand, i)
  BY DEF Rewritten, WellRewritten, Reached, Named
<1>4. /\ op \in [Instrs -> Nat] /\ Operands(op, i + 1)
      /\ op[i] = IF block[i] = "other" THEN 0 ELSE Reg
      /\ \A j \in Instrs : j # i => op[j] = operand[j]
      /\ operand[i] = 0 /\ load[i] = 0 /\ store[i] = 0
  <2>1. operand[i] = 0
    BY <1>1, <1>3 DEF Operands
  <2> QED
    BY <1>1, <1>2, <1>3, <2>1, ScanTypes DEF Loads, Stores
<1>5. /\ Reg \in Nat /\ (Reg # 0 => Reg = vreg \/ (Reg = i /\ vreg = 0))
      /\ vreg # 0 => Reg = vreg
      /\ block[i] # "other" => Reg # 0
  BY <1>1, <1>2, ScanTypes DEF Reg
<1>6. \A j \in Instrs : j > i => op[j] = 0
  BY <1>1, <1>4 DEF Operands
<1>7. \A j \in Instrs : j < i /\ op[j] # 0 => (op[j] = Reg <=> operand[j] = vreg)
  BY <1>1, <1>2, <1>3, <1>4, <1>5 DEF Operands
<1> HIDE DEF op
<1>8. Spans(op, Reg)
  <2>1. ASSUME Reg # 0, NEW j \in Instrs PROVE op[j] <= Reg
    <3>1. CASE j = i
      BY <1>1, <1>4, <1>5, <2>1, <3>1
    <3>2. CASE j # i /\ vreg # 0
      BY <1>1, <1>2, <1>3, <1>4, <1>5, <3>2 DEF Spans
    <3>3. CASE j # i /\ vreg = 0
      BY <1>1, <1>2, <1>3, <1>4, <1>5, <1>6, <2>1, <3>3 DEF Operands
    <3> QED
      BY <3>1, <3>2, <3>3
  <2>2. ASSUME NEW j \in Instrs, NEW k \in Instrs, j <= k, op[k] # 0 PROVE op[j] <= op[k]
    <3>1. CASE k = i
      BY <1>1, <1>4, <2>1, <2>2, <3>1
    <3>2. CASE k # i
      BY <1>1, <1>2, <1>3, <1>4, <1>6, <2>2, <3>2 DEF Spans
    <3> QED
      BY <3>1, <3>2
  <2> QED
    BY <2>1, <2>2 DEF Spans
<1>9. \A j \in Instrs : j < i => (DefinedBefore(op, j) <=> DefinedBefore(operand, j))
  BY <1>1, <1>4 DEF DefinedBefore
<1>10. Loads(op, i + 1, load, Reg, FirstUse)
  <2>1. ASSUME NEW j \in Instrs, load[j] # 0
        PROVE  load[j] = op[j] /\ block[j] = "use" /\ ~DefinedBefore(op, j)
    <3>1. load[j] = operand[j] /\ block[j] = "use" /\ ~DefinedBefore(operand, j)
      BY <1>3, <2>1 DEF Loads
    <3>2. j < i
      BY <1>1, <1>3, <2>1, <3>1 DEF Operands
    <3> QED
      BY <1>1, <1>4, <1>9, <3>1, <3>2
  <2>2. ASSUME NEW j \in Instrs, block[j] = "use", j < i + 1, load[j] = 0
        PROVE  j = FirstUse \/ \E k \in Instrs : k < j /\ op[k] = op[j]
    <3>1. CASE j = i /\ first_use # 0
      <4>1. first_use \in Instrs /\ first_use < i /\ operand[first_use] = vreg /\ vreg # 0
        BY <1>1, <1>2, <1>3, <3>1 DEF Loads
      <4> QED
        BY <1>1, <1>4, <1>5, <2>2, <3>1, <4>1
    <3>2. CASE j = i /\ last_def # 0
      <4>1. last_def \in Instrs /\ last_def < i /\ operand[last_def] = vreg /\ vreg # 0
        BY <1>1, <1>2, <1>3, <3>2 DEF Stores
      <4> QED
        BY <1>1, <1>4, <1>5, <2>2, <3>2, <4>1
    <3>3. CASE j = i /\ first_use = 0 /\ last_def = 0
      BY <2>2, <3>3 DEF FirstUse
    <3>4. CASE j < i
      <4>1. j = first_use \/ \E k \in Instrs : k < j /\ operand[k] = operand[j]
        BY <1>3, <2>2, <3>4 DEF Loads
      <4>2. j = first_use => j = FirstUse
        BY <1>1, <3>4 DEF FirstUse
      <4> QED
        BY <1>1, <1>4, <3>4, <4>1, <4>2
    <3> QED
      BY <1>1, <2>2, <3>1, <3>2, <3>3, <3>4
  <2>3. ASSUME FirstUse # 0
        PROVE  /\ FirstUse < i + 1 /\ block[FirstUse] = "use" /\ op[FirstUse] = Reg
               /\ ~DefinedBefore(op, FirstUse)
    <3>1. CASE block[i] = "use" /\ first_use = 0 /\ last_def = 0
      <4>1. FirstUse = i /\ op[i] = Reg /\ Reg # 0
        BY <1>4, <1>5, <3>1 DEF FirstUse
      <4>2. \A k \in Instrs : k < i /\ block[k] \in Definition => op[k] # Reg
        BY <1>1, <1>2, <1>3, <1>4, <1>7, <3>1, <4>1 DEF Stores
      <4> QED
        BY <1>1, <3>1, <4>1, <4>2 DEF DefinedBefore
    <3>2. CASE ~(block[i] = "use" /\ first_use = 0 /\ last_def = 0)
      <4>1. FirstUse = first_use /\ first_use # 0
        BY <2>3, <3>2 DEF FirstUse
      <4>2. /\ first_use < i /\ block[first_use] = "use" /\ operand[first_use] = vreg
            /\ ~DefinedBefore(operand, first_use) /\ first_use \in Instrs
        BY <1>1, <1>2, <1>3, <4>1 DEF Loads
      <4> QED
        BY <1>1, <1>2, <1>4, <1>5, <1>9, <4>1, <4>2
    <3> QED
      BY <3>1, <3>2
  <2> QED
    BY <2>1, <2>2, <2>3 DEF Loads
<1>11. Stores(op, i + 1, store, Reg, LastDef)
  <2>1. ASSUME NEW j \in Instrs, store[j] # 0
        PROVE  store[j] = op[j] /\ block[j] \in Definition \ {"move_if"}
    BY <1>3, <1>4, <2>1 DEF Stores
  <2>2. ASSUME NEW j \in Instrs, block[j] \in Definition, j < i + 1
        PROVE  IF op[j] = Reg THEN j <= LastDef ELSE \E k \in Instrs : j <= k /\ store[k] = op[j]
    <3>1. CASE j = i
      BY <1>1, <1>4, <2>2, <3>1 DEF LastDef, Definition
    <3>2. CASE j < i
      <4>1. op[j] = operand[j] /\ op[j] # 0
        BY <1>1, <1>4, <2>2, <3>2 DEF Operands, Definition
      <4>2. LastDef >= last_def
        BY <1>1, <1>2, <1>3 DEF LastDef, Stores
      <4>3. IF operand[j] = vreg THEN j <= last_def
            ELSE \E k \in Instrs : j <= k /\ store[k] = operand[j]
        BY <1>3, <2>2, <3>2 DEF Stores
      <4>4. LastDef \in Nat
        BY <1>1, <1>2 DEF LastDef
      <4> QED
        BY <1>1, <1>2, <1>7, <3>2, <4>1, <4>2, <4>3, <4>4
    <3> QED
      BY <1>1, <2>2, <3>1, <3>2
  <2>3. ASSUME LastDef # 0
        PROVE  LastDef < i + 1 /\ block[LastDef] \in Definition /\ op[LastDef] = Reg
    <3>1. CASE block[i] \in Definition
      BY <1>1, <1>4, <3>1 DEF LastDef, Definition
    <3>2. CASE block[i] \notin Definition
      <4>1. LastDef = last_def
        BY <3>2 DEF LastDef
      <4>2. last_def < i /\ block[last_def] \in Definition /\ operand[last_def] = vreg /\ vreg # 0
        BY <1>2, <1>3, <2>3, <4>1 DEF Stores
      <4> QED
        BY <1>1, <1>2, <1>4, <1>5, <2>3, <4>1, <4>2
    <3> QED
      BY <3>1, <3>2
  <2> QED
    BY <2>1, <2>2, <2>3 DEF Stores
<1>12. Pairs(op, i + 1, Reg)
  <2> SUFFICES ASSUME NEW j \in Instrs, block[j] = "move_if", j < i + 1
               PROVE  IF j + 1 < i + 1 THEN op[j + 1] = op[j] ELSE op[j] = Reg
    BY DEF Pairs
  <2>1. CASE j = i
    BY <1>1, <1>4, <2>1
  <2>2. CASE j + 1 = i
    <3>1. operand[j] = vreg /\ operand[j] # 0
      BY <1>1, <1>3, <2>2 DEF Pairs, Operands
    <3>2. block[i] = "move_else"
      BY <1>1, <2>2
    <3> QED
      BY <1>1, <1>4, <1>5, <2>2, <3>1, <3>2
  <2>3. CASE j + 1 < i
    BY <1>1, <1>3, <1>4, <2>3 DEF Pairs
  <2> QED
    BY <1>1, <2>1, <2>2, <2>3
<1> QED
  BY <1>8, <1>10, <1>11, <1>12 DEF op, WellRewritten

\* A span that does not end between two conditional moves can be cut.
LEMMA Cut ==
  ASSUME block \in Blocks, NEW op \in [Instrs -> Nat], NEW x \in Nat,
         NEW ld \in [Instrs -> Nat], NEW st \in [Instrs -> Nat],
         NEW v \in Nat, NEW u \in 0 .. Len(block), NEW d \in 0 .. Len(block),
         v = 0 => u = 0 /\ d = 0,
         Operands(op, x), WellRewritten(op, x, ld, st, v, u, d),
         \A j \in Instrs : block[j] = "move_if" => j + 1 # x
  PROVE  WellRewritten(op, x, IF u = 0 THEN ld ELSE [ld EXCEPT ![u] = v],
                              IF d = 0 THEN st ELSE [st EXCEPT ![d] = v], 0, 0, 0)
<1> DEFINE ld2 == IF u = 0 THEN ld ELSE [ld EXCEPT ![u] = v]
           st2 == IF d = 0 THEN st ELSE [st EXCEPT ![d] = v]
<1>1. /\ Len(block) \in Nat /\ Instrs = 1 .. Len(block)
      /\ \A j \in Instrs : block[j] \in Kind
      /\ \A j \in Instrs : block[j] = "move_if" => j + 1 \in Instrs /\ block[j + 1] = "move_else"
  BY BlockFacts
<1>2. /\ Spans(op, v) /\ Loads(op, x, ld, v, u) /\ Stores(op, x, st, v, d) /\ Pairs(op, x, v)
  BY DEF WellRewritten
<1>3. \A j \in Instrs : /\ ld2[j] = IF j = u THEN v ELSE ld[j]
                        /\ st2[j] = IF j = d THEN v ELSE st[j]
  BY <1>1
<1> HIDE DEF ld2, st2
<1>4. Spans(op, 0)
  BY <1>2 DEF Spans
<1>5. Loads(op, x, ld2, 0, 0)
  BY <1>1, <1>2, <1>3 DEF Loads
<1>6. Stores(op, x, st2, 0, 0)
  <2>1. block[d] # "move_if" \/ d = 0
    <3> SUFFICES ASSUME d # 0, block[d] = "move_if" PROVE FALSE
      OBVIOUS
    <3>1. d < x /\ op[d] = v
      BY <1>2 DEF Stores
    <3>2. d \in Instrs
      BY <1>1
    <3>3. d + 1 \in Instrs /\ block[d + 1] = "move_else" /\ d + 1 < x
      BY <1>1, <3>1, <3>2
    <3>4. op[d + 1] = v
      BY <1>2, <3>1, <3>2, <3>3 DEF Pairs
    <3> QED
      BY <1>1, <1>2, <3>3, <3>4 DEF Stores, Definition
  <2>2. ASSUME NEW j \in Instrs, st2[j] # 0
        PROVE  st2[j] = op[j] /\ block[j] \in Definition \ {"move_if"}
    <3>1. CASE j = d
      BY <1>1, <1>2, <1>3, <2>1, <3>1 DEF Stores
    <3>2. CASE j # d
      BY <1>2, <1>3, <2>2, <3>2 DEF Stores
    <3> QED
      BY <3>1, <3>2
  <2>3. ASSUME NEW j \in Instrs, block[j] \in Definition, j < x
        PROVE  op[j] # 0 /\ \E k \in Instrs : j <= k /\ st2[k] = op[j]
    <3>1. op[j] # 0
      BY <2>3 DEF Operands, Definition
    <3>2. CASE op[j] = v
      <4>1. j <= d
        BY <1>2, <2>3, <3>2 DEF Stores
      <4>2. d \in Instrs
        BY <1>1, <4>1
      <4> QED
        BY <1>3, <3>1, <3>2, <4>1, <4>2
    <3>3. CASE op[j] # v
      <4>1. PICK k \in Instrs : j <= k /\ st[k] = op[j]
        BY <1>2, <2>3, <3>3 DEF Stores
      <4>2. k # d
        BY <1>1, <1>2, <3>1, <3>3, <4>1 DEF Stores
      <4> QED
        BY <1>3, <3>1, <4>1, <4>2
    <3> QED
      BY <3>2, <3>3
  <2> QED
    BY <2>2, <2>3 DEF Stores
<1>7. Pairs(op, x, 0)
  <2> SUFFICES ASSUME NEW j \in Instrs, block[j] = "move_if", j < x
               PROVE  j + 1 < x /\ op[j + 1] = op[j]
    BY DEF Pairs
  <2>1. j + 1 < x
    BY <1>1
  <2> QED
    BY <1>2, <2>1 DEF Pairs
<1> QED
  BY <1>4, <1>5, <1>6, <1>7 DEF WellRewritten, ld2, st2

LEMMA RewriteKeeps ==
  ASSUME TypeOK, Named, UncutPairs(block), Rewritten, Rewrite
  PROVE  Rewritten'
<1>1. /\ Len(block) \in Nat /\ Instrs = 1 .. Len(block) /\ i \in Instrs
      /\ pc = "rewrite" /\ pc' = "rewrite" /\ i' = i + 1 /\ block' = block
  BY BlockFacts DEF TypeOK, Rewrite
<1>2. WellRewritten(operand', i + 1, load, store, Reg, FirstUse, LastDef)
  BY <1>1, RewriteIs, Scan
<1>3. Reached' = i + 1
  BY <1>1 DEF Reached
<1>4. WellRewritten(operand', i + 1, load', store', vreg', first_use', last_def')
  <2>1. CASE i - 1 > Span
    <3>1. /\ operand' \in [Instrs -> Nat] /\ Operands(operand', i + 1)
          /\ Reg \in Nat /\ i + 1 \in Nat
          /\ FirstUse \in 0 .. Len(block) /\ LastDef \in 0 .. Len(block)
          /\ Reg = 0 => FirstUse = 0 /\ LastDef = 0
      BY <1>1, RewriteIs, ScanTypes
    <3>2. load \in [Instrs -> Nat] /\ store \in [Instrs -> Nat] /\ block \in Blocks
      BY <1>1 DEF TypeOK, Instrs
    <3>3. \A j \in Instrs : block[j] = "move_if" => j + 1 # i + 1
      BY <1>1, <2>1, SpanAssumption DEF UncutPairs, Instrs
    <3>4. Checkpoint(Reg, FirstUse, LastDef)
      BY <2>1, RewriteIs
    <3> QED
      BY <1>2, <3>1, <3>2, <3>3, <3>4, Cut DEF Checkpoint
  <2>2. CASE ~(i - 1 > Span)
    BY <1>2, <2>2, RewriteIs
  <2> QED
    BY <2>1, <2>2
<1> QED
  BY <1>1, <1>3, <1>4
  DEF Rewritten, WellRewritten, Spans, Loads, Stores, Pairs, DefinedBefore, Instrs

LEMMA EndOfBlockKeeps ==
  ASSUME TypeOK, Named, Rewritten, EndOfBlock
  PROVE  Rewritten'
<1>1. /\ Len(block) \in Nat /\ Instrs = 1 .. Len(block) /\ i = Len(block) + 1
      /\ pc = "rewrite" /\ pc' = "run" /\ UNCHANGED <<block, operand>>
      /\ Checkpoint(vreg, first_use, last_def)
      /\ \A j \in Instrs : block[j] = "move_if" => j + 1 # i
  BY BlockFacts DEF TypeOK, EndOfBlock
<1>2. /\ Reached' = Reached /\ Reached = i /\ i \in Nat
  BY <1>1 DEF Reached
<1>3. /\ block \in Blocks /\ operand \in [Instrs -> Nat] /\ load \in [Instrs -> Nat]
      /\ store \in [Instrs -> Nat] /\ vreg \in Nat
      /\ first_use \in 0 .. Len(block) /\ last_def \in 0 .. Len(block)
      /\ vreg = 0 => first_use = 0 /\ last_def = 0
  BY <1>1 DEF TypeOK, Instrs
<1>4. WellRewritten(operand, i, load', store', 0, 0, 0)
  BY <1>1, <1>2, <1>3, Cut DEF Checkpoint, Rewritten, Named
<1> QED
  BY <1>1, <1>2, <1>4
  DEF Checkpoint, Rewritten, WellRewritten, Spans, Loads, Stores, Pairs, DefinedBefore, Instrs

-----------------------------------------------------------------------------
(* Both blocks, run together.                                              *)

LEMMA RunKeeps ==
  ASSUME TypeOK, Named, Rewritten, Rewriting, Held, SpilledValueKept, Run
  PROVE  Held' /\ SpilledValueKept'
<1> DEFINE v == operand[i]
<1>1. /\ Len(block) \in Nat /\ Instrs = 1 .. Len(block) /\ i \in Instrs /\ i \in Int
      /\ block[i] \in Kind /\ pc = "run" /\ pc' = "run" /\ i' = i + 1
      /\ UNCHANGED <<block, rewriteVars>> /\ vreg = 0 /\ first_use = 0 /\ last_def = 0
      /\ \A j \in Instrs : block[j] = "move_if" => j + 1 \in Instrs /\ block[j + 1] = "move_else"
      /\ \A j \in Instrs : block[j] = "move_else" => j - 1 \in Instrs /\ block[j - 1] = "move_if"
  <2>1. pc = "run" /\ pc' = "run" /\ i' = i + 1 /\ UNCHANGED <<block, rewriteVars>>
    BY DEF Run
  <2>2. vreg = 0 /\ first_use = 0 /\ last_def = 0
    BY <2>1 DEF Rewriting, TypeOK
  <2>3. block \in Blocks /\ i \in 1 .. Len(block) + 1 /\ i <= Len(block)
    BY DEF TypeOK, Run
  <2> QED
    BY <2>1, <2>2, <2>3, BlockFacts
<1>2. /\ operand \in [Instrs -> Nat] /\ store \in [Instrs -> 0 .. Len(block)]
      /\ load \in [Instrs -> Nat] /\ value \in [Instrs -> Value] /\ v <= Len(block)
  BY <1>1 DEF TypeOK, Instrs
<1>3. /\ \A j \in Instrs : operand[j] # 0 <=> block[j] # "other"
      /\ \A j, k \in Instrs : j <= k /\ operand[k] # 0 => operand[j] <= operand[k]
  BY <1>1 DEF Named, Operands, Reached, Rewritten, WellRewritten, Spans
<1>4. /\ Loads(operand, Len(block) + 1, load, 0, 0) /\ Stores(operand, Len(block) + 1, store, 0, 0)
      /\ Pairs(operand, Len(block) + 1, 0)
  BY <1>1 DEF Rewritten, WellRewritten, Reached
<1>5. load[i] # 0 => load[i] = v /\ block[i] = "use"
  BY <1>1, <1>4 DEF Loads
\* A comparison is behind us before anything else is done with n.
<1>6. block[i] # "move_else" => ~ElsePending
  BY <1>1 DEF ElsePending
<1>7. \A j, k \in Instrs :
        j < i /\ i <= k /\ operand[j] # 0 /\ operand[j] = operand[k] /\ block[i] # "other"
          => operand[j] = v
  BY <1>1, <1>2, <1>3
<1>8. block[i] = "use" => n' = n /\ value' = Loaded /\ value'[v] = n'
  <2> SUFFICES ASSUME block[i] = "use" PROVE n' = n /\ value' = Loaded /\ value'[v] = n'
    OBVIOUS
  <2>1. n' = n /\ value' = Loaded /\ v \in Instrs
    <3>1. v # 0
      BY <1>1, <1>3
    <3> QED
      BY <1>1, <1>2, <3>1 DEF Run, Defines
  <2>2. CASE load[i] # 0
    <3>1. Loaded[v] = slot
      BY <1>2, <1>5, <2>1, <2>2 DEF Loaded
    <3>2. slot = n
      <4> SUFFICES ASSUME StorePending PROVE FALSE
        BY <1>1 DEF Held
      <4>1. PICK j, k \in Instrs :
              /\ j < i /\ i <= k /\ block[j] \in Definition
              /\ operand[j] = operand[k] /\ store[k] = operand[k]
        BY DEF StorePending
      <4>2. operand[j] = v
        BY <1>3, <1>7, <4>1 DEF Definition
      <4>3. ~DefinedBefore(operand, i)
        BY <1>1, <1>4, <2>2 DEF Loads
      <4> QED
        BY <4>1, <4>2, <4>3 DEF DefinedBefore
    <3> QED
      BY <2>1, <3>1, <3>2
  <2>3. CASE load[i] = 0
    <3>1. PICK j \in Instrs : j < i /\ operand[j] = v
      BY <1>1, <1>4, <2>3 DEF Loads
    <3>2. value[v] = n
      BY <1>1, <1>2, <1>3, <1>6, <3>1 DEF Held
    <3> QED
      BY <2>1, <2>3, <3>2 DEF Loaded
  <2> QED
    BY <2>2, <2>3
<1>9. block[i] # "use" => Loaded = value
  BY <1>5 DEF Loaded
<1>10. block[i] # "other" => v \in Instrs
  BY <1>1, <1>2, <1>3
<1>11. Defines(taken') => n' = i /\ value'[v] = i
  BY <1>1, <1>2, <1>9, <1>10 DEF Run, Defines
<1>12. block[i] \in {"def", "move_else"} => value'[v] = n'
  <2>1. CASE block[i] = "def"
    BY <1>11, <2>1 DEF Defines
  <2>2. CASE block[i] = "move_else" /\ ~taken'
    BY <1>11, <2>2 DEF Defines
  <2>3. CASE block[i] = "move_else" /\ taken'
    <3>1. taken' = taken /\ n' = n /\ value' = value
      BY <1>9, <2>3 DEF Run, Defines
    <3>2. operand[i - 1] = v /\ i - 1 \in Instrs
      BY <1>1, <1>4, <2>3 DEF Pairs
    <3>3. value[v] = n \/ ElsePending
      BY <1>1, <1>3, <2>3, <3>2 DEF Held
    <3> QED
      BY <2>3, <3>1, <3>3 DEF ElsePending
  <2> QED
    BY <2>1, <2>2, <2>3
<1>13. block[i] \notin Definition => n' = n
  BY DEF Run, Defines, Definition
<1>14. slot' = n' \/ StorePending'
  <2>1. CASE store[i] # 0
    <3>1. store[i] = v /\ block[i] \in {"def", "move_else"}
      BY <1>1, <1>4, <2>1 DEF Stores, Definition
    <3> QED
      BY <1>12, <2>1, <3>1 DEF Run
  <2>2. CASE store[i] = 0 /\ block[i] \in Definition
    <3>1. PICK k \in Instrs : i <= k /\ store[k] = operand[i]
      BY <1>1, <1>3, <1>4, <2>2 DEF Stores, Definition
    <3>2. k # i /\ store[k] = operand[k]
      BY <1>1, <1>3, <1>4, <2>2, <3>1 DEF Stores, Definition
    <3> QED
      <4>1. i < i + 1 /\ i + 1 <= k
        BY <1>1, <3>1, <3>2
      <4>2. UNCHANGED <<block, operand, store>> /\ Instrs' = Instrs /\ i' = i + 1 /\ i \in Instrs
        BY <1>1 DEF rewriteVars, Instrs
      <4>3. operand[i] = operand[k] /\ block[i] \in Definition
        BY <2>2, <3>1, <3>2
      <4>4. \E j, m \in Instrs' :
              /\ j < i' /\ i' <= m /\ block'[j] \in Definition
              /\ operand'[j] = operand'[m] /\ store'[m] = operand'[m]
        BY <3>2, <4>1, <4>2, <4>3
      <4> QED
        BY <4>4 DEF StorePending
  <2>3. CASE store[i] = 0 /\ block[i] \notin Definition
    <3>1. slot' = slot /\ n' = n
      BY <1>13, <2>3 DEF Run
    <3>2. StorePending => StorePending'
      BY <1>1, <1>2, <1>3, <2>3 DEF StorePending, Instrs, rewriteVars, Definition
    <3> QED
      BY <1>1, <3>1, <3>2 DEF Held
  <2> QED
    BY <2>1, <2>2, <2>3
<1>15. ASSUME NEW j \in Instrs, NEW k \in Instrs,
              j < i + 1, i + 1 <= k, operand[j] # 0, operand[j] = operand[k]
       PROVE  value'[operand[j]] = n' \/ ElsePending'
  <2>1. CASE block[i] = "other"
    <3>1. value' = value /\ n' = n /\ j # i
      BY <1>3, <1>9, <1>15, <2>1 DEF Run, Defines
    <3> QED
      BY <1>1, <1>6, <1>15, <2>1, <3>1 DEF Held
  <2>2. CASE block[i] # "other"
    <3>1. operand[j] = v
      BY <1>1, <1>7, <1>15, <2>2
    <3>2. CASE block[i] \in {"use", "def", "move_else"}
      BY <1>8, <1>12, <3>1, <3>2
    <3>3. CASE block[i] = "move_if" /\ taken'
      BY <1>11, <3>1, <3>3 DEF Defines
    <3>4. CASE block[i] = "move_if" /\ ~taken'
      BY <1>1, <3>4 DEF ElsePending
    <3> QED
      BY <1>1, <2>2, <3>2, <3>3, <3>4 DEF Kind
  <2> QED
    BY <2>1, <2>2
<1>16. Held'
  BY <1>1, <1>14, <1>15 DEF Held, Instrs, rewriteVars
<1>17. SpilledValueKept'
  <2>1. saw' = IF block[i] = "use" THEN <<value'[v], n'>> ELSE saw
    BY DEF Run
  <2> QED
    BY <1>1, <1>8, <2>1 DEF SpilledValueKept
<1> QED
  BY <1>16, <1>17

LEMMA EndRunKeeps ==
  ASSUME TypeOK, Held, SpilledValueKept, EndRun
  PROVE  Held' /\ SpilledValueKept'
<1>1. /\ Instrs = 1 .. Len(block) /\ Len(block) \in Nat /\ i > Len(block) /\ i \in Int
      /\ pc = "run" /\ pc' = "done" /\ UNCHANGED <<block, i, rewriteVars, runVars>>
  BY BlockFacts DEF TypeOK, EndRun
<1>2. slot = n
  BY <1>1 DEF Held, StorePending
<1> QED
  BY <1>1, <1>2 DEF Held, SpilledValueKept, StorePending, ElsePending, Instrs, rewriteVars, runVars

\* Each use reads what n would hold, and the slot holds it at the end, in every
\* block in which no span can end between two conditional moves.
THEOREM SpillingKeepsValue == Spec => [](UncutPairs(block) => SpilledValueKept)
<1>1. Init => Kept
  <2> SUFFICES ASSUME Init PROVE Rewritten /\ Rewriting /\ Held /\ SpilledValueKept
    BY DEF Kept
  <2>1. Instrs = 1 .. Len(block) /\ Len(block) \in Nat
    BY BlockFacts DEF Init
  <2>2. /\ Reached = 1 /\ vreg = 0 /\ first_use = 0 /\ last_def = 0
        /\ \A j \in Instrs : operand[j] = 0 /\ load[j] = 0 /\ store[j] = 0 /\ ~(j < 1)
    BY <2>1 DEF Init, Reached, Instrs
  <2>3. Rewritten
    BY <2>1, <2>2 DEF Rewritten, WellRewritten, Spans, Loads, Stores, Pairs
  <2> QED
    BY <2>3 DEF Init, Rewriting, Held, SpilledValueKept
<1>2. TypeOK /\ Named /\ Kept /\ [Next]_vars => Kept'
  <2> SUFFICES ASSUME TypeOK, Named, Kept, [Next]_vars, UncutPairs(block)'
               PROVE  Rewritten' /\ Rewriting' /\ Held' /\ SpilledValueKept'
    BY DEF Kept
  <2>1. block' = block
    BY DEF Next, Rewrite, EndOfBlock, Run, EndRun, vars
  <2>2. UncutPairs(block) /\ Rewritten /\ Rewriting /\ Held /\ SpilledValueKept
    BY <2>1 DEF Kept, UncutPairs
  <2>3. CASE Rewrite
    BY <2>2, <2>3, RewriteKeeps DEF Rewrite, Rewriting, Held, SpilledValueKept, runVars
  <2>4. CASE EndOfBlock
    <3>1. /\ pc' = "run" /\ vreg' = 0 /\ i' = 1 /\ slot' = slot /\ n' = n /\ saw' = saw
          /\ slot = n
      BY <2>2, <2>4 DEF EndOfBlock, Checkpoint, Rewriting, runVars
    <3>2. \A j \in Instrs' : ~(j < 1)
      BY <2>1, BlockFacts DEF TypeOK, Instrs
    <3> QED
      BY <2>2, <2>4, <3>1, <3>2, EndOfBlockKeeps DEF Rewriting, Held, SpilledValueKept
  <2>5. CASE Run \/ EndRun
    <3>1. Held' /\ SpilledValueKept'
      BY <2>2, <2>5, RunKeeps, EndRunKeeps
    <3>2. pc # "rewrite" /\ pc' # "rewrite" /\ UNCHANGED <<block, rewriteVars>>
      BY <2>5 DEF Run, EndRun
    <3>3. Rewriting' /\ Reached' = Reached
      BY <2>2, <3>2 DEF Rewriting, Reached, rewriteVars
    <3> QED
      BY <2>2, <3>1, <3>2, <3>3
      DEF Rewritten, WellRewritten, Spans, Loads, Stores, Pairs, DefinedBefore, Instrs, rewriteVars
  <2>6. CASE UNCHANGED vars
    BY <2>2, <2>6
    DEF vars, Rewritten, WellRewritten, Spans, Loads, Stores, Pairs, DefinedBefore, Instrs,
        Reached, Rewriting, Held, StorePending, ElsePending, SpilledValueKept
  <2> QED
    BY <2>3, <2>4, <2>5, <2>6 DEF Next
<1>3. Kept => (UncutPairs(block) => SpilledValueKept)
  BY DEF Kept
<1> QED
  BY <1>1, <1>2, <1>3, WellTyped, PTL DEF Spec

=============================================================================
