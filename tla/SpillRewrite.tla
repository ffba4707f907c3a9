---------------------------- MODULE SpillRewrite ----------------------------
(***************************************************************************)
(* The rewriting of one basic block for one spilled virtual register n,    *)
(* between two rounds of allocate_register: each use of n becomes a use, and *)
(* each definition a definition, of a short-lived virtual register, which is *)
(* loaded from n's stack slot before its first use and stored to it after  *)
(* its last definition.  The rewritten block is then run beside the original *)
(* one, to compare the values they see.                                    *)
(*                                                                         *)
(* An instruction is abstracted to what it does with n.  A comparison whose *)
(* result is n ends in the two conditional moves "move_if" and "move_else", *)
(* of which exactly one takes place.  No instruction that codegen emits    *)
(* both uses and defines one virtual register.  The instruction that       *)
(* computes an offset beyond 12 bits for the access is not modelled.       *)
(***************************************************************************)
EXTENDS Integers, Sequences

CONSTANTS
  Blocks,    \* the blocks to rewrite, sequences over Kind
  Span       \* a span is cut after every instruction with an index above it (30)

Kind == {"other", "use", "def", "move_if", "move_else"}
Definition == {"def", "move_if", "move_else"}

\* The two conditional moves come together.
ASSUME BlockAssumption ==
  \A b \in Blocks :
    /\ b \in Seq(Kind)
    /\ \A j \in DOMAIN b : b[j] = "move_if" => j < Len(b) /\ b[j + 1] = "move_else"
    /\ \A j \in DOMAIN b : b[j] = "move_else" => j > 1 /\ b[j - 1] = "move_if"

ASSUME SpanAssumption == Span \in Nat

VARIABLES
  block,
  i,             \* instruction that is rewritten, or run
  vreg,          \* the virtual register of the current span, 0 if none
  first_use, last_def,      \* instructions, 0 if none
  operand,       \* what n was replaced by in each instruction
  load, store,   \* virtual register loaded before, stored after an instruction
  value,         \* of each new virtual register
  slot, n,       \* of the stack slot, and of n in the original block
  taken,         \* the condition of the last comparison
  saw,           \* what the last use read, in the rewritten and the original block
  pc             \* "rewrite", "run" or "done"

rewriteVars == <<vreg, first_use, last_def, operand, load, store>>
runVars == <<value, slot, n, taken, saw>>
vars == <<block, i, vreg, first_use, last_def, operand, load, store, value, slot, n,
          taken, saw, pc>>

\* Values: the instruction that defined it, the value n has at the entry, or
\* what a register happens to hold.
Entry == 0
Garbage == -1
Value == {Garbage, Entry} \cup 1 .. Len(block)

Init ==
  /\ block \in Blocks
  /\ i = 1 /\ vreg = 0 /\ first_use = 0 /\ last_def = 0
  /\ operand = [j \in DOMAIN block |-> 0]
  /\ load = operand /\ store = operand
  /\ value = [j \in DOMAIN block |-> Garbage]
  /\ slot = Entry /\ n = Entry
  /\ taken \in BOOLEAN /\ saw = <<Entry, Entry>>
  /\ pc = "rewrite"

-----------------------------------------------------------------------------
(* Rewriting: the loop over the instructions of a block.                   *)

\* Mutant: the next span starts with the first use of this one.
CheckpointKeepsUse(v, u, d) ==
  /\ load' = IF u = 0 THEN load ELSE [load EXCEPT ![u] = v]
  /\ store' = IF d = 0 THEN store ELSE [store EXCEPT ![d] = v]
  /\ vreg' = 0 /\ first_use' = u /\ last_def' = 0

\* The lambda checkpoint, for a span v that first needs n at u and last sets it at d.
Checkpoint(v, u, d) ==
  /\ load' = IF u = 0 THEN load ELSE [load EXCEPT ![u] = v]
  /\ store' = IF d = 0 THEN store ELSE [store EXCEPT ![d] = v]
  /\ vreg' = 0 /\ first_use' = 0 /\ last_def' = 0

\* Mutant: a use after a definition of the span is loaded from the slot too.
RewriteLoadsAll ==
  /\ pc = "rewrite" /\ i <= Len(block)
  /\ LET v == IF block[i] # "other" /\ vreg = 0 THEN i ELSE vreg
         u == IF block[i] = "use" /\ first_use = 0 THEN i ELSE first_use
         d == IF block[i] \in Definition THEN i ELSE last_def
     IN  /\ operand' = [operand EXCEPT ![i] = IF block[i] = "other" THEN 0 ELSE v]
         /\ IF i - 1 > Span
            THEN Checkpoint(v, u, d)
            ELSE /\ vreg' = v /\ first_use' = u /\ last_def' = d
                 /\ UNCHANGED <<load, store>>
  /\ i' = i + 1
  /\ UNCHANGED <<block, runVars, pc>>

\* A new virtual register is named after the instruction that asked for it.
Rewrite ==
  /\ pc = "rewrite" /\ i <= Len(block)
  /\ LET v == IF block[i] # "other" /\ vreg = 0 THEN i ELSE vreg
         u == IF block[i] = "use" /\ first_use = 0 /\ last_def = 0 THEN i ELSE first_use
         d == IF block[i] \in Definition THEN i ELSE last_def
     IN  /\ operand' = [operand EXCEPT ![i] = IF block[i] = "other" THEN 0 ELSE v]
         /\ IF i - 1 > Span
            THEN Checkpoint(v, u, d)
            ELSE /\ vreg' = v /\ first_use' = u /\ last_def' = d
                 /\ UNCHANGED <<load, store>>
  /\ i' = i + 1
  /\ UNCHANGED <<block, runVars, pc>>

EndOfBlock ==
  /\ pc = "rewrite" /\ i > Len(block)
  /\ Checkpoint(vreg, first_use, last_def)
  /\ i' = 1 /\ pc' = "run"
  /\ UNCHANGED <<block, operand, runVars>>

-----------------------------------------------------------------------------
(* Both blocks, run together.                                              *)

Loaded == IF load[i] = 0 THEN value ELSE [value EXCEPT ![load[i]] = slot]

Defines(cond) ==
  block[i] = "def" \/ (block[i] = "move_if" /\ cond) \/ (block[i] = "move_else" /\ ~cond)

Run ==
  /\ pc = "run" /\ i <= Len(block)
  /\ taken' \in IF block[i] = "move_if" THEN BOOLEAN ELSE {taken}
  /\ IF Defines(taken')
     THEN n' = i /\ value' = [Loaded EXCEPT ![operand[i]] = i]
     ELSE n' = n /\ value' = Loaded
  /\ saw' = IF block[i] = "use" THEN <<value'[operand[i]], n'>> ELSE saw
  /\ slot' = IF store[i] = 0 THEN slot ELSE value'[store[i]]
  /\ i' = i + 1
  /\ UNCHANGED <<block, rewriteVars, pc>>

EndRun ==
  /\ pc = "run" /\ i > Len(block)
  /\ pc' = "done"
  /\ UNCHANGED <<block, i, rewriteVars, runVars>>

Next == Rewrite \/ EndOfBlock \/ Run \/ EndRun

Spec == Init /\ [][Next]_vars
FairSpec == Spec /\ WF_vars(Next)

-----------------------------------------------------------------------------
TypeOK ==
  /\ block \in Blocks /\ i \in 1 .. Len(block) + 1
  /\ vreg = 0 => first_use = 0 /\ last_def = 0
  /\ vreg \in 0 .. Len(block) /\ first_use \in 0 .. Len(block) /\ last_def \in 0 .. Len(block)
  /\ operand \in [DOMAIN block -> 0 .. Len(block)]
  /\ load \in [DOMAIN block -> 0 .. Len(block)] /\ store \in [DOMAIN block -> 0 .. Len(block)]
  /\ value \in [DOMAIN block -> Value]
  /\ slot \in Value /\ n \in Value /\ taken \in BOOLEAN /\ saw \in Value \X Value
  /\ pc \in {"rewrite", "run", "done"}

\* No span ends between two conditional moves: a cut comes only after
\* instructions Span + 2 and on.
UncutPairs(b) == \A j \in DOMAIN b : b[j] = "move_if" => j - 1 <= Span

\* Spilling changes where a value lives, not the value: each use reads what n
\* would hold, and the slot holds it at the end, for the blocks that follow.
SpilledValueKept == saw[1] = saw[2] /\ (pc = "done" => slot = n)

=============================================================================
