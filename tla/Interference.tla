---------------------------- MODULE Interference ----------------------------
(***************************************************************************)
(* From a function's instructions to the interference graph: liveness_     *)
(* analysis and the procedure build() of allocate_register, and what the   *)
(* graph is for: the function is then run with any colouring that gives    *)
(* different registers to adjacent operands.                               *)
(*                                                                         *)
(* An instruction is the pair of sets that get_def_use returns, and whether *)
(* it is a simple move.  A call defines the registers it clobbers; two     *)
(* conditional moves of a comparison's result count as one definition.     *)
(***************************************************************************)
EXTENDS Integers, Sequences

CONSTANTS
  Registers,     \* machine registers
  Virtuals,      \* virtual registers
  NumBlocks,     \* blocks are numbered in the order of MachineFunc::bb
  Programs       \* records [code, succ]

Operand == Registers \cup Virtuals
Block == 1 .. NumBlocks
Inst == [def : SUBSET Operand, use : SUBSET Operand, simple : BOOLEAN]

ASSUME SizeAssumption == NumBlocks \in Nat \ {0} /\ Registers \cap Virtuals = {}

ASSUME ProgramAssumption ==
  \A p \in Programs :
    /\ p.code \in [Block -> Seq(Inst)]
    /\ p.succ \in [Block -> SUBSET Block]
    /\ \A b \in Block : \A i \in 1 .. Len(p.code[b]) :
         p.code[b][i].simple => \E d, s \in Operand : p.code[b][i].def = {d} /\ p.code[b][i].use = {s}

VARIABLES
  code, succ,                        \* the function
  liveuse, def, livein, liveout,     \* fields of MachineBB
  changed,
  bb, k,         \* the block and the instruction that are visited
  live,          \* operands live after instruction k
  adj_set,
  color,         \* the register of each virtual register
  holds,         \* for each register, the operands whose value it holds
  pc             \* "scan", "flow", "build", "color", "run"

function == <<code, succ>>
flowVars == <<liveuse, def, livein, liveout, changed>>
buildVars == <<live, adj_set>>
runVars == <<color, holds>>
vars == <<code, succ, liveuse, def, livein, liveout, changed, bb, k, live, adj_set,
          color, holds, pc>>

Def(b, i) == code[b][i].def
Use(b, i) == code[b][i].use
Simple(b, i) == code[b][i].simple

-----------------------------------------------------------------------------
(* What is live, by paths: an operand is live at a point if some path from *)
(* there uses it before any definition of it.                              *)

Exposed(b) ==
  {o \in Operand : \E i \in 1 .. Len(code[b]) :
     o \in Use(b, i) /\ \A j \in 1 .. i - 1 : o \notin Def(b, j)}
Defined(b) == {o \in Operand : \E i \in 1 .. Len(code[b]) : o \in Def(b, i)}

\* S has every block that starts a path to a use of o.
ClosedFor(o, S) ==
  \A b \in Block :
    \/ o \in Exposed(b)
    \/ o \notin Defined(b) /\ succ[b] \cap S # {}
    => b \in S

LiveIn(b) == {o \in Operand : \A S \in SUBSET Block : ClosedFor(o, S) => b \in S}
LiveOut(b) == {o \in Operand : \E c \in succ[b] : o \in LiveIn(c)}

LiveAfter(b, i) ==
  {o \in Operand :
     \/ \E j \in i + 1 .. Len(code[b]) :
          o \in Use(b, j) /\ \A m \in i + 1 .. j - 1 : o \notin Def(b, m)
     \/ o \in LiveOut(b) /\ \A m \in i + 1 .. Len(code[b]) : o \notin Def(b, m)}

-----------------------------------------------------------------------------
\* Codegen defines a virtual register before it is used: none is live at entry.
Init ==
  /\ \E p \in Programs : code = p.code /\ succ = p.succ
  /\ LiveIn(1) \subseteq Registers
  /\ liveuse = [b \in Block |-> {}] /\ def = liveuse /\ livein = liveuse /\ liveout = liveuse
  /\ changed = TRUE
  /\ bb = 1 /\ k = 1
  /\ live = {} /\ adj_set = {}
  /\ color = [v \in Virtuals |-> {}] /\ holds = [r \in Registers |-> {}]
  /\ pc = "scan"

(* liveness_analysis: uses before definitions, and definitions, of a block *)
\* Mutant: a use that follows a definition in the block counts as exposed.
ScanInstExposesAll ==
  /\ pc = "scan" /\ k <= Len(code[bb])
  /\ liveuse' = [liveuse EXCEPT ![bb] = @ \cup Use(bb, k)]
  /\ def' = [def EXCEPT ![bb] = @ \cup (Def(bb, k) \ liveuse'[bb])]
  /\ k' = k + 1
  /\ UNCHANGED <<function, livein, liveout, changed, bb, buildVars, runVars, pc>>

ScanInst ==
  /\ pc = "scan" /\ k <= Len(code[bb])
  /\ liveuse' = [liveuse EXCEPT ![bb] = @ \cup (Use(bb, k) \ def[bb])]
  /\ def' = [def EXCEPT ![bb] = @ \cup (Def(bb, k) \ liveuse'[bb])]
  /\ k' = k + 1
  /\ UNCHANGED <<function, livein, liveout, changed, bb, buildVars, runVars, pc>>

\* Mutant: one block too many.
ScanEndOnePast ==
  /\ pc = "scan" /\ k > Len(code[bb])
  /\ livein' = [livein EXCEPT ![bb] = liveuse[bb]]
  /\ liveout' = [liveout EXCEPT ![bb] = {}]
  /\ IF bb <= NumBlocks
     THEN bb' = bb + 1 /\ pc' = "scan" /\ UNCHANGED changed
     ELSE bb' = 1 /\ pc' = "flow" /\ changed' = FALSE
  /\ k' = 1
  /\ UNCHANGED <<function, liveuse, def, buildVars, runVars>>

ScanEnd ==
  /\ pc = "scan" /\ k > Len(code[bb])
  /\ livein' = [livein EXCEPT ![bb] = liveuse[bb]]
  /\ liveout' = [liveout EXCEPT ![bb] = {}]
  /\ IF bb < NumBlocks
     THEN bb' = bb + 1 /\ pc' = "scan" /\ UNCHANGED changed
     ELSE bb' = 1 /\ pc' = "flow" /\ changed' = FALSE
  /\ k' = 1
  /\ UNCHANGED <<function, liveuse, def, buildVars, runVars>>

(* the fixpoint over the blocks *)
NewOut(b) == UNION {livein[c] : c \in succ[b]}

\* Mutant: every visit of a block asks for another turn.
FlowBlockAlwaysChanged ==
  /\ pc = "flow" /\ bb <= NumBlocks
  /\ changed' = TRUE
  /\ liveout' = [liveout EXCEPT ![bb] = NewOut(bb)]
  /\ livein' = [livein EXCEPT ![bb] = liveuse[bb] \cup (NewOut(bb) \ def[bb])]
  /\ bb' = bb + 1
  /\ UNCHANGED <<function, liveuse, def, k, buildVars, runVars, pc>>

FlowBlock ==
  /\ pc = "flow" /\ bb <= NumBlocks
  /\ IF NewOut(bb) # liveout[bb]
     THEN /\ changed' = TRUE
          /\ liveout' = [liveout EXCEPT ![bb] = NewOut(bb)]
          /\ livein' = [livein EXCEPT ![bb] = liveuse[bb] \cup (NewOut(bb) \ def[bb])]
     ELSE UNCHANGED <<changed, liveout, livein>>
  /\ bb' = bb + 1
  /\ UNCHANGED <<function, liveuse, def, k, buildVars, runVars, pc>>

FlowEnd ==
  /\ pc = "flow" /\ bb > NumBlocks
  /\ IF changed
     THEN bb' = 1 /\ changed' = FALSE /\ UNCHANGED <<k, live, pc>>
     ELSE /\ bb' = NumBlocks /\ k' = Len(code[NumBlocks]) /\ live' = liveout[NumBlocks]
          /\ pc' = "build" /\ UNCHANGED changed
  /\ UNCHANGED <<function, liveuse, def, livein, liveout, adj_set, runVars>>

-----------------------------------------------------------------------------
(* build(): blocks and instructions from the last to the first.            *)

\* Mutant: the use of any instruction is taken for the source of a move.
BuildInstAllMoves ==
  /\ pc = "build" /\ k >= 1
  /\ LET around == (live \ Use(bb, k)) \cup Def(bb, k)
         pairs == {e \in around \X Def(bb, k) : e[1] # e[2]}
     IN  /\ adj_set' = adj_set \cup pairs \cup {<<e[2], e[1]>> : e \in pairs}
         /\ live' = (around \ Def(bb, k)) \cup Use(bb, k)
  /\ k' = k - 1
  /\ UNCHANGED <<function, flowVars, bb, runVars, pc>>

BuildInst ==
  /\ pc = "build" /\ k >= 1
  /\ LET around == (live \ (IF Simple(bb, k) THEN Use(bb, k) ELSE {})) \cup Def(bb, k)
         pairs == {e \in around \X Def(bb, k) : e[1] # e[2]}
     IN  /\ adj_set' = adj_set \cup pairs \cup {<<e[2], e[1]>> : e \in pairs}
         /\ live' = (around \ Def(bb, k)) \cup Use(bb, k)
  /\ k' = k - 1
  /\ UNCHANGED <<function, flowVars, bb, runVars, pc>>

BuildBlock ==
  /\ pc = "build" /\ k = 0
  /\ IF bb > 1
     THEN /\ bb' = bb - 1 /\ k' = Len(code[bb - 1]) /\ live' = liveout[bb - 1]
          /\ UNCHANGED pc
     ELSE pc' = "color" /\ UNCHANGED <<bb, k, live>>
  /\ UNCHANGED <<function, flowVars, adj_set, runVars>>

-----------------------------------------------------------------------------
(* The colours, whichever the rounds of AllocateRegister may find, and the *)
(* function that runs with them.                                           *)

ColorOf(o) == IF o \in Registers THEN o ELSE color[o]

Color ==
  /\ pc = "color"
  /\ color' \in [Virtuals -> Registers]
  /\ \A e \in adj_set : {e[1], e[2]} \subseteq Registers \/ ColorOf(e[1])' # ColorOf(e[2])'
  /\ holds' = [r \in Registers |-> {r}]
  /\ bb' = 1 /\ k' = 1 /\ pc' = "run"
  /\ UNCHANGED <<function, flowVars, buildVars>>

\* A register that two operands are written to at once holds neither for sure.
Write(D) ==
  [r \in Registers |->
     LET here == {d \in D : ColorOf(d) = r}
     IN  IF here = {} THEN holds[r] \ D ELSE {d \in here : here = {d}}]

\* d takes the value of s, wherever that is held, and d's register that of s's.
Copy(d, s) ==
  LET after(r) == (holds[r] \ {d}) \cup (IF s \in holds[r] THEN {d} ELSE {})
  IN  [r \in Registers |-> after(IF r = ColorOf(d) THEN ColorOf(s) ELSE r)]

RunInst ==
  /\ pc = "run" /\ k <= Len(code[bb])
  /\ IF Simple(bb, k)
     THEN \E d \in Def(bb, k), s \in Use(bb, k) : holds' = Copy(d, s)
     ELSE holds' = Write(Def(bb, k))
  /\ k' = k + 1
  /\ UNCHANGED <<function, flowVars, buildVars, color, bb, pc>>

RunJump ==
  /\ pc = "run" /\ k > Len(code[bb])
  /\ bb' \in succ[bb] /\ k' = 1
  /\ UNCHANGED <<function, flowVars, buildVars, runVars, pc>>

Next == ScanInst \/ ScanEnd \/ FlowBlock \/ FlowEnd \/ BuildInst \/ BuildBlock \/ Color
        \/ RunInst \/ RunJump

Spec == Init /\ [][Next]_vars
FairSpec == Spec /\ WF_vars(Next)

-----------------------------------------------------------------------------
TypeOK ==
  /\ code \in [Block -> Seq(Inst)] /\ succ \in [Block -> SUBSET Block]
  /\ liveuse \in [Block -> SUBSET Operand] /\ def \in [Block -> SUBSET Operand]
  /\ livein \in [Block -> SUBSET Operand] /\ liveout \in [Block -> SUBSET Operand]
  /\ changed \in BOOLEAN
  /\ bb \in 1 .. NumBlocks + 1 /\ k \in Nat
  /\ pc # "flow" => bb \in Block /\ k <= Len(code[bb]) + 1
  /\ live \subseteq Operand /\ adj_set \subseteq Operand \X Operand
  /\ holds \in [Registers -> SUBSET Operand]
  /\ pc \in {"scan", "flow", "build", "color", "run"}
  /\ pc = "run" => color \in [Virtuals -> Registers]

\* When the graph has been built, livein and liveout are what paths say: nothing live
\* is missed around loops, and nothing dead is kept alive.
LivenessExact ==
  pc = "color" =>
    \A b \in Block : livein[b] = LiveIn(b) /\ liveout[b] = LiveOut(b)

\* A colouring of the graph keeps every value until its last use: each operand
\* that an instruction uses is in its register, on every path.
ValuesKept ==
  pc = "run" /\ k <= Len(code[bb]) => \A o \in Use(bb, k) : o \in holds[ColorOf(o)]

\* The analysis ends and the graph is built.
GraphBuilt == <>(pc = "color")

=============================================================================
