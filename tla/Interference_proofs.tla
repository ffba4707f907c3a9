------------------------- MODULE Interference_proofs -------------------------
(***************************************************************************)
(* Proofs about Interference for every function: the fixpoint computes the *)
(* operands that are live by paths, and any colouring of the graph keeps   *)
(* every value until its last use.  The invariant has one part for each    *)
(* phase: what has been scanned, what the fixpoint has reached, which edges *)
(* have been added, and which values the registers hold.                   *)
(***************************************************************************)
EXTENDS Interference, TLAPS

FunctionOK ==
  /\ code \in [Block -> Seq(Inst)]
  /\ succ \in [Block -> SUBSET Block]
  /\ \A b \in Block : \A i \in 1 .. Len(code[b]) :
       Simple(b, i) => \E d, s \in Operand : Def(b, i) = {d} /\ Use(b, i) = {s}
  /\ LiveIn(1) \subseteq Registers

\* Used before any definition, and defined, among the first n instructions.
ExposedIn(b, n) ==
  {o \in Operand : \E i \in 1 .. n : o \in Use(b, i) /\ \A j \in 1 .. i - 1 : o \notin Def(b, j)}
DefinedIn(b, n) == {o \in Operand : \E i \in 1 .. n : o \in Def(b, i)}

Scanned(b, n) == liveuse[b] = ExposedIn(b, n) /\ def[b] = DefinedIn(b, n) \ ExposedIn(b, n)

ScanInv ==
  /\ pc = "scan" =>
       /\ bb \in Block /\ k \in 1 .. Len(code[bb]) + 1
       /\ Scanned(bb, k - 1)
       /\ \A b \in Block : b > bb => liveuse[b] = {} /\ def[b] = {}
       /\ \A b \in Block : b < bb => livein[b] = liveuse[b]
       /\ \A b \in Block : liveout[b] = {}
       /\ \A b \in Block : b < bb => Scanned(b, Len(code[b]))
  /\ pc # "scan" => \A b \in Block : Scanned(b, Len(code[b]))

FlowInv ==
  /\ pc = "flow" =>
       /\ bb \in 1 .. NumBlocks + 1
       /\ \A b \in Block : /\ livein[b] = liveuse[b] \cup (liveout[b] \ def[b])
                           /\ livein[b] \subseteq LiveIn(b)
                           /\ liveout[b] \subseteq NewOut(b)
       /\ ~changed => \A b \in Block : b < bb => liveout[b] = NewOut(b)
  /\ pc \in {"build", "color", "run"} =>
       \A b \in Block : livein[b] = LiveIn(b) /\ liveout[b] = LiveOut(b)

\* The edges of instruction i of b are in the graph.
EdgesAt(b, i) ==
  \A d \in Def(b, i) :
    \A l \in (LiveAfter(b, i) \ (IF Simple(b, i) THEN Use(b, i) ELSE {})) \cup Def(b, i) :
      l # d => <<l, d>> \in adj_set /\ <<d, l>> \in adj_set

BuildInv ==
  /\ pc = "build" =>
       /\ bb \in Block /\ k \in 0 .. Len(code[bb]) /\ live = LiveAfter(bb, k)
       /\ \A b \in Block : b > bb => \A i \in 1 .. Len(code[b]) : EdgesAt(b, i)
       /\ \A i \in k + 1 .. Len(code[bb]) : EdgesAt(bb, i)
  /\ pc \in {"color", "run"} => \A b \in Block : \A i \in 1 .. Len(code[b]) : EdgesAt(b, i)

RunInv ==
  pc = "run" =>
    /\ bb \in Block /\ k \in 1 .. Len(code[bb]) + 1
    /\ \A e \in adj_set : {e[1], e[2]} \subseteq Registers \/ ColorOf(e[1]) # ColorOf(e[2])
    /\ \A o \in LiveAfter(bb, k - 1) : o \in holds[ColorOf(o)]

Inv == TypeOK /\ FunctionOK /\ ScanInv /\ FlowInv /\ BuildInv /\ RunInv

-----------------------------------------------------------------------------
(* Liveness by paths satisfies the equations of the analysis.              *)

LEMMA Access ==
  ASSUME FunctionOK, NEW b \in Block, NEW i \in 1 .. Len(code[b])
  PROVE  /\ Def(b, i) \subseteq Operand /\ Use(b, i) \subseteq Operand
         /\ Simple(b, i) \in BOOLEAN /\ Len(code[b]) \in Nat
<1>1. code[b] \in Seq(Inst)
  BY DEF FunctionOK
<1>2. code[b][i] \in Inst
  BY <1>1
<1> QED
  BY <1>1, <1>2 DEF Inst, Def, Use, Simple

LEMMA LenType == ASSUME FunctionOK, NEW b \in Block PROVE Len(code[b]) \in Nat
  BY DEF FunctionOK

LEMMA LiveInClosed ==
  ASSUME FunctionOK, NEW b \in Block
  PROVE  /\ Exposed(b) \subseteq LiveIn(b)
         /\ LiveOut(b) \ Defined(b) \subseteq LiveIn(b)
<1>1. Exposed(b) \subseteq LiveIn(b)
  BY DEF LiveIn, ClosedFor, Exposed
<1>2. ASSUME NEW o \in LiveOut(b), o \notin Defined(b) PROVE o \in LiveIn(b)
  <2>1. PICK c \in succ[b] : o \in LiveIn(c)
    BY DEF LiveOut
  <2>2. ASSUME NEW S \in SUBSET Block, ClosedFor(o, S) PROVE b \in S
    <3>1. c \in S
      BY <2>1, <2>2 DEF LiveIn
    <3> QED
      BY <1>2, <2>1, <2>2, <3>1 DEF ClosedFor
  <2> QED
    BY <2>2 DEF LiveIn, LiveOut
<1> QED
  BY <1>1, <1>2

LEMMA LiveInOpen ==
  ASSUME FunctionOK, NEW b \in Block
  PROVE  LiveIn(b) \subseteq Exposed(b) \cup (LiveOut(b) \ Defined(b))
<1> SUFFICES ASSUME NEW o \in LiveIn(b) PROVE o \in Exposed(b) \cup (LiveOut(b) \ Defined(b))
  OBVIOUS
<1> DEFINE S == {c \in Block : o \in Exposed(c) \cup (LiveOut(c) \ Defined(c))}
<1>1. o \in Operand
  BY DEF LiveIn
<1>2. \A c \in S : o \in LiveIn(c)
  BY LiveInClosed
<1>3. ASSUME NEW c \in Block, o \notin Defined(c), succ[c] \cap S # {} PROVE c \in S
  BY <1>1, <1>2, <1>3 DEF LiveOut
<1>4. ClosedFor(o, S)
  BY <1>3 DEF ClosedFor
<1>5. S \in SUBSET Block
  OBVIOUS
<1> HIDE DEF S
<1>6. b \in S
  BY <1>4, <1>5 DEF LiveIn
<1> QED
  BY <1>6 DEF S

LEMMA LiveAtStart == ASSUME FunctionOK, NEW b \in Block PROVE LiveAfter(b, 0) = LiveIn(b)
<1>1. LiveAfter(b, 0) = Exposed(b) \cup (LiveOut(b) \ Defined(b))
  BY LenType DEF LiveAfter, Exposed, Defined, LiveOut
<1> QED
  BY <1>1, LiveInClosed, LiveInOpen

LEMMA LiveAtEnd ==
  ASSUME FunctionOK, NEW b \in Block PROVE LiveAfter(b, Len(code[b])) = LiveOut(b)
  BY LenType DEF LiveAfter, LiveOut

LEMMA LiveBefore ==
  ASSUME FunctionOK, NEW b \in Block, NEW i \in 1 .. Len(code[b])
  PROVE  LiveAfter(b, i - 1) = Use(b, i) \cup (LiveAfter(b, i) \ Def(b, i))
<1>1. Use(b, i) \subseteq Operand /\ Len(code[b]) \in Nat
  BY Access
<1>2. ASSUME NEW o \in LiveAfter(b, i - 1) PROVE o \in Use(b, i) \/ o \in LiveAfter(b, i) \ Def(b, i)
  BY <1>1 DEF LiveAfter
<1>3. ASSUME NEW o \in Use(b, i) PROVE o \in LiveAfter(b, i - 1)
  BY <1>1 DEF LiveAfter
<1>4. ASSUME NEW o \in LiveAfter(b, i), o \notin Def(b, i) PROVE o \in LiveAfter(b, i - 1)
  <2>1. CASE \E j \in i + 1 .. Len(code[b]) : o \in Use(b, j) /\ \A m \in i + 1 .. j - 1 : o \notin Def(b, m)
    <3>1. PICK j \in i + 1 .. Len(code[b]) : o \in Use(b, j) /\ \A m \in i + 1 .. j - 1 : o \notin Def(b, m)
      BY <2>1
    <3>2. j \in (i - 1) + 1 .. Len(code[b]) /\ \A m \in (i - 1) + 1 .. j - 1 : o \notin Def(b, m)
      BY <1>1, <1>4, <3>1
    <3> QED
      BY <1>4, <3>1, <3>2 DEF LiveAfter
  <2>2. CASE o \in LiveOut(b) /\ \A m \in i + 1 .. Len(code[b]) : o \notin Def(b, m)
    <3>1. \A m \in (i - 1) + 1 .. Len(code[b]) : o \notin Def(b, m)
      BY <1>1, <1>4, <2>2
    <3> QED
      BY <1>4, <2>2, <3>1 DEF LiveAfter
  <2> QED
    BY <1>4, <2>1, <2>2 DEF LiveAfter
<1> QED
  BY <1>2, <1>3, <1>4

\* No step changes the function.
LEMMA FunctionFixed ==
  ASSUME UNCHANGED function
  PROVE  /\ FunctionOK => FunctionOK'
         /\ \A b, i : /\ Def(b, i)' = Def(b, i) /\ Use(b, i)' = Use(b, i)
                     /\ Simple(b, i)' = Simple(b, i) /\ LiveAfter(b, i)' = LiveAfter(b, i)
         /\ \A b : LiveIn(b)' = LiveIn(b) /\ LiveOut(b)' = LiveOut(b)
         /\ \A b, n : ExposedIn(b, n)' = ExposedIn(b, n) /\ DefinedIn(b, n)' = DefinedIn(b, n)
<1>1. code' = code /\ succ' = succ
  BY DEF function
<1>2. \A b, i : Def(b, i)' = Def(b, i) /\ Use(b, i)' = Use(b, i) /\ Simple(b, i)' = Simple(b, i)
  BY <1>1 DEF Def, Use, Simple
<1>3. \A b, n : ExposedIn(b, n)' = ExposedIn(b, n) /\ DefinedIn(b, n)' = DefinedIn(b, n)
  BY <1>2 DEF ExposedIn, DefinedIn
<1>4. \A b : Exposed(b)' = Exposed(b) /\ Defined(b)' = Defined(b)
  BY <1>1, <1>2 DEF Exposed, Defined
<1>5. \A o, S : ClosedFor(o, S)' <=> ClosedFor(o, S)
  BY <1>1, <1>4 DEF ClosedFor
<1>6. \A b : LiveIn(b)' = LiveIn(b)
  BY <1>5 DEF LiveIn
<1>7. \A b : LiveOut(b)' = LiveOut(b)
  BY <1>1, <1>6 DEF LiveOut
<1>8. \A b, i : LiveAfter(b, i)' = LiveAfter(b, i)
  BY <1>1, <1>2, <1>7 DEF LiveAfter
<1>9. FunctionOK => FunctionOK'
  BY <1>1, <1>2, <1>6 DEF FunctionOK
<1> QED
  BY <1>2, <1>3, <1>6, <1>7, <1>8, <1>9

LEMMA InitInv == Init => Inv
<1> SUFFICES ASSUME Init PROVE Inv
  OBVIOUS
<1>1. PICK p \in Programs : code = p.code /\ succ = p.succ
  BY DEF Init
<1>2. FunctionOK
  <2>1. \A b \in Block : \A i \in 1 .. Len(code[b]) :
          code[b][i].simple => \E d, s \in Operand : code[b][i].def = {d} /\ code[b][i].use = {s}
    BY <1>1, ProgramAssumption
  <2>2. code \in [Block -> Seq(Inst)] /\ succ \in [Block -> SUBSET Block]
    BY <1>1, ProgramAssumption
  <2>3. LiveIn(1) \subseteq Registers
    BY DEF Init
  <2> QED
    BY <2>1, <2>2, <2>3 DEF FunctionOK, Simple, Def, Use
<1>3. NumBlocks \in Nat /\ 1 \in Block /\ Len(code[1]) \in Nat
  BY <1>2, SizeAssumption, LenType DEF Block
<1>4. TypeOK
  <2>1. /\ liveuse = [b \in Block |-> {}] /\ def = liveuse /\ livein = liveuse /\ liveout = liveuse
        /\ changed = TRUE /\ bb = 1 /\ k = 1 /\ live = {} /\ adj_set = {}
        /\ holds = [r \in Registers |-> {}] /\ pc = "scan"
    BY DEF Init
  <2>2. bb \in 1 .. NumBlocks + 1 /\ k \in Nat /\ bb \in Block /\ k <= Len(code[bb]) + 1
    BY <1>3, <2>1
  <2>3. holds \in [Registers -> SUBSET Operand]
    BY <2>1
  <2>4. code \in [Block -> Seq(Inst)] /\ succ \in [Block -> SUBSET Block]
    BY <1>2 DEF FunctionOK
  <2> QED
    BY <2>1, <2>2, <2>3, <2>4 DEF TypeOK
<1>5. ScanInv
  BY <1>3 DEF Init, ScanInv, Scanned, ExposedIn, DefinedIn, Block
<1>6. FlowInv /\ BuildInv /\ RunInv
  BY DEF Init, FlowInv, BuildInv, RunInv
<1> QED
  BY <1>2, <1>4, <1>5, <1>6 DEF Inv

-----------------------------------------------------------------------------
(* liveness_analysis                                                       *)

LEMMA ScanInstInv == Inv /\ ScanInst => Inv'
<1> SUFFICES ASSUME Inv, ScanInst PROVE Inv'
  OBVIOUS
<1>1. /\ TypeOK /\ FunctionOK /\ ScanInv /\ pc = "scan" /\ pc' = "scan"
      /\ code' = code /\ succ' = succ /\ livein' = livein /\ liveout' = liveout
      /\ UNCHANGED <<function, changed, bb, buildVars, runVars>>
      /\ bb \in Block /\ k \in 1 .. Len(code[bb]) /\ k' = k + 1 /\ Len(code[bb]) \in Nat
  <2>1. bb \in Block /\ k \in 1 .. Len(code[bb]) + 1 /\ k <= Len(code[bb])
    BY DEF Inv, ScanInv, ScanInst
  <2>2. Len(code[bb]) \in Nat
    BY <2>1, LenType DEF Inv
  <2> QED
    BY <2>1, <2>2 DEF Inv, ScanInst, function
<1>2. Use(bb, k) \subseteq Operand /\ Def(bb, k) \subseteq Operand
  BY <1>1, Access
<1>3. /\ liveuse' = [liveuse EXCEPT ![bb] = @ \cup (Use(bb, k) \ def[bb])]
      /\ def' = [def EXCEPT ![bb] = @ \cup (Def(bb, k) \ liveuse'[bb])]
  BY DEF ScanInst
<1>4. TypeOK'
  BY <1>1, <1>2, <1>3 DEF TypeOK, function, buildVars, runVars
<1>5. ExposedIn(bb, k) = ExposedIn(bb, k - 1) \cup (Use(bb, k) \ DefinedIn(bb, k - 1))
  BY <1>1, <1>2 DEF ExposedIn, DefinedIn
<1>6. DefinedIn(bb, k) = DefinedIn(bb, k - 1) \cup Def(bb, k)
  BY <1>1, <1>2 DEF DefinedIn
<1>7. liveuse'[bb] = ExposedIn(bb, k) /\ def'[bb] = DefinedIn(bb, k) \ ExposedIn(bb, k)
  BY <1>1, <1>3, <1>5, <1>6 DEF ScanInv, Scanned, TypeOK
<1>8. Scanned(bb, k - 1)'
  <2>1. code' = code /\ bb' = bb /\ k' - 1 = k
    BY <1>1
  <2>2. liveuse'[bb'] = ExposedIn(bb, k) /\ def'[bb'] = DefinedIn(bb, k) \ ExposedIn(bb, k)
    BY <1>7, <2>1
  <2> QED
    BY <2>1, <2>2 DEF Scanned, ExposedIn, DefinedIn, Def, Use
<1>9. \A b \in Block : b # bb => liveuse'[b] = liveuse[b] /\ def'[b] = def[b]
  BY <1>1, <1>3 DEF TypeOK
<1>10. \A b \in Block : b < bb => Scanned(b, Len(code[b]))'
  BY <1>1, <1>9, FunctionFixed DEF ScanInv, Scanned, Block
<1>11. /\ \A b \in Block : b > bb' => liveuse'[b] = {} /\ def'[b] = {}
       /\ \A b \in Block : b < bb' => livein'[b] = liveuse'[b]
  BY <1>1, <1>9 DEF ScanInv, Block
<1>12. k' \in 1 .. Len(code'[bb']) + 1
  BY <1>1
<1>13. ScanInv'
  <2>1. bb' = bb /\ bb' \in Block /\ pc' = "scan" /\ \A b \in Block : liveout'[b] = {}
    BY <1>1 DEF ScanInv
  <2>2. \A b \in Block : b < bb' => Scanned(b, Len(code[b]))'
    BY <1>10, <2>1
  <2> QED
    BY <1>8, <1>11, <1>12, <2>1, <2>2 DEF ScanInv
<1>14. FlowInv' /\ BuildInv' /\ RunInv'
  BY <1>1 DEF FlowInv, BuildInv, RunInv
<1> QED
  BY <1>1, <1>4, <1>13, <1>14, FunctionFixed DEF Inv

LEMMA ScanEndInv == Inv /\ ScanEnd => Inv'
<1> SUFFICES ASSUME Inv, ScanEnd PROVE Inv'
  OBVIOUS
<1>1. /\ TypeOK /\ FunctionOK /\ ScanInv /\ pc = "scan" /\ k' = 1
      /\ UNCHANGED <<function, liveuse, def, buildVars, runVars>>
      /\ bb \in Block /\ k = Len(code[bb]) + 1
      /\ NumBlocks \in Nat /\ NumBlocks >= 1
  <2>1. bb \in Block /\ k \in 1 .. Len(code[bb]) + 1 /\ k > Len(code[bb])
    BY DEF Inv, ScanInv, ScanEnd
  <2>2. Len(code[bb]) \in Nat
    BY <2>1, LenType DEF Inv
  <2> QED
    BY <2>1, <2>2, SizeAssumption DEF Inv, ScanEnd
<1>2. /\ livein' = [livein EXCEPT ![bb] = liveuse[bb]]
      /\ liveout' = [liveout EXCEPT ![bb] = {}]
      /\ \/ bb < NumBlocks /\ bb' = bb + 1 /\ pc' = "scan" /\ UNCHANGED changed
         \/ bb = NumBlocks /\ bb' = 1 /\ pc' = "flow" /\ changed' = FALSE
  BY <1>1 DEF ScanEnd, Block
<1>3. TypeOK'
  <2>1. bb' \in 1 .. NumBlocks + 1 /\ k' \in Nat /\ pc' \in {"scan", "flow"}
    BY <1>1, <1>2 DEF Block
  <2>3. changed' \in BOOLEAN
    BY <1>1, <1>2 DEF TypeOK
  <2>2. livein' \in [Block -> SUBSET Operand] /\ liveout' \in [Block -> SUBSET Operand]
    BY <1>1, <1>2 DEF TypeOK
  <2>4. pc' # "flow" => bb' \in Block /\ k' <= Len(code'[bb']) + 1
    <3>1. CASE bb < NumBlocks
      <4>1. bb' \in Block /\ code' = code
        BY <1>1, <1>2, <3>1 DEF Block, function
      <4> QED
        BY <1>1, <4>1, LenType
    <3> QED
      BY <1>1, <1>2, <3>1
  <2> QED
    BY <1>1, <2>1, <2>2, <2>3, <2>4 DEF TypeOK, function, buildVars, runVars
<1>4. \A b \in Block : Scanned(b, Len(code[b])) => Scanned(b, Len(code[b]))'
  BY <1>1, FunctionFixed DEF Scanned, function
<1>5. /\ \A b \in Block : b <= bb => Scanned(b, Len(code[b]))'
      /\ \A b \in Block : b <= bb => livein'[b] = liveuse'[b]
      /\ \A b \in Block : liveout'[b] = {}
  BY <1>1, <1>2, <1>4 DEF ScanInv, TypeOK, Block
<1>6. CASE bb < NumBlocks
  <2>1. bb' \in Block /\ pc' = "scan" /\ Len(code'[bb']) \in Nat
    BY <1>1, <1>2, <1>6, LenType DEF Block, function
  <2>2. Scanned(bb, k - 1)'
    <3>1. liveuse'[bb'] = {} /\ def'[bb'] = {} /\ k' - 1 = 0
      BY <1>1, <1>2, <1>6, <2>1 DEF ScanInv, Block
    <3> QED
      BY <3>1 DEF Scanned, ExposedIn, DefinedIn
  <2>3. ScanInv'
    BY <1>1, <1>2, <1>5, <1>6, <2>1, <2>2 DEF ScanInv, Block
  <2>4. FlowInv' /\ BuildInv' /\ RunInv'
    BY <2>1 DEF FlowInv, BuildInv, RunInv
  <2> QED
    BY <1>1, <1>3, <2>3, <2>4, FunctionFixed DEF Inv
<1>7. CASE bb = NumBlocks
  <2>1. bb' = 1 /\ pc' = "flow" /\ changed' = FALSE
    BY <1>1, <1>2, <1>7
  <2>2. ScanInv'
    BY <1>1, <1>5, <1>7, <2>1 DEF ScanInv, Block
  <2>3. \A b \in Block : livein'[b] \subseteq LiveIn(b)'
    <3>1. \A b \in Block : liveuse[b] = Exposed(b)
      BY <1>1, <1>4, <1>5, <1>7, FunctionFixed DEF Scanned, ExposedIn, Exposed, Block, function
    <3> QED
      BY <1>1, <1>5, <1>7, <3>1, LiveInClosed, FunctionFixed DEF Block
  <2>4. FlowInv'
    BY <1>1, <1>5, <1>7, <2>1, <2>3 DEF FlowInv, NewOut, Block
  <2>5. BuildInv' /\ RunInv'
    BY <2>1 DEF BuildInv, RunInv
  <2> QED
    BY <1>1, <1>3, <2>2, <2>4, <2>5, FunctionFixed DEF Inv
<1> QED
  BY <1>2, <1>6, <1>7

-----------------------------------------------------------------------------
(* The fixpoint                                                            *)

\* What the scan has left, in the words of the definition by paths.
LEMMA ScanResult ==
  ASSUME FunctionOK, ScanInv, pc # "scan", NEW b \in Block
  PROVE  liveuse[b] = Exposed(b) /\ def[b] = Defined(b) \ Exposed(b)
<1>1. Scanned(b, Len(code[b]))
  BY DEF ScanInv
<1>2. ExposedIn(b, Len(code[b])) = Exposed(b) /\ DefinedIn(b, Len(code[b])) = Defined(b)
  BY DEF ExposedIn, Exposed, DefinedIn, Defined
<1> QED
  BY <1>1, <1>2 DEF Scanned

\* One turn of the loop stays below liveness by paths.
LEMMA NewOutBelow ==
  ASSUME FunctionOK, NEW b \in Block, TypeOK, \A c \in Block : livein[c] \subseteq LiveIn(c)
  PROVE  NewOut(b) \subseteq LiveOut(b)
<1>1. \A c \in succ[b] : c \in Block
  BY DEF FunctionOK
<1>2. \A o \in NewOut(b) : \E c \in succ[b] : o \in livein[c] /\ o \in Operand
  BY <1>1 DEF NewOut, TypeOK
<1> QED
  BY <1>1, <1>2 DEF LiveOut

LEMMA FlowBlockInv == Inv /\ FlowBlock => Inv'
<1> SUFFICES ASSUME Inv, FlowBlock PROVE Inv'
  OBVIOUS
<1>1. /\ TypeOK /\ FunctionOK /\ ScanInv /\ FlowInv /\ pc = "flow" /\ pc' = "flow"
      /\ UNCHANGED <<function, liveuse, def, k, buildVars, runVars>>
      /\ code' = code /\ succ' = succ /\ bb \in Block /\ bb' = bb + 1 /\ NumBlocks \in Nat
  BY SizeAssumption DEF Inv, FlowBlock, TypeOK, Block, function
<1>2. \/ /\ changed' = TRUE
         /\ liveout' = [liveout EXCEPT ![bb] = NewOut(bb)]
         /\ livein' = [livein EXCEPT ![bb] = liveuse[bb] \cup (NewOut(bb) \ def[bb])]
      \/ UNCHANGED <<changed, liveout, livein>> /\ NewOut(bb) = liveout[bb]
  BY DEF FlowBlock
<1>3. /\ \A b \in Block : livein[b] = liveuse[b] \cup (liveout[b] \ def[b])
      /\ \A b \in Block : livein[b] \subseteq LiveIn(b)
      /\ \A b \in Block : liveout[b] \subseteq NewOut(b)
      /\ ~changed => \A b \in Block : b < bb => liveout[b] = NewOut(b)
  BY <1>1 DEF FlowInv
<1>4. NewOut(bb) \subseteq Operand
  BY <1>1, <1>3, NewOutBelow DEF LiveOut
<1>5. TypeOK'
  <2>1. bb' \in 1 .. NumBlocks + 1
    BY <1>1 DEF Block
  <2>2. changed' \in BOOLEAN
    BY <1>1, <1>2 DEF TypeOK
  <2>3. livein' \in [Block -> SUBSET Operand] /\ liveout' \in [Block -> SUBSET Operand]
    BY <1>1, <1>2, <1>4 DEF TypeOK
  <2> QED
    BY <1>1, <2>1, <2>2, <2>3 DEF TypeOK, function, buildVars, runVars
<1>6. \A b \in Block : Scanned(b, Len(code[b]))'
  BY <1>1, FunctionFixed DEF ScanInv, Scanned
<1>7. ScanInv'
  BY <1>1, <1>6 DEF ScanInv
<1>8. \A b \in Block : /\ b # bb => livein'[b] = livein[b] /\ liveout'[b] = liveout[b]
                      /\ liveout'[bb] = NewOut(bb)
                      /\ livein'[bb] = liveuse[bb] \cup (NewOut(bb) \ def[bb])
  BY <1>1, <1>2, <1>3 DEF TypeOK
<1>9. \A b \in Block : livein'[b] = liveuse'[b] \cup (liveout'[b] \ def'[b])
  BY <1>1, <1>3, <1>8
<1>10. \A b \in Block : livein'[b] \subseteq LiveIn(b)'
  <2>1. livein'[bb] \subseteq LiveIn(bb)
    BY <1>1, <1>3, <1>8, NewOutBelow, ScanResult, LiveInClosed
  <2> QED
    BY <1>1, <1>3, <1>8, <2>1, FunctionFixed
<1>11. \A b \in Block : livein[b] \subseteq livein'[b]
  BY <1>1, <1>3, <1>8
<1>12. \A b \in Block : NewOut(b) \subseteq NewOut(b)'
  BY <1>1, <1>11 DEF NewOut, FunctionOK
<1>13. \A b \in Block : liveout'[b] \subseteq NewOut(b)'
  BY <1>1, <1>3, <1>8, <1>12
<1>14. ~changed' => \A b \in Block : b < bb' => liveout'[b] = NewOut(b)'
  <2>1. CASE ~changed'
    <3>1. livein' = livein /\ liveout' = liveout /\ NewOut(bb) = liveout[bb] /\ ~changed
      BY <1>2, <2>1
    <3>2. \A b \in Block : NewOut(b)' = NewOut(b)
      BY <1>1, <3>1 DEF NewOut
    <3> QED
      BY <1>1, <1>3, <3>1, <3>2 DEF Block
  <2> QED
    BY <2>1
<1>15. FlowInv'
  <2>1. bb' \in 1 .. NumBlocks + 1
    BY <1>1 DEF Block
  <2> QED
    BY <1>1, <1>9, <1>10, <1>13, <1>14, <2>1 DEF FlowInv
<1>16. BuildInv' /\ RunInv'
  BY <1>1 DEF BuildInv, RunInv
<1> QED
  BY <1>1, <1>5, <1>7, <1>15, <1>16, FunctionFixed DEF Inv

\* Nothing changed in a whole turn: the fixpoint is liveness by paths.
LEMMA FixpointExact ==
  ASSUME TypeOK, FunctionOK, ScanInv, FlowInv, pc = "flow", ~changed, bb > NumBlocks
  PROVE  \A b \in Block : livein[b] = LiveIn(b) /\ liveout[b] = LiveOut(b)
<1>1. /\ \A b \in Block : livein[b] = liveuse[b] \cup (liveout[b] \ def[b])
      /\ \A b \in Block : livein[b] \subseteq LiveIn(b)
      /\ \A b \in Block : liveout[b] = NewOut(b)
  BY SizeAssumption DEF FlowInv, TypeOK, Block
<1>2. ASSUME NEW b \in Block, NEW o \in LiveIn(b) PROVE o \in livein[b]
  <2> DEFINE S == {c \in Block : o \in livein[c]}
  <2>1. ASSUME NEW c \in Block, o \in Exposed(c) PROVE c \in S
    BY <1>1, <2>1, ScanResult
  <2>2. ASSUME NEW c \in Block, o \notin Defined(c), succ[c] \cap S # {} PROVE c \in S
    <3>1. o \in NewOut(c)
      BY <2>2 DEF NewOut
    <3> QED
      BY <1>1, <2>2, <3>1, ScanResult
  <2>3. S \in SUBSET Block
    OBVIOUS
  <2> HIDE DEF S
  <2>4. ClosedFor(o, S)
    BY <2>1, <2>2 DEF ClosedFor
  <2>5. b \in S
    BY <1>2, <2>3, <2>4 DEF LiveIn
  <2> QED
    BY <2>5 DEF S
<1>3. \A b \in Block : livein[b] = LiveIn(b)
  BY <1>1, <1>2
<1>4. \A b \in Block : NewOut(b) = LiveOut(b)
  <2>1. ASSUME NEW b \in Block PROVE LiveOut(b) \subseteq NewOut(b)
    <3>1. \A c \in succ[b] : c \in Block
      BY DEF FunctionOK
    <3> QED
      BY <1>3, <3>1 DEF LiveOut, NewOut
  <2> QED
    BY <1>1, <2>1, NewOutBelow
<1> QED
  BY <1>1, <1>3, <1>4

LEMMA FlowEndInv == Inv /\ FlowEnd => Inv'
<1> SUFFICES ASSUME Inv, FlowEnd PROVE Inv'
  OBVIOUS
<1>1. /\ TypeOK /\ FunctionOK /\ ScanInv /\ FlowInv /\ pc = "flow" /\ bb > NumBlocks
      /\ UNCHANGED <<function, liveuse, def, livein, liveout, adj_set, runVars>>
      /\ code' = code /\ succ' = succ /\ livein' = livein /\ liveout' = liveout
      /\ NumBlocks \in Nat /\ NumBlocks \in Block
  BY SizeAssumption DEF Inv, FlowEnd, Block, function
<1>2. \A b \in Block : Scanned(b, Len(code[b]))'
  BY <1>1, FunctionFixed DEF ScanInv, Scanned
<1>3. CASE changed
  <2>1. bb' = 1 /\ changed' = FALSE /\ k' = k /\ live' = live /\ pc' = "flow"
    BY <1>1, <1>3 DEF FlowEnd
  <2>2. TypeOK'
    <3>1. bb' \in 1 .. NumBlocks + 1
      BY <1>1, <2>1
    <3>2. changed' \in BOOLEAN
      BY <2>1
    <3> QED
      BY <1>1, <2>1, <3>1, <3>2 DEF TypeOK, function, runVars
  <2>3. ScanInv'
    BY <1>2, <2>1 DEF ScanInv
  <2>4. \A b \in Block : livein'[b] \subseteq LiveIn(b)'
    BY <1>1, FunctionFixed DEF FlowInv
  <2>5. \A b \in Block : liveout'[b] \subseteq NewOut(b)'
    BY <1>1 DEF FlowInv, NewOut
  <2>6. \A b \in Block : livein'[b] = liveuse'[b] \cup (liveout'[b] \ def'[b])
    BY <1>1 DEF FlowInv
  <2>7. \A b \in Block : b < bb' => FALSE
    BY <2>1 DEF Block
  <2>8. FlowInv'
    <3>1. bb' \in 1 .. NumBlocks + 1
      BY <1>1, <2>1
    <3>2. ~changed' => \A b \in Block : b < bb' => liveout'[b] = NewOut(b)'
      BY <2>7
    <3> QED
      BY <2>1, <2>4, <2>5, <2>6, <3>1, <3>2 DEF FlowInv
  <2>9. BuildInv' /\ RunInv'
    BY <2>1 DEF BuildInv, RunInv
  <2> QED
    BY <1>1, <2>2, <2>3, <2>8, <2>9, FunctionFixed DEF Inv
<1>4. CASE ~changed
  <2>1. /\ bb' = NumBlocks /\ k' = Len(code[NumBlocks]) /\ live' = liveout[NumBlocks]
        /\ pc' = "build" /\ changed' = changed
    BY <1>1, <1>4 DEF FlowEnd
  <2>2. \A b \in Block : livein[b] = LiveIn(b) /\ liveout[b] = LiveOut(b)
    BY <1>1, <1>4, FixpointExact
  <2>3. Len(code[NumBlocks]) \in Nat
    BY <1>1, LenType
  <2>4. TypeOK'
    <3>1. bb' \in 1 .. NumBlocks + 1 /\ k' \in Nat /\ live' \subseteq Operand
      BY <1>1, <2>1, <2>3 DEF TypeOK, Block
    <3> QED
      BY <1>1, <2>1, <3>1 DEF TypeOK, function, runVars
  <2>5. ScanInv'
    BY <1>2, <2>1 DEF ScanInv
  <2>6. FlowInv'
    BY <1>1, <2>1, <2>2, FunctionFixed DEF FlowInv
  <2>7. BuildInv'
    <3>1. live' = LiveAfter(NumBlocks, Len(code[NumBlocks]))
      BY <1>1, <2>1, <2>2, LiveAtEnd
    <3>2. live' = LiveAfter(bb, k)'
      BY <1>1, <2>1, <3>1, FunctionFixed
    <3>3. bb' \in Block /\ k' \in 0 .. Len(code'[bb'])
      BY <1>1, <2>1, <2>3
    <3>4. \A b \in Block : ~(b > bb')
      BY <1>1, <2>1 DEF Block
    <3>5. \A i \in k' + 1 .. Len(code'[bb']) : FALSE
      BY <1>1, <2>1, <2>3
    <3> QED
      BY <2>1, <3>2, <3>3, <3>4, <3>5 DEF BuildInv
  <2>8. RunInv'
    BY <2>1 DEF RunInv
  <2> QED
    BY <1>1, <2>4, <2>5, <2>6, <2>7, <2>8, FunctionFixed DEF Inv
<1> QED
  BY <1>1, <1>3, <1>4 DEF TypeOK

-----------------------------------------------------------------------------
(* build()                                                                 *)

LEMMA EdgesGrow ==
  ASSUME UNCHANGED function, adj_set \subseteq adj_set'
  PROVE  \A b, i : EdgesAt(b, i) => EdgesAt(b, i)'
  BY FunctionFixed DEF EdgesAt

LEMMA BuildInstInv == Inv /\ BuildInst => Inv'
<1> SUFFICES ASSUME Inv, BuildInst PROVE Inv'
  OBVIOUS
<1> DEFINE around == (live \ (IF Simple(bb, k) THEN Use(bb, k) ELSE {})) \cup Def(bb, k)
           pairs == {e \in around \X Def(bb, k) : e[1] # e[2]}
<1>1. /\ TypeOK /\ FunctionOK /\ ScanInv /\ FlowInv /\ BuildInv /\ pc = "build" /\ pc' = "build"
      /\ UNCHANGED <<function, flowVars, bb, runVars>>
      /\ code' = code /\ bb' = bb /\ bb \in Block /\ k \in 1 .. Len(code[bb]) /\ k' = k - 1
      /\ Len(code[bb]) \in Nat /\ live = LiveAfter(bb, k)
  <2>1. bb \in Block /\ k \in 0 .. Len(code[bb]) /\ k >= 1 /\ live = LiveAfter(bb, k)
    BY DEF Inv, BuildInv, BuildInst
  <2>2. Len(code[bb]) \in Nat
    BY <2>1, LenType DEF Inv
  <2> QED
    BY <2>1, <2>2 DEF Inv, BuildInst, function
<1>2. Use(bb, k) \subseteq Operand /\ Def(bb, k) \subseteq Operand
  BY <1>1, Access
<1>3. /\ adj_set' = adj_set \cup pairs \cup {<<e[2], e[1]>> : e \in pairs}
      /\ live' = (around \ Def(bb, k)) \cup Use(bb, k)
  BY DEF BuildInst
<1>4. around \subseteq Operand
  BY <1>1, <1>2 DEF TypeOK
<1>5. adj_set' \subseteq Operand \X Operand
  <2>1. pairs \subseteq Operand \X Operand
    BY <1>2, <1>4
  <2> HIDE DEF pairs
  <2> QED
    BY <1>1, <1>3, <2>1 DEF TypeOK
<1>6. ASSUME NEW b, NEW i, b = bb, i = k PROVE EdgesAt(b, i)'
  <2>1. ASSUME NEW d \in Def(bb, k), NEW l \in around, l # d
        PROVE  <<l, d>> \in adj_set' /\ <<d, l>> \in adj_set'
    <3>1. <<l, d>> \in pairs
      BY <2>1
    <3>2. <<d, l>> \in {<<e[2], e[1]>> : e \in pairs}
      BY <3>1
    <3> QED
      BY <1>3, <3>1, <3>2
  <2>2. EdgesAt(b, i)' <=>
          \A d \in Def(b, i) :
            \A l \in (LiveAfter(b, i) \ (IF Simple(b, i) THEN Use(b, i) ELSE {})) \cup Def(b, i) :
              l # d => <<l, d>> \in adj_set' /\ <<d, l>> \in adj_set'
    BY <1>1, FunctionFixed DEF EdgesAt
  <2> QED
    BY <1>1, <1>6, <2>1, <2>2
<1>7. live' = LiveAfter(bb, k - 1)
  <2>1. LiveAfter(bb, k - 1) = Use(bb, k) \cup (LiveAfter(bb, k) \ Def(bb, k))
    BY <1>1, LiveBefore
  <2> QED
    BY <1>1, <1>3, <2>1
<1> HIDE DEF around, pairs
<1>8. TypeOK'
  <2>1. live' \subseteq Operand /\ k' \in Nat
    BY <1>1, <1>2, <1>3, <1>4
  <2> QED
    BY <1>1, <1>5, <2>1 DEF TypeOK, function, flowVars, runVars
<1>9. ScanInv' /\ FlowInv'
  <2>1. \A b \in Block : Scanned(b, Len(code[b]))'
    BY <1>1, FunctionFixed DEF ScanInv, Scanned, flowVars
  <2>2. \A b \in Block : livein'[b] = LiveIn(b)' /\ liveout'[b] = LiveOut(b)'
    BY <1>1, FunctionFixed DEF FlowInv, flowVars
  <2> QED
    BY <1>1, <2>1, <2>2 DEF ScanInv, FlowInv
<1>10. BuildInv'
  <2>1. \A b, i : EdgesAt(b, i) => EdgesAt(b, i)'
    BY <1>1, <1>3, EdgesGrow
  <2>2. live' = LiveAfter(bb, k)'
    BY <1>1, <1>7, FunctionFixed
  <2>3. \A b \in Block : b > bb' => \A i \in 1 .. Len(code'[b]) : EdgesAt(b, i)'
    BY <1>1, <2>1 DEF BuildInv
  <2>4. \A i \in k' + 1 .. Len(code'[bb']) : EdgesAt(bb, i)'
    <3>1. ASSUME NEW b, NEW i \in k .. Len(code[bb]), b = bb PROVE EdgesAt(b, i)'
      BY <1>1, <1>6, <2>1, <3>1 DEF BuildInv
    <3>2. \A b : b = bb' => \A i \in k' + 1 .. Len(code'[bb']) : EdgesAt(b, i)'
      BY <1>1, <3>1
    <3> QED
      BY <3>2
  <2>5. bb' \in Block /\ k' \in 0 .. Len(code'[bb'])
    BY <1>1
  <2> QED
    BY <1>1, <2>2, <2>3, <2>4, <2>5 DEF BuildInv
<1>11. RunInv'
  BY <1>1 DEF RunInv
<1> QED
  BY <1>1, <1>8, <1>9, <1>10, <1>11, FunctionFixed DEF Inv

LEMMA BuildBlockInv == Inv /\ BuildBlock => Inv'
<1> SUFFICES ASSUME Inv, BuildBlock PROVE Inv'
  OBVIOUS
<1>1. /\ TypeOK /\ FunctionOK /\ ScanInv /\ FlowInv /\ BuildInv /\ pc = "build"
      /\ UNCHANGED <<function, flowVars, adj_set, runVars>>
      /\ code' = code /\ bb \in Block /\ k = 0 /\ NumBlocks \in Nat
  BY SizeAssumption DEF Inv, BuildBlock, BuildInv, function
<1>2. \A b, i : EdgesAt(b, i) => EdgesAt(b, i)'
  BY <1>1, EdgesGrow
<1>3. ScanInv' /\ FlowInv'
  <2>1. \A b \in Block : Scanned(b, Len(code[b]))'
    BY <1>1, FunctionFixed DEF ScanInv, Scanned, flowVars
  <2>2. \A b \in Block : livein'[b] = LiveIn(b)' /\ liveout'[b] = LiveOut(b)'
    BY <1>1, FunctionFixed DEF FlowInv, flowVars
  <2>3. pc' \in {"build", "color"}
    BY <1>1 DEF BuildBlock
  <2> QED
    BY <2>1, <2>2, <2>3 DEF ScanInv, FlowInv
<1>4. CASE bb > 1
  <2>1. bb' = bb - 1 /\ k' = Len(code[bb - 1]) /\ live' = liveout[bb - 1] /\ pc' = "build"
    BY <1>1, <1>4 DEF BuildBlock
  <2>2. bb - 1 \in Block /\ bb - 1 \in 1 .. NumBlocks + 1
    BY <1>1, <1>4 DEF Block
  <2>3. Len(code[bb - 1]) \in Nat
    BY <1>1, <2>2, LenType
  <2>4. TypeOK'
    BY <1>1, <2>1, <2>2, <2>3 DEF TypeOK, function, flowVars, runVars
  <2>5. live' = LiveAfter(bb - 1, Len(code[bb - 1]))
    BY <1>1, <2>1, <2>2, LiveAtEnd DEF FlowInv
  <2>6. live' = LiveAfter(bb, k)'
    BY <1>1, <2>1, <2>5, FunctionFixed
  <2>7. \A b \in Block : b > bb' => \A i \in 1 .. Len(code'[b]) : EdgesAt(b, i)'
    <3>1. \A b \in Block : b > bb' => b = bb \/ b > bb
      BY <1>1, <2>1 DEF Block
    <3>2. ASSUME NEW b \in Block, b > bb', NEW i \in 1 .. Len(code[b]) PROVE EdgesAt(b, i)
      BY <1>1, <3>1, <3>2 DEF BuildInv
    <3> QED
      BY <1>1, <1>2, <3>2
  <2>8. \A i \in k' + 1 .. Len(code'[bb']) : FALSE
    BY <1>1, <2>1, <2>3
  <2>9. bb' \in Block /\ k' \in 0 .. Len(code'[bb'])
    BY <1>1, <2>1, <2>2, <2>3
  <2>10. BuildInv' /\ RunInv'
    BY <2>1, <2>6, <2>7, <2>8, <2>9 DEF BuildInv, RunInv
  <2> QED
    BY <1>1, <1>3, <2>4, <2>10, FunctionFixed DEF Inv
<1>5. CASE ~(bb > 1)
  <2>1. bb = 1 /\ pc' = "color" /\ UNCHANGED <<bb, k, live>>
    BY <1>1, <1>5 DEF BuildBlock, Block
  <2>2. TypeOK'
    BY <1>1, <2>1 DEF TypeOK, function, flowVars, runVars
  <2>3. ASSUME NEW b \in Block, NEW i \in 1 .. Len(code[b]) PROVE EdgesAt(b, i)
    <3>1. b = bb \/ b > bb
      BY <2>1 DEF Block
    <3> QED
      BY <1>1, <3>1 DEF BuildInv
  <2>4. BuildInv' /\ RunInv'
    BY <1>1, <1>2, <2>1, <2>3 DEF BuildInv, RunInv
  <2> QED
    BY <1>1, <1>3, <2>2, <2>4, FunctionFixed DEF Inv
<1> QED
  BY <1>4, <1>5

-----------------------------------------------------------------------------
(* Running the coloured function                                           *)

LEMMA ColorType ==
  ASSUME color \in [Virtuals -> Registers], NEW o \in Operand
  PROVE  ColorOf(o) \in Registers
  BY DEF ColorOf, Operand

LEMMA ColorInv == Inv /\ Color => Inv'
<1> SUFFICES ASSUME Inv, Color PROVE Inv'
  OBVIOUS
<1>1. /\ TypeOK /\ FunctionOK /\ ScanInv /\ FlowInv /\ BuildInv /\ pc = "color" /\ pc' = "run"
      /\ UNCHANGED <<function, flowVars, buildVars>>
      /\ code' = code /\ bb' = 1 /\ k' = 1 /\ 1 \in Block /\ 1 \in 1 .. NumBlocks + 1
      /\ color' \in [Virtuals -> Registers] /\ holds' = [r \in Registers |-> {r}]
  BY SizeAssumption DEF Inv, Color, function, Block
<1>2. TypeOK'
  <2>1. holds' \in [Registers -> SUBSET Operand]
    BY <1>1 DEF Operand
  <2> QED
    BY <1>1, <2>1 DEF TypeOK, function, flowVars, buildVars
<1>3. ScanInv' /\ FlowInv'
  <2>1. \A b \in Block : Scanned(b, Len(code[b]))'
    BY <1>1, FunctionFixed DEF ScanInv, Scanned, flowVars
  <2>2. \A b \in Block : livein'[b] = LiveIn(b)' /\ liveout'[b] = LiveOut(b)'
    BY <1>1, FunctionFixed DEF FlowInv, flowVars
  <2> QED
    BY <1>1, <2>1, <2>2 DEF ScanInv, FlowInv
<1>4. BuildInv'
  <2>1. \A b, i : EdgesAt(b, i) => EdgesAt(b, i)'
    BY <1>1, EdgesGrow DEF buildVars
  <2> QED
    BY <1>1, <2>1 DEF BuildInv
<1>5. RunInv'
  <2>1. LiveAfter(1, 0)' \subseteq Registers
    BY <1>1, LiveAtStart, FunctionFixed DEF FunctionOK
  <2>2. LiveAfter(bb, k - 1)' \subseteq Registers
    BY <1>1, <2>1
  <2>3. \A o \in LiveAfter(bb, k - 1)' : o \in holds'[ColorOf(o)']
    BY <1>1, <2>2 DEF ColorOf
  <2>4. \A e \in adj_set' : {e[1], e[2]} \subseteq Registers \/ ColorOf(e[1])' # ColorOf(e[2])'
    BY <1>1 DEF Color, buildVars
  <2>5. bb' \in Block /\ k' \in 1 .. Len(code'[bb']) + 1
    BY <1>1, LenType
  <2> QED
    BY <2>3, <2>4, <2>5 DEF RunInv
<1> QED
  BY <1>1, <1>2, <1>3, <1>4, <1>5, FunctionFixed DEF Inv

\* What is live across a definition, or defined with it, has another colour.
LEMMA NoClash ==
  ASSUME FunctionOK, TypeOK, BuildInv, RunInv, pc = "run", k <= Len(code[bb]),
         NEW d \in Def(bb, k),
         NEW l \in (LiveAfter(bb, k) \ (IF Simple(bb, k) THEN Use(bb, k) ELSE {})) \cup Def(bb, k),
         l # d
  PROVE  ColorOf(l) # ColorOf(d)
<1>1. bb \in Block /\ k \in 1 .. Len(code[bb])
  BY LenType DEF RunInv
<1>2. EdgesAt(bb, k)
  BY <1>1 DEF BuildInv
<1>3. <<l, d>> \in adj_set
  BY <1>2 DEF EdgesAt
<1>4. {l, d} \subseteq Registers \/ ColorOf(l) # ColorOf(d)
  BY <1>3 DEF RunInv
<1> QED
  BY <1>4 DEF ColorOf

LEMMA WriteKeeps ==
  ASSUME FunctionOK, TypeOK, BuildInv, RunInv, pc = "run", k <= Len(code[bb]), ~Simple(bb, k),
         NEW o \in LiveAfter(bb, k), o \in Operand
  PROVE  o \in Write(Def(bb, k))[ColorOf(o)]
<1> DEFINE D == Def(bb, k)
           here == {d \in D : ColorOf(d) = ColorOf(o)}
<1>1. bb \in Block /\ k \in 1 .. Len(code[bb])
  BY LenType DEF RunInv
<1>2. ColorOf(o) \in Registers
  BY ColorType DEF TypeOK
<1>3. Write(D)[ColorOf(o)] = IF here = {} THEN holds[ColorOf(o)] \ D ELSE {d \in here : here = {d}}
  BY <1>2 DEF Write
<1>4. \A d \in here : d = o
  BY NoClash
<1>5. CASE o \in D
  <2>1. here = {o}
    BY <1>4, <1>5
  <2> QED
    BY <1>3, <2>1
<1>6. CASE o \notin D
  <2>1. here = {}
    BY <1>4, <1>6
  <2>2. o \in LiveAfter(bb, k - 1)
    BY <1>1, <1>6, LiveBefore
  <2> QED
    BY <1>3, <1>6, <2>1, <2>2 DEF RunInv
<1> QED
  BY <1>5, <1>6

LEMMA CopyKeeps ==
  ASSUME FunctionOK, TypeOK, BuildInv, RunInv, pc = "run", k <= Len(code[bb]), Simple(bb, k),
         NEW d \in Operand, NEW s \in Operand, Def(bb, k) = {d}, Use(bb, k) = {s},
         NEW o \in LiveAfter(bb, k), o \in Operand
  PROVE  o \in Copy(d, s)[ColorOf(o)]
<1> DEFINE after(r) == (holds[r] \ {d}) \cup (IF s \in holds[r] THEN {d} ELSE {})
<1>1. bb \in Block /\ k \in 1 .. Len(code[bb])
  BY LenType DEF RunInv
<1>2. ColorOf(o) \in Registers
  BY ColorType DEF TypeOK
<1>3. Copy(d, s)[ColorOf(o)] = after(IF ColorOf(o) = ColorOf(d) THEN ColorOf(s) ELSE ColorOf(o))
  BY <1>2 DEF Copy
<1>4. LiveAfter(bb, k - 1) = {s} \cup (LiveAfter(bb, k) \ {d})
  BY <1>1, LiveBefore
<1>5. s \in holds[ColorOf(s)]
  BY <1>4 DEF RunInv
<1>6. CASE o = d
  BY <1>3, <1>5, <1>6
<1>7. CASE o # d
  <2>1. o \in holds[ColorOf(o)]
    BY <1>4, <1>7 DEF RunInv
  <2>2. ColorOf(o) = ColorOf(d) => o = s
    BY <1>7, NoClash
  <2> QED
    BY <1>3, <1>5, <1>7, <2>1, <2>2
<1> QED
  BY <1>6, <1>7

LEMMA RunInstInv == Inv /\ RunInst => Inv'
<1> SUFFICES ASSUME Inv, RunInst PROVE Inv'
  OBVIOUS
<1>1. /\ TypeOK /\ FunctionOK /\ ScanInv /\ FlowInv /\ BuildInv /\ RunInv
      /\ pc = "run" /\ pc' = "run" /\ UNCHANGED <<function, flowVars, buildVars, color, bb>>
      /\ code' = code /\ bb' = bb /\ bb \in Block /\ k \in 1 .. Len(code[bb]) /\ k' = k + 1
      /\ Len(code[bb]) \in Nat
  <2>1. bb \in Block /\ k \in 1 .. Len(code[bb]) + 1 /\ k <= Len(code[bb])
    BY DEF Inv, RunInv, RunInst
  <2>2. Len(code[bb]) \in Nat
    BY <2>1, LenType DEF Inv
  <2> QED
    BY <2>1, <2>2 DEF Inv, RunInst, function
<1>2. Use(bb, k) \subseteq Operand /\ Def(bb, k) \subseteq Operand
  BY <1>1, Access
<1>3. LiveAfter(bb, k) \subseteq Operand
  BY DEF LiveAfter
<1>4. /\ holds' \in [Registers -> SUBSET Operand]
      /\ \A o \in LiveAfter(bb, k) : o \in holds'[ColorOf(o)]
  <2>1. CASE ~Simple(bb, k)
    <3>1. holds' = Write(Def(bb, k))
      BY <2>1 DEF RunInst
    <3>2. Write(Def(bb, k)) \in [Registers -> SUBSET Operand]
      BY <1>1, <1>2 DEF Write, TypeOK
    <3> QED
      BY <1>1, <1>3, <2>1, <3>1, <3>2, WriteKeeps
  <2>2. CASE Simple(bb, k)
    <3>1. PICK d \in Def(bb, k) : \E s \in Use(bb, k) : holds' = Copy(d, s)
      BY <2>2 DEF RunInst
    <3>2. PICK s \in Use(bb, k) : holds' = Copy(d, s)
      BY <3>1
    <3>3. Def(bb, k) = {d} /\ Use(bb, k) = {s} /\ d \in Operand /\ s \in Operand
      BY <1>1, <1>2, <2>2 DEF FunctionOK
    <3>4. Copy(d, s) \in [Registers -> SUBSET Operand]
      <4>1. ColorOf(s) \in Registers
        BY <1>1, <3>3, ColorType DEF TypeOK
      <4> QED
        BY <1>1, <3>3, <4>1 DEF Copy, TypeOK
    <3> QED
      BY <1>1, <1>3, <2>2, <3>2, <3>3, <3>4, CopyKeeps
  <2> QED
    BY <1>1, <2>1, <2>2, Access
<1>5. TypeOK'
  BY <1>1, <1>4 DEF TypeOK, function, flowVars, buildVars
<1>6. ScanInv' /\ FlowInv'
  <2>1. \A b \in Block : Scanned(b, Len(code[b]))'
    BY <1>1, FunctionFixed DEF ScanInv, Scanned, flowVars
  <2>2. \A b \in Block : livein'[b] = LiveIn(b)' /\ liveout'[b] = LiveOut(b)'
    BY <1>1, FunctionFixed DEF FlowInv, flowVars
  <2> QED
    BY <1>1, <2>1, <2>2 DEF ScanInv, FlowInv
<1>7. BuildInv'
  <2>1. \A b, i : EdgesAt(b, i) => EdgesAt(b, i)'
    BY <1>1, EdgesGrow DEF buildVars
  <2> QED
    BY <1>1, <2>1 DEF BuildInv
<1>8. RunInv'
  <2>1. \A o : ColorOf(o)' = ColorOf(o)
    BY <1>1 DEF ColorOf
  <2>2. LiveAfter(bb, k - 1)' = LiveAfter(bb, k)
    <3>1. bb' = bb /\ k' - 1 = k
      BY <1>1
    <3> QED
      BY <1>1, <3>1, FunctionFixed
  <2>3. \A o \in LiveAfter(bb, k - 1)' : o \in holds'[ColorOf(o)']
    BY <1>4, <2>1, <2>2
  <2>4. \A e \in adj_set' : {e[1], e[2]} \subseteq Registers \/ ColorOf(e[1])' # ColorOf(e[2])'
    BY <1>1, <2>1 DEF RunInv, buildVars
  <2>5. bb' \in Block /\ k' \in 1 .. Len(code'[bb']) + 1
    BY <1>1
  <2> QED
    BY <2>3, <2>4, <2>5 DEF RunInv
<1> QED
  BY <1>1, <1>5, <1>6, <1>7, <1>8, FunctionFixed DEF Inv

LEMMA RunJumpInv == Inv /\ RunJump => Inv'
<1> SUFFICES ASSUME Inv, RunJump PROVE Inv'
  OBVIOUS
<1>1. /\ TypeOK /\ FunctionOK /\ ScanInv /\ FlowInv /\ BuildInv /\ RunInv
      /\ pc = "run" /\ pc' = "run" /\ UNCHANGED <<function, flowVars, buildVars, runVars>>
      /\ code' = code /\ bb \in Block /\ k = Len(code[bb]) + 1 /\ k' = 1 /\ bb' \in succ[bb]
      /\ bb' \in Block /\ Len(code'[bb']) \in Nat /\ NumBlocks \in Nat /\ Len(code[bb]) \in Nat
  <2>1. bb \in Block /\ k \in 1 .. Len(code[bb]) + 1 /\ k > Len(code[bb]) /\ bb' \in succ[bb]
    BY DEF Inv, RunInv, RunJump
  <2>2. bb' \in Block /\ code' = code
    BY <2>1 DEF Inv, FunctionOK, RunJump, function
  <2>3. Len(code[bb]) \in Nat /\ Len(code'[bb']) \in Nat
    BY <2>1, <2>2, LenType DEF Inv
  <2> QED
    BY <2>1, <2>2, <2>3, SizeAssumption DEF Inv, RunJump
<1>2. TypeOK'
  <2>1. bb' \in 1 .. NumBlocks + 1
    BY <1>1 DEF Block
  <2> QED
    BY <1>1, <2>1 DEF TypeOK, function, flowVars, buildVars, runVars
<1>3. ScanInv' /\ FlowInv'
  <2>1. \A b \in Block : Scanned(b, Len(code[b]))'
    BY <1>1, FunctionFixed DEF ScanInv, Scanned, flowVars
  <2>2. \A b \in Block : livein'[b] = LiveIn(b)' /\ liveout'[b] = LiveOut(b)'
    BY <1>1, FunctionFixed DEF FlowInv, flowVars
  <2> QED
    BY <1>1, <2>1, <2>2 DEF ScanInv, FlowInv
<1>4. BuildInv'
  <2>1. \A b, i : EdgesAt(b, i) => EdgesAt(b, i)'
    BY <1>1, EdgesGrow DEF buildVars
  <2> QED
    BY <1>1, <2>1 DEF BuildInv
<1>5. RunInv'
  <2>1. LiveAfter(bb, k - 1) = LiveOut(bb)
    <3>1. k - 1 = Len(code[bb])
      BY <1>1
    <3> QED
      BY <1>1, <3>1, LiveAtEnd
  <2>2. \A b \in succ[bb] : LiveIn(b) \subseteq LiveOut(bb)
    BY DEF LiveOut, LiveIn
  <2>3. \A b \in Block : LiveAfter(b, 0)' = LiveIn(b)
    BY <1>1, LiveAtStart, FunctionFixed
  <2>4. LiveAfter(bb, k - 1)' \subseteq LiveAfter(bb, k - 1)
    <3>1. LiveAfter(bb, k - 1)' = LiveIn(bb')
      <4>1. k' - 1 = 0
        BY <1>1
      <4> QED
        BY <1>1, <2>3, <4>1
    <3> QED
      BY <1>1, <2>1, <2>2, <3>1
  <2>5. \A o : ColorOf(o)' = ColorOf(o)
    BY <1>1 DEF ColorOf, runVars
  <2>6. bb' \in Block /\ k' \in 1 .. Len(code'[bb']) + 1
    BY <1>1
  <2>7. \A o \in LiveAfter(bb, k - 1)' : o \in holds'[ColorOf(o)']
    BY <1>1, <2>4, <2>5 DEF RunInv, runVars
  <2>8. \A e \in adj_set' : {e[1], e[2]} \subseteq Registers \/ ColorOf(e[1])' # ColorOf(e[2])'
    BY <1>1, <2>5 DEF RunInv, buildVars
  <2> QED
    BY <2>6, <2>7, <2>8 DEF RunInv
<1> QED
  BY <1>1, <1>2, <1>3, <1>4, <1>5, FunctionFixed DEF Inv

LEMMA StutterInv == Inv /\ UNCHANGED vars => Inv'
<1> SUFFICES ASSUME Inv, UNCHANGED vars PROVE Inv'
  OBVIOUS
<1>1. /\ UNCHANGED function /\ code' = code /\ succ' = succ /\ liveuse' = liveuse /\ def' = def
      /\ livein' = livein /\ liveout' = liveout /\ changed' = changed /\ bb' = bb /\ k' = k
      /\ live' = live /\ adj_set' = adj_set /\ color' = color /\ holds' = holds /\ pc' = pc
  BY DEF vars, function
<1>2. TypeOK'
  BY <1>1 DEF Inv, TypeOK
<1>3. ScanInv'
  BY <1>1 DEF Inv, ScanInv, Scanned, ExposedIn, DefinedIn, Def, Use
<1>4. FlowInv'
  <2>1. \A b \in Block : NewOut(b)' = NewOut(b)
    BY <1>1 DEF NewOut
  <2> QED
    BY <1>1, <2>1, FunctionFixed DEF Inv, FlowInv
<1>5. BuildInv'
  <2>1. \A b, i : EdgesAt(b, i) => EdgesAt(b, i)'
    BY <1>1, EdgesGrow
  <2>2. LiveAfter(bb, k)' = LiveAfter(bb, k)
    BY <1>1, FunctionFixed
  <2>3. BuildInv
    BY DEF Inv
  <2>4. \A b, i : b = bb /\ EdgesAt(b, i) => EdgesAt(bb, i)'
    BY <1>1, <2>1
  <2> QED
    BY <1>1, <2>1, <2>2, <2>3, <2>4 DEF BuildInv
<1>6. RunInv'
  <2>1. \A o : ColorOf(o)' = ColorOf(o)
    BY <1>1 DEF ColorOf
  <2>2. LiveAfter(bb, k - 1)' = LiveAfter(bb, k - 1)
    BY <1>1, FunctionFixed
  <2> QED
    BY <1>1, <2>1, <2>2 DEF Inv, RunInv
<1> QED
  BY <1>1, <1>2, <1>3, <1>4, <1>5, <1>6, FunctionFixed DEF Inv

LEMMA InvIsInductive == Spec => []Inv
<1>1. Init => Inv
  BY InitInv
<1>2. Inv /\ [Next]_vars => Inv'
  BY ScanInstInv, ScanEndInv, FlowBlockInv, FlowEndInv, BuildInstInv, BuildBlockInv, ColorInv,
     RunInstInv, RunJumpInv, StutterInv DEF Next
<1> QED
  BY <1>1, <1>2, PTL DEF Spec

\* Types are kept in every function, and a coloured operand always has a register.
THEOREM TypeCorrect == Spec => []TypeOK
<1>1. Inv => TypeOK
  BY DEF Inv
<1> QED
  BY <1>1, InvIsInductive, PTL

\* liveness_analysis computes liveness by paths in every function, loops included.
THEOREM LivenessIsExact == Spec => []LivenessExact
<1>1. Inv => LivenessExact
  BY DEF Inv, FlowInv, LivenessExact
<1> QED
  BY <1>1, InvIsInductive, PTL

\* Whatever colouring of the graph is chosen, on every path of every function, an
\* operand that is used is in its register: build() has every edge that matters, and
\* the edge it leaves out between the ends of a move does not.
THEOREM ValuesAreKept == Spec => []ValuesKept
<1>1. Inv => ValuesKept
  <2> SUFFICES ASSUME Inv, pc = "run", k <= Len(code[bb]), NEW o \in Use(bb, k)
               PROVE  o \in holds[ColorOf(o)]
    BY DEF ValuesKept
  <2>1. bb \in Block /\ k \in 1 .. Len(code[bb])
    BY LenType DEF Inv, RunInv
  <2>2. o \in LiveAfter(bb, k - 1)
    BY <2>1, LiveBefore DEF Inv
  <2> QED
    BY <2>2 DEF Inv, RunInv
<1> QED
  BY <1>1, InvIsInductive, PTL

=============================================================================
