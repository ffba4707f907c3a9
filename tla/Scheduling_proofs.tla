-------------------------- MODULE Scheduling_proofs --------------------------
(***************************************************************************)
(* Proofs about Scheduling for every block of instructions.                *)
(*                                                                         *)
(* The graph has edges, the order of a block is about chains of edges.  To *)
(* speak of chains without induction, the invariant of the scan is stated  *)
(* for every placement pos of the nodes that respects the edges; the       *)
(* placement that the issue phase builds is one of them.                   *)
(***************************************************************************)
EXTENDS Scheduling, FiniteSetTheorems, WellFoundedInduction, TLAPS

\* What the scan remembers are nodes that it has seen.
Scanned ==
  /\ \A r \in Regs : read_insts[r] \subseteq 1 .. k - 1 /\ write_insts[r] \in 0 .. k - 1
  /\ side_effect \in 0 .. k - 1 /\ call_barrier \in 0 .. k - 1 /\ load_insts \subseteq 1 .. k - 1
  /\ edges \subseteq Node \X Node
  /\ \A e \in edges : e[1] < e[2] /\ e[2] < k

Respects(pos) == \A e \in edges : pos[e[1]] < pos[e[2]]

UpTo(pos, m, w) == w # 0 /\ (m = w \/ pos[m] < pos[w])

\* Each access seen so far is remembered, or placed before one that is.
ScanOrder(pos) ==
  /\ \A m \in 1 .. k - 1, r \in Regs : r \in Def(m) => UpTo(pos, m, write_insts[r])
  /\ \A m \in 1 .. k - 1, r \in Regs :
       r \in Use(m) => m \in read_insts[r] \/ UpTo(pos, m, write_insts[r])
  /\ \A m \in 1 .. k - 1 : SideEffect(m) => UpTo(pos, m, side_effect)
  /\ \A m \in 1 .. k - 1 : block[m].op = "load" => m \in load_insts \/ UpTo(pos, m, side_effect)
  /\ \A m, n \in 1 .. k - 1 : MustPrecede(m, n) => pos[m] < pos[n]

GraphOrders == \A pos \in [Node -> Int] : Respects(pos) => ScanOrder(pos)

\* The nodes whose priority was passed on, and what temp counts meanwhile.
Passed == {n \in Node : temp[n] = 0} \ vis

Counting ==
  pc = "priorities" =>
    /\ \A n \in vis : temp[n] = 0
    /\ \A t \in Node : temp[t] = Cardinality(Succs(t) \ Passed)

Issued == {out[p] : p \in DOMAIN out}
Running == {inflight[u].node : u \in DOMAIN Units}
Completed == Issued \ Running

Waiting == pc \in {"graph", "priorities"} => ready = {} /\ inflight = [u \in DOMAIN Units |-> Idle] /\ out = <<>>

UnitsHold ==
  /\ \A u \in DOMAIN Units :
       inflight[u] = Idle \/ (inflight[u].node \in Issued /\ inflight[u].left \in 1 .. 8)
  /\ \A u, v \in DOMAIN Units :
       inflight[u].node = inflight[v].node /\ inflight[u].node # 0 => u = v

\* temp counts the predecessors that have not finished; a node is listed when
\* there are none, and once.
ReadyExact ==
  pc \in {"issue", "done"} =>
    /\ \A t \in Node : temp[t] = Cardinality(Preds(t) \ Completed)
    /\ ready \cap Issued = {}
    /\ \A t \in Node : temp[t] = 0 <=> t \in ready \cup Issued

IssuedOnce == \A p, q \in DOMAIN out : out[p] = out[q] => p = q

EdgesKept ==
  \A q \in DOMAIN out, m \in Node :
    <<m, out[q]>> \in edges => \E p \in DOMAIN out : p < q /\ out[p] = m

Phases ==
  /\ pc # "graph" => k = Len(block) + 1
  /\ pc = "done" => ready = {} /\ \A u \in DOMAIN Units : inflight[u] = Idle

Inv == /\ TypeOK /\ Scanned /\ Phases /\ Counting /\ Waiting
       /\ UnitsHold /\ ReadyExact /\ IssuedOnce /\ EdgesKept

-----------------------------------------------------------------------------
(* Instructions and finite sets of them.                                   *)

LEMMA LeastNat ==
  ASSUME NEW T, T \subseteq Nat, T # {}
  PROVE  \E x \in T : \A y \in T : x <= y
<1> DEFINE R == OpToRel(<, Nat)
<1>1. ASSUME NEW x \in Nat, NEW y \in Nat, y < x
      PROVE  <<y, x>> \in R
  BY <1>1 DEF OpToRel
<1>2. IsWellFoundedOn(R, Nat)
  BY NatLessThanWellFounded
<1> HIDE DEF R
<1>3. PICK x \in T : \A y \in T : ~ (<<y, x>> \in R)
  BY <1>2, WFMin
<1>4. ASSUME NEW y \in T
      PROVE  x <= y
  <2>1. ~ (<<y, x>> \in R)
    BY <1>3
  <2>2. x \in Nat /\ y \in Nat
    BY <1>3, <1>4
  <2>3. ~ (y < x)
    BY <1>1, <2>1, <2>2
  <2> QED
    BY <2>2, <2>3
<1> QED
  BY <1>4

LEMMA NodeSet ==
  ASSUME block \in Seq(Inst)
  PROVE  /\ Node = 1 .. Len(block) /\ Len(block) \in Nat
         /\ IsFiniteSet(Node) /\ 0 \notin Node
<1>1. Node = 1 .. Len(block) /\ Len(block) \in Nat
  BY DEF Node
<1>2. IsFiniteSet(1 .. Len(block))
  BY <1>1, FS_Interval
<1> QED
  BY <1>1, <1>2

LEMMA InstOf ==
  ASSUME block \in Seq(Inst), NEW n \in Node
  PROVE  /\ Def(n) \subseteq Regs /\ Use(n) \subseteq Regs
         /\ Latency(n) \in 1 .. 8
         /\ SideEffect(n) \in BOOLEAN /\ Control(n) \in BOOLEAN
<1>1. block[n] \in Inst
  BY DEF Node
<1>2. block[n].dst \subseteq Regs /\ block[n].src \subseteq Regs /\ block[n].base \subseteq Regs
  BY <1>1 DEF Inst
<1>3. Def(n) \subseteq Regs /\ Use(n) \subseteq Regs
  BY <1>2, CondAssumption DEF Def, Use
<1>4. Latency(n) \in 1 .. 8
  BY DEF Latency
<1> QED
  BY <1>3, <1>4 DEF SideEffect, Control

LEMMA UnitSet == DOMAIN Units = 1 .. 6
  BY DEF Units

LEMMA EmptyWhenNone ==
  ASSUME NEW S, IsFiniteSet(S), Cardinality(S) = 0
  PROVE  S = {}
  BY FS_EmptySet

LEMMA FiniteSub ==
  ASSUME block \in Seq(Inst), NEW S, S \subseteq Node
  PROVE  IsFiniteSet(S) /\ Cardinality(S) \in Nat
<1>1. IsFiniteSet(S)
  BY NodeSet, FS_Subset
<1> QED
  BY <1>1, FS_CardinalityType

-----------------------------------------------------------------------------
(* The scan.                                                               *)

LEMMA InitInv == Init => Inv /\ GraphOrders
<1> SUFFICES ASSUME Init PROVE Inv /\ GraphOrders
  OBVIOUS
<1> USE DEF Init
<1>1. block \in Seq(Inst)
  BY BlocksAssumption
<1>2. Node = 1 .. Len(block) /\ Len(block) \in Nat
  BY <1>1, NodeSet
<1>3. inflight \in [DOMAIN Units -> [node : Node \cup {0}, left : 0 .. 8]]
  BY UnitSet DEF Idle
<1>4. TypeOK
  BY <1>1, <1>2, <1>3 DEF TypeOK
<1>5. Scanned
  BY DEF Scanned
<1>6. Phases /\ Counting /\ ReadyExact /\ Waiting
  BY DEF Phases, Counting, ReadyExact, Waiting
<1>7. UnitsHold
  BY UnitSet DEF UnitsHold, Idle
<1>8. IssuedOnce /\ EdgesKept
  BY DEF IssuedOnce, EdgesKept
<1>9. GraphOrders
  BY DEF GraphOrders, ScanOrder, MustPrecede
<1> QED
  BY <1>4, <1>5, <1>6, <1>7, <1>8, <1>9 DEF Inv

\* The nodes with an edge to the new one.
Before == Registers(Def(k), Use(k)) \cup Memory \cup Everything \cup {call_barrier}

LEMMA BeforeSeen ==
  ASSUME TypeOK, Scanned, AddNode
  PROVE  Before \subseteq 0 .. k - 1
<1> USE DEF TypeOK, Scanned, AddNode
<1>1. k \in Node /\ k \in Nat
  BY NodeSet
<1>2. Def(k) \subseteq Regs /\ Use(k) \subseteq Regs
  BY <1>1, InstOf
<1>3. Registers(Def(k), Use(k)) \subseteq 0 .. k - 1
  <2>1. ASSUME NEW r \in Regs
        PROVE  read_insts[r] \subseteq 0 .. k - 1 /\ write_insts[r] \in 0 .. k - 1
    BY <1>1
  <2> QED
    BY <1>2, <2>1 DEF Registers
<1>4. Memory \subseteq 0 .. k - 1
  BY <1>1 DEF Memory
<1>5. Everything \subseteq 0 .. k - 1
  BY <1>1 DEF Everything
<1> QED
  BY <1>3, <1>4, <1>5 DEF Before

LEMMA AddNodeScanned ==
  ASSUME TypeOK, Scanned, AddNode
  PROVE  /\ TypeOK' /\ Scanned'
         /\ k \in Node /\ k \in Nat /\ k' = k + 1 /\ Node' = Node
         /\ edges' = edges \cup ((Before \ {0}) \X {k})
<1>1. block \in Seq(Inst) /\ k \in Node /\ k \in Nat /\ k \in 1 .. Len(block) /\ Len(block) \in Nat
  BY NodeSet DEF TypeOK, AddNode
<1>2. k' = k + 1 /\ Node' = Node /\ block' = block
  BY DEF AddNode, Node
<1>3. edges' = edges \cup ((Before \ {0}) \X {k})
  BY DEF AddNode, Before
<1>4. Before \ {0} \subseteq 1 .. k - 1
  BY <1>1, BeforeSeen
<1>5. 1 .. k - 1 \subseteq Node /\ 1 .. k \subseteq Node
  BY <1>1, NodeSet
<1>6. \A e \in edges' : e \in Node \X Node /\ e[1] < e[2] /\ e[2] < k'
  <2> SUFFICES ASSUME NEW e \in edges'
               PROVE  e \in Node \X Node /\ e[1] < e[2] /\ e[2] < k'
    OBVIOUS
  <2>1. CASE e \in edges
    BY <2>1, <1>1, <1>2, NodeSet DEF Scanned
  <2>2. CASE e \in (Before \ {0}) \X {k}
    <3>1. e[1] \in 1 .. k - 1 /\ e[2] = k /\ e = <<e[1], e[2]>>
      BY <2>2, <1>4
    <3> QED
      BY <3>1, <1>1, <1>2, <1>5
  <2> QED
    BY <2>1, <2>2, <1>3
<1>7. \A r \in Regs : read_insts'[r] \subseteq 1 .. k /\ write_insts'[r] \in 0 .. k
  <2> SUFFICES ASSUME NEW r \in Regs
               PROVE  read_insts'[r] \subseteq 1 .. k /\ write_insts'[r] \in 0 .. k
    OBVIOUS
  <2>1. read_insts[r] \subseteq 1 .. k - 1 /\ write_insts[r] \in 0 .. k - 1
    BY DEF Scanned
  <2>2. read_insts[r] \cup {k} \subseteq 1 .. k /\ write_insts[r] \in 0 .. k
    BY <2>1, <1>1
  <2>3. read_insts'[r] \in {{}, read_insts[r] \cup {k}, read_insts[r]}
        /\ write_insts'[r] \in {k, write_insts[r]}
    BY DEF AddNode, Remember
  <2> QED
    BY <2>2, <2>3, <1>1
<1>8. load_insts' \subseteq 1 .. k /\ side_effect' \in 0 .. k /\ call_barrier' \in 0 .. k
  <2>1. load_insts' \in {{}, load_insts \cup {k}, load_insts}
        /\ side_effect' \in {k, side_effect} /\ call_barrier' \in {k, call_barrier}
    BY DEF AddNode, Remember
  <2>2. load_insts \subseteq 1 .. k - 1 /\ side_effect \in 0 .. k - 1 /\ call_barrier \in 0 .. k - 1
    BY DEF Scanned
  <2>3. load_insts \cup {k} \subseteq 1 .. k
    BY <2>2, <1>1
  <2>4. side_effect \in 0 .. k /\ call_barrier \in 0 .. k
    BY <2>2, <1>1
  <2> QED
    BY <2>1, <2>3, <2>4, <1>1
<1>9. Scanned'
  BY <1>1, <1>2, <1>6, <1>7, <1>8 DEF Scanned
<1>10. read_insts' \in [Regs -> SUBSET Node] /\ write_insts' \in [Regs -> Node \cup {0}]
  <2>1. \A r \in Regs : read_insts'[r] \in SUBSET Node /\ write_insts'[r] \in Node \cup {0}
    BY <1>7, <1>5, <1>1
  <2>2. read_insts' = [r \in Regs |-> read_insts'[r]] /\ write_insts' = [r \in Regs |-> write_insts'[r]]
    BY DEF AddNode, Remember
  <2> QED
    BY <2>1, <2>2
<1>11. edges' \subseteq Node \X Node
  BY <1>6
<1>12. load_insts' \subseteq Node /\ side_effect' \in Node \cup {0} /\ call_barrier' \in Node \cup {0}
  BY <1>8, <1>5, <1>1
<1>13. block' \in Seq(Inst) /\ k' \in 1 .. Len(block') + 1
  BY <1>1, <1>2
<1>14. UNCHANGED <<priority, temp, vis, ready, inflight, out, pc>>
  BY DEF AddNode, issueVars
<1>15. TypeOK'
  BY <1>2, <1>10, <1>11, <1>12, <1>13, <1>14 DEF TypeOK
<1> QED
  BY <1>1, <1>2, <1>3, <1>9, <1>15

LEMMA AddNodeInv ==
  ASSUME Inv, AddNode
  PROVE  Inv'
<1>1. TypeOK' /\ Scanned' /\ Node' = Node
  BY AddNodeScanned DEF Inv
<1>2. pc = "graph" /\ pc' = "graph" /\ inflight' = inflight /\ ready' = ready /\ out' = out
  BY DEF AddNode, issueVars
<1>3. out = <<>> /\ Waiting'
  BY <1>2 DEF Inv, Waiting
<1>4. Phases' /\ Counting' /\ ReadyExact'
  BY <1>2 DEF Phases, Counting, ReadyExact
<1>5. UnitsHold' /\ IssuedOnce'
  BY <1>2 DEF Inv, UnitsHold, IssuedOnce, Issued
<1>6. EdgesKept'
  BY <1>2, <1>3 DEF EdgesKept
<1> QED
  BY <1>1, <1>3, <1>4, <1>5, <1>6 DEF Inv

-----------------------------------------------------------------------------
(* Every placement that respects the edges keeps the order.                *)

\* One placement, one more instruction.
LEMMA AddNodeOrder ==
  ASSUME TypeOK, Scanned, AddNode, NEW pos \in [Node -> Int],
         Respects(pos)', ScanOrder(pos)
  PROVE  ScanOrder(pos)'
<1>1. /\ k \in Node /\ k \in Nat /\ k' = k + 1 /\ Node' = Node
      /\ edges' = edges \cup ((Before \ {0}) \X {k})
  BY AddNodeScanned
<1>2. block' = block /\ block \in Seq(Inst)
  BY DEF AddNode, TypeOK
<1>3. ASSUME NEW m, m \in Before, m # 0
      PROVE  pos[m] < pos[k]
  <2>1. <<m, k>> \in edges'
    BY <1>1, <1>3
  <2> QED
    BY <2>1 DEF Respects
<1>4. ASSUME NEW m \in 1 .. k - 1, NEW w, w \in Before, UpTo(pos, m, w)
      PROVE  pos[m] < pos[k]
  <2>1. pos[w] < pos[k]
    BY <1>3, <1>4 DEF UpTo
  <2>2. m \in Node /\ w \in Node
    BY <1>1, <1>2, <1>4, BeforeSeen, NodeSet DEF UpTo
  <2>3. pos[m] \in Int /\ pos[w] \in Int /\ pos[k] \in Int
    BY <2>2, <1>1
  <2> QED
    BY <2>1, <2>3, <1>4 DEF UpTo
<1>5. Def(k) \subseteq Regs /\ Use(k) \subseteq Regs
  BY <1>1, <1>2, InstOf
<1>6. \A n : Def(n)' = Def(n) /\ Use(n)' = Use(n) /\ (SideEffect(n)' <=> SideEffect(n))
             /\ (Control(n)' <=> Control(n))
  BY <1>2 DEF Def, Use, SideEffect, Control
<1>7. \A m, n : MustPrecede(m, n)' <=> MustPrecede(m, n)
  BY <1>2, <1>6 DEF MustPrecede, Reads, Accesses
<1>8. ASSUME NEW m \in 1 .. k - 1, MustPrecede(m, k)
      PROVE  pos[m] < pos[k]
  <2>1. CASE \E r \in Regs : r \in Def(m) /\ (r \in Use(k) \/ r \in Def(k))
    <3>1. PICK r \in Regs : r \in Def(m) /\ (r \in Use(k) \/ r \in Def(k))
      BY <2>1
    <3>2. write_insts[r] \in Before
      BY <3>1 DEF Before, Registers
    <3>3. UpTo(pos, m, write_insts[r])
      BY <3>1 DEF ScanOrder
    <3> QED
      BY <3>2, <3>3, <1>4
  <2>2. CASE \E r \in Regs : r \in Use(m) /\ r \in Def(k)
    <3>1. PICK r \in Regs : r \in Use(m) /\ r \in Def(k)
      BY <2>2
    <3>2. write_insts[r] \in Before /\ read_insts[r] \subseteq Before
      BY <3>1 DEF Before, Registers
    <3>3. m \in read_insts[r] \/ UpTo(pos, m, write_insts[r])
      BY <3>1 DEF ScanOrder
    <3>4. m # 0
      BY <1>1
    <3> QED
      BY <3>2, <3>3, <3>4, <1>3, <1>4
  <2>3. CASE Accesses(m) /\ Accesses(k) /\ (SideEffect(m) \/ SideEffect(k))
    <3>1. m # 0
      BY <1>1
    <3>2. CASE SideEffect(m)
      <4>1. side_effect \in Before
        BY <2>3 DEF Before, Memory, Accesses, SideEffect
      <4>2. UpTo(pos, m, side_effect)
        BY <3>2 DEF ScanOrder
      <4> QED
        BY <4>1, <4>2, <1>4
    <3>3. CASE SideEffect(k) /\ block[m].op = "load"
      <4>1. side_effect \in Before /\ load_insts \subseteq Before
        BY <3>3 DEF Before, Memory
      <4>2. m \in load_insts \/ UpTo(pos, m, side_effect)
        BY <3>3 DEF ScanOrder
      <4> QED
        BY <4>1, <4>2, <3>1, <1>3, <1>4
    <3> QED
      BY <2>3, <3>2, <3>3 DEF Accesses, SideEffect
  <2>4. CASE Control(k)
    <3>1. m \in Before /\ m # 0
      BY <2>4, <1>1 DEF Before, Everything
    <3> QED
      BY <3>1, <1>3
  <2>5. Def(m) \subseteq Regs /\ Use(m) \subseteq Regs
    BY <1>1, <1>2, NodeSet, InstOf
  <2> QED
    BY <1>5, <1>8, <2>1, <2>2, <2>3, <2>4, <2>5 DEF MustPrecede, Reads
<1>9. k' - 1 = k /\ 1 .. k = (1 .. k - 1) \cup {k}
  <2>1. k >= 1
    BY <1>1, <1>2, NodeSet
  <2>2. \A m : m \in 1 .. k <=> m \in (1 .. k - 1) \cup {k}
    BY <2>1, <1>1
  <2> QED
    BY <2>2, <1>1
<1>10. \A m \in 1 .. k, r \in Regs : r \in Def(m) => UpTo(pos, m, write_insts'[r])
  <2> SUFFICES ASSUME NEW m \in 1 .. k, NEW r \in Regs, r \in Def(m)
               PROVE  UpTo(pos, m, write_insts'[r])
    OBVIOUS
  <2>1. write_insts'[r] = IF r \in Def(k) THEN k ELSE write_insts[r]
    BY DEF AddNode, Remember
  <2>2. CASE m = k
    BY <2>1, <2>2, <1>1 DEF UpTo
  <2>3. CASE m \in 1 .. k - 1
    <3>1. UpTo(pos, m, write_insts[r])
      BY <2>3 DEF ScanOrder
    <3>2. r \in Def(k) => write_insts[r] \in Before
      BY DEF Before, Registers
    <3>3. r \in Def(k) => UpTo(pos, m, k)
      BY <3>1, <3>2, <2>3, <1>1, <1>4 DEF UpTo
    <3> QED
      BY <2>1, <3>1, <3>3
  <2> QED
    BY <2>2, <2>3, <1>9
<1>11. \A m \in 1 .. k, r \in Regs :
         r \in Use(m) => m \in read_insts'[r] \/ UpTo(pos, m, write_insts'[r])
  <2> SUFFICES ASSUME NEW m \in 1 .. k, NEW r \in Regs, r \in Use(m)
               PROVE  m \in read_insts'[r] \/ UpTo(pos, m, write_insts'[r])
    OBVIOUS
  <2>1. /\ write_insts'[r] = IF r \in Def(k) THEN k ELSE write_insts[r]
        /\ read_insts'[r] = IF r \in Def(k) THEN {}
                            ELSE IF r \in Use(k) THEN read_insts[r] \cup {k} ELSE read_insts[r]
    BY DEF AddNode, Remember
  <2>2. CASE m = k
    BY <2>1, <2>2, <1>1 DEF UpTo
  <2>3. CASE m \in 1 .. k - 1
    <3>1. m \in read_insts[r] \/ UpTo(pos, m, write_insts[r])
      BY <2>3 DEF ScanOrder
    <3>2. r \in Def(k) => write_insts[r] \in Before /\ read_insts[r] \subseteq Before
      BY DEF Before, Registers
    <3>3. m # 0
      BY <2>3, <1>1
    <3>4. r \in Def(k) => UpTo(pos, m, k)
      BY <3>1, <3>2, <3>3, <2>3, <1>1, <1>3, <1>4 DEF UpTo
    <3> QED
      BY <2>1, <3>1, <3>4
  <2> QED
    BY <2>2, <2>3, <1>9
<1>12. \A m \in 1 .. k : SideEffect(m) => UpTo(pos, m, side_effect')
  <2> SUFFICES ASSUME NEW m \in 1 .. k, SideEffect(m)
               PROVE  UpTo(pos, m, side_effect')
    OBVIOUS
  <2>1. side_effect' = IF SideEffect(k) THEN k ELSE side_effect
    BY DEF AddNode, Remember
  <2>2. CASE m = k
    BY <2>1, <2>2, <1>1 DEF UpTo
  <2>3. CASE m \in 1 .. k - 1
    <3>1. UpTo(pos, m, side_effect)
      BY <2>3 DEF ScanOrder
    <3>2. SideEffect(k) => side_effect \in Before
      BY DEF Before, Memory
    <3> QED
      BY <2>1, <2>3, <3>1, <3>2, <1>1, <1>4 DEF UpTo
  <2> QED
    BY <2>2, <2>3, <1>9
<1>13. \A m \in 1 .. k :
         block[m].op = "load" => m \in load_insts' \/ UpTo(pos, m, side_effect')
  <2> SUFFICES ASSUME NEW m \in 1 .. k, block[m].op = "load"
               PROVE  m \in load_insts' \/ UpTo(pos, m, side_effect')
    OBVIOUS
  <2>1. /\ side_effect' = IF SideEffect(k) THEN k ELSE side_effect
        /\ load_insts' = IF SideEffect(k) THEN {}
                         ELSE IF block[k].op = "load" THEN load_insts \cup {k} ELSE load_insts
    BY DEF AddNode, Remember
  <2>2. CASE m = k
    BY <2>1, <2>2 DEF SideEffect
  <2>3. CASE m \in 1 .. k - 1
    <3>1. m \in load_insts \/ UpTo(pos, m, side_effect)
      BY <2>3 DEF ScanOrder
    <3>2. SideEffect(k) => side_effect \in Before /\ load_insts \subseteq Before
      BY DEF Before, Memory
    <3>3. m # 0
      BY <2>3, <1>1
    <3>4. SideEffect(k) => UpTo(pos, m, k)
      BY <2>3, <3>1, <3>2, <3>3, <1>1, <1>3, <1>4 DEF UpTo
    <3> QED
      BY <2>1, <3>1, <3>4
  <2> QED
    BY <2>2, <2>3, <1>9
<1>14. \A m, n \in 1 .. k : MustPrecede(m, n) => pos[m] < pos[n]
  <2> SUFFICES ASSUME NEW m \in 1 .. k, NEW n \in 1 .. k, MustPrecede(m, n)
               PROVE  pos[m] < pos[n]
    OBVIOUS
  <2>1. m < n
    BY DEF MustPrecede
  <2>2. CASE n = k
    BY <2>1, <2>2, <1>1, <1>8
  <2>3. CASE n \in 1 .. k - 1
    <3>1. m \in 1 .. k - 1
      BY <2>1, <2>3, <1>1
    <3> QED
      BY <2>3, <3>1 DEF ScanOrder
  <2> QED
    BY <2>2, <2>3, <1>9
<1> QED
  BY <1>2, <1>6, <1>7, <1>9, <1>10, <1>11, <1>12, <1>13, <1>14 DEF ScanOrder

LEMMA AddNodeOrders ==
  ASSUME TypeOK, Scanned, AddNode, GraphOrders
  PROVE  GraphOrders'
<1>1. Node' = Node /\ edges \subseteq edges'
  BY AddNodeScanned
<1>2. ASSUME NEW pos \in [Node -> Int], Respects(pos)'
      PROVE  ScanOrder(pos)'
  <2>1. Respects(pos)
    BY <1>1, <1>2 DEF Respects
  <2>2. ScanOrder(pos)
    BY <2>1 DEF GraphOrders
  <2> QED
    BY <1>2, <2>2, AddNodeOrder
<1> QED
  BY <1>1, <1>2 DEF GraphOrders

LEMMA OtherOrders ==
  ASSUME GraphOrders, UNCHANGED <<block, scanVars>>
  PROVE  GraphOrders'
<1>1. /\ block' = block /\ k' = k /\ read_insts' = read_insts /\ write_insts' = write_insts
      /\ side_effect' = side_effect /\ load_insts' = load_insts /\ edges' = edges
  BY DEF scanVars
<1>2. \A n : Def(n)' = Def(n) /\ Use(n)' = Use(n) /\ (SideEffect(n)' <=> SideEffect(n))
             /\ (Control(n)' <=> Control(n))
  BY <1>1 DEF Def, Use, SideEffect, Control
<1>3. \A m, n : MustPrecede(m, n)' <=> MustPrecede(m, n)
  BY <1>1, <1>2 DEF MustPrecede, Reads, Accesses
<1>4. ASSUME NEW pos \in [Node -> Int], Respects(pos)'
      PROVE  ScanOrder(pos)'
  <2>1. Respects(pos)
    BY <1>1, <1>4 DEF Respects
  <2>2. ScanOrder(pos)
    BY <2>1 DEF GraphOrders
  <2> QED
    BY <1>1, <1>2, <1>3, <2>2 DEF ScanOrder
<1>5. Node' = Node
  BY <1>1 DEF Node
<1> QED
  BY <1>4, <1>5 DEF GraphOrders

-----------------------------------------------------------------------------
(* The other actions.                                                      *)

LEMMA SameScan ==
  ASSUME TypeOK, Scanned, UNCHANGED <<block, scanVars>>
  PROVE  /\ Node' = Node /\ Scanned' /\ block' = block /\ k' = k /\ edges' = edges
         /\ \A n \in Node : Preds(n)' = Preds(n) /\ Succs(n)' = Succs(n)
<1>1. /\ block' = block /\ k' = k /\ read_insts' = read_insts /\ write_insts' = write_insts
      /\ side_effect' = side_effect /\ call_barrier' = call_barrier
      /\ load_insts' = load_insts /\ edges' = edges
  BY DEF scanVars
<1>2. Node' = Node
  BY <1>1 DEF Node
<1> QED
  BY <1>1, <1>2 DEF Scanned, Preds, Succs

LEMMA BeginPrioritiesInv ==
  ASSUME Inv, BeginPriorities
  PROVE  Inv'
<1> USE DEF Inv
<1>1. pc = "graph" /\ pc' = "priorities" /\ UNCHANGED <<block, scanVars, issueVars>>
  BY DEF BeginPriorities
<1>2. /\ Node' = Node /\ Scanned' /\ block' = block /\ k' = k /\ edges' = edges
      /\ \A n \in Node : Preds(n)' = Preds(n) /\ Succs(n)' = Succs(n)
  BY <1>1, SameScan
<1>3. out' = out /\ ready' = ready /\ inflight' = inflight
  BY <1>1 DEF issueVars
<1>4. block \in Seq(Inst)
  BY DEF TypeOK
<1>5. ASSUME NEW n \in Node
      PROVE  Cardinality(Succs(n)) \in Nat /\ (Cardinality(Succs(n)) = 0 <=> Succs(n) = {})
  <2>1. IsFiniteSet(Succs(n)) /\ Cardinality(Succs(n)) \in Nat
    BY <1>4, FiniteSub DEF Succs
  <2> QED
    BY <2>1, EmptyWhenNone, FS_EmptySet
<1>6. temp' \in [Node -> Nat]
  BY <1>5 DEF BeginPriorities
<1>7. priority' \in [Node -> Nat] /\ vis' \subseteq Node
  BY <1>4, InstOf DEF BeginPriorities
<1>8. TypeOK'
  BY <1>1, <1>2, <1>3, <1>6, <1>7 DEF TypeOK, scanVars
<1>9. Counting'
  <2>1. temp' = [n \in Node |-> Cardinality(Succs(n))] /\ vis' = {n \in Node : Succs(n) = {}}
    BY DEF BeginPriorities
  <2>2. Passed' = {}
    BY <2>1, <1>2, <1>5 DEF Passed
  <2>3. \A n \in vis' : temp'[n] = 0
    BY <2>1, <1>5
  <2>4. \A t \in Node : temp'[t] = Cardinality((Succs(t) \ Passed)')
    <3> SUFFICES ASSUME NEW t \in Node
                 PROVE  temp'[t] = Cardinality((Succs(t) \ Passed)')
      OBVIOUS
    <3>1. (Succs(t) \ Passed)' = Succs(t)
      BY <2>2, <1>2
    <3> QED
      BY <3>1, <2>1
  <2> QED
    BY <2>3, <2>4, <1>2 DEF Counting
<1>10. k = Len(block) + 1
  BY NodeSet, <1>4 DEF BeginPriorities, TypeOK
<1>11. Phases'
  BY <1>1, <1>2, <1>10 DEF Phases
<1>12. Waiting' /\ out = <<>>
  BY <1>1, <1>3 DEF Waiting
<1>13. UnitsHold' /\ IssuedOnce'
  BY <1>3 DEF UnitsHold, IssuedOnce, Issued
<1>14. ReadyExact'
  BY <1>1 DEF ReadyExact
<1>15. EdgesKept'
  BY <1>3, <1>12 DEF EdgesKept
<1> QED
  BY <1>2, <1>8, <1>9, <1>11, <1>12, <1>13, <1>14, <1>15

LEMMA PassOnInv ==
  ASSUME Inv, PassOn
  PROVE  Inv'
<1> USE DEF Inv
<1>1. pc = "priorities" /\ pc' = "priorities" /\ UNCHANGED <<block, scanVars, issueVars>>
  BY DEF PassOn
<1>2. /\ Node' = Node /\ Scanned' /\ block' = block /\ k' = k /\ edges' = edges
      /\ \A n \in Node : Preds(n)' = Preds(n) /\ Succs(n)' = Succs(n)
  BY <1>1, SameScan
<1>3. out' = out /\ ready' = ready /\ inflight' = inflight
  BY <1>1 DEF issueVars
<1>4. block \in Seq(Inst) /\ temp \in [Node -> Nat] /\ priority \in [Node -> Nat] /\ vis \subseteq Node
  BY DEF TypeOK
<1>5. PICK n \in vis :
        /\ priority' = [t \in Node |->
             IF t \in Preds(n) /\ Latency(t) + priority[n] > priority[t]
             THEN Latency(t) + priority[n] ELSE priority[t]]
        /\ temp' = [t \in Node |-> IF t \in Preds(n) THEN temp[t] - 1 ELSE temp[t]]
        /\ vis' = (vis \ {n}) \cup {t \in Preds(n) : temp'[t] = 0}
  BY DEF PassOn
<1>6. /\ \A v \in vis : temp[v] = 0
      /\ \A t \in Node : temp[t] = Cardinality(Succs(t) \ Passed)
  BY <1>1 DEF Counting
<1>7. n \in Node /\ temp[n] = 0 /\ n \notin Passed
  BY <1>4, <1>6 DEF Passed
<1>8. ASSUME NEW t \in Preds(n)
      PROVE  /\ t \in Node /\ temp[t] # 0 /\ temp[t] - 1 \in Nat
             /\ temp[t] - 1 = Cardinality((Succs(t) \ Passed) \ {n})
  <2>1. t \in Node /\ n \in Succs(t) \ Passed
    BY <1>7 DEF Preds, Succs
  <2>2. IsFiniteSet(Succs(t) \ Passed)
    BY <1>4, FiniteSub DEF Succs
  <2>3. /\ Cardinality((Succs(t) \ Passed) \ {n}) = Cardinality(Succs(t) \ Passed) - 1
        /\ IsFiniteSet((Succs(t) \ Passed) \ {n})
    BY <2>1, <2>2, FS_RemoveElement
  <2>4. Cardinality((Succs(t) \ Passed) \ {n}) \in Nat
    BY <2>3, FS_CardinalityType
  <2> QED
    BY <2>1, <2>3, <2>4, <1>4, <1>6
<1>9. temp' \in [Node -> Nat]
  <2>1. ASSUME NEW t \in Node
        PROVE  (IF t \in Preds(n) THEN temp[t] - 1 ELSE temp[t]) \in Nat
    <3>1. CASE t \in Preds(n)
      BY <3>1, <1>8
    <3>2. CASE t \notin Preds(n)
      BY <3>2, <1>4
    <3> QED
      BY <3>1, <3>2
  <2> QED
    BY <1>5, <2>1
<1>10. priority' \in [Node -> Nat]
  <2>1. ASSUME NEW t \in Node
        PROVE  (IF t \in Preds(n) /\ Latency(t) + priority[n] > priority[t]
                THEN Latency(t) + priority[n] ELSE priority[t]) \in Nat
    <3>1. Latency(t) \in 1 .. 8 /\ priority[n] \in Nat /\ priority[t] \in Nat
      BY <1>4, <1>7, InstOf
    <3> QED
      BY <3>1
  <2> QED
    BY <1>5, <2>1
<1>11. vis' \subseteq Node
  BY <1>4, <1>5 DEF Preds
<1>12. TypeOK'
  BY <1>1, <1>2, <1>3, <1>9, <1>10, <1>11 DEF TypeOK, scanVars
<1>13. Passed' = Passed \cup {n}
  <2>1. Passed' = {t \in Node : temp'[t] = 0} \ vis'
    BY <1>2 DEF Passed
  <2>2. ASSUME NEW t \in Node
        PROVE  t \in Passed' <=> t \in Passed \/ t = n
    <3>1. CASE t \in Preds(n)
      <4>1. temp[t] # 0 /\ t # n /\ t \notin Passed
        BY <3>1, <1>7, <1>8 DEF Passed
      <4>2. temp'[t] = 0 => t \in vis'
        BY <3>1, <1>5
      <4> QED
        BY <4>1, <4>2, <2>1
    <3>2. CASE t \notin Preds(n)
      <4>1. temp'[t] = temp[t] /\ (t \in vis' <=> t \in vis /\ t # n)
        BY <3>2, <1>5
      <4> QED
        BY <4>1, <2>1, <1>7 DEF Passed
    <3> QED
      BY <3>1, <3>2
  <2>3. Passed \subseteq Node /\ Passed' \subseteq Node
    BY <2>1 DEF Passed
  <2> QED
    BY <2>2, <2>3, <1>7
<1>14. Counting'
  <2>1. ASSUME NEW v \in vis'
        PROVE  temp'[v] = 0
    <3>1. CASE v \in Preds(n)
      <4>1. v \notin vis
        BY <3>1, <1>6, <1>8
      <4> QED
        BY <4>1, <1>5
    <3>2. CASE v \notin Preds(n)
      BY <3>2, <1>4, <1>5, <1>6
    <3> QED
      BY <3>1, <3>2
  <2>2. ASSUME NEW t \in Node
        PROVE  temp'[t] = Cardinality((Succs(t) \ Passed)')
    <3>1. (Succs(t) \ Passed)' = (Succs(t) \ Passed) \ {n}
      BY <1>2, <1>13
    <3>2. CASE t \in Preds(n)
      BY <3>1, <3>2, <1>5, <1>8
    <3>3. CASE t \notin Preds(n)
      <4>1. n \notin Succs(t)
        BY <3>3, <1>7 DEF Preds, Succs
      <4>2. (Succs(t) \ Passed)' = Succs(t) \ Passed
        BY <3>1, <4>1
      <4> QED
        BY <4>2, <3>3, <1>5, <1>6
    <3> QED
      BY <3>2, <3>3
  <2>3. \A v \in vis' : temp'[v] = 0
    BY <2>1
  <2>4. \A t \in Node : temp'[t] = Cardinality((Succs(t) \ Passed)')
    BY <2>2
  <2> QED
    BY <2>3, <2>4, <1>2 DEF Counting
<1>15. Phases' /\ Waiting' /\ out = <<>>
  BY <1>1, <1>2, <1>3 DEF Phases, Waiting
<1>16. UnitsHold' /\ IssuedOnce'
  BY <1>3 DEF UnitsHold, IssuedOnce, Issued
<1>17. ReadyExact'
  BY <1>1 DEF ReadyExact
<1>18. EdgesKept'
  BY <1>3, <1>15 DEF EdgesKept
<1> QED
  BY <1>2, <1>12, <1>14, <1>15, <1>16, <1>17, <1>18

\* Before anything is issued nothing is complete.
LEMMA BeginIssueInv ==
  ASSUME Inv, BeginIssue
  PROVE  Inv'
<1> USE DEF Inv
<1>1. pc = "priorities" /\ pc' = "issue" /\ UNCHANGED <<block, scanVars, priority, vis, inflight, out>>
  BY DEF BeginIssue
<1>2. /\ Node' = Node /\ Scanned' /\ block' = block /\ k' = k /\ edges' = edges
      /\ \A n \in Node : Preds(n)' = Preds(n) /\ Succs(n)' = Succs(n)
  BY <1>1, SameScan
<1>3. out = <<>> /\ Issued = {} /\ Issued' = {}
  BY <1>1 DEF Waiting, Issued
<1>4. block \in Seq(Inst)
  BY DEF TypeOK
<1>5. ASSUME NEW n \in Node
      PROVE  Cardinality(Preds(n)) \in Nat /\ (Cardinality(Preds(n)) = 0 <=> Preds(n) = {})
  <2>1. IsFiniteSet(Preds(n)) /\ Cardinality(Preds(n)) \in Nat
    BY <1>4, FiniteSub DEF Preds
  <2> QED
    BY <2>1, EmptyWhenNone, FS_EmptySet
<1>6. temp' = [n \in Node |-> Cardinality(Preds(n))] /\ ready' = {n \in Node : Preds(n) = {}}
  BY DEF BeginIssue
<1>7. temp' \in [Node -> Nat] /\ ready' \subseteq Node
  BY <1>5, <1>6
<1>8. TypeOK'
  BY <1>1, <1>2, <1>7 DEF TypeOK, scanVars
<1>9. ReadyExact'
  <2>1. Completed' = {}
    BY <1>3 DEF Completed
  <2>2. \A t \in Node : temp'[t] = Cardinality((Preds(t) \ Completed)')
    <3> SUFFICES ASSUME NEW t \in Node
                 PROVE  temp'[t] = Cardinality((Preds(t) \ Completed)')
      OBVIOUS
    <3>1. (Preds(t) \ Completed)' = Preds(t)
      BY <2>1, <1>2
    <3> QED
      BY <3>1, <1>6
  <2>3. \A t \in Node : temp'[t] = 0 <=> t \in ready' \cup Issued'
    BY <1>3, <1>5, <1>6
  <2> QED
    BY <2>2, <2>3, <1>2, <1>3 DEF ReadyExact
<1>10. Phases' /\ Counting' /\ Waiting'
  BY <1>1, <1>2 DEF Phases, Counting, Waiting
<1>11. UnitsHold' /\ IssuedOnce'
  BY <1>1 DEF UnitsHold, IssuedOnce, Issued
<1>12. EdgesKept'
  BY <1>1, <1>3 DEF EdgesKept
<1> QED
  BY <1>2, <1>8, <1>9, <1>10, <1>11, <1>12

LEMMA EndIssueInv ==
  ASSUME Inv, EndIssue
  PROVE  Inv'
<1> USE DEF Inv
<1>1. pc = "issue" /\ pc' = "done" /\ UNCHANGED <<block, scanVars, priority, temp, vis, issueVars>>
  BY DEF EndIssue
<1>2. /\ Node' = Node /\ Scanned' /\ block' = block /\ k' = k /\ edges' = edges
      /\ \A n \in Node : Preds(n)' = Preds(n) /\ Succs(n)' = Succs(n)
  BY <1>1, SameScan
<1>3. out' = out /\ ready' = ready /\ inflight' = inflight /\ temp' = temp
  BY <1>1 DEF issueVars
<1>4. TypeOK'
  BY <1>1, <1>2, <1>3 DEF TypeOK, scanVars
<1>5. Issued' = Issued /\ Completed' = Completed
  BY <1>3 DEF Issued, Completed, Running
<1>6. \A t \in Node : (Preds(t) \ Completed)' = Preds(t) \ Completed
  BY <1>2, <1>5
<1>7. ReadyExact'
  BY <1>1, <1>2, <1>3, <1>5, <1>6 DEF ReadyExact
<1>8. Phases' /\ Counting' /\ Waiting'
  BY <1>1, <1>2, <1>3 DEF Phases, Counting, Waiting, EndIssue, Busy
<1>9. UnitsHold' /\ IssuedOnce' /\ EdgesKept'
  BY <1>2, <1>3, <1>5 DEF UnitsHold, IssuedOnce, EdgesKept
<1> QED
  BY <1>2, <1>4, <1>7, <1>8, <1>9

LEMMA FireInv ==
  ASSUME Inv, Fire
  PROVE  Inv'
<1> USE DEF Inv
<1>1. pc = "issue" /\ pc' = "issue" /\ UNCHANGED <<block, scanVars, priority, temp, vis>>
  BY DEF Fire
<1>2. /\ Node' = Node /\ Scanned' /\ block' = block /\ k' = k /\ edges' = edges
      /\ \A n \in Node : Preds(n)' = Preds(n) /\ Succs(n)' = Succs(n)
  BY <1>1, SameScan
<1>3. /\ block \in Seq(Inst) /\ out \in Seq(Node) /\ ready \subseteq Node
      /\ inflight \in [DOMAIN Units -> [node : Node \cup {0}, left : 0 .. 8]]
  BY DEF TypeOK
<1>4. PICK n \in ready, u \in DOMAIN Units :
        /\ FirstFree(u, n)
        /\ ready' = ready \ {n} /\ out' = Append(out, n)
        /\ inflight' = [inflight EXCEPT ![u] = [node |-> n, left |-> Latency(n)]]
  BY DEF Fire
<1>5. n \in Node /\ n # 0 /\ Latency(n) \in 1 .. 8 /\ inflight[u] = Idle
  BY <1>3, <1>4, NodeSet, InstOf DEF FirstFree, Free
<1>6. /\ n \notin Issued /\ temp[n] = 0
      /\ \A t \in Node : temp[t] = Cardinality(Preds(t) \ Completed)
      /\ \A t \in Node : temp[t] = 0 <=> t \in ready \cup Issued
      /\ ready \cap Issued = {}
  BY <1>1, <1>4, <1>5 DEF ReadyExact
<1>7. Len(out) \in Nat /\ DOMAIN out = 1 .. Len(out)
  BY <1>3
<1>8. /\ DOMAIN out' = 1 .. Len(out) + 1 /\ out'[Len(out) + 1] = n
      /\ \A p \in DOMAIN out : p \in DOMAIN out' /\ out'[p] = out[p] /\ p < Len(out) + 1
  BY <1>3, <1>4, <1>5, <1>7
<1>9. ASSUME NEW p \in DOMAIN out'
      PROVE  p \in DOMAIN out \/ p = Len(out) + 1
  BY <1>7, <1>8
<1>10. Issued' = Issued \cup {n}
  <2>1. Issued' = {out'[p] : p \in DOMAIN out'}
    BY DEF Issued
  <2>2. ASSUME NEW x \in Issued'
        PROVE  x \in Issued \cup {n}
    BY <2>1, <1>8, <1>9 DEF Issued
  <2>3. n \in Issued'
    BY <2>1, <1>7, <1>8
  <2>4. ASSUME NEW x \in Issued
        PROVE  x \in Issued'
    BY <2>1, <1>8 DEF Issued
  <2> QED
    BY <2>2, <2>3, <2>4
<1>11. /\ inflight'[u] = [node |-> n, left |-> Latency(n)]
       /\ \A v \in DOMAIN Units : v # u => inflight'[v] = inflight[v]
  BY <1>3, <1>4
<1>12. Completed' = Completed
  <2>1. 0 \notin Issued /\ Issued \subseteq Node
    BY <1>3, NodeSet DEF Issued
  <2>2. ASSUME NEW x \in Issued
        PROVE  x \in Running' <=> x \in Running
    <3>1. x # n /\ x # 0
      BY <2>1, <1>6
    <3>2. x \in Running <=> \E v \in DOMAIN Units : inflight[v].node = x
      BY DEF Running
    <3>3. x \in Running' <=> \E v \in DOMAIN Units : inflight'[v].node = x
      BY DEF Running
    <3>4. inflight[u].node = 0 /\ inflight'[u].node = n
      BY <1>5, <1>11 DEF Idle
    <3> QED
      BY <3>1, <3>2, <3>3, <3>4, <1>11
  <2>3. n \in Running'
    BY <1>11 DEF Running
  <2> QED
    BY <2>2, <2>3, <1>10 DEF Completed
<1>13. TypeOK'
  <2>1. out' \in Seq(Node) /\ ready' \subseteq Node
    BY <1>3, <1>4, <1>5
  <2>2. inflight' \in [DOMAIN Units -> [node : Node \cup {0}, left : 0 .. 8]]
    <3>1. [node |-> n, left |-> Latency(n)] \in [node : Node \cup {0}, left : 0 .. 8]
      BY <1>5
    <3> QED
      BY <3>1, <1>3, <1>4
  <2> QED
    BY <2>1, <2>2, <1>1, <1>2 DEF TypeOK, scanVars
<1>14. UnitsHold'
  <2>1. ASSUME NEW v \in DOMAIN Units
        PROVE  inflight'[v] = Idle \/ (inflight'[v].node \in Issued' /\ inflight'[v].left \in 1 .. 8)
    <3>1. CASE v = u
      BY <3>1, <1>5, <1>10, <1>11
    <3>2. CASE v # u
      BY <3>2, <1>10, <1>11 DEF UnitsHold
    <3> QED
      BY <3>1, <3>2
  <2>2. ASSUME NEW v \in DOMAIN Units, v # u
        PROVE  inflight[v].node # n
    BY <1>5, <1>6 DEF UnitsHold, Idle
  <2>3. ASSUME NEW v \in DOMAIN Units, NEW w \in DOMAIN Units,
               inflight'[v].node = inflight'[w].node, inflight'[v].node # 0
        PROVE  v = w
    <3>1. CASE v = u \/ w = u
      BY <3>1, <2>2, <2>3, <1>11
    <3>2. CASE v # u /\ w # u
      BY <3>2, <2>3, <1>11 DEF UnitsHold
    <3> QED
      BY <3>1, <3>2
  <2> QED
    BY <2>1, <2>3 DEF UnitsHold
<1>15. ReadyExact'
  <2>1. \A t \in Node : temp'[t] = Cardinality((Preds(t) \ Completed)')
    <3> SUFFICES ASSUME NEW t \in Node
                 PROVE  temp'[t] = Cardinality((Preds(t) \ Completed)')
      OBVIOUS
    <3>1. (Preds(t) \ Completed)' = Preds(t) \ Completed
      BY <1>2, <1>12
    <3> QED
      BY <3>1, <1>1, <1>6
  <2>2. ready' \cap Issued' = {} /\ ready' \cup Issued' = ready \cup Issued
    BY <1>4, <1>6, <1>10
  <2>3. \A t \in Node : temp'[t] = 0 <=> t \in ready' \cup Issued'
    BY <2>2, <1>1, <1>6
  <2> QED
    BY <2>1, <2>2, <2>3, <1>2 DEF ReadyExact
<1>16. IssuedOnce'
  <2>1. ASSUME NEW p \in DOMAIN out', NEW q \in DOMAIN out', out'[p] = out'[q]
        PROVE  p = q
    <3>1. \A x \in DOMAIN out : out'[x] # n
      BY <1>6, <1>8 DEF Issued
    <3>2. (p \in DOMAIN out /\ q \in DOMAIN out) \/ (p = Len(out) + 1 /\ q = Len(out) + 1)
      BY <3>1, <2>1, <1>8, <1>9
    <3> QED
      BY <3>2, <2>1, <1>8 DEF IssuedOnce
  <2> QED
    BY <2>1 DEF IssuedOnce
<1>17. EdgesKept'
  <2>1. ASSUME NEW q \in DOMAIN out', NEW m \in Node, <<m, out'[q]>> \in edges
        PROVE  \E p \in DOMAIN out' : p < q /\ out'[p] = m
    <3>1. CASE q \in DOMAIN out
      <4>1. \E p \in DOMAIN out : p < q /\ out[p] = m
        BY <3>1, <2>1, <1>8 DEF EdgesKept
      <4> QED
        BY <4>1, <1>8
    <3>2. CASE q = Len(out) + 1
      <4>1. m \in Preds(n)
        BY <3>2, <2>1, <1>8 DEF Preds
      <4>2. IsFiniteSet(Preds(n) \ Completed)
        BY <1>3, FiniteSub DEF Preds
      <4>3. Preds(n) \ Completed = {}
        BY <4>2, <1>5, <1>6, EmptyWhenNone
      <4>4. m \in Issued
        BY <4>1, <4>3 DEF Completed
      <4>5. PICK p \in DOMAIN out : out[p] = m
        BY <4>4 DEF Issued
      <4> QED
        BY <4>5, <3>2, <1>8
    <3> QED
      BY <3>1, <3>2, <1>9
  <2> QED
    BY <2>1, <1>2 DEF EdgesKept
<1>18. Phases' /\ Counting' /\ Waiting'
  BY <1>1, <1>2 DEF Phases, Counting, Waiting
<1> QED
  BY <1>2, <1>13, <1>14, <1>15, <1>16, <1>17, <1>18

LEMMA CycleInv ==
  ASSUME Inv, Cycle
  PROVE  Inv'
<1> USE DEF Inv
<1>1. pc = "issue" /\ pc' = "issue" /\ UNCHANGED <<block, scanVars, priority, vis, out>>
  BY DEF Cycle
<1>2. /\ Node' = Node /\ Scanned' /\ block' = block /\ k' = k /\ edges' = edges
      /\ \A n \in Node : Preds(n)' = Preds(n) /\ Succs(n)' = Succs(n)
  BY <1>1, SameScan
<1>3. /\ block \in Seq(Inst) /\ out \in Seq(Node) /\ ready \subseteq Node
      /\ temp \in [Node -> Nat]
      /\ inflight \in [DOMAIN Units -> [node : Node \cup {0}, left : 0 .. 8]]
  BY DEF TypeOK
<1>4. /\ temp' = [t \in Node |-> temp[t] - Cardinality(Preds(t) \cap Finished)]
      /\ ready' = ready \cup {t \in Node : Preds(t) \cap Finished # {} /\ temp'[t] = 0}
      /\ inflight' = [u \in DOMAIN Units |->
           IF inflight[u].left <= 1 THEN Idle ELSE [inflight[u] EXCEPT !.left = @ - 1]]
  BY DEF Cycle
<1>5. /\ \A t \in Node : temp[t] = Cardinality(Preds(t) \ Completed)
      /\ \A t \in Node : temp[t] = 0 <=> t \in ready \cup Issued
      /\ ready \cap Issued = {}
  BY <1>1 DEF ReadyExact
<1>6. Issued' = Issued /\ Issued \subseteq Node /\ 0 \notin Node
  BY <1>1, <1>3, NodeSet DEF Issued
<1>7. ASSUME NEW u \in DOMAIN Units
      PROVE  /\ \/ inflight'[u] = Idle
                \/ /\ inflight'[u].node = inflight[u].node /\ inflight[u].node \in Issued
                   /\ inflight[u].left \in 2 .. 8 /\ inflight'[u].left \in 1 .. 8
             /\ inflight[u].node # 0 /\ inflight[u].left # 1 => inflight'[u].node = inflight[u].node
             /\ inflight'[u] \in [node : Node \cup {0}, left : 0 .. 8]
  <2>1. inflight[u] \in [node : Node \cup {0}, left : 0 .. 8]
    BY <1>3
  <2>2. inflight'[u] = IF inflight[u].left <= 1 THEN Idle ELSE [inflight[u] EXCEPT !.left = @ - 1]
    BY <1>4
  <2>3. [inflight[u] EXCEPT !.left = @ - 1] = [node |-> inflight[u].node, left |-> inflight[u].left - 1]
    BY <2>1
  <2>4. Idle.node = 0 /\ Idle.left = 0 /\ Idle \in [node : Node \cup {0}, left : 0 .. 8]
    BY DEF Idle
  <2>5. CASE inflight[u] = Idle
    <3>1. inflight'[u] = Idle
      BY <2>2, <2>4, <2>5
    <3> QED
      BY <3>1, <2>4, <2>5
  <2>6. CASE inflight[u].node \in Issued /\ inflight[u].left = 1
    <3>1. inflight'[u] = Idle
      BY <2>2, <2>6
    <3> QED
      BY <3>1, <2>4, <2>6
  <2>7. CASE inflight[u].node \in Issued /\ inflight[u].left \in 2 .. 8
    <3>1. inflight'[u] = [node |-> inflight[u].node, left |-> inflight[u].left - 1]
      BY <2>2, <2>3, <2>7
    <3>2. inflight[u].left - 1 \in 1 .. 8 /\ inflight[u].left - 1 \in 0 .. 8
      BY <2>7
    <3>3. inflight'[u].node = inflight[u].node /\ inflight'[u].left \in 1 .. 8
      BY <3>1, <3>2
    <3>4. inflight'[u] \in [node : Node \cup {0}, left : 0 .. 8]
      BY <3>1, <3>2, <2>1
    <3> QED
      BY <3>3, <3>4, <2>7
  <2> QED
    BY <2>5, <2>6, <2>7 DEF UnitsHold
<1>8. Finished \subseteq Issued /\ Finished \subseteq Running /\ Finished \subseteq Node
  <2>1. ASSUME NEW n \in Finished
        PROVE  n \in Issued /\ n \in Running /\ n \in Node
    <3>1. PICK u \in DOMAIN Units : inflight[u] = [node |-> n, left |-> 1]
      BY DEF Finished
    <3>2. inflight[u].node = n /\ inflight[u].left = 1 /\ inflight[u] # Idle
      BY <3>1 DEF Idle
    <3>3. n \in Running
      BY <3>2 DEF Running
    <3>4. n \in Issued
      BY <3>2 DEF UnitsHold
    <3> QED
      BY <3>3, <3>4, <1>6
  <2> QED
    BY <2>1
<1>9. ASSUME NEW n \in Issued
      PROVE  n \in Running' <=> n \in Running /\ n \notin Finished
  <2>1. n # 0
    BY <1>6
  <2>2. n \in Running <=> \E u \in DOMAIN Units : inflight[u].node = n
    BY DEF Running
  <2>3. n \in Running' <=> \E u \in DOMAIN Units : inflight'[u].node = n
    BY DEF Running
  <2>4. ASSUME NEW u \in DOMAIN Units, inflight'[u].node = n
        PROVE  n \in Running /\ n \notin Finished
    <3>1. inflight[u].node = n /\ inflight[u].left \in 2 .. 8
      <4>1. inflight'[u] # Idle
        BY <2>1, <2>4 DEF Idle
      <4> QED
        BY <4>1, <2>4, <1>7
    <3>2. ASSUME NEW v \in DOMAIN Units, inflight[v] = [node |-> n, left |-> 1]
          PROVE  FALSE
      <4>1. v = u
        BY <2>1, <3>1, <3>2 DEF UnitsHold
      <4> QED
        BY <4>1, <3>1, <3>2
    <3> QED
      BY <3>1, <3>2, <2>2 DEF Finished
  <2>5. ASSUME NEW u \in DOMAIN Units, inflight[u].node = n, n \notin Finished
        PROVE  n \in Running'
    <3>1. inflight[u] \in [node : Node \cup {0}, left : 0 .. 8]
      BY <1>3
    <3>2. inflight[u].left # 1
      BY <3>1, <2>5, <1>6 DEF Finished
    <3>3. inflight'[u].node = n
      BY <2>1, <2>5, <3>2, <1>7
    <3> QED
      BY <3>3, <2>3
  <2> QED
    BY <2>2, <2>3, <2>4, <2>5
<1>10. Completed' = Completed \cup Finished
  BY <1>6, <1>8, <1>9 DEF Completed
<1>11. ASSUME NEW t \in Node
       PROVE  /\ temp'[t] = Cardinality(Preds(t) \ (Completed \cup Finished))
              /\ temp'[t] \in Nat
              /\ Preds(t) \cap Finished = {} => temp'[t] = temp[t]
              /\ temp[t] = 0 => Preds(t) \cap Finished = {}
  <2> DEFINE S == Preds(t) \ Completed
             F == Preds(t) \cap Finished
  <2>1. IsFiniteSet(S) /\ IsFiniteSet(Preds(t) \ (Completed \cup Finished))
    BY <1>3, FiniteSub DEF Preds
  <2>2. F = S \cap Finished
    BY <1>8 DEF Completed
  <2>3. Preds(t) \ (Completed \cup Finished) = S \ Finished
    OBVIOUS
  <2>4. temp[t] = Cardinality(S) /\ temp'[t] = temp[t] - Cardinality(F)
    BY <1>4, <1>5
  <2> HIDE DEF S, F
  <2>5. Cardinality(S \ Finished) = Cardinality(S) - Cardinality(S \cap Finished)
    BY <2>1, FS_Difference
  <2>6. temp'[t] = Cardinality(Preds(t) \ (Completed \cup Finished))
    BY <2>2, <2>3, <2>4, <2>5
  <2>7. temp'[t] \in Nat
    BY <2>1, <2>6, FS_CardinalityType
  <2>8. F = {} => temp'[t] = temp[t]
    <3>1. Cardinality({}) = 0 /\ temp[t] \in Nat
      BY <1>3, FS_EmptySet
    <3> QED
      BY <3>1, <2>4
  <2>9. temp[t] = 0 => F = {}
    BY <2>1, <2>2, <2>4, EmptyWhenNone
  <2> QED
    BY <2>6, <2>7, <2>8, <2>9 DEF F
<1>12. temp' \in [Node -> Nat] /\ ready' \subseteq Node
  BY <1>3, <1>4, <1>11
<1>13. inflight' \in [DOMAIN Units -> [node : Node \cup {0}, left : 0 .. 8]]
  <2>1. ASSUME NEW u \in DOMAIN Units
        PROVE  inflight'[u] \in [node : Node \cup {0}, left : 0 .. 8]
    BY <1>7
  <2>2. inflight' = [u \in DOMAIN Units |-> inflight'[u]]
    BY <1>4
  <2> QED
    BY <2>1, <2>2
<1>14. TypeOK'
  BY <1>1, <1>2, <1>12, <1>13 DEF TypeOK, scanVars
<1>15. UnitsHold'
  <2>1. ASSUME NEW u \in DOMAIN Units
        PROVE  inflight'[u] = Idle \/ (inflight'[u].node \in Issued' /\ inflight'[u].left \in 1 .. 8)
    BY <1>6, <1>7
  <2>2. ASSUME NEW u \in DOMAIN Units, NEW v \in DOMAIN Units,
               inflight'[u].node = inflight'[v].node, inflight'[u].node # 0
        PROVE  u = v
    <3>1. inflight'[u].node = inflight[u].node /\ inflight'[v].node = inflight[v].node
      <4>1. inflight'[u] # Idle /\ inflight'[v] # Idle
        BY <2>2 DEF Idle
      <4> QED
        BY <4>1, <1>7
    <3> QED
      BY <3>1, <2>2 DEF UnitsHold
  <2> QED
    BY <2>1, <2>2 DEF UnitsHold
<1>16. ReadyExact'
  <2>1. \A t \in Node : temp'[t] = Cardinality((Preds(t) \ Completed)')
    <3> SUFFICES ASSUME NEW t \in Node
                 PROVE  temp'[t] = Cardinality((Preds(t) \ Completed)')
      OBVIOUS
    <3>1. (Preds(t) \ Completed)' = Preds(t) \ (Completed \cup Finished)
      BY <1>2, <1>10
    <3> QED
      BY <3>1, <1>11
  <2>2. ready' \cap Issued' = {}
    BY <1>4, <1>5, <1>6, <1>11
  <2>3. \A t \in Node : temp'[t] = 0 <=> t \in ready' \cup Issued'
    BY <1>4, <1>5, <1>6, <1>11
  <2> QED
    BY <2>1, <2>2, <2>3, <1>2 DEF ReadyExact
<1>17. Phases' /\ Counting' /\ Waiting' /\ IssuedOnce' /\ EdgesKept'
  BY <1>1, <1>2 DEF Phases, Counting, Waiting, IssuedOnce, EdgesKept
<1> QED
  BY <1>2, <1>14, <1>15, <1>16, <1>17

LEMMA NextInv == Inv /\ GraphOrders /\ [Next]_vars => Inv' /\ GraphOrders'
<1> SUFFICES ASSUME Inv, GraphOrders, [Next]_vars
             PROVE  Inv' /\ GraphOrders'
  OBVIOUS
<1>1. CASE AddNode
  BY <1>1, AddNodeInv, AddNodeOrders DEF Inv
<1>2. CASE BeginPriorities
  BY <1>2, BeginPrioritiesInv, OtherOrders DEF BeginPriorities
<1>3. CASE PassOn
  BY <1>3, PassOnInv, OtherOrders DEF PassOn
<1>4. CASE BeginIssue
  BY <1>4, BeginIssueInv, OtherOrders DEF BeginIssue
<1>5. CASE Fire
  BY <1>5, FireInv, OtherOrders DEF Fire
<1>6. CASE Cycle
  BY <1>6, CycleInv, OtherOrders DEF Cycle
<1>7. CASE EndIssue
  BY <1>7, EndIssueInv, OtherOrders DEF EndIssue
<1>8. CASE UNCHANGED vars
  <2>1. /\ block' = block /\ pc' = pc /\ priority' = priority /\ temp' = temp /\ vis' = vis
        /\ ready' = ready /\ inflight' = inflight /\ out' = out
        /\ UNCHANGED <<block, scanVars>>
    BY <1>8 DEF vars, issueVars
  <2>2. /\ Node' = Node /\ Scanned' /\ k' = k /\ edges' = edges
        /\ \A n \in Node : Preds(n)' = Preds(n) /\ Succs(n)' = Succs(n)
    BY <2>1, SameScan DEF Inv
  <2>3. Issued' = Issued /\ Completed' = Completed /\ Passed' = Passed
    BY <2>1, <2>2 DEF Issued, Completed, Running, Passed
  <2>4. \A t \in Node : /\ (Preds(t) \ Completed)' = Preds(t) \ Completed
                        /\ (Succs(t) \ Passed)' = Succs(t) \ Passed
    BY <2>2, <2>3
  <2>5. TypeOK'
    BY <2>1, <2>2 DEF Inv, TypeOK, scanVars
  <2>6. Counting' /\ ReadyExact'
    BY <2>1, <2>2, <2>3, <2>4 DEF Inv, Counting, ReadyExact
  <2>7. Phases' /\ Waiting' /\ UnitsHold' /\ IssuedOnce' /\ EdgesKept'
    BY <2>1, <2>2, <2>3 DEF Inv, Phases, Waiting, UnitsHold, IssuedOnce, EdgesKept
  <2> QED
    BY <2>1, <2>2, <2>5, <2>6, <2>7, OtherOrders DEF Inv
<1> QED
  BY <1>1, <1>2, <1>3, <1>4, <1>5, <1>6, <1>7, <1>8 DEF Next

LEMMA Invariance == Spec => [](Inv /\ GraphOrders)
<1>1. Inv /\ GraphOrders /\ [Next]_vars => Inv' /\ GraphOrders'
  BY NextInv
<1> QED
  BY InitInv, <1>1, PTL DEF Spec

-----------------------------------------------------------------------------
(* The theorems.                                                           *)

\* Every state of the pass is well typed: the counters never go below 0.
THEOREM TypeCorrect == Spec => []TypeOK
<1>1. Inv => TypeOK
  BY DEF Inv
<1> QED
  BY Invariance, <1>1, PTL

\* The nodes issued come first, in their order, then the others in the order
\* of the block: a placement that respects the edges.
Placement == [n \in Node |->
  IF n \in Issued THEN CHOOSE p \in DOMAIN out : out[p] = n ELSE Len(out) + n]

LEMMA PlacementRespects ==
  ASSUME Inv
  PROVE  /\ Placement \in [Node -> Int] /\ Respects(Placement)
         /\ \A p \in DOMAIN out : Placement[out[p]] = p
<1> USE DEF Inv
<1>1. /\ block \in Seq(Inst) /\ out \in Seq(Node) /\ Len(out) \in Nat
      /\ DOMAIN out = 1 .. Len(out) /\ Node \subseteq Nat \ {0}
  BY NodeSet DEF TypeOK
<1>2. ASSUME NEW p \in DOMAIN out
      PROVE  Placement[out[p]] = p /\ out[p] \in Node /\ out[p] \in Issued
  <2>1. out[p] \in Node /\ out[p] \in Issued
    BY <1>1 DEF Issued
  <2>2. Placement[out[p]] = CHOOSE q \in DOMAIN out : out[q] = out[p]
    BY <2>1 DEF Placement
  <2>3. Placement[out[p]] \in DOMAIN out /\ out[Placement[out[p]]] = out[p]
    BY <2>2
  <2> QED
    BY <2>1, <2>3 DEF IssuedOnce
<1>3. ASSUME NEW n \in Node, n \notin Issued
      PROVE  Placement[n] = Len(out) + n /\ Placement[n] > Len(out)
  BY <1>1, <1>3 DEF Placement
<1>4. ASSUME NEW n \in Node
      PROVE  Placement[n] \in Int
  <2>1. CASE n \in Issued
    <3>1. PICK p \in DOMAIN out : out[p] = n
      BY <2>1 DEF Issued
    <3> QED
      BY <3>1, <1>1, <1>2
  <2>2. CASE n \notin Issued
    BY <2>2, <1>1, <1>3
  <2> QED
    BY <2>1, <2>2
<1>5. ASSUME NEW e \in edges
      PROVE  Placement[e[1]] < Placement[e[2]]
  <2>1. e = <<e[1], e[2]>> /\ e[1] \in Node /\ e[2] \in Node /\ e[1] < e[2]
    BY DEF Scanned
  <2>2. CASE e[2] \in Issued
    <3>1. PICK q \in DOMAIN out : out[q] = e[2]
      BY <2>2 DEF Issued
    <3>2. PICK p \in DOMAIN out : p < q /\ out[p] = e[1]
      BY <2>1, <3>1 DEF EdgesKept
    <3> QED
      BY <3>1, <3>2, <1>2
  <2>3. CASE e[2] \notin Issued /\ e[1] \in Issued
    <3>1. PICK p \in DOMAIN out : out[p] = e[1]
      BY <2>3 DEF Issued
    <3>2. Placement[e[1]] = p /\ p <= Len(out) /\ p \in Nat
      BY <3>1, <1>1, <1>2
    <3> QED
      BY <3>2, <2>1, <2>3, <1>1, <1>3
  <2>4. CASE e[2] \notin Issued /\ e[1] \notin Issued
    BY <2>1, <2>4, <1>1, <1>3
  <2> QED
    BY <2>2, <2>3, <2>4
<1>6. Placement \in [Node -> Int]
  BY <1>4 DEF Placement
<1> QED
  BY <1>2, <1>5, <1>6 DEF Respects

\* Whatever the block, no two instructions that depend on each other through a
\* register, the flags, memory or the end of the block change places.
THEOREM ScheduleKeepsOrder == Spec => []OrderKept
<1>1. Inv /\ GraphOrders => OrderKept
  <2> SUFFICES ASSUME Inv, GraphOrders, NEW p \in DOMAIN out, NEW q \in DOMAIN out, p < q,
                      MustPrecede(out[q], out[p])
               PROVE  FALSE
    BY DEF OrderKept
  <2>1. ScanOrder(Placement)
    BY PlacementRespects DEF GraphOrders
  <2>2. k = Len(block) + 1 /\ out \in Seq(Node) /\ block \in Seq(Inst)
    BY DEF Inv, TypeOK, Phases, Waiting
  <2>3. out[p] \in 1 .. k - 1 /\ out[q] \in 1 .. k - 1
    BY <2>2, NodeSet
  <2>4. Placement[out[q]] < Placement[out[p]]
    BY <2>1, <2>3 DEF ScanOrder
  <2>5. q < p /\ p \in Nat /\ q \in Nat
    BY <2>2, <2>4, PlacementRespects
  <2> QED
    BY <2>5
<1> QED
  BY Invariance, <1>1, PTL

\* Whatever the block, the pass ends with each of its instructions once: the
\* graph has no cycle for them to be lost in.
THEOREM ScheduleKeepsAll == Spec => []AllIssued
<1>1. Inv => AllIssued
  <2> SUFFICES ASSUME Inv
               PROVE  AllIssued
    OBVIOUS
  <2>1. ASSUME pc = "done", Node \ Issued # {}
        PROVE  FALSE
    <3>1. block \in Seq(Inst) /\ Node \ Issued \subseteq Nat
      BY NodeSet DEF Inv, TypeOK
    <3>2. PICK n \in Node \ Issued : \A m \in Node \ Issued : n <= m
      BY <2>1, <3>1, LeastNat
    <3>3. Preds(n) \subseteq Issued
      BY <3>1, <3>2 DEF Preds, Inv, Scanned
    <3>4. ready = {} /\ Running \subseteq {0} /\ 0 \notin Issued
      <4>1. ready = {} /\ \A u \in DOMAIN Units : inflight[u] = Idle
        BY <2>1 DEF Inv, Phases
      <4>2. Running \subseteq {0}
        BY <4>1 DEF Running, Idle
      <4>3. 0 \notin Issued
        BY <3>1, NodeSet DEF Inv, TypeOK, Issued
      <4> QED
        BY <4>1, <4>2, <4>3
    <3>5. Preds(n) \ Completed = {}
      BY <3>3, <3>4 DEF Completed
    <3>6. temp[n] = 0
      BY <2>1, <3>5, FS_EmptySet DEF Inv, ReadyExact
    <3>7. n \in ready \cup Issued
      BY <2>1, <3>6 DEF Inv, ReadyExact
    <3> QED
      BY <3>2, <3>4, <3>7
  <2> QED
    BY <2>1 DEF AllIssued, Inv, IssuedOnce, Issued
<1> QED
  BY Invariance, <1>1, PTL

=============================================================================
