----------------------------- MODULE Scheduling -----------------------------
(***************************************************************************)
(* instruction_schedule of passes/asm/scheduling.cpp on one machine block. *)
(*                                                                         *)
(* A first scan builds the dependence graph, with what the scan remembers  *)
(* of each register and of memory; the priorities are latencies summed     *)
(* from the leaves of the graph; the block is then put together again in   *)
(* the order in which the functional units of a Cortex-A72 would start the *)
(* instructions.                                                           *)
(*                                                                         *)
(* An instruction is its kind, the registers it writes and reads, whether  *)
(* it is conditional and, for a pre- or post-indexed access, the address   *)
(* register that it writes back.  A node of the graph is an index of the   *)
(* block; 0 is a null pointer.                                             *)
(***************************************************************************)
EXTENDS Integers, Sequences, FiniteSets

CONSTANTS
  Regs,    \* registers after allocation, COND among them
  Cond,    \* COND, the operand that stands for the flags
  Blocks   \* the blocks to schedule

Op == {"add", "shifted", "mul", "div", "long_mul", "fma", "move", "load", "store",
       "compare", "call", "global", "return", "branch", "jump"}

\* Loads and stores become conditional only in if_to_cond, which comes later.
Conditional == {"add", "shifted", "mul", "div", "fma", "move", "branch"}

Inst ==
  {x \in [op : Op, dst : SUBSET Regs, src : SUBSET Regs, base : SUBSET Regs, cond : BOOLEAN] :
     x.cond => x.op \in Conditional}

ASSUME CondAssumption == Cond \in Regs
ASSUME BlocksAssumption == Blocks \subseteq Seq(Inst)

VARIABLES
  block,         \* the instructions before the pass
  k,             \* the instruction that the scan comes to
  read_insts,    \* for each register, the readers since it was last written
  write_insts,   \* for each register, the last writer
  side_effect,   \* the last store or call
  call_barrier,  \* the last call
  load_insts,    \* the loads since side_effect
  edges,         \* the dependence graph: out_edges and in_edges
  priority,      \* the priority of each node
  temp,          \* the edges of each node still to be accounted for
  vis,           \* the nodes whose priority is to be passed on
  ready,         \* the nodes that may start
  inflight,      \* the node in each unit, and the cycles it still needs
  out,           \* the instructions after the pass
  pc

scanVars == <<k, read_insts, write_insts, side_effect, call_barrier, load_insts, edges>>
issueVars == <<ready, inflight, out>>
vars == <<block, scanVars, priority, temp, vis, issueVars, pc>>

Node == DOMAIN block

-----------------------------------------------------------------------------
(* Instructions.                                                           *)

Def(n) == block[n].dst \cup block[n].base
          \cup (IF block[n].op \in {"compare", "call"} THEN {Cond} ELSE {})

Use(n) == block[n].src \cup (IF block[n].cond THEN {Cond} ELSE {})

SideEffect(n) == block[n].op \in {"store", "call"}
Control(n) == block[n].op \in {"branch", "jump", "return"}

Kind(n) ==
  CASE block[n].op \in {"call", "return", "branch", "jump"} -> "Branch"
    [] block[n].op \in {"shifted", "mul", "div", "long_mul", "fma"} -> "IntegerMultiple"
    [] block[n].op = "load" -> "Load"
    [] block[n].op = "store" -> "Store"
    [] OTHER -> "Integer"

Latency(n) ==
  CASE block[n].op = "div" -> 8
    [] block[n].op \in {"load", "fma"} -> 4
    [] block[n].op \in {"mul", "long_mul", "store"} -> 3
    [] block[n].op = "shifted" -> 2
    [] block[n].op \in {"add", "move"} /\ block[n].cond -> 2
    [] OTHER -> 1

\* Mutant: nothing takes the stores.
UnitsWithoutStore == <<"Branch", "Integer", "Integer", "IntegerMultiple", "Load">>

Units == <<"Branch", "Integer", "Integer", "IntegerMultiple", "Load", "Store">>

Idle == [node |-> 0, left |-> 0]

-----------------------------------------------------------------------------
Init ==
  /\ block \in Blocks
  /\ k = 1
  /\ read_insts = [r \in Regs |-> {}] /\ write_insts = [r \in Regs |-> 0]
  /\ side_effect = 0 /\ call_barrier = 0 /\ load_insts = {} /\ edges = {}
  /\ priority = [n \in Node |-> 0] /\ temp = [n \in Node |-> 0] /\ vis = {}
  /\ ready = {} /\ inflight = [u \in DOMAIN Units |-> Idle] /\ out = <<>>
  /\ pc = "graph"

-----------------------------------------------------------------------------
(* The dependence graph.                                                   *)

\* Mutant: an instruction may write a register before its readers are through.
RegistersWritten(D, U) == {write_insts[r] : r \in D \cup U}

Registers(D, U) ==
  {write_insts[r] : r \in D \cup U} \cup UNION {read_insts[r] : r \in D}

Memory ==
  IF SideEffect(k) THEN {side_effect} \cup load_insts
  ELSE IF block[k].op = "load" THEN {side_effect}
  ELSE {}

Everything == IF block[k].op = "call" \/ Control(k) THEN 1 .. k - 1 ELSE {}

Remember ==
  /\ read_insts' = [r \in Regs |-> IF r \in Def(k) THEN {}
                                   ELSE IF r \in Use(k) THEN read_insts[r] \cup {k}
                                   ELSE read_insts[r]]
  /\ write_insts' = [r \in Regs |-> IF r \in Def(k) THEN k ELSE write_insts[r]]
  /\ load_insts' = IF SideEffect(k) THEN {}
                   ELSE IF block[k].op = "load" THEN load_insts \cup {k}
                   ELSE load_insts
  /\ side_effect' = IF SideEffect(k) THEN k ELSE side_effect
  /\ call_barrier' = IF block[k].op = "call" THEN k ELSE call_barrier

AddNode ==
  /\ pc = "graph" /\ k <= Len(block)
  /\ LET before == Registers(Def(k), Use(k)) \cup Memory \cup Everything \cup {call_barrier}
     IN  edges' = edges \cup ((before \ {0}) \X {k})
  /\ Remember
  /\ k' = k + 1
  /\ UNCHANGED <<block, priority, temp, vis, issueVars, pc>>

-----------------------------------------------------------------------------
(* Priorities.                                                             *)

Succs(n) == {m \in Node : <<n, m>> \in edges}
Preds(n) == {m \in Node : <<m, n>> \in edges}

BeginPriorities ==
  /\ pc = "graph" /\ k > Len(block)
  /\ temp' = [n \in Node |-> Cardinality(Succs(n))]
  /\ vis' = {n \in Node : Succs(n) = {}}
  /\ priority' = [n \in Node |-> IF Succs(n) = {} THEN Latency(n) ELSE 0]
  /\ pc' = "priorities"
  /\ UNCHANGED <<block, scanVars, issueVars>>

\* The edges of a node are sorted by address: the next node may be any.
PassOn ==
  /\ pc = "priorities"
  /\ \E n \in vis :
       /\ priority' = [t \in Node |->
            IF t \in Preds(n) /\ Latency(t) + priority[n] > priority[t]
            THEN Latency(t) + priority[n] ELSE priority[t]]
       /\ temp' = [t \in Node |-> IF t \in Preds(n) THEN temp[t] - 1 ELSE temp[t]]
       /\ vis' = (vis \ {n}) \cup {t \in Preds(n) : temp'[t] = 0}
  /\ UNCHANGED <<block, scanVars, issueVars, pc>>

BeginIssue ==
  /\ pc = "priorities" /\ vis = {}
  /\ temp' = [n \in Node |-> Cardinality(Preds(n))]
  /\ ready' = {n \in Node : Preds(n) = {}}
  /\ pc' = "issue"
  /\ UNCHANGED <<block, scanVars, priority, vis, inflight, out>>

-----------------------------------------------------------------------------
(* The units take the instructions.                                        *)

NodeCompare(m, n) ==
  \/ priority[m] > priority[n]
  \/ priority[m] = priority[n] /\ Latency(m) > Latency(n)

Free(u, n) == Units[u] = Kind(n) /\ inflight[u] = Idle
FirstFree(u, n) == Free(u, n) /\ \A v \in 1 .. u - 1 : ~Free(v, n)
Fireable(n) == \E u \in DOMAIN Units : Free(u, n)

\* The scan of the sorted ready list starts the first node that has a unit;
\* nodes that compare equal come in any order.
Fire ==
  /\ pc = "issue"
  /\ \E n \in ready, u \in DOMAIN Units :
       /\ FirstFree(u, n)
       /\ \A m \in ready : Fireable(m) => ~NodeCompare(m, n)
       /\ ready' = ready \ {n} /\ out' = Append(out, n)
       /\ inflight' = [inflight EXCEPT ![u] = [node |-> n, left |-> Latency(n)]]
  /\ UNCHANGED <<block, scanVars, priority, temp, vis, pc>>

Finished == {n \in Node : \E u \in DOMAIN Units : inflight[u] = [node |-> n, left |-> 1]}

Busy == \E u \in DOMAIN Units : inflight[u] # Idle

\* Mutant: every node whose count is 0 is listed, issued or not.
CycleRelists ==
  /\ pc = "issue" /\ (ready # {} \/ Busy)
  /\ \A n \in ready : ~Fireable(n)
  /\ temp' = [t \in Node |-> temp[t] - Cardinality(Preds(t) \cap Finished)]
  /\ ready' = {t \in Node : temp'[t] = 0}
  /\ inflight' = [u \in DOMAIN Units |->
       IF inflight[u].left <= 1 THEN Idle ELSE [inflight[u] EXCEPT !.left = @ - 1]]
  /\ UNCHANGED <<block, scanVars, priority, vis, out, pc>>

\* Mutant: the nodes to come count every instruction that finishes.
CycleCountsAll ==
  /\ pc = "issue" /\ (ready # {} \/ Busy)
  /\ \A n \in ready : ~Fireable(n)
  /\ temp' = [t \in Node |-> temp[t] - Cardinality(Finished)]
  /\ ready' = ready \cup {t \in Node : Preds(t) \cap Finished # {} /\ temp'[t] = 0}
  /\ inflight' = [u \in DOMAIN Units |->
       IF inflight[u].left <= 1 THEN Idle ELSE [inflight[u] EXCEPT !.left = @ - 1]]
  /\ UNCHANGED <<block, scanVars, priority, vis, out, pc>>

Cycle ==
  /\ pc = "issue" /\ (ready # {} \/ Busy)
  /\ \A n \in ready : ~Fireable(n)
  /\ temp' = [t \in Node |-> temp[t] - Cardinality(Preds(t) \cap Finished)]
  /\ ready' = ready \cup {t \in Node : Preds(t) \cap Finished # {} /\ temp'[t] = 0}
  /\ inflight' = [u \in DOMAIN Units |->
       IF inflight[u].left <= 1 THEN Idle ELSE [inflight[u] EXCEPT !.left = @ - 1]]
  /\ UNCHANGED <<block, scanVars, priority, vis, out, pc>>

EndIssue ==
  /\ pc = "issue" /\ ready = {} /\ ~Busy
  /\ pc' = "done"
  /\ UNCHANGED <<block, scanVars, priority, temp, vis, issueVars>>

Next == AddNode \/ BeginPriorities \/ PassOn \/ BeginIssue \/ Fire \/ Cycle \/ EndIssue

Spec == Init /\ [][Next]_vars
FairSpec == Spec /\ WF_vars(Next)

-----------------------------------------------------------------------------
TypeOK ==
  /\ block \in Seq(Inst) /\ k \in 1 .. Len(block) + 1
  /\ read_insts \in [Regs -> SUBSET Node] /\ write_insts \in [Regs -> Node \cup {0}]
  /\ side_effect \in Node \cup {0} /\ call_barrier \in Node \cup {0}
  /\ load_insts \subseteq Node /\ edges \subseteq Node \X Node
  /\ priority \in [Node -> Nat] /\ temp \in [Node -> Nat]
  /\ vis \subseteq Node /\ ready \subseteq Node
  /\ inflight \in [DOMAIN Units -> [node : Node \cup {0}, left : 0 .. 8]]
  /\ out \in Seq(Node)
  /\ pc \in {"graph", "priorities", "issue", "done"}

\* A conditional instruction leaves its destination as it was if the
\* condition fails: it reads the destination too.
Reads(n) == Use(n) \cup (IF block[n].cond THEN Def(n) ELSE {})

Accesses(n) == block[n].op \in {"load", "store", "call"}

\* What two instructions of a block may not be exchanged for: a register that
\* one writes, memory that one writes, or the end of the block.
MustPrecede(m, n) ==
  /\ m < n
  /\ \/ Def(m) \cap (Reads(n) \cup Def(n)) # {}
     \/ Reads(m) \cap Def(n) # {}
     \/ Accesses(m) /\ Accesses(n) /\ (SideEffect(m) \/ SideEffect(n))
     \/ Control(n)

\* The graph has an edge, or a chain of edges, for every order that counts:
\* each instruction finds the registers, flags and memory it found before.
OrderKept == \A p, q \in DOMAIN out : p < q => ~MustPrecede(out[q], out[p])

\* No instruction is lost in a cycle of the graph, and none issued twice.
AllIssued ==
  /\ \A p, q \in DOMAIN out : out[p] = out[q] => p = q
  /\ pc = "done" => \A n \in Node : \E p \in DOMAIN out : out[p] = n

\* The units always become free again: the pass ends.
ScheduleEnds == <>(pc = "done")

=============================================================================
