-------------------------- MODULE AllocateRegister --------------------------
(***************************************************************************)
(* One round of iterated register coalescing, the worklist machine inside  *)
(* allocate_register (src/passes/asm/allocate_register.cpp): the graph and *)
(* the moves that build() found are the input, and each action is one of   *)
(* the four calls in the body of the do-while loop, or one turn of the     *)
(* colouring loop of assign_colors.  A round ends "done", every operand    *)
(* having a register, or "spilled", the nodes in spilled_nodes being left  *)
(* for the rewriting that precedes the next round.                         *)
(*                                                                         *)
(* Operands are numbers ordered as MachineOperand::operator< orders them:  *)
(* the machine registers come first, the virtual registers follow.         *)
(***************************************************************************)
EXTENDS Integers, FiniteSets, Sequences

CONSTANTS
  Registers,    \* precolored operands (r0 .. lr in the code)
  Allocatable,  \* the registers assign_colors hands out (all but sp)
  Virtuals,     \* virtual registers of the function
  DegreeMod,    \* degrees are unsigned and wrap here (2^32 in the code)
  Graphs,       \* interference graphs to start from: sets of ordered pairs
  MoveSets      \* for a graph, the sets of simple moves <<dst, rhs>>

Node == Registers \cup Virtuals
Edge == Node \X Node
Colorable == Allocatable \cup Virtuals
K == Cardinality(Allocatable)
Uncolored == -1
PrecoloredDegree == DegreeMod \div 4     \* 0x40000000 of 2^32

ASSUME OperandAssumption ==
  /\ Registers \subseteq Nat /\ Virtuals \subseteq Nat
  /\ \A r \in Registers, v \in Virtuals : r < v
  /\ Allocatable \subseteq Registers
  /\ IsFiniteSet(Registers) /\ IsFiniteSet(Virtuals)

\* The degree of a machine register is out of reach of the decrements of a round,
\* which are quadratic in the operands at most: 2^30 is for 16 000 of them.
ASSUME DegreeAssumption ==
  /\ DegreeMod \in Nat \ {0}
  /\ PrecoloredDegree > K + 4 * (Cardinality(Node) * Cardinality(Node)) + 10 * Cardinality(Node)

\* What build() can hand over: a symmetric, irreflexive relation, and moves
\* between operands that need a colour; no move has sp as an end.
ASSUME GraphAssumption ==
  \A g \in Graphs :
    /\ g \subseteq Edge
    /\ \A e \in g : e[1] # e[2] /\ <<e[2], e[1]>> \in g

ASSUME MoveAssumption ==
  \A g \in Graphs : \A ms \in MoveSets[g] : ms \subseteq Colorable \X Colorable

VARIABLES
  adj_set, adj_list, degree, alias, move_list,
  simplify_worklist, freeze_worklist, spill_worklist,
  spilled_nodes, coalesced_nodes, select_stack, colored,
  coalesced_moves, constrained_moves, frozen_moves, worklist_moves, active_moves,
  pc

graphVars == <<adj_set, adj_list>>
moveVars == <<coalesced_moves, constrained_moves, frozen_moves,
              worklist_moves, active_moves>>
colorVars == <<spilled_nodes, colored>>
vars == <<adj_set, adj_list, degree, alias, move_list,
          simplify_worklist, freeze_worklist, spill_worklist,
          spilled_nodes, coalesced_nodes, select_stack, colored,
          coalesced_moves, constrained_moves, frozen_moves, worklist_moves,
          active_moves, pc>>

-----------------------------------------------------------------------------
(* Order on operands and moves: *begin() of a std::set is its least element. *)

IsLeast(x, S) == \A y \in S : x <= y

MoveLeq(m, n) == m[1] < n[1] \/ (m[1] = n[1] /\ m[2] <= n[2])
IsLeastMove(m, M) == \A n \in M : MoveLeq(m, n)

Stacked == {select_stack[i] : i \in DOMAIN select_stack}

Adjacent(n) == adj_list[n] \ (Stacked \cup coalesced_nodes)

NodeMoves(n) == move_list[n] \cap (active_moves \cup worklist_moves)
MoveRelated(n) == NodeMoves(n) # {}

\* GetAlias follows alias while the node is coalesced.  AliasOf(a, n) says that
\* the walk from n leaves coalesced_nodes at a: every set of coalesced nodes that
\* contains n and is closed under alias has a as an exit.
AliasOf(a, n) ==
  /\ a \notin coalesced_nodes
  /\ \/ n \notin coalesced_nodes /\ a = n
     \/ /\ n \in coalesced_nodes
        /\ \A S \in SUBSET coalesced_nodes :
             (n \in S /\ \A y \in S : alias[y] \in coalesced_nodes => alias[y] \in S)
               => \E y \in S : alias[y] = a

GetAlias(n) == CHOOSE a \in Node : AliasOf(a, n)

-----------------------------------------------------------------------------
(* The state after build() and mk_worklist().                              *)

InitGraph(g) ==
  /\ adj_set = g
  /\ adj_list = [n \in Node |-> IF n \in Virtuals
                                THEN {e[2] : e \in {x \in g : x[1] = n}} ELSE {}]
  /\ degree = [n \in Node |-> IF n \in Virtuals THEN Cardinality(adj_list[n])
                              ELSE PrecoloredDegree]

InitMoves(ms) ==
  /\ worklist_moves = ms
  /\ move_list = [n \in Node |-> {m \in ms : n \in {m[1], m[2]}}]
  /\ active_moves = {} /\ coalesced_moves = {}
  /\ constrained_moves = {} /\ frozen_moves = {}

MkWorklist ==
  LET significant == {n \in Virtuals : degree[n] >= K}
      moving == {n \in Virtuals \ significant : MoveRelated(n)}
  IN  /\ spill_worklist = significant
      /\ freeze_worklist = moving
      /\ simplify_worklist = Virtuals \ (significant \cup moving)

Init ==
  /\ \E g \in Graphs : InitGraph(g) /\ \E ms \in MoveSets[g] : InitMoves(ms)
  /\ MkWorklist
  /\ alias = [n \in Node |-> n]
  /\ coalesced_nodes = {} /\ spilled_nodes = {}
  /\ select_stack = <<>>
  /\ colored = [n \in Virtuals |-> Uncolored]
  /\ pc = "simplify"

-----------------------------------------------------------------------------
(* decrement_degree over a set of nodes that the loops visit one by one.   *)
(* ms, the moves it may enable, and the worklists it fills do not depend   *)
(* on the order of the visits, so the loop is one step.                    *)

Minus1(d) == (d - 1) % DegreeMod
Plus(d, k) == (d + k) % DegreeMod

\* Moves that enable_moves puts back to work when the nodes of S become
\* insignificant; adj is the neighbourhood the code sees at that moment.
Enabled(S, adj) ==
  {m \in active_moves : \E n \in S : \E x \in {n} \cup adj[n] : m \in move_list[x]}

\* The worklists after the nodes of S became insignificant: decrement_degree
\* puts each on spill_worklist, and on freeze_worklist or simplify_worklist.
Relist(S, simplify, freeze, spill) ==
  /\ spill_worklist' = spill \cup S
  /\ freeze_worklist' = freeze \cup {n \in S : MoveRelated(n)}
  /\ simplify_worklist' = simplify \cup {n \in S : ~MoveRelated(n)}

Simplify ==
  /\ pc = "simplify"
  /\ \E n \in simplify_worklist :
       /\ IsLeast(n, simplify_worklist)
       /\ LET adj == Adjacent(n)
              crossing == {m \in adj : degree[m] = K}
              around == [m \in crossing |-> Adjacent(m) \ {n}]
              woken == Enabled(crossing, around)
          IN  /\ select_stack' = Append(select_stack, n)
              /\ degree' = [m \in Node |-> IF m \in adj THEN Minus1(degree[m]) ELSE degree[m]]
              /\ active_moves' = active_moves \ woken
              /\ worklist_moves' = worklist_moves \cup woken
              /\ Relist(crossing, simplify_worklist \ {n}, freeze_worklist, spill_worklist)
  /\ pc' = "coalesce"
  /\ UNCHANGED <<graphVars, alias, move_list, coalesced_nodes, colorVars,
                 coalesced_moves, constrained_moves, frozen_moves>>

-----------------------------------------------------------------------------
(* Coalesce.                                                               *)

MoveRelatedNext(n) == move_list'[n] \cap (active_moves' \cup worklist_moves') # {}

Freeable(n) ==          \* the condition of add_work_list
  n \notin Registers /\ ~MoveRelatedNext(n) /\ degree'[n] < K

OK(t, r) == degree[t] < K \/ t \in Registers \/ <<t, r>> \in adj_set
AdjOK(v, u) == \A t \in Adjacent(v) : OK(t, u)
Conservative(S) == Cardinality({n \in S : degree[n] >= K}) < K

\* The head of worklist_moves; u keeps a machine register if there is one.
CoalesceStep(m, u, v) ==
  /\ IsLeastMove(m, worklist_moves)
  /\ LET x == GetAlias(m[1])
         y == GetAlias(m[2])
     IN  IF y \in Registers THEN u = y /\ v = x ELSE u = x /\ v = y

OnlyPrecolored(u, v) == v \in Registers          \* mutant: edges do not constrain
Constrained(u, v) == v \in Registers \/ <<u, v>> \in adj_set
Safe(u, v) ==
  \/ u \in Registers /\ AdjOK(v, u)
  \/ u \notin Registers /\ Conservative(Adjacent(u) \cup Adjacent(v))

AddWorkList(S) ==
  LET moved == {n \in S : Freeable(n)}
  IN  /\ freeze_worklist' = freeze_worklist \ moved
      /\ simplify_worklist' = simplify_worklist \cup moved

\* The two ends already have one alias, or must not have one.
CoalesceNothing(m, u, v) ==
  /\ worklist_moves' = worklist_moves \ {m}
  /\ UNCHANGED <<graphVars, degree, alias, move_list, spill_worklist, coalesced_nodes>>
  /\ \/ /\ u = v
        /\ coalesced_moves' = coalesced_moves \cup {m}
        /\ UNCHANGED <<constrained_moves, active_moves>>
        /\ AddWorkList({u})
     \/ /\ u # v /\ Constrained(u, v)
        /\ constrained_moves' = constrained_moves \cup {m}
        /\ UNCHANGED <<coalesced_moves, active_moves>>
        /\ AddWorkList({u, v})
     \/ /\ u # v /\ ~Constrained(u, v) /\ ~Safe(u, v)
        /\ active_moves' = active_moves \cup {m}
        /\ UNCHANGED <<coalesced_moves, constrained_moves, freeze_worklist,
                       simplify_worklist>>

AliasedBack(u, v) == [alias EXCEPT ![u] = v]     \* mutant: the wrong way round
Aliased(u, v) == [alias EXCEPT ![v] = u]

\* Combine(u, v): v takes the alias u, its neighbours become neighbours of u.
\* A neighbour that gains the edge and loses v ends with the degree it had.
Combine(m, u, v) ==
  /\ u # v /\ ~Constrained(u, v) /\ Safe(u, v)
  /\ coalesced_moves' = coalesced_moves \cup {m}
  /\ coalesced_nodes' = coalesced_nodes \cup {v}
  /\ alias' = Aliased(u, v)
  /\ move_list' = [move_list EXCEPT ![u] = @ \cup move_list[v]]
  /\ LET adj == Adjacent(v) \ {v}
         fresh == {t \in adj : <<t, u>> \notin adj_set /\ t # u}
         inc(t) == IF t \in fresh \ Registers THEN Plus(degree[t], 1) ELSE degree[t]
         crossing == {t \in adj : inc(t) = K}
         around == [t \in crossing |-> adj_list'[t] \ (Stacked \cup coalesced_nodes')]
         woken == {w \in active_moves : \E t \in crossing : \E x \in {t} \cup around[t] :
                                          w \in move_list'[x]}
     IN  /\ adj_set' = adj_set \cup {<<t, u>> : t \in fresh} \cup {<<u, t>> : t \in fresh}
         /\ adj_list' = [n \in Node |->
              IF n \in fresh \ Registers THEN adj_list[n] \cup {u}
              ELSE IF n = u /\ u \notin Registers THEN adj_list[n] \cup fresh
              ELSE adj_list[n]]
         /\ degree' = [n \in Node |->
              IF n \in adj THEN Minus1(inc(n))
              ELSE IF n = u /\ u \notin Registers THEN Plus(degree[n], Cardinality(fresh))
              ELSE degree[n]]
         /\ active_moves' = active_moves \ woken
         /\ worklist_moves' = (worklist_moves \ {m}) \cup woken
         /\ LET related == {t \in crossing : MoveRelatedNext(t)}
                freeze == (freeze_worklist \ {v}) \cup related
                simplify == simplify_worklist \cup (crossing \ related)
                spill == (IF v \in freeze_worklist THEN spill_worklist
                          ELSE spill_worklist \ {v}) \cup crossing
                promoted == {u} \cap {n \in freeze : degree'[n] >= K}
                freeable == {n \in {u} : Freeable(n)}
            IN  /\ spill_worklist' = spill \cup promoted
                /\ freeze_worklist' = freeze \ (promoted \cup freeable)
                /\ simplify_worklist' = simplify \cup freeable
  /\ UNCHANGED constrained_moves

Coalesce ==
  /\ pc = "coalesce"
  /\ \E m \in worklist_moves, u \in Node, v \in Node :
       CoalesceStep(m, u, v) /\ (CoalesceNothing(m, u, v) \/ Combine(m, u, v))
  /\ pc' = "freeze"
  /\ UNCHANGED <<select_stack, colorVars, frozen_moves>>

-----------------------------------------------------------------------------
(* FreezeMoves(u): the moves of u in order; the other end of a move is     *)
(* read off the instruction, and may have been coalesced since.            *)

Other(m, u) == IF m[1] = u THEN m[2] ELSE m[1]

\* Mutant: whatever its degree.
ThawedAny(u) ==
  {v \in Node : \E m \in NodeMoves(u) :
     v = Other(m, u) /\ NodeMoves(v) \subseteq {x \in NodeMoves(u) : MoveLeq(x, m)}}

Thawed(u) ==    \* the ends freeze_moves hands to simplify_worklist
  {v \in Node :
     /\ degree[v] < K
     /\ \E m \in NodeMoves(u) :
          /\ v = Other(m, u)
          /\ NodeMoves(v) \subseteq {x \in NodeMoves(u) : MoveLeq(x, m)}}

\* Mutants: the frozen moves stay active; u is not handed to simplify_worklist;
\* nor does it leave freeze_worklist.
FreezeKeepsActive(u) ==
  /\ UNCHANGED active_moves
  /\ worklist_moves' = worklist_moves \ (NodeMoves(u) \ active_moves)
  /\ frozen_moves' = frozen_moves \cup NodeMoves(u)
  /\ freeze_worklist' = freeze_worklist \ (Thawed(u) \cup (IF pc = "freeze" THEN {u} ELSE {}))
  /\ simplify_worklist' = simplify_worklist \cup Thawed(u) \cup {u}

FreezeDrops(u) ==
  /\ active_moves' = active_moves \ NodeMoves(u)
  /\ worklist_moves' = worklist_moves \ (NodeMoves(u) \ active_moves)
  /\ frozen_moves' = frozen_moves \cup NodeMoves(u)
  /\ freeze_worklist' = freeze_worklist \ (Thawed(u) \cup (IF pc = "freeze" THEN {u} ELSE {}))
  /\ simplify_worklist' = simplify_worklist \cup Thawed(u)

FreezeRepeats(u) ==
  /\ active_moves' = active_moves \ NodeMoves(u)
  /\ worklist_moves' = worklist_moves \ (NodeMoves(u) \ active_moves)
  /\ frozen_moves' = frozen_moves \cup NodeMoves(u)
  /\ freeze_worklist' = freeze_worklist \ Thawed(u)
  /\ simplify_worklist' = simplify_worklist \cup Thawed(u)

FreezeMoves(u) ==
  /\ active_moves' = active_moves \ NodeMoves(u)
  /\ worklist_moves' = worklist_moves \ (NodeMoves(u) \ active_moves)
  /\ frozen_moves' = frozen_moves \cup NodeMoves(u)
  /\ freeze_worklist' = freeze_worklist \ (Thawed(u) \cup (IF pc = "freeze" THEN {u} ELSE {}))
  /\ simplify_worklist' = simplify_worklist \cup Thawed(u) \cup {u}

Freeze ==
  /\ pc = "freeze"
  /\ \E u \in freeze_worklist : IsLeast(u, freeze_worklist) /\ FreezeMoves(u)
  /\ pc' = "spill"
  /\ UNCHANGED <<graphVars, degree, alias, move_list, spill_worklist, coalesced_nodes,
                 select_stack, colorVars, coalesced_moves, constrained_moves>>

\* select_spill takes the largest degree / 2^loop_cnt; the loop counts come
\* from the code around the operands, so any node of the worklist may win.
SelectSpill ==
  /\ pc = "spill"
  /\ \E n \in spill_worklist : FreezeMoves(n) /\ spill_worklist' = spill_worklist \ {n}
  /\ pc' = "loop"
  /\ UNCHANGED <<graphVars, degree, alias, move_list, coalesced_nodes, select_stack,
                 colorVars, coalesced_moves, constrained_moves>>

-----------------------------------------------------------------------------
\* A step of the loop body whose worklist is empty does nothing.
Skip ==
  /\ \/ pc = "simplify" /\ simplify_worklist = {} /\ pc' = "coalesce"
     \/ pc = "coalesce" /\ worklist_moves = {} /\ pc' = "freeze"
     \/ pc = "freeze" /\ freeze_worklist = {} /\ pc' = "spill"
     \/ pc = "spill" /\ spill_worklist = {} /\ pc' = "loop"
  /\ UNCHANGED <<graphVars, degree, alias, move_list, simplify_worklist, freeze_worklist,
                 spill_worklist, coalesced_nodes, select_stack, colorVars, moveVars>>

Drained == simplify_worklist = {} /\ worklist_moves = {}
           /\ freeze_worklist = {} /\ spill_worklist = {}

LoopTest ==
  /\ pc = "loop"
  /\ pc' = IF Drained THEN "assign" ELSE "simplify"
  /\ UNCHANGED <<graphVars, degree, alias, move_list, simplify_worklist, freeze_worklist,
                 spill_worklist, coalesced_nodes, select_stack, colorVars, moveVars>>

-----------------------------------------------------------------------------
(* AssignColors.                                                           *)

ColorOf(n) == IF n \in Registers THEN n ELSE colored[n]

OkColors(n) == Allocatable \ {ColorOf(GetAlias(w)) : w \in adj_list[n]}

AssignColor ==
  /\ pc = "assign" /\ select_stack # <<>>
  /\ LET n == select_stack[Len(select_stack)]
     IN  /\ select_stack' = SubSeq(select_stack, 1, Len(select_stack) - 1)
         /\ IF OkColors(n) = {}
            THEN spilled_nodes' = spilled_nodes \cup {n} /\ UNCHANGED colored
            ELSE /\ \E c \in OkColors(n) :
                      IsLeast(c, OkColors(n)) /\ colored' = [colored EXCEPT ![n] = c]
                 /\ UNCHANGED spilled_nodes
  /\ UNCHANGED <<graphVars, degree, alias, move_list, simplify_worklist, freeze_worklist,
                 spill_worklist, coalesced_nodes, moveVars, pc>>

\* Mutant: a coalesced node gets its alias, not the register of its alias.
FinishWithAlias ==
  /\ pc = "assign" /\ select_stack = <<>>
  /\ IF spilled_nodes # {}
     THEN pc' = "spilled" /\ UNCHANGED colored
     ELSE /\ pc' = "done"
          /\ colored' = [n \in Virtuals |->
               IF n \in coalesced_nodes THEN GetAlias(n) ELSE colored[n]]
  /\ UNCHANGED <<graphVars, degree, alias, move_list, simplify_worklist, freeze_worklist,
                 spill_worklist, spilled_nodes, coalesced_nodes, select_stack, moveVars>>

\* With nothing spilled the coalesced nodes get the register of their alias.
FinishColors ==
  /\ pc = "assign" /\ select_stack = <<>>
  /\ IF spilled_nodes # {}
     THEN pc' = "spilled" /\ UNCHANGED colored
     ELSE /\ pc' = "done"
          /\ colored' = [n \in Virtuals |->
               IF n \in coalesced_nodes THEN ColorOf(GetAlias(n)) ELSE colored[n]]
  /\ UNCHANGED <<graphVars, degree, alias, move_list, simplify_worklist, freeze_worklist,
                 spill_worklist, spilled_nodes, coalesced_nodes, select_stack, moveVars>>

Next == Simplify \/ Coalesce \/ Freeze \/ SelectSpill \/ Skip \/ LoopTest
        \/ AssignColor \/ FinishColors

Spec == Init /\ [][Next]_vars
FairSpec == Spec /\ WF_vars(Next)

-----------------------------------------------------------------------------
TypeOK ==
  /\ adj_set \subseteq Edge
  /\ adj_list \in [Node -> SUBSET Node]
  /\ degree \in [Node -> Int]
  /\ alias \in [Node -> Node]
  /\ move_list \in [Node -> SUBSET Edge]
  /\ simplify_worklist \subseteq Node /\ freeze_worklist \subseteq Node
  /\ spill_worklist \subseteq Node
  /\ spilled_nodes \subseteq Node /\ coalesced_nodes \subseteq Virtuals
  /\ select_stack \in Seq(Node)
  /\ colored \in [Virtuals -> Registers \cup {Uncolored}]
  /\ \A M \in {coalesced_moves, constrained_moves, frozen_moves, worklist_moves,
               active_moves} : M \subseteq Edge
  /\ pc \in {"simplify", "coalesce", "freeze", "spill", "loop", "assign", "done", "spilled"}

\* Two operands joined by an edge, found by build() or inherited by combine(),
\* never share a register once the round is done.
ColouringIsProper ==
  pc = "done" => \A e \in adj_set :
                   {e[1], e[2]} \subseteq Registers \/ ColorOf(e[1]) # ColorOf(e[2])

\* A machine register never reaches a worklist or the stack: its degree starts
\* so high that the decrements of a round do not bring it down to K.
PrecoloredNeverListed ==
  (simplify_worklist \cup freeze_worklist \cup spill_worklist \cup Stacked) \cap Registers = {}

\* No virtual register falls between the worklists: one that is neither
\* stacked nor coalesced when colouring starts would never get a register.
NoNodeLost ==
  pc = "done" => \A n \in Virtuals : colored[n] \in Allocatable

\* get_alias ends for every operand: coalescing never closes a cycle of aliases,
\* though a coalesced node may come back on a worklist through freeze_moves.
AliasesEnd == \A n \in Node : \E a \in Node : AliasOf(a, n)

\* A move is in exactly one of the five move sets as it goes from one to the next.
MoveSetList == <<coalesced_moves, constrained_moves, frozen_moves,
                 worklist_moves, active_moves>>
MovesPartitioned ==
  /\ \A i, j \in DOMAIN MoveSetList : i # j => MoveSetList[i] \cap MoveSetList[j] = {}
  /\ \A n \in Node : \A m \in move_list[n] : \E i \in DOMAIN MoveSetList : m \in MoveSetList[i]

\* The do-while loop ends, although nodes and moves come back on the worklists.
RoundEnds == <>(pc \in {"done", "spilled"})

=============================================================================
