----------------------- MODULE AllocateRegister_proofs -----------------------
(***************************************************************************)
(* Proofs about a round of register allocation, for every interference     *)
(* graph and every set of moves.  The aliases have to be known to end      *)
(* before anything can be typed: the code looks up a colour, a degree and  *)
(* an adjacency list under what get_alias returns.                         *)
(***************************************************************************)
EXTENDS AllocateRegister, TLAPS, FiniteSetTheorems

LEMMA NodeFinite == IsFiniteSet(Node)
  BY OperandAssumption, FS_Union DEF Node

LEMMA NodeNat == Node \subseteq Nat /\ Registers \subseteq Node /\ Virtuals \subseteq Node
                 /\ Registers \cap Virtuals = {} /\ Allocatable \subseteq Registers
  BY OperandAssumption DEF Node

LEMMA GetAliasIs == ASSUME AliasesEnd, NEW n \in Node
                    PROVE  GetAlias(n) \in Node /\ AliasOf(GetAlias(n), n)
  BY DEF AliasesEnd, GetAlias

Typed == TypeOK /\ AliasesEnd

-----------------------------------------------------------------------------
LEMMA InitTyped == Init => Typed
<1> SUFFICES ASSUME Init PROVE TypeOK /\ AliasesEnd
  BY DEF Typed
<1>0. PICK g \in Graphs : InitGraph(g) /\ \E ms \in MoveSets[g] : InitMoves(ms)
  BY DEF Init
<1>1. PICK ms \in MoveSets[g] : InitGraph(g) /\ InitMoves(ms)
  BY <1>0
<1>2. g \subseteq Edge /\ ms \subseteq Edge
  BY GraphAssumption, MoveAssumption, NodeNat DEF Edge, Colorable
<1>3. AliasesEnd
  BY DEF Init, AliasesEnd, AliasOf
<1>4. adj_set \subseteq Edge /\ adj_list \in [Node -> SUBSET Node]
  BY <1>1, <1>2 DEF InitGraph, Edge
<1>5. degree \in [Node -> Int]
  <2>1. \A n \in Node : Cardinality(adj_list[n]) \in Int
    BY <1>4, NodeFinite, FS_Subset, FS_CardinalityType
  <2>2. PrecoloredDegree \in Int
    BY DegreeAssumption DEF PrecoloredDegree
  <2> QED
    BY <1>1, <2>1, <2>2 DEF InitGraph
<1>6. /\ move_list \in [Node -> SUBSET Edge]
      /\ coalesced_moves = {} /\ constrained_moves = {} /\ frozen_moves = {}
      /\ worklist_moves \subseteq Edge /\ active_moves = {}
  BY <1>1, <1>2 DEF InitMoves
<1>7. /\ simplify_worklist \subseteq Node /\ freeze_worklist \subseteq Node
      /\ spill_worklist \subseteq Node
  BY NodeNat DEF Init, MkWorklist
<1>8. /\ alias \in [Node -> Node] /\ colored \in [Virtuals -> Registers \cup {Uncolored}]
      /\ spilled_nodes = {} /\ coalesced_nodes = {} /\ select_stack \in Seq(Node)
      /\ pc = "simplify"
  BY DEF Init
<1> QED
  BY <1>3, <1>4, <1>5, <1>6, <1>7, <1>8 DEF TypeOK

-----------------------------------------------------------------------------
(* Simplify and the moves it wakes.                                        *)

LEMMA AliasesKept ==
  ASSUME AliasesEnd, UNCHANGED <<alias, coalesced_nodes>> PROVE AliasesEnd'
  BY DEF AliasesEnd, AliasOf

LEMMA AdjacentType == ASSUME TypeOK, NEW n \in Node PROVE Adjacent(n) \subseteq Node
  BY DEF TypeOK, Adjacent

LEMMA DegreeArithmetic == \A d \in Int, k \in Int : Minus1(d) \in Int /\ Plus(d, k) \in Int
  BY DegreeAssumption DEF Minus1, Plus

LEMMA SimplifyTyped == Typed /\ Simplify => Typed'
<1> SUFFICES ASSUME TypeOK, AliasesEnd, Simplify PROVE TypeOK' /\ AliasesEnd'
  BY DEF Typed
<1>1. AliasesEnd'
  BY AliasesKept DEF Simplify
<1>2. PICK n \in simplify_worklist :
        LET adj == Adjacent(n)
            crossing == {m \in adj : degree[m] = K}
            around == [m \in crossing |-> Adjacent(m) \ {n}]
            woken == Enabled(crossing, around)
        IN  /\ select_stack' = Append(select_stack, n)
            /\ degree' = [m \in Node |-> IF m \in adj THEN Minus1(degree[m]) ELSE degree[m]]
            /\ active_moves' = active_moves \ woken
            /\ worklist_moves' = worklist_moves \cup woken
            /\ Relist(crossing, simplify_worklist \ {n}, freeze_worklist, spill_worklist)
  BY DEF Simplify
<1> DEFINE adj == Adjacent(n)
           crossing == {m \in adj : degree[m] = K}
           around == [m \in crossing |-> Adjacent(m) \ {n}]
           woken == Enabled(crossing, around)
<1>3. n \in Node /\ crossing \subseteq Node /\ woken \subseteq active_moves
  BY AdjacentType DEF TypeOK, Enabled
<1>4. degree' \in [Node -> Int] /\ select_stack' \in Seq(Node)
  BY <1>2, <1>3, DegreeArithmetic DEF TypeOK
<1>5. active_moves' \subseteq Edge /\ worklist_moves' \subseteq Edge
  BY <1>2, <1>3 DEF TypeOK
<1>6. /\ simplify_worklist' \subseteq Node /\ freeze_worklist' \subseteq Node
      /\ spill_worklist' \subseteq Node
  <2>1. Relist(crossing, simplify_worklist \ {n}, freeze_worklist, spill_worklist)
    BY <1>2
  <2> HIDE DEF crossing
  <2> QED
    BY <1>3, <2>1 DEF TypeOK, Relist
<1>7. pc' = "coalesce" /\ UNCHANGED <<graphVars, alias, move_list, coalesced_nodes, colorVars,
                                     coalesced_moves, constrained_moves, frozen_moves>>
  BY DEF Simplify
<1> QED
  BY <1>1, <1>4, <1>5, <1>6, <1>7 DEF TypeOK, graphVars, colorVars

-----------------------------------------------------------------------------
(* Coalesce.                                                               *)

\* The ends of a move are replaced by their aliases, which are not coalesced.
LEMMA EndsUncoalesced ==
  ASSUME TypeOK, AliasesEnd, NEW m \in worklist_moves, NEW u \in Node, NEW v \in Node,
         CoalesceStep(m, u, v)
  PROVE  u \notin coalesced_nodes /\ v \notin coalesced_nodes
<1>1. m[1] \in Node /\ m[2] \in Node
  BY DEF TypeOK, Edge
<1> QED
  BY <1>1, GetAliasIs DEF CoalesceStep, AliasOf

LEMMA CoalesceNothingTyped ==
  ASSUME TypeOK, AliasesEnd, NEW m \in worklist_moves, NEW u \in Node, NEW v \in Node,
         Coalesce, CoalesceNothing(m, u, v)
  PROVE  TypeOK' /\ AliasesEnd'
<1>1. UNCHANGED <<graphVars, degree, alias, move_list, spill_worklist, coalesced_nodes,
                  select_stack, colorVars, frozen_moves>>
      /\ pc' = "freeze"
  BY DEF Coalesce, CoalesceNothing
<1>2. AliasesEnd'
  BY <1>1, AliasesKept
<1>3. /\ worklist_moves' \subseteq Edge /\ coalesced_moves' \subseteq Edge
      /\ constrained_moves' \subseteq Edge /\ active_moves' \subseteq Edge
  BY DEF TypeOK, CoalesceNothing
<1>4. simplify_worklist' \subseteq Node /\ freeze_worklist' \subseteq Node
  BY DEF TypeOK, CoalesceNothing, AddWorkList
<1> QED
  BY <1>1, <1>2, <1>3, <1>4 DEF TypeOK, graphVars, colorVars

\* combine(u, v) makes u the alias of v: what ended at v ends at u now, and the
\* walks that ended elsewhere are the same.
LEMMA CombineAlias ==
  ASSUME TypeOK, NEW u \in Node, NEW v \in Node, u # v,
         u \notin coalesced_nodes, v \notin coalesced_nodes,
         coalesced_nodes' = coalesced_nodes \cup {v},
         alias' = [alias EXCEPT ![v] = u],
         NEW n \in Node, NEW a \in Node, AliasOf(a, n)
  PROVE  AliasOf(IF a = v THEN u ELSE a, n)'
<1>2. alias'[v] = u /\ \A y \in Node : y # v => alias'[y] = alias[y]
  BY DEF TypeOK
<1>3. coalesced_nodes \subseteq Node
  BY NodeNat DEF TypeOK
<1>4. ASSUME NEW S \in SUBSET coalesced_nodes', n \in S, n \in coalesced_nodes,
             \A y \in S : alias'[y] \in coalesced_nodes' => alias'[y] \in S
      PROVE  \E y \in S : y # v /\ alias'[y] = a
  <2> DEFINE T == S \ {v}
  <2>1. T \in SUBSET coalesced_nodes /\ n \in T
    BY <1>4
  <2>2. \A y \in T : alias[y] \in coalesced_nodes => alias[y] \in T
    BY <1>2, <1>3, <1>4, <2>1
  <2>3. PICK y \in T : alias[y] = a
    BY <2>1, <2>2 DEF AliasOf
  <2> QED
    BY <1>2, <1>3, <2>1, <2>3
<1>5. CASE a # v
  <2>1. a \notin coalesced_nodes' /\ (n \notin coalesced_nodes => a = n)
    BY <1>5 DEF AliasOf
  <2>2. CASE n \notin coalesced_nodes
    BY <1>5, <2>1, <2>2 DEF AliasOf
  <2>3. CASE n \in coalesced_nodes
    BY <1>4, <1>5, <2>1, <2>3 DEF AliasOf
  <2> QED
    BY <2>2, <2>3
<1>6. CASE a = v
  <2>1. u \notin coalesced_nodes' /\ n \in coalesced_nodes'
    BY <1>6 DEF AliasOf
  <2>2. ASSUME NEW S \in SUBSET coalesced_nodes', n \in S,
               \A y \in S : alias'[y] \in coalesced_nodes' => alias'[y] \in S
        PROVE  \E y \in S : alias'[y] = u
    <3>1. CASE n = v
      BY <1>2, <2>2, <3>1
    <3>2. CASE n \in coalesced_nodes
      <4>1. PICK y \in S : alias'[y] = v
        BY <1>4, <1>6, <2>2, <3>2
      <4>2. v \in S
        BY <2>2, <4>1
      <4> QED
        BY <1>2, <4>2
    <3> QED
      BY <2>1, <3>1, <3>2
  <2> QED
    BY <1>6, <2>1, <2>2 DEF AliasOf
<1> QED
  BY <1>5, <1>6

LEMMA CombineAliases ==
  ASSUME TypeOK, AliasesEnd, NEW u \in Node, NEW v \in Node, u # v,
         u \notin coalesced_nodes, v \notin coalesced_nodes,
         coalesced_nodes' = coalesced_nodes \cup {v},
         alias' = [alias EXCEPT ![v] = u]
  PROVE  AliasesEnd'
<1> SUFFICES ASSUME NEW n \in Node PROVE \E a \in Node : AliasOf(a, n)'
  BY DEF AliasesEnd
<1>1. PICK a \in Node : AliasOf(a, n)
  BY DEF AliasesEnd
<1>2. AliasOf(IF a = v THEN u ELSE a, n)'
  BY <1>1, CombineAlias
<1> QED
  BY <1>2

LEMMA CombineTyped ==
  ASSUME TypeOK, AliasesEnd, NEW m \in worklist_moves, NEW u \in Node, NEW v \in Node,
         Coalesce, CoalesceStep(m, u, v), Combine(m, u, v)
  PROVE  TypeOK' /\ AliasesEnd'
<1>1. /\ u # v /\ v \in Virtuals
      /\ coalesced_nodes' = coalesced_nodes \cup {v}
      /\ coalesced_moves' = coalesced_moves \cup {m}
      /\ alias' = [alias EXCEPT ![v] = u]
      /\ move_list' = [move_list EXCEPT ![u] = @ \cup move_list[v]]
  BY DEF Combine, Aliased, Constrained, Node
<1>2. UNCHANGED <<select_stack, colorVars, frozen_moves, constrained_moves>> /\ pc' = "freeze"
  BY DEF Coalesce, Combine
<1>3. AliasesEnd'
  BY <1>1, EndsUncoalesced, CombineAliases
<1> DEFINE adj == Adjacent(v) \ {v}
           fresh == {t \in adj : <<t, u>> \notin adj_set /\ t # u}
           inc(t) == IF t \in fresh \ Registers THEN Plus(degree[t], 1) ELSE degree[t]
           crossing == {t \in adj : inc(t) = K}
           around == [t \in crossing |-> adj_list'[t] \ (Stacked \cup coalesced_nodes')]
           woken == {w \in active_moves : \E t \in crossing : \E x \in {t} \cup around[t] :
                                            w \in move_list'[x]}
           related == {t \in crossing : MoveRelatedNext(t)}
           freeze == (freeze_worklist \ {v}) \cup related
           simplify == simplify_worklist \cup (crossing \ related)
           spill == (IF v \in freeze_worklist THEN spill_worklist
                     ELSE spill_worklist \ {v}) \cup crossing
           promoted == {u} \cap {n \in freeze : degree'[n] >= K}
           freeable == {n \in {u} : Freeable(n)}
<1>4. /\ adj_set' = adj_set \cup {<<t, u>> : t \in fresh} \cup {<<u, t>> : t \in fresh}
      /\ adj_list' = [n \in Node |->
           IF n \in fresh \ Registers THEN adj_list[n] \cup {u}
           ELSE IF n = u /\ u \notin Registers THEN adj_list[n] \cup fresh
           ELSE adj_list[n]]
      /\ degree' = [n \in Node |->
           IF n \in adj THEN Minus1(inc(n))
           ELSE IF n = u /\ u \notin Registers THEN Plus(degree[n], Cardinality(fresh))
           ELSE degree[n]]
      /\ active_moves' = active_moves \ woken
      /\ worklist_moves' = (worklist_moves \ {m}) \cup woken
      /\ spill_worklist' = spill \cup promoted
      /\ freeze_worklist' = freeze \ (promoted \cup freeable)
      /\ simplify_worklist' = simplify \cup freeable
  BY DEF Combine
<1>5. adj \subseteq Node /\ fresh \subseteq Node /\ crossing \subseteq Node
      /\ woken \subseteq active_moves
  BY AdjacentType
<1>6. Cardinality(fresh) \in Int
  <2> HIDE DEF fresh
  <2>1. IsFiniteSet(fresh)
    BY <1>5, NodeFinite, FS_Subset
  <2> QED
    BY <2>1, FS_CardinalityType
<1>7. \A n \in Node : inc(n) \in Int
  BY DegreeArithmetic DEF TypeOK
<1> HIDE DEF fresh, inc, crossing, woken, related, adj
<1>8. adj_set' \subseteq Edge /\ adj_list' \in [Node -> SUBSET Node]
  BY <1>4, <1>5 DEF TypeOK, Edge
<1>9. degree' \in [Node -> Int]
  BY <1>4, <1>5, <1>6, <1>7, DegreeArithmetic DEF TypeOK
<1>10. /\ active_moves' \subseteq Edge /\ worklist_moves' \subseteq Edge
       /\ coalesced_moves' \subseteq Edge /\ move_list' \in [Node -> SUBSET Edge]
  BY <1>1, <1>4, <1>5 DEF TypeOK, Node
<1>11. /\ simplify_worklist' \subseteq Node /\ freeze_worklist' \subseteq Node
       /\ spill_worklist' \subseteq Node
  <2>1. related \subseteq crossing
    BY DEF related
  <2>2. simplify \subseteq Node /\ freeze \subseteq Node /\ spill \subseteq Node
    BY <1>5, <2>1 DEF TypeOK
  <2> HIDE DEF simplify, freeze, spill
  <2> QED
    BY <1>4, <2>2
<1>12. alias' \in [Node -> Node] /\ coalesced_nodes' \subseteq Virtuals
  BY <1>1 DEF TypeOK
<1> QED
  BY <1>2, <1>3, <1>8, <1>9, <1>10, <1>11, <1>12 DEF TypeOK, colorVars

LEMMA CoalesceTyped == Typed /\ Coalesce => Typed'
<1> SUFFICES ASSUME TypeOK, AliasesEnd, Coalesce PROVE TypeOK' /\ AliasesEnd'
  BY DEF Typed
<1>1. PICK m \in worklist_moves, u \in Node, v \in Node :
        CoalesceStep(m, u, v) /\ (CoalesceNothing(m, u, v) \/ Combine(m, u, v))
  BY DEF Coalesce
<1> QED
  BY <1>1, CoalesceNothingTyped, CombineTyped

-----------------------------------------------------------------------------
(* Freeze, SelectSpill.                                                    *)

LEMMA FreezeMovesTyped ==
  ASSUME TypeOK, NEW u \in Node, FreezeMoves(u)
  PROVE  /\ active_moves' \subseteq Edge /\ worklist_moves' \subseteq Edge
         /\ frozen_moves' \subseteq Edge
         /\ simplify_worklist' \subseteq Node /\ freeze_worklist' \subseteq Node
<1>1. Thawed(u) \subseteq Node /\ NodeMoves(u) \subseteq Edge
  BY DEF TypeOK, Thawed, NodeMoves
<1> QED
  BY <1>1 DEF TypeOK, FreezeMoves

LEMMA FreezeTyped == Typed /\ (Freeze \/ SelectSpill) => Typed'
<1> SUFFICES ASSUME TypeOK, AliasesEnd, Freeze \/ SelectSpill PROVE TypeOK' /\ AliasesEnd'
  BY DEF Typed
<1>1. UNCHANGED <<graphVars, degree, alias, move_list, coalesced_nodes, select_stack,
                  colorVars, coalesced_moves, constrained_moves>>
      /\ pc' \in {"spill", "loop"}
  BY DEF Freeze, SelectSpill
<1>2. \E u \in Node : FreezeMoves(u)
  BY DEF Freeze, SelectSpill, TypeOK
<1>3. spill_worklist' \subseteq Node
  BY DEF Freeze, SelectSpill, TypeOK
<1>4. AliasesEnd'
  BY <1>1, AliasesKept
<1> QED
  BY <1>1, <1>2, <1>3, <1>4, FreezeMovesTyped DEF TypeOK, graphVars, colorVars

-----------------------------------------------------------------------------
(* AssignColors.                                                           *)

LEMMA ColorOfType ==
  ASSUME TypeOK, NEW n \in Node PROVE ColorOf(n) \in Registers \cup {Uncolored}
  BY DEF TypeOK, ColorOf, Node

LEMMA AssignTyped == Typed /\ (AssignColor \/ FinishColors) => Typed'
<1> SUFFICES ASSUME TypeOK, AliasesEnd, AssignColor \/ FinishColors
             PROVE  TypeOK' /\ AliasesEnd'
  BY DEF Typed
<1>1. UNCHANGED <<graphVars, degree, alias, move_list, simplify_worklist, freeze_worklist,
                  spill_worklist, coalesced_nodes, moveVars>>
  BY DEF AssignColor, FinishColors
<1>2. AliasesEnd'
  BY <1>1, AliasesKept
<1>3. CASE AssignColor
  <2> DEFINE n == select_stack[Len(select_stack)]
  <2>1. n \in Node /\ select_stack' \in Seq(Node) /\ pc' = pc
    BY <1>3 DEF AssignColor, TypeOK
  <2>2. spilled_nodes' \subseteq Node
    BY <1>3, <2>1 DEF AssignColor, TypeOK
  <2>3. colored' \in [Virtuals -> Registers \cup {Uncolored}]
    BY <1>3, NodeNat DEF AssignColor, TypeOK, OkColors
  <2> QED
    BY <1>1, <1>2, <2>1, <2>2, <2>3 DEF TypeOK, graphVars, moveVars
<1>4. CASE FinishColors
  <2>1. \A n \in Virtuals : ColorOf(GetAlias(n)) \in Registers \cup {Uncolored}
    BY GetAliasIs, ColorOfType, NodeNat
  <2>2. colored' \in [Virtuals -> Registers \cup {Uncolored}]
    BY <1>4, <2>1 DEF FinishColors, TypeOK
  <2>3. pc' \in {"done", "spilled"} /\ UNCHANGED <<spilled_nodes, select_stack>>
    BY <1>4 DEF FinishColors
  <2> QED
    BY <1>1, <1>2, <2>2, <2>3 DEF TypeOK, graphVars, moveVars
<1> QED
  BY <1>3, <1>4

LEMMA StepTyped == Typed /\ [Next]_vars => Typed'
<1> SUFFICES ASSUME Typed, [Next]_vars PROVE Typed'
  OBVIOUS
<1>1. CASE Simplify \/ Coalesce
  BY <1>1, SimplifyTyped, CoalesceTyped
<1>2. CASE Freeze \/ SelectSpill
  BY <1>2, FreezeTyped
<1>3. CASE AssignColor \/ FinishColors
  BY <1>3, AssignTyped
<1>4. CASE Skip \/ LoopTest
  <2>1. /\ UNCHANGED <<graphVars, degree, alias, move_list, simplify_worklist, freeze_worklist,
                        spill_worklist, coalesced_nodes, select_stack, colorVars, moveVars>>
        /\ pc' \in {"simplify", "coalesce", "freeze", "spill", "loop", "assign"}
    BY <1>4 DEF Skip, LoopTest
  <2>2. AliasesEnd'
    BY <2>1, AliasesKept DEF Typed
  <2> QED
    BY <2>1, <2>2 DEF Typed, TypeOK, graphVars, colorVars, moveVars
<1>5. CASE UNCHANGED vars
  <2>1. AliasesEnd'
    BY <1>5, AliasesKept DEF Typed, vars
  <2> QED
    BY <1>5, <2>1 DEF Typed, TypeOK, vars
<1> QED
  BY <1>1, <1>2, <1>3, <1>4, <1>5 DEF Next

\* The graph, the worklists, the move sets and the colours keep their types.
THEOREM TypeCorrect == Spec => []TypeOK
<1>1. Typed => TypeOK
  BY DEF Typed
<1> QED
  BY <1>1, InitTyped, StepTyped, PTL DEF Spec

\* get_alias ends for every operand, whatever was coalesced.
THEOREM GetAliasEnds == Spec => []AliasesEnd
<1>1. Typed => AliasesEnd
  BY DEF Typed
<1> QED
  BY <1>1, InitTyped, StepTyped, PTL DEF Spec

-----------------------------------------------------------------------------
(* The five sets of moves.                                                 *)

AllMoves == coalesced_moves \cup constrained_moves \cup frozen_moves
            \cup worklist_moves \cup active_moves

Disjoint ==
  /\ coalesced_moves \cap (constrained_moves \cup frozen_moves
                           \cup worklist_moves \cup active_moves) = {}
  /\ constrained_moves \cap (frozen_moves \cup worklist_moves \cup active_moves) = {}
  /\ frozen_moves \cap (worklist_moves \cup active_moves) = {}
  /\ worklist_moves \cap active_moves = {}

Parted == Disjoint /\ \A n \in Node : move_list[n] \subseteq AllMoves

LEMMA PartedPartitions == Parted => MovesPartitioned
<1> SUFFICES ASSUME Parted PROVE MovesPartitioned
  OBVIOUS
<1>1. DOMAIN MoveSetList = 1 .. 5
  BY DEF MoveSetList
<1>2. /\ MoveSetList[1] = coalesced_moves /\ MoveSetList[2] = constrained_moves
      /\ MoveSetList[3] = frozen_moves /\ MoveSetList[4] = worklist_moves
      /\ MoveSetList[5] = active_moves
  BY DEF MoveSetList
<1>3. ASSUME NEW i \in 1 .. 5, NEW j \in 1 .. 5, i # j
      PROVE  MoveSetList[i] \cap MoveSetList[j] = {}
  <2>1. (i = 1 \/ i = 2 \/ i = 3 \/ i = 4 \/ i = 5) /\ (j = 1 \/ j = 2 \/ j = 3 \/ j = 4 \/ j = 5)
    OBVIOUS
  <2> QED
    BY <1>2, <1>3, <2>1 DEF Parted, Disjoint
<1>4. ASSUME NEW n \in Node, NEW m \in move_list[n] PROVE \E i \in 1 .. 5 : m \in MoveSetList[i]
  BY <1>2 DEF Parted, AllMoves
<1> QED
  BY <1>1, <1>3, <1>4 DEF MovesPartitioned

LEMMA InitParted == Init => Parted
<1> SUFFICES ASSUME Init PROVE Parted
  OBVIOUS
<1>1. PICK g \in Graphs : InitGraph(g) /\ \E ms \in MoveSets[g] : InitMoves(ms)
  BY DEF Init
<1>2. PICK ms \in MoveSets[g] : InitMoves(ms)
  BY <1>1
<1> QED
  BY <1>2 DEF InitMoves, Parted, Disjoint, AllMoves

\* Moves go from active_moves back to worklist_moves when enable_moves wakes them,
\* and one taken off worklist_moves goes to one of the other sets.
LEMMA WakeParted ==
  ASSUME Parted, NEW woken \in SUBSET active_moves, NEW taken \in SUBSET worklist_moves,
         active_moves' = active_moves \ woken,
         worklist_moves' = (worklist_moves \ taken) \cup woken,
         coalesced_moves' = coalesced_moves \cup taken,
         UNCHANGED <<constrained_moves, frozen_moves>>,
         \A n \in Node : \A x \in move_list'[n] : \E p \in Node : x \in move_list[p]
  PROVE  Parted'
<1>1. Disjoint'
  BY DEF Parted, Disjoint
<1>2. AllMoves \subseteq AllMoves'
  BY DEF AllMoves
<1> QED
  BY <1>1, <1>2 DEF Parted

LEMMA SimplifyParted == Parted /\ Simplify => Parted'
<1> SUFFICES ASSUME Parted, Simplify PROVE Parted'
  OBVIOUS
<1>1. PICK woken \in SUBSET active_moves :
        active_moves' = active_moves \ woken /\ worklist_moves' = worklist_moves \cup woken
  BY DEF Simplify, Enabled
<1>2. UNCHANGED <<coalesced_moves, constrained_moves, frozen_moves, move_list>>
  BY DEF Simplify
<1>3. Disjoint'
  BY <1>1, <1>2 DEF Parted, Disjoint
<1>4. AllMoves \subseteq AllMoves'
  BY <1>1, <1>2 DEF AllMoves
<1> QED
  BY <1>2, <1>3, <1>4 DEF Parted

LEMMA CoalesceParted == Typed /\ Parted /\ Coalesce => Parted'
<1> SUFFICES ASSUME TypeOK, Parted, Coalesce PROVE Parted'
  BY DEF Typed
<1>1. PICK m \in worklist_moves, u \in Node, v \in Node :
        CoalesceStep(m, u, v) /\ (CoalesceNothing(m, u, v) \/ Combine(m, u, v))
  BY DEF Coalesce
<1>2. UNCHANGED frozen_moves
  BY DEF Coalesce
<1>3. CASE CoalesceNothing(m, u, v)
  <2>1. Disjoint'
    BY <1>2, <1>3 DEF CoalesceNothing, Parted, Disjoint
  <2>2. AllMoves \subseteq AllMoves' /\ UNCHANGED move_list
    BY <1>2, <1>3 DEF CoalesceNothing, AllMoves
  <2> QED
    BY <2>1, <2>2 DEF Parted
<1>4. CASE Combine(m, u, v)
  <2>1. PICK woken \in SUBSET active_moves :
          /\ active_moves' = active_moves \ woken
          /\ worklist_moves' = (worklist_moves \ {m}) \cup woken
    BY <1>4 DEF Combine
  <2>2. /\ coalesced_moves' = coalesced_moves \cup {m} /\ UNCHANGED constrained_moves
        /\ move_list' = [move_list EXCEPT ![u] = @ \cup move_list[v]]
    BY <1>4 DEF Combine
  <2>3. \A n \in Node : \A x \in move_list'[n] : \E p \in Node : x \in move_list[p]
    BY <2>2 DEF TypeOK
  <2>4. {m} \in SUBSET worklist_moves /\ coalesced_moves' = coalesced_moves \cup {m}
    BY <1>1, <2>2
  <2>5. UNCHANGED <<constrained_moves, frozen_moves>>
    BY <1>2, <2>2
  <2> QED
    BY <2>1, <2>3, <2>4, <2>5, WakeParted
<1> QED
  BY <1>1, <1>3, <1>4

LEMMA FreezeParted == Parted /\ (Freeze \/ SelectSpill) => Parted'
<1> SUFFICES ASSUME Parted, Freeze \/ SelectSpill PROVE Parted'
  OBVIOUS
<1>1. UNCHANGED <<coalesced_moves, constrained_moves, move_list>>
  BY DEF Freeze, SelectSpill
<1>2. PICK u : FreezeMoves(u)
  BY DEF Freeze, SelectSpill
<1> DEFINE M == NodeMoves(u)
<1>3. /\ M \subseteq active_moves \cup worklist_moves
      /\ active_moves' = active_moves \ M
      /\ worklist_moves' = worklist_moves \ (M \ active_moves)
      /\ frozen_moves' = frozen_moves \cup M
  BY <1>2 DEF FreezeMoves, NodeMoves
<1> HIDE DEF M
<1>4. Disjoint'
  BY <1>1, <1>3 DEF Parted, Disjoint
<1>5. AllMoves \subseteq AllMoves'
  BY <1>1, <1>3 DEF AllMoves
<1> QED
  BY <1>1, <1>4, <1>5 DEF Parted

LEMMA StepParted == Typed /\ Parted /\ [Next]_vars => Parted'
<1> SUFFICES ASSUME Typed, Parted, [Next]_vars PROVE Parted'
  OBVIOUS
<1>1. CASE Simplify \/ Coalesce \/ Freeze \/ SelectSpill
  BY <1>1, SimplifyParted, CoalesceParted, FreezeParted
<1>2. CASE Skip \/ LoopTest \/ AssignColor \/ FinishColors \/ UNCHANGED vars
  <2>1. UNCHANGED <<move_list, coalesced_moves, constrained_moves, frozen_moves,
                    worklist_moves, active_moves>>
    BY <1>2 DEF Skip, LoopTest, AssignColor, FinishColors, vars, moveVars
  <2> QED
    BY <2>1 DEF Parted, Disjoint, AllMoves
<1> QED
  BY <1>1, <1>2 DEF Next

\* A move stays in exactly one of the five sets.
THEOREM MovesArePartitioned == Spec => []MovesPartitioned
  BY InitParted, InitTyped, StepTyped, StepParted, PartedPartitions, PTL DEF Spec

-----------------------------------------------------------------------------
(***************************************************************************)
(* No machine register is ever listed or stacked.  What keeps it off the   *)
(* worklists is that its degree, which starts at 2^30 and is decremented   *)
(* by every simplification of a neighbour, never comes down to K; so the   *)
(* proof bounds the number of simplifications of a round.  It needs that   *)
(* bound because nothing in the code gives it: decrement_degree lists a    *)
(* node twice, freeze_moves lists nodes that are coalesced or stacked, a   *)
(* node can be stacked several times, and the degree of a virtual register *)
(* can then go below zero.                                                 *)
(*                                                                         *)
(* The bound is Work, a weighted count of what is left to do.  No action   *)
(* raises it, and each entry of select_stack is one unit of it.            *)
(***************************************************************************)

Selecting == pc \in {"simplify", "coalesce", "freeze", "spill", "loop"}

Size == Cardinality(Node)
Combined == Cardinality(coalesced_nodes)
Pushed == Len(select_stack)
LiveMoves == active_moves \cup worklist_moves
Listed == simplify_worklist \cup freeze_worklist \cup spill_worklist

\* The nodes that decrement_degree can still list: not those that wrapped.
High == {n \in Virtuals : K <= degree[n] /\ degree[n] < PrecoloredDegree}

\* A node that becomes insignificant goes on two worklists, a node of Thawed(u)
\* is paid by a frozen move, and a combination may list every node and raise one.
Work == Cardinality(simplify_worklist) + Cardinality(freeze_worklist)
        + Cardinality(spill_worklist) + 2 * Cardinality(High) + 2 * Cardinality(LiveMoves)
        + (2 * Size + 4) * (Size - Combined) + Pushed

MostWork == 4 * (Size * Size) + 9 * Size

\* The degree d of a virtual register is small, or it went below zero: p nodes
\* were pushed and c combined.
LowOrWrapped(d, p, c) == d <= Size * (1 + c) \/ d >= DegreeMod - p - c

DegreesBounded ==
  /\ degree \in [Node -> 0 .. DegreeMod - 1]
  /\ \A r \in Registers : degree[r] >= PrecoloredDegree - Pushed - Combined
  /\ \A n \in Virtuals : LowOrWrapped(degree[n], Pushed, Combined)

Budget == DegreesBounded /\ Work <= MostWork

\* The inductive invariant.
Bounded == PrecoloredNeverListed /\ (Selecting => Budget)

-----------------------------------------------------------------------------
(* Numbers.                                                                *)

LEMMA Sizes ==
  /\ Size \in Nat /\ K \in Nat /\ PrecoloredDegree \in Nat /\ DegreeMod \in Nat
  /\ Size * Size \in Nat /\ MostWork \in Nat
  /\ 4 * PrecoloredDegree <= DegreeMod
  /\ PrecoloredDegree > K + MostWork + Size
<1>1. Size \in Nat
  BY NodeFinite, FS_CardinalityType DEF Size
<1>2. K \in Nat
  BY OperandAssumption, FS_Subset, FS_CardinalityType DEF K
<1>3. DegreeMod \in Nat /\ PrecoloredDegree = DegreeMod \div 4
  BY DegreeAssumption DEF PrecoloredDegree
<1>4. PrecoloredDegree \in Nat /\ 4 * PrecoloredDegree <= DegreeMod
  BY <1>3
<1>5. Size * Size \in Nat
  BY <1>1
<1>6. PrecoloredDegree > K + 4 * (Size * Size) + 10 * Size
  BY DegreeAssumption DEF Size
<1> QED
  BY <1>1, <1>2, <1>3, <1>4, <1>5, <1>6 DEF MostWork

LEMMA CardUnion ==
  ASSUME NEW S, NEW T, IsFiniteSet(S), IsFiniteSet(T)
  PROVE  Cardinality(S \cup T) <= Cardinality(S) + Cardinality(T)
<1>1. IsFiniteSet(S \cap T)
  BY FS_Subset, S \cap T \in SUBSET S
<1>2. Cardinality(S \cup T) = Cardinality(S) + Cardinality(T) - Cardinality(S \cap T)
  BY FS_Union
<1>3. /\ Cardinality(S) \in Nat /\ Cardinality(T) \in Nat
      /\ Cardinality(S \cap T) \in Nat
  BY <1>1, FS_CardinalityType
<1> QED
  BY <1>2, <1>3

LEMMA CardDisjoint ==
  ASSUME NEW S, NEW T, IsFiniteSet(S), NEW U, U \subseteq S, T \subseteq S, U \cap T = {}
  PROVE  Cardinality(U) + Cardinality(T) <= Cardinality(S)
<1>1. IsFiniteSet(U) /\ IsFiniteSet(T) /\ U \cup T \in SUBSET S
  BY FS_Subset
<1>2. Cardinality(U \cup T) = Cardinality(U) + Cardinality(T) - Cardinality(U \cap T)
  BY <1>1, FS_Union
<1>3. Cardinality(U \cap T) = 0
  BY FS_EmptySet
<1>4. Cardinality(U) \in Nat /\ Cardinality(T) \in Nat
  BY <1>1, FS_CardinalityType
<1>5. Cardinality(U \cup T) <= Cardinality(S)
  BY <1>1, FS_Subset
<1> QED
  BY <1>2, <1>3, <1>4, <1>5

\* What is counted is finite.
LEMMA CountedNodes ==
  ASSUME NEW S \in SUBSET Node
  PROVE  IsFiniteSet(S) /\ Cardinality(S) \in Nat /\ Cardinality(S) <= Size
  BY NodeFinite, FS_Subset, FS_CardinalityType DEF Size

LEMMA CountedMoves ==
  ASSUME NEW M \in SUBSET Edge
  PROVE  IsFiniteSet(M) /\ Cardinality(M) \in Nat /\ Cardinality(M) <= Size * Size
<1>1. IsFiniteSet(Edge) /\ Cardinality(Edge) = Size * Size
  BY NodeFinite, FS_Product DEF Edge, Size
<1> QED
  BY <1>1, FS_Subset, FS_CardinalityType

Counted ==
  /\ Cardinality(simplify_worklist) \in Nat /\ Cardinality(freeze_worklist) \in Nat
  /\ Cardinality(spill_worklist) \in Nat /\ Cardinality(High) \in Nat
  /\ Cardinality(LiveMoves) \in Nat
  /\ Combined \in Nat /\ Combined <= Size /\ Pushed \in Nat
  /\ (2 * Size + 4) * (Size - Combined) \in Nat

LEMMA AllCounted == TypeOK => Counted
<1> SUFFICES ASSUME TypeOK PROVE Counted
  OBVIOUS
<1>1. /\ simplify_worklist \in SUBSET Node /\ freeze_worklist \in SUBSET Node
      /\ spill_worklist \in SUBSET Node /\ High \in SUBSET Node
      /\ coalesced_nodes \in SUBSET Node /\ LiveMoves \in SUBSET Edge
      /\ select_stack \in Seq(Node)
  BY NodeNat DEF TypeOK, High, LiveMoves
<1>2. \A x \in Nat, y \in Nat : x * y \in Nat
  OBVIOUS
<1>3. Combined \in Nat /\ Combined <= Size
  BY <1>1, CountedNodes DEF Combined
<1>4. 2 * Size + 4 \in Nat /\ Size - Combined \in Nat
  BY <1>3, Sizes
<1> QED
  BY <1>1, <1>2, <1>3, <1>4, CountedNodes, CountedMoves DEF Counted, Pushed

LEMMA AllCountedNext == TypeOK' => Counted'
  BY AllCounted, PTL

\* While nodes are selected, few enough were pushed or combined.
LEMMA FewSteps ==
  ASSUME TypeOK, Budget
  PROVE  /\ Pushed + Combined <= MostWork + Size
         /\ Pushed + Combined + K < PrecoloredDegree
<1> DEFINE rest == (2 * Size + 4) * (Size - Combined)
<1>1. Counted /\ rest \in Nat
  BY AllCounted DEF Counted
<1>2. Work = Cardinality(simplify_worklist) + Cardinality(freeze_worklist)
             + Cardinality(spill_worklist) + 2 * Cardinality(High)
             + 2 * Cardinality(LiveMoves) + rest + Pushed
  BY DEF Work
<1> HIDE DEF rest
<1>3. Pushed <= Work /\ Work \in Int
  BY <1>1, <1>2 DEF Counted
<1> QED
  BY <1>1, <1>3, Sizes DEF Budget, Counted

-----------------------------------------------------------------------------
LEMMA InitBounded == Init => Bounded
<1> SUFFICES ASSUME Init PROVE Bounded
  OBVIOUS
<1>0. PICK g \in Graphs : InitGraph(g) /\ \E ms \in MoveSets[g] : InitMoves(ms)
  BY DEF Init
<1>1. PICK ms \in MoveSets[g] : InitGraph(g) /\ InitMoves(ms)
  BY <1>0
<1>2. TypeOK
  BY InitTyped DEF Typed
<1>3. PrecoloredNeverListed
  <2>1. /\ simplify_worklist \subseteq Virtuals /\ freeze_worklist \subseteq Virtuals
        /\ spill_worklist \subseteq Virtuals
    BY DEF Init, MkWorklist
  <2>2. Stacked = {}
    BY DEF Init, Stacked
  <2> QED
    BY <2>1, <2>2, NodeNat DEF PrecoloredNeverListed
<1>4. Pushed = 0 /\ Combined = 0
  BY FS_EmptySet DEF Init, Pushed, Combined
<1>5. \A n \in Virtuals : degree[n] \in 0 .. Size
  <2>1. \A n \in Virtuals : degree[n] = Cardinality(adj_list[n]) /\ adj_list[n] \in SUBSET Node
    BY <1>1, <1>2, NodeNat DEF InitGraph, TypeOK
  <2> QED
    BY <2>1, CountedNodes, Sizes
<1>6. \A r \in Registers : degree[r] = PrecoloredDegree
  BY <1>1, NodeNat DEF InitGraph
<1>7. DegreesBounded
  <2>1. Size < DegreeMod /\ PrecoloredDegree < DegreeMod
    BY Sizes
  <2>2. degree \in [Node -> Int]
    BY <1>2 DEF TypeOK
  <2>3. \A n \in Node : degree[n] \in 0 .. DegreeMod - 1
    BY <1>5, <1>6, <2>1, Sizes DEF Node
  <2> QED
    BY <1>4, <1>5, <1>6, <2>2, <2>3, Sizes DEF DegreesBounded, LowOrWrapped
<1>8. Work <= MostWork
  <2>1. /\ Cardinality(simplify_worklist) <= Size /\ Cardinality(freeze_worklist) <= Size
        /\ Cardinality(spill_worklist) <= Size /\ Cardinality(High) <= Size
        /\ Cardinality(LiveMoves) <= Size * Size
    BY <1>2, NodeNat, CountedNodes, CountedMoves DEF TypeOK, High, LiveMoves
  <2>2. (2 * Size + 4) * (Size - Combined) = 2 * (Size * Size) + 4 * Size
    BY <1>4, Sizes
  <2>3. Counted
    BY <1>2, AllCounted
  <2> QED
    BY <1>4, <2>1, <2>2, <2>3, Sizes DEF Work, MostWork, Counted
<1> QED
  BY <1>3, <1>7, <1>8 DEF Bounded, Budget

-----------------------------------------------------------------------------
(* A degree that changes.                                                  *)

LEMMA Decrement ==
  ASSUME NEW d \in 0 .. DegreeMod - 1
  PROVE  Minus1(d) = IF d = 0 THEN DegreeMod - 1 ELSE d - 1
  BY Sizes DEF Minus1

LEMMA Increment ==
  ASSUME NEW d \in 0 .. DegreeMod - 1, NEW k \in 0 .. DegreeMod - 1
  PROVE  Plus(d, k) = IF d + k < DegreeMod THEN d + k ELSE d + k - DegreeMod
  BY Sizes DEF Plus

LEMMA LowIsSmall ==
  ASSUME NEW c \in Nat, c <= Size
  PROVE  /\ Size * (1 + c) \in Nat /\ Size * (1 + c) < PrecoloredDegree
         /\ Size * (1 + (c + 1)) = Size * (1 + c) + Size
<1>1. Size * (1 + c) = Size + Size * c
  BY Sizes
<1>2. Size * c <= Size * Size
  BY Sizes
<1>3. Size * c \in Nat
  BY Sizes
<1>4. Size * (1 + (c + 1)) = Size + Size * c + Size
  BY Sizes
<1> QED
  BY <1>1, <1>2, <1>3, <1>4, Sizes DEF MostWork

\* A visit of decrement_degree, or none, by a step that pushes or combines a node.
LEMMA StepDown ==
  ASSUME NEW d \in 0 .. DegreeMod - 1, NEW p \in Nat, NEW c \in Nat, c <= Size,
         p + c + K < PrecoloredDegree, LowOrWrapped(d, p, c),
         NEW p1 \in Nat, NEW c1 \in Nat, p1 + c1 = p + c + 1, c1 = c \/ c1 = c + 1,
         NEW e \in {d, Minus1(d)}
  PROVE  /\ e \in 0 .. DegreeMod - 1
         /\ LowOrWrapped(e, p1, c1)
         /\ K <= e /\ e < PrecoloredDegree
              => K <= d /\ d < PrecoloredDegree /\ (e = Minus1(d) => d # K)
<1> DEFINE low == Size * (1 + c)
           low1 == Size * (1 + c1)
<1>1. low \in Nat /\ low < PrecoloredDegree /\ low1 \in Nat /\ low <= low1
  BY LowIsSmall, Sizes
<1>2. d <= low \/ d >= DegreeMod - p - c
  BY DEF LowOrWrapped
<1>3. Minus1(d) = IF d = 0 THEN DegreeMod - 1 ELSE d - 1
  BY Decrement
<1> HIDE DEF low, low1
<1>4. e \in 0 .. DegreeMod - 1
  BY <1>3, Sizes
<1>5. e <= low1 \/ e >= DegreeMod - p1 - c1
  BY <1>1, <1>2, <1>3, Sizes
<1>6. K <= e /\ e < PrecoloredDegree
        => K <= d /\ d < PrecoloredDegree /\ (e = Minus1(d) => d # K)
  BY <1>1, <1>2, <1>3, Sizes
<1> QED
  BY <1>4, <1>5, <1>6 DEF LowOrWrapped, low1

\* The degree of the node that others are combined into.
LEMMA StepUp ==
  ASSUME NEW d \in 0 .. DegreeMod - 1, NEW p \in Nat, NEW c \in Nat, c <= Size,
         p + c + K < PrecoloredDegree, LowOrWrapped(d, p, c),
         NEW k \in 0 .. Size
  PROVE  /\ Plus(d, k) \in 0 .. DegreeMod - 1
         /\ LowOrWrapped(Plus(d, k), p, c + 1)
<1> DEFINE low == Size * (1 + c)
           low1 == Size * (1 + (c + 1))
<1>1. low \in Nat /\ low < PrecoloredDegree /\ low1 = low + Size
  BY LowIsSmall, Sizes
<1>2. d <= low \/ d >= DegreeMod - p - c
  BY DEF LowOrWrapped
<1>3. Plus(d, k) = IF d + k < DegreeMod THEN d + k ELSE d + k - DegreeMod
  BY Increment, Sizes
<1> HIDE DEF low, low1
<1>4. Plus(d, k) \in 0 .. DegreeMod - 1
  BY <1>3, Sizes
<1>5. Plus(d, k) <= low1 \/ Plus(d, k) >= DegreeMod - p - (c + 1)
  BY <1>1, <1>2, <1>3, Sizes
<1> QED
  BY <1>4, <1>5 DEF LowOrWrapped, low1

LEMMA StepRegister ==
  ASSUME NEW d \in 0 .. DegreeMod - 1, NEW p \in Nat, NEW c \in Nat,
         p + c + K < PrecoloredDegree, d >= PrecoloredDegree - p - c,
         NEW p1 \in Nat, NEW c1 \in Nat, p1 + c1 = p + c + 1,
         NEW e \in {d, Minus1(d)}
  PROVE  e \in 0 .. DegreeMod - 1 /\ e >= PrecoloredDegree - p1 - c1 /\ d > K
  BY Decrement, Sizes

-----------------------------------------------------------------------------
(* Simplify.                                                               *)

LEMMA SelectingBudget ==
  ASSUME Bounded, Selecting
  PROVE  Budget /\ DegreesBounded /\ PrecoloredNeverListed
  BY DEF Bounded, Budget

LEMMA UnlistedStacked ==
  ASSUME PrecoloredNeverListed
  PROVE  /\ simplify_worklist \cap Registers = {} /\ freeze_worklist \cap Registers = {}
         /\ spill_worklist \cap Registers = {} /\ Stacked \cap Registers = {}
  BY DEF PrecoloredNeverListed

\* push_back adds one operand to the stack.
LEMMA PushStack ==
  ASSUME select_stack \in Seq(Node), NEW n \in Node, select_stack' = Append(select_stack, n)
  PROVE  Pushed \in Nat /\ Pushed' = Pushed + 1 /\ Stacked' = Stacked \cup {n}
<1>1. /\ Len(select_stack') = Len(select_stack) + 1 /\ Len(select_stack) \in Nat
      /\ DOMAIN select_stack = 1 .. Len(select_stack)
      /\ DOMAIN select_stack' = 1 .. Len(select_stack')
      /\ \A i \in 1 .. Len(select_stack) : select_stack'[i] = select_stack[i]
      /\ select_stack'[Len(select_stack) + 1] = n
  OBVIOUS
<1>2. \A i \in DOMAIN select_stack' :
        i \in DOMAIN select_stack \/ i = Len(select_stack) + 1
  BY <1>1
<1>3. Len(select_stack) + 1 \in DOMAIN select_stack'
      /\ \A i \in DOMAIN select_stack : i \in DOMAIN select_stack'
  BY <1>1
<1>4. Stacked' \subseteq Stacked \cup {n}
  BY <1>1, <1>2 DEF Stacked
<1>5. Stacked \cup {n} \subseteq Stacked'
  BY <1>1, <1>3 DEF Stacked
<1> QED
  BY <1>1, <1>4, <1>5 DEF Pushed

LEMMA SimplifyBounded == Typed /\ Typed' /\ Bounded /\ Simplify => Bounded'
<1> SUFFICES ASSUME TypeOK, TypeOK', Bounded, Simplify PROVE Bounded'
  BY DEF Typed
<1>1. PICK n \in simplify_worklist :
        LET adj == Adjacent(n)
            crossing == {m \in adj : degree[m] = K}
            around == [m \in crossing |-> Adjacent(m) \ {n}]
            woken == Enabled(crossing, around)
        IN  /\ select_stack' = Append(select_stack, n)
            /\ degree' = [m \in Node |-> IF m \in adj THEN Minus1(degree[m]) ELSE degree[m]]
            /\ active_moves' = active_moves \ woken
            /\ worklist_moves' = worklist_moves \cup woken
            /\ Relist(crossing, simplify_worklist \ {n}, freeze_worklist, spill_worklist)
  BY DEF Simplify
<1> DEFINE adj == Adjacent(n)
           crossing == {m \in adj : degree[m] = K}
           related == {m \in crossing : MoveRelated(m)}
           around == [m \in crossing |-> Adjacent(m) \ {n}]
           woken == Enabled(crossing, around)
<1>2. Selecting /\ Budget /\ DegreesBounded /\ PrecoloredNeverListed
  <2>1. Selecting
    BY DEF Simplify, Selecting
  <2> QED
    BY <2>1, SelectingBudget
<1>3. /\ n \in Node /\ n \notin Registers /\ adj \in SUBSET Node /\ coalesced_nodes' = coalesced_nodes
      /\ pc' = "coalesce"
  BY <1>2, AdjacentType, UnlistedStacked DEF TypeOK, Simplify
<1>4. /\ Pushed' = Pushed + 1 /\ Stacked' = Stacked \cup {n}
      /\ Pushed \in Nat /\ Combined' = Combined /\ Combined \in Nat /\ Combined <= Size
      /\ Pushed + Combined + K < PrecoloredDegree
  <2>1. select_stack \in Seq(Node) /\ select_stack' = Append(select_stack, n)
    BY <1>1 DEF TypeOK
  <2> QED
    BY <1>2, <1>3, <2>1, PushStack, AllCounted, FewSteps DEF Counted, Combined
<1>5. /\ simplify_worklist' = (simplify_worklist \ {n}) \cup (crossing \ related)
      /\ freeze_worklist' = freeze_worklist \cup related
      /\ spill_worklist' = spill_worklist \cup crossing
  BY <1>1 DEF Relist
<1>6. LiveMoves' = LiveMoves
  <2>1. /\ woken \subseteq active_moves /\ active_moves' = active_moves \ woken
        /\ worklist_moves' = worklist_moves \cup woken
    BY <1>1 DEF Enabled
  <2> HIDE DEF woken
  <2> QED
    BY <2>1 DEF LiveMoves
<1>7. \A m \in Node : degree'[m] = IF m \in adj THEN Minus1(degree[m]) ELSE degree[m]
  BY <1>1
<1>8. \A m \in Registers : degree[m] > K /\ degree'[m] \in 0 .. DegreeMod - 1
                           /\ degree'[m] >= PrecoloredDegree - Pushed' - Combined'
  <2> TAKE m \in Registers
  <2>1. m \in Node /\ degree[m] \in 0 .. DegreeMod - 1
        /\ degree[m] >= PrecoloredDegree - Pushed - Combined
    BY <1>2, NodeNat DEF DegreesBounded
  <2>2. degree'[m] \in {degree[m], Minus1(degree[m])} /\ Pushed' \in Nat /\ Combined' \in Nat
        /\ Pushed' + Combined' = Pushed + Combined + 1
    BY <1>4, <1>7, <2>1
  <2>3. /\ degree[m] > K /\ degree'[m] \in 0 .. DegreeMod - 1
        /\ degree'[m] >= PrecoloredDegree - Pushed' - Combined'
    BY <1>4, <2>1, <2>2, StepRegister
  <2> QED
    BY <2>3
<1>9. \A m \in Virtuals : /\ degree'[m] \in 0 .. DegreeMod - 1
                          /\ LowOrWrapped(degree'[m], Pushed', Combined')
                          /\ m \in High' => m \in High \ crossing
  <2> TAKE m \in Virtuals
  <2>1. m \in Node /\ degree[m] \in 0 .. DegreeMod - 1
        /\ LowOrWrapped(degree[m], Pushed, Combined)
    BY <1>2, NodeNat DEF DegreesBounded
  <2>2. degree'[m] \in {degree[m], Minus1(degree[m])} /\ Pushed' \in Nat /\ Combined' \in Nat
        /\ Pushed' + Combined' = Pushed + Combined + 1
    BY <1>4, <1>7, <2>1
  <2>3. /\ degree'[m] \in 0 .. DegreeMod - 1
        /\ LowOrWrapped(degree'[m], Pushed', Combined')
        /\ K <= degree'[m] /\ degree'[m] < PrecoloredDegree
             => /\ K <= degree[m] /\ degree[m] < PrecoloredDegree
                /\ degree'[m] = Minus1(degree[m]) => degree[m] # K
    BY <1>4, <2>1, <2>2, StepDown
  <2> QED
    BY <1>7, <2>1, <2>3 DEF High
<1>10. crossing \subseteq High /\ crossing \in SUBSET Node /\ crossing \cap Registers = {}
  BY <1>3, <1>8, Sizes DEF High, Node
<1>11. DegreesBounded'
  <2>1. \A m \in Node : degree'[m] \in 0 .. DegreeMod - 1
    BY <1>8, <1>9 DEF Node
  <2>2. degree' = [m \in Node |-> degree'[m]]
    BY DEF TypeOK
  <2> QED
    BY <1>8, <1>9, <2>1, <2>2 DEF DegreesBounded
<1> HIDE DEF crossing, related, adj
<1>12. PrecoloredNeverListed'
  <2>1. related \subseteq crossing
    BY DEF related
  <2>2. /\ simplify_worklist' \cap Registers = {} /\ freeze_worklist' \cap Registers = {}
        /\ spill_worklist' \cap Registers = {} /\ Stacked' \cap Registers = {}
    BY <1>2, <1>3, <1>4, <1>5, <1>10, <2>1, UnlistedStacked
  <2> QED
    BY <2>2 DEF PrecoloredNeverListed
<1>13. /\ Cardinality(simplify_worklist') <= Cardinality(simplify_worklist) - 1
                                               + Cardinality(crossing \ related)
       /\ Cardinality(freeze_worklist') <= Cardinality(freeze_worklist) + Cardinality(related)
       /\ Cardinality(spill_worklist') <= Cardinality(spill_worklist) + Cardinality(crossing)
  <2>1. related \in SUBSET Node /\ crossing \ related \in SUBSET Node
    BY <1>10 DEF related
  <2>2. /\ simplify_worklist \in SUBSET Node /\ freeze_worklist \in SUBSET Node
        /\ spill_worklist \in SUBSET Node
    BY DEF TypeOK
  <2>3. /\ IsFiniteSet(simplify_worklist) /\ IsFiniteSet(freeze_worklist)
        /\ IsFiniteSet(spill_worklist) /\ IsFiniteSet(crossing) /\ IsFiniteSet(related)
        /\ IsFiniteSet(crossing \ related)
    BY <1>10, <2>1, <2>2, CountedNodes
  <2>4. /\ IsFiniteSet(simplify_worklist \ {n})
        /\ Cardinality(simplify_worklist \ {n}) = Cardinality(simplify_worklist) - 1
    BY <2>3, FS_RemoveElement
  <2> QED
    BY <1>5, <2>3, <2>4, CardUnion
<1>14. Cardinality(High') + Cardinality(crossing) <= Cardinality(High)
  <2>1. IsFiniteSet(High) /\ High' \subseteq High \ crossing
    <3>1. High \in SUBSET Node /\ High' \subseteq Virtuals
      BY NodeNat DEF High
    <3> QED
      BY <1>9, <3>1, CountedNodes
  <2>2. High' \subseteq High /\ High' \cap crossing = {}
    BY <2>1
  <2> QED
    BY <1>10, <2>1, <2>2, CardDisjoint
<1>15. Cardinality(crossing \ related) + Cardinality(related) <= Cardinality(crossing)
  <2>1. IsFiniteSet(crossing) /\ related \subseteq crossing
    BY <1>10, CountedNodes DEF related
  <2> QED
    BY <2>1, CardDisjoint
<1>16. Work' <= MostWork
  <2>1. Counted /\ Counted' /\ Cardinality(crossing) \in Nat /\ Cardinality(related) \in Nat
        /\ Cardinality(crossing \ related) \in Nat
    BY <1>10, AllCounted, AllCountedNext, CountedNodes DEF related
  <2>2. (2 * Size + 4) * (Size - Combined') = (2 * Size + 4) * (Size - Combined)
        /\ Cardinality(LiveMoves') = Cardinality(LiveMoves)
    BY <1>4, <1>6
  <2>3. Work' <= Work
    BY <1>4, <1>13, <1>14, <1>15, <2>1, <2>2, Sizes DEF Work, Counted
  <2> QED
    BY <1>2, <2>1, <2>3, Sizes DEF Budget, Work, Counted
<1> QED
  BY <1>11, <1>12, <1>16 DEF Bounded, Budget

-----------------------------------------------------------------------------
(* Coalesce without combine: a move leaves, two nodes at most are listed.  *)

LEMMA PairSize ==
  ASSUME NEW u \in Node, NEW v \in Node, NEW S \in SUBSET {u, v}
  PROVE  IsFiniteSet(S) /\ Cardinality(S) \in Nat /\ Cardinality(S) <= 2
<1>1. /\ IsFiniteSet({u}) /\ IsFiniteSet({v}) /\ Cardinality({u}) = 1 /\ Cardinality({v}) = 1
      /\ {u, v} = {u} \cup {v}
  BY FS_Singleton
<1>2. IsFiniteSet({u, v}) /\ Cardinality({u, v}) <= 2
  <2>1. IsFiniteSet({u, v})
    BY <1>1, FS_Union
  <2>2. Cardinality({u} \cup {v}) <= Cardinality({u}) + Cardinality({v})
    BY <1>1, CardUnion
  <2> QED
    BY <1>1, <2>1, <2>2
<1>3. IsFiniteSet(S) /\ Cardinality(S) <= Cardinality({u, v})
  BY <1>2, FS_Subset
<1>4. Cardinality(S) \in Nat /\ Cardinality({u, v}) \in Nat
  BY <1>2, <1>3, FS_CardinalityType
<1> QED
  BY <1>2, <1>3, <1>4

LEMMA AddWorkListSize ==
  ASSUME TypeOK, TypeOK', PrecoloredNeverListed, NEW u \in Node, NEW v \in Node,
         NEW S \in SUBSET {u, v}, AddWorkList(S)
  PROVE  /\ Cardinality(simplify_worklist') <= Cardinality(simplify_worklist) + 2
         /\ Cardinality(freeze_worklist') <= Cardinality(freeze_worklist)
         /\ simplify_worklist' \cap Registers = {} /\ freeze_worklist' \cap Registers = {}
<1> DEFINE moved == {n \in S : Freeable(n)}
<1>1. /\ freeze_worklist' = freeze_worklist \ moved
      /\ simplify_worklist' = simplify_worklist \cup moved
      /\ moved \in SUBSET {u, v} /\ moved \cap Registers = {}
  BY DEF AddWorkList, Freeable
<1> HIDE DEF moved
<1>2. /\ IsFiniteSet(simplify_worklist) /\ IsFiniteSet(freeze_worklist)
      /\ Cardinality(simplify_worklist) \in Nat /\ IsFiniteSet(simplify_worklist')
      /\ Cardinality(simplify_worklist') \in Nat
  BY CountedNodes DEF TypeOK
<1>3. IsFiniteSet(moved) /\ Cardinality(moved) \in Nat /\ Cardinality(moved) <= 2
  BY <1>1, PairSize
<1>4. Cardinality(simplify_worklist') <= Cardinality(simplify_worklist) + Cardinality(moved)
  BY <1>1, <1>2, <1>3, CardUnion
<1>5. Cardinality(freeze_worklist') <= Cardinality(freeze_worklist)
  BY <1>1, <1>2, FS_Subset
<1> QED
  BY <1>1, <1>2, <1>3, <1>4, <1>5, UnlistedStacked

LEMMA CoalesceNothingBounded ==
  ASSUME TypeOK, TypeOK', Disjoint, Bounded, Coalesce, NEW m \in worklist_moves,
         NEW u \in Node, NEW v \in Node, CoalesceNothing(m, u, v)
  PROVE  Bounded'
<1>1. Selecting /\ Budget /\ DegreesBounded /\ PrecoloredNeverListed
  <2>1. Selecting
    BY DEF Coalesce, Selecting
  <2> QED
    BY <2>1, SelectingBudget
<1>2. UNCHANGED <<degree, select_stack, coalesced_nodes, spill_worklist>>
  BY DEF CoalesceNothing, Coalesce
<1>3. High' = High /\ Pushed' = Pushed /\ Combined' = Combined /\ Stacked' = Stacked
  BY <1>2 DEF High, Pushed, Combined, Stacked
<1>4. DegreesBounded'
  BY <1>1, <1>2, <1>3 DEF DegreesBounded
<1>5. LiveMoves \in SUBSET Edge /\ LiveMoves' \in SUBSET Edge
  BY DEF LiveMoves, TypeOK
<1>6. /\ Cardinality(simplify_worklist') + 2 * Cardinality(LiveMoves')
           <= Cardinality(simplify_worklist) + 2 * Cardinality(LiveMoves)
      /\ Cardinality(freeze_worklist') <= Cardinality(freeze_worklist)
      /\ simplify_worklist' \cap Registers = {} /\ freeze_worklist' \cap Registers = {}
  <2>1. CASE \E S \in SUBSET {u, v} : UNCHANGED active_moves /\ AddWorkList(S)
    <3>1. LiveMoves' = LiveMoves \ {m} /\ m \in LiveMoves
      BY <2>1 DEF CoalesceNothing, LiveMoves, Disjoint
    <3>2. Cardinality(LiveMoves') = Cardinality(LiveMoves) - 1
      BY <1>5, <3>1, CountedMoves, FS_RemoveElement
    <3>3. /\ Cardinality(simplify_worklist') <= Cardinality(simplify_worklist) + 2
          /\ Cardinality(freeze_worklist') <= Cardinality(freeze_worklist)
          /\ simplify_worklist' \cap Registers = {} /\ freeze_worklist' \cap Registers = {}
      BY <1>1, <2>1, AddWorkListSize
    <3>4. Counted /\ Counted'
      BY AllCounted, AllCountedNext
    <3> QED
      BY <3>2, <3>3, <3>4 DEF Counted
  <2>2. CASE active_moves' = active_moves \cup {m}
             /\ UNCHANGED <<freeze_worklist, simplify_worklist>>
    <3>1. LiveMoves' = LiveMoves
      BY <2>2 DEF CoalesceNothing, LiveMoves
    <3>2. Counted
      BY AllCounted
    <3> QED
      BY <1>1, <2>2, <3>1, <3>2, UnlistedStacked DEF Counted
  <2>3. {u} \in SUBSET {u, v} /\ {u, v} \in SUBSET {u, v}
    OBVIOUS
  <2> QED
    BY <2>1, <2>2, <2>3 DEF CoalesceNothing
<1>7. PrecoloredNeverListed'
  BY <1>1, <1>2, <1>3, <1>6, UnlistedStacked DEF PrecoloredNeverListed
<1>8. Work' <= MostWork
  <2>1. Counted /\ Counted'
    BY AllCounted, AllCountedNext
  <2>2. (2 * Size + 4) * (Size - Combined') = (2 * Size + 4) * (Size - Combined)
    BY <1>3
  <2>3. Work' <= Work
    BY <1>2, <1>3, <1>6, <2>1, <2>2 DEF Work, Counted
  <2> QED
    BY <1>1, <2>1, <2>3, Sizes DEF Budget, Work, Counted
<1> QED
  BY <1>4, <1>7, <1>8 DEF Bounded, Budget

-----------------------------------------------------------------------------
(* Combine: one node fewer, whatever it lists.                             *)

LEMMA AddOne ==
  ASSUME NEW d \in 0 .. DegreeMod - 1
  PROVE  Plus(d, 1) \in 0 .. DegreeMod - 1 /\ Minus1(Plus(d, 1)) = d
<1>1. 1 \in 0 .. DegreeMod - 1
  BY Sizes
<1>2. Plus(d, 1) = IF d + 1 < DegreeMod THEN d + 1 ELSE d + 1 - DegreeMod
  BY <1>1, Increment
<1>3. Plus(d, 1) \in 0 .. DegreeMod - 1
  BY <1>2, Sizes
<1>4. Minus1(Plus(d, 1)) = IF Plus(d, 1) = 0 THEN DegreeMod - 1 ELSE Plus(d, 1) - 1
  BY <1>3, Decrement
<1> QED
  BY <1>2, <1>3, <1>4, Sizes

LEMMA CombineBounded ==
  ASSUME TypeOK, AliasesEnd, TypeOK', Bounded, Coalesce, NEW m \in worklist_moves,
         NEW u \in Node, NEW v \in Node, CoalesceStep(m, u, v), Combine(m, u, v)
  PROVE  Bounded'
<1> DEFINE adj == Adjacent(v) \ {v}
           fresh == {t \in adj : <<t, u>> \notin adj_set /\ t # u}
           inc(t) == IF t \in fresh \ Registers THEN Plus(degree[t], 1) ELSE degree[t]
           crossing == {t \in adj : inc(t) = K}
           around == [t \in crossing |-> adj_list'[t] \ (Stacked \cup coalesced_nodes')]
           woken == {w \in active_moves : \E t \in crossing : \E x \in {t} \cup around[t] :
                                            w \in move_list'[x]}
           related == {t \in crossing : MoveRelatedNext(t)}
           freeze == (freeze_worklist \ {v}) \cup related
           simplify == simplify_worklist \cup (crossing \ related)
           spill == (IF v \in freeze_worklist THEN spill_worklist
                     ELSE spill_worklist \ {v}) \cup crossing
           promoted == {u} \cap {n \in freeze : degree'[n] >= K}
           freeable == {n \in {u} : Freeable(n)}
<1>1. /\ degree' = [n \in Node |->
           IF n \in adj THEN Minus1(inc(n))
           ELSE IF n = u /\ u \notin Registers THEN Plus(degree[n], Cardinality(fresh))
           ELSE degree[n]]
      /\ active_moves' = active_moves \ woken
      /\ worklist_moves' = (worklist_moves \ {m}) \cup woken
      /\ spill_worklist' = spill \cup promoted
      /\ freeze_worklist' = freeze \ (promoted \cup freeable)
      /\ simplify_worklist' = simplify \cup freeable
  BY DEF Combine
<1>2. Selecting /\ Budget /\ DegreesBounded /\ PrecoloredNeverListed
  <2>1. Selecting
    BY DEF Coalesce, Selecting
  <2> QED
    BY <2>1, SelectingBudget
<1>3. /\ UNCHANGED select_stack /\ coalesced_nodes' = coalesced_nodes \cup {v}
      /\ v \notin coalesced_nodes
  BY EndsUncoalesced DEF Coalesce, Combine
<1>4. /\ Combined' = Combined + 1 /\ Pushed' = Pushed /\ Stacked' = Stacked
      /\ Pushed \in Nat /\ Combined \in Nat /\ Combined + 1 <= Size
      /\ Pushed + Combined + K < PrecoloredDegree
  <2>1. coalesced_nodes \in SUBSET Node
    BY NodeNat DEF TypeOK
  <2>2. Combined' = Combined + 1 /\ Pushed' = Pushed /\ Stacked' = Stacked
    BY <1>3, <2>1, CountedNodes, FS_AddElement DEF Combined, Pushed, Stacked
  <2>3. Counted /\ Counted' /\ Size' = Size
    BY AllCounted, AllCountedNext DEF Size, Node
  <2> QED
    BY <1>2, <2>2, <2>3, FewSteps, Sizes DEF Counted
<1>5. adj \in SUBSET Node /\ fresh \in SUBSET Node /\ crossing \in SUBSET Node
      /\ related \subseteq crossing /\ woken \subseteq active_moves
  BY AdjacentType
<1>6. \A n \in Node : inc(n) = degree[n] \/ (inc(n) = Plus(degree[n], 1) /\ n \notin Registers)
  OBVIOUS
<1>8. crossing \cap Registers = {}
  <2> SUFFICES ASSUME NEW r \in Registers PROVE inc(r) # K
    OBVIOUS
  <2>1. r \in Node /\ degree[r] \in 0 .. DegreeMod - 1
        /\ degree[r] >= PrecoloredDegree - Pushed - Combined
    BY <1>2, NodeNat DEF DegreesBounded
  <2> QED
    BY <1>4, <2>1, Sizes
<1> HIDE DEF crossing, related, adj, fresh, inc, woken
<1>7. Cardinality(fresh) \in 0 .. Size /\ Cardinality(crossing) \in 0 .. Size
  <2>1. /\ Cardinality(fresh) \in Nat /\ Cardinality(fresh) <= Size
        /\ Cardinality(crossing) \in Nat /\ Cardinality(crossing) <= Size
    BY <1>5, CountedNodes
  <2> QED
    BY <2>1, Sizes
<1>9. \A n \in Node : \/ degree'[n] \in {degree[n], Minus1(degree[n])}
                      \/ n = u /\ u \notin Registers
                           /\ degree'[n] = Plus(degree[n], Cardinality(fresh))
  <2> TAKE n \in Node
  <2>1. degree[n] \in 0 .. DegreeMod - 1
    BY <1>2 DEF DegreesBounded
  <2>2. Minus1(inc(n)) \in {degree[n], Minus1(degree[n])}
    BY <1>6, <2>1, AddOne
  <2> QED
    BY <1>1, <2>2
<1>10. \A r \in Registers : degree'[r] \in 0 .. DegreeMod - 1
                            /\ degree'[r] >= PrecoloredDegree - Pushed' - Combined'
  <2> TAKE r \in Registers
  <2>1. r \in Node /\ degree[r] \in 0 .. DegreeMod - 1
        /\ degree[r] >= PrecoloredDegree - Pushed - Combined
    BY <1>2, NodeNat DEF DegreesBounded
  <2>2. degree'[r] \in {degree[r], Minus1(degree[r])} /\ Pushed' \in Nat /\ Combined' \in Nat
        /\ Pushed' + Combined' = Pushed + Combined + 1
    BY <1>4, <1>9, <2>1
  <2>3. Pushed \in Nat /\ Combined \in Nat /\ Pushed + Combined + K < PrecoloredDegree
    BY <1>4
  <2>4. /\ degree'[r] \in 0 .. DegreeMod - 1
        /\ degree'[r] >= PrecoloredDegree - Pushed' - Combined'
    BY <2>1, <2>2, <2>3, StepRegister
  <2> QED
    BY <2>4
<1>11. \A n \in Virtuals : /\ degree'[n] \in 0 .. DegreeMod - 1
                           /\ LowOrWrapped(degree'[n], Pushed', Combined')
                           /\ n \in High' => n \in High \cup {u}
  <2> TAKE n \in Virtuals
  <2>1. n \in Node /\ degree[n] \in 0 .. DegreeMod - 1
        /\ LowOrWrapped(degree[n], Pushed, Combined)
    BY <1>2, NodeNat DEF DegreesBounded
  <2>2. CASE degree'[n] \in {degree[n], Minus1(degree[n])}
    <3>1. Pushed' \in Nat /\ Combined' \in Nat /\ Pushed' + Combined' = Pushed + Combined + 1
          /\ Combined <= Size
      BY <1>4, Sizes
    <3>2. /\ degree'[n] \in 0 .. DegreeMod - 1
          /\ LowOrWrapped(degree'[n], Pushed', Combined')
          /\ K <= degree'[n] /\ degree'[n] < PrecoloredDegree
               => K <= degree[n] /\ degree[n] < PrecoloredDegree
      BY <1>4, <2>1, <2>2, <3>1, StepDown
    <3> QED
      BY <3>2 DEF High
  <2>3. CASE n = u /\ degree'[n] = Plus(degree[n], Cardinality(fresh))
    <3>1. Combined <= Size
      BY <1>4, Sizes
    <3>2. /\ degree'[n] \in 0 .. DegreeMod - 1
          /\ LowOrWrapped(degree'[n], Pushed, Combined + 1)
      BY <1>4, <1>7, <2>1, <2>3, <3>1, StepUp
    <3> QED
      BY <1>4, <2>3, <3>2
  <2> QED
    BY <1>9, <2>1, <2>2, <2>3
<1>12. DegreesBounded'
  <2>1. \A n \in Node : degree'[n] \in 0 .. DegreeMod - 1
    BY <1>10, <1>11 DEF Node
  <2>2. degree' = [n \in Node |-> degree'[n]]
    BY DEF TypeOK
  <2> QED
    BY <1>10, <1>11, <2>1, <2>2 DEF DegreesBounded
<1>13. /\ freeze \cap Registers = {} /\ simplify \cap Registers = {}
       /\ spill \cap Registers = {} /\ promoted \subseteq {u} \cap freeze
       /\ freeable \subseteq {u} /\ freeable \cap Registers = {}
  BY <1>2, <1>5, <1>8, UnlistedStacked DEF Freeable
<1>14. /\ freeze \subseteq freeze_worklist \cup related
       /\ simplify = simplify_worklist \cup (crossing \ related)
       /\ spill \subseteq spill_worklist \cup crossing
  OBVIOUS
<1> HIDE DEF freeze, simplify, spill, promoted, freeable
<1>15. PrecoloredNeverListed'
  <2>1. /\ simplify_worklist' \cap Registers = {} /\ freeze_worklist' \cap Registers = {}
        /\ spill_worklist' \cap Registers = {} /\ Stacked' \cap Registers = {}
    BY <1>1, <1>2, <1>4, <1>13, UnlistedStacked
  <2> QED
    BY <2>1 DEF PrecoloredNeverListed
<1>16. /\ Cardinality(simplify_worklist') <= Cardinality(simplify_worklist)
                                               + Cardinality(crossing \ related) + 1
       /\ Cardinality(freeze_worklist') <= Cardinality(freeze_worklist) + Cardinality(related)
       /\ Cardinality(spill_worklist') <= Cardinality(spill_worklist) + Cardinality(crossing) + 1
       /\ Cardinality(High') <= Cardinality(High) + 1
  <2>1. /\ simplify_worklist \in SUBSET Node /\ freeze_worklist \in SUBSET Node
        /\ spill_worklist \in SUBSET Node /\ High \in SUBSET Node
        /\ related \in SUBSET Node /\ crossing \ related \in SUBSET Node
    BY <1>5, NodeNat DEF TypeOK, High
  <2>2. /\ IsFiniteSet(simplify_worklist) /\ IsFiniteSet(freeze_worklist)
        /\ IsFiniteSet(spill_worklist) /\ IsFiniteSet(crossing) /\ IsFiniteSet(related)
        /\ IsFiniteSet(crossing \ related) /\ IsFiniteSet(High)
    BY <1>5, <2>1, CountedNodes
  <2>3. ASSUME NEW S \in SUBSET Node, NEW T \in SUBSET Node, NEW R \in SUBSET (S \cup T \cup {u})
        PROVE  Cardinality(R) <= Cardinality(S) + Cardinality(T) + 1
    <3>1. IsFiniteSet(S) /\ IsFiniteSet(T) /\ S \cup T \in SUBSET Node
          /\ S \cup T \cup {u} \in SUBSET Node
      BY CountedNodes
    <3>2. Cardinality(S \cup T) <= Cardinality(S) + Cardinality(T)
      BY <3>1, CardUnion
    <3>3. Cardinality(S \cup T \cup {u}) <= Cardinality(S \cup T) + 1
      <4>1. IsFiniteSet(S \cup T) /\ Cardinality(S \cup T) \in Nat
        BY <3>1, CountedNodes
      <4>2. Cardinality(S \cup T \cup {u})
              = IF u \in S \cup T THEN Cardinality(S \cup T) ELSE Cardinality(S \cup T) + 1
        BY <4>1, FS_AddElement
      <4> QED
        BY <4>1, <4>2
    <3>4. Cardinality(R) <= Cardinality(S \cup T \cup {u})
      BY <3>1, CountedNodes, FS_Subset
    <3>5. /\ Cardinality(R) \in Nat /\ Cardinality(S \cup T) \in Nat
          /\ Cardinality(S \cup T \cup {u}) \in Nat /\ Cardinality(S) \in Nat
          /\ Cardinality(T) \in Nat
      BY <3>1, CountedNodes
    <3> QED
      BY <3>2, <3>3, <3>4, <3>5
  <2>4. /\ simplify_worklist' \subseteq simplify_worklist \cup (crossing \ related) \cup {u}
        /\ spill_worklist' \subseteq spill_worklist \cup crossing \cup {u}
        /\ freeze_worklist' \subseteq freeze_worklist \cup related
    BY <1>1, <1>13, <1>14
  <2>5. High' \subseteq High \cup {} \cup {u} /\ {} \in SUBSET Node /\ Cardinality({}) = 0
    <3>1. High' \subseteq Virtuals
      BY DEF High
    <3> QED
      BY <1>11, <3>1, FS_EmptySet
  <2>6. Cardinality(freeze_worklist') <= Cardinality(freeze_worklist) + Cardinality(related)
    <3>1. freeze_worklist \cup related \in SUBSET Node
      BY <2>1
    <3>2. Cardinality(freeze_worklist') <= Cardinality(freeze_worklist \cup related)
      BY <2>4, <3>1, CountedNodes, FS_Subset
    <3>3. Cardinality(freeze_worklist \cup related)
            <= Cardinality(freeze_worklist) + Cardinality(related)
      BY <2>2, CardUnion
    <3>4. /\ Cardinality(freeze_worklist') \in Nat /\ Cardinality(freeze_worklist) \in Nat
          /\ Cardinality(freeze_worklist \cup related) \in Nat /\ Cardinality(related) \in Nat
      BY <2>1, <3>1, CountedNodes DEF TypeOK
    <3> QED
      BY <3>2, <3>3, <3>4
  <2>7. Cardinality(High') <= Cardinality(High) + 1
    <3>1. Cardinality(High') <= Cardinality(High) + Cardinality({}) + 1
      BY <2>1, <2>3, <2>5
    <3>2. Cardinality(High) \in Nat
      BY <2>1, CountedNodes
    <3> QED
      BY <2>5, <3>1, <3>2
  <2>8. crossing \in SUBSET Node
    BY <1>5
  <2> QED
    BY <2>1, <2>3, <2>4, <2>6, <2>7, <2>8
<1>17. Cardinality(crossing \ related) + Cardinality(related) <= Cardinality(crossing)
  <2>1. IsFiniteSet(crossing) /\ related \subseteq crossing
    BY <1>5, CountedNodes
  <2> QED
    BY <2>1, CardDisjoint
<1>18. Cardinality(LiveMoves') <= Cardinality(LiveMoves)
  <2>1. LiveMoves' \subseteq LiveMoves /\ LiveMoves \in SUBSET Edge
    BY <1>1, <1>5 DEF LiveMoves, TypeOK
  <2> QED
    BY <2>1, CountedMoves, FS_Subset
<1>19. Work' <= MostWork
  <2>1. Counted /\ Counted' /\ Cardinality(crossing) \in Nat /\ Cardinality(related) \in Nat
        /\ Cardinality(crossing \ related) \in Nat
    BY <1>5, AllCounted, AllCountedNext, CountedNodes
  <2>2. (2 * Size + 4) * (Size - Combined') = (2 * Size + 4) * (Size - Combined) - (2 * Size + 4)
    BY <1>4, Sizes
  <2>3. Work' <= Work
    BY <1>4, <1>7, <1>16, <1>17, <1>18, <2>1, <2>2, Sizes DEF Work, Counted
  <2> QED
    BY <1>2, <2>1, <2>3, Sizes DEF Budget, Work, Counted
<1> QED
  BY <1>12, <1>15, <1>19 DEF Bounded, Budget

-----------------------------------------------------------------------------
(* Freeze, SelectSpill: each node freeze_moves lists has a move frozen.    *)

LEMMA ThawedSize ==
  ASSUME TypeOK, NEW u \in Node
  PROVE  /\ Thawed(u) \in SUBSET Node /\ NodeMoves(u) \in SUBSET Edge
         /\ Cardinality(Thawed(u)) <= Cardinality(NodeMoves(u))
<1>1. Thawed(u) \in SUBSET Node /\ NodeMoves(u) \in SUBSET Edge
  BY DEF TypeOK, Thawed, NodeMoves
<1> DEFINE source == {m \in NodeMoves(u) : Other(m, u) \in Thawed(u)}
           other == [m \in source |-> Other(m, u)]
<1>2. \A v \in Thawed(u) : \E m \in NodeMoves(u) : v = Other(m, u)
  BY DEF Thawed
<1> HIDE DEF source
<1>3. /\ source \subseteq NodeMoves(u)
      /\ \A m \in source : Other(m, u) \in Thawed(u)
      /\ \A v \in Thawed(u) : \E m \in source : v = Other(m, u)
  BY <1>2 DEF source
<1>4. other \in [source -> Thawed(u)] /\ \A v \in Thawed(u) : \E m \in source : other[m] = v
  <2>1. \A m \in source : other[m] = Other(m, u) /\ other[m] \in Thawed(u)
    BY <1>3
  <2>2. other \in [source -> Thawed(u)]
    BY <1>3
  <2>3. ASSUME NEW v \in Thawed(u) PROVE \E m \in source : other[m] = v
    <3>1. PICK m \in source : v = Other(m, u)
      BY <1>2 DEF source
    <3> QED
      BY <2>1, <3>1
  <2> QED
    BY <2>2, <2>3
<1>5. other \in Surjection(source, Thawed(u))
  BY <1>4 DEF Surjection
<1>6. IsFiniteSet(source) /\ Cardinality(source) \in Nat
      /\ Cardinality(source) <= Cardinality(NodeMoves(u))
  <2>1. IsFiniteSet(NodeMoves(u)) /\ source \in SUBSET Edge
    BY <1>1, <1>3, CountedMoves
  <2> QED
    BY <1>3, <2>1, CountedMoves, FS_Subset
<1>7. Cardinality(Thawed(u)) <= Cardinality(source)
  BY <1>5, <1>6, FS_Surjection
<1>8. Cardinality(Thawed(u)) \in Nat /\ Cardinality(NodeMoves(u)) \in Nat
  BY <1>1, CountedNodes, CountedMoves
<1> QED
  BY <1>1, <1>6, <1>7, <1>8

LEMMA FreezeBounded ==
  ASSUME TypeOK, TypeOK', Disjoint, Bounded, Freeze \/ SelectSpill
  PROVE  Bounded'
<1>1. Selecting /\ Budget /\ DegreesBounded /\ PrecoloredNeverListed
  <2>1. Selecting
    BY DEF Freeze, SelectSpill, Selecting
  <2> QED
    BY <2>1, SelectingBudget
<1>2. UNCHANGED <<degree, select_stack, coalesced_nodes>>
  BY DEF Freeze, SelectSpill
<1>3. High' = High /\ Pushed' = Pushed /\ Combined' = Combined /\ Stacked' = Stacked
  BY <1>2 DEF High, Pushed, Combined, Stacked
<1>4. DegreesBounded'
  BY <1>1, <1>2, <1>3 DEF DegreesBounded
<1>5. PICK u \in Node :
        /\ FreezeMoves(u) /\ u \notin Registers
        /\ \/ /\ pc = "freeze" /\ u \in freeze_worklist /\ UNCHANGED spill_worklist
           \/ /\ pc = "spill" /\ u \in spill_worklist
              /\ spill_worklist' = spill_worklist \ {u}
  BY <1>1, UnlistedStacked DEF Freeze, SelectSpill, TypeOK
<1> DEFINE moves == NodeMoves(u)
           thawed == Thawed(u)
<1>6. /\ active_moves' = active_moves \ moves
      /\ worklist_moves' = worklist_moves \ (moves \ active_moves)
      /\ freeze_worklist' = freeze_worklist \ (thawed \cup (IF pc = "freeze" THEN {u} ELSE {}))
      /\ simplify_worklist' = simplify_worklist \cup thawed \cup {u}
      /\ moves \subseteq LiveMoves
  BY <1>5 DEF FreezeMoves, NodeMoves, LiveMoves
<1>7. thawed \in SUBSET Node /\ moves \in SUBSET Edge
      /\ Cardinality(thawed) <= Cardinality(moves)
      /\ Cardinality(thawed) \in Nat /\ Cardinality(moves) \in Nat
  BY ThawedSize, CountedNodes, CountedMoves
<1>8. thawed \cap Registers = {}
  <2> SUFFICES ASSUME NEW r \in Registers PROVE ~(degree[r] < K)
    BY DEF Thawed
  <2>1. degree[r] >= PrecoloredDegree - Pushed - Combined /\ degree[r] \in 0 .. DegreeMod - 1
    BY <1>1, NodeNat DEF DegreesBounded
  <2>2. Pushed + Combined + K < PrecoloredDegree /\ Pushed \in Nat /\ Combined \in Nat
    BY <1>1, FewSteps, AllCounted DEF Counted
  <2> QED
    BY <2>1, <2>2, Sizes
<1> HIDE DEF moves, thawed
<1>9. PrecoloredNeverListed'
  <2>1. /\ simplify_worklist' \cap Registers = {} /\ freeze_worklist' \cap Registers = {}
        /\ spill_worklist' \cap Registers = {} /\ Stacked' \cap Registers = {}
    BY <1>1, <1>3, <1>5, <1>6, <1>8, UnlistedStacked
  <2> QED
    BY <2>1 DEF PrecoloredNeverListed
<1>10. Cardinality(LiveMoves') + Cardinality(moves) <= Cardinality(LiveMoves)
  <2>1. LiveMoves' \subseteq LiveMoves /\ IsFiniteSet(LiveMoves)
    BY <1>6, CountedMoves DEF LiveMoves, TypeOK
  <2>2. LiveMoves' \cap moves = {}
    BY <1>6 DEF LiveMoves, Disjoint
  <2> QED
    BY <1>6, <2>1, <2>2, CardDisjoint
<1>11. /\ simplify_worklist \in SUBSET Node /\ freeze_worklist \in SUBSET Node
       /\ spill_worklist \in SUBSET Node
  BY DEF TypeOK
<1>12. Cardinality(simplify_worklist')
         <= Cardinality(simplify_worklist) + Cardinality(thawed) + 1
  <2>1. IsFiniteSet(simplify_worklist) /\ IsFiniteSet(thawed)
        /\ simplify_worklist \cup thawed \in SUBSET Node
    BY <1>7, <1>11, CountedNodes
  <2>2. Cardinality(simplify_worklist \cup thawed)
          <= Cardinality(simplify_worklist) + Cardinality(thawed)
    BY <2>1, CardUnion
  <2>3. IsFiniteSet(simplify_worklist \cup thawed)
        /\ Cardinality(simplify_worklist \cup thawed) \in Nat
    BY <2>1, CountedNodes
  <2>4. Cardinality(simplify_worklist')
          = IF u \in simplify_worklist \cup thawed THEN Cardinality(simplify_worklist \cup thawed)
            ELSE Cardinality(simplify_worklist \cup thawed) + 1
    BY <1>6, <2>3, FS_AddElement
  <2>5. Cardinality(simplify_worklist) \in Nat
    BY <1>11, CountedNodes
  <2> QED
    BY <1>7, <2>2, <2>3, <2>4, <2>5
<1>13. Cardinality(freeze_worklist') + Cardinality(spill_worklist') + 1
         <= Cardinality(freeze_worklist) + Cardinality(spill_worklist)
  <2>1. /\ IsFiniteSet(freeze_worklist) /\ IsFiniteSet(spill_worklist)
        /\ Cardinality(freeze_worklist) \in Nat /\ Cardinality(spill_worklist) \in Nat
    BY <1>11, CountedNodes
  <2>2. CASE pc = "freeze" /\ u \in freeze_worklist /\ UNCHANGED spill_worklist
    <3>1. freeze_worklist' \subseteq freeze_worklist \ {u}
      BY <1>6, <2>2
    <3>2. /\ IsFiniteSet(freeze_worklist \ {u})
          /\ Cardinality(freeze_worklist \ {u}) = Cardinality(freeze_worklist) - 1
      BY <2>1, <2>2, FS_RemoveElement
    <3>3. Cardinality(freeze_worklist') <= Cardinality(freeze_worklist \ {u})
          /\ Cardinality(freeze_worklist') \in Nat
      BY <3>1, <3>2, FS_Subset, FS_CardinalityType
    <3> QED
      BY <2>1, <2>2, <3>2, <3>3
  <2>3. CASE u \in spill_worklist /\ spill_worklist' = spill_worklist \ {u}
    <3>1. freeze_worklist' \subseteq freeze_worklist
      BY <1>6
    <3>2. Cardinality(freeze_worklist') <= Cardinality(freeze_worklist)
          /\ Cardinality(freeze_worklist') \in Nat
      BY <2>1, <3>1, FS_Subset, FS_CardinalityType
    <3>3. Cardinality(spill_worklist') = Cardinality(spill_worklist) - 1
      BY <2>1, <2>3, FS_RemoveElement
    <3> QED
      BY <2>1, <3>2, <3>3
  <2> QED
    BY <1>5, <2>2, <2>3
<1>14. Work' <= MostWork
  <2>1. Counted /\ Counted'
    BY AllCounted, AllCountedNext
  <2>2. (2 * Size + 4) * (Size - Combined') = (2 * Size + 4) * (Size - Combined)
        /\ Cardinality(High') = Cardinality(High)
    BY <1>3
  <2>3. Work' <= Work
    BY <1>3, <1>7, <1>10, <1>12, <1>13, <2>1, <2>2 DEF Work, Counted
  <2> QED
    BY <1>1, <2>1, <2>3, Sizes DEF Budget, Work, Counted
<1> QED
  BY <1>4, <1>9, <1>14 DEF Bounded, Budget

-----------------------------------------------------------------------------
(* The whole round.                                                        *)

LEMMA AssignBounded ==
  ASSUME TypeOK, Bounded, AssignColor \/ FinishColors
  PROVE  Bounded'
<1>1. UNCHANGED <<simplify_worklist, freeze_worklist, spill_worklist>>
      /\ pc' \in {"assign", "done", "spilled"}
  BY DEF AssignColor, FinishColors
<1>2. Stacked' \subseteq Stacked
  <2>1. CASE AssignColor
    <3>1. select_stack \in Seq(Node) /\ select_stack # <<>>
          /\ select_stack' = SubSeq(select_stack, 1, Len(select_stack) - 1)
      BY <2>1 DEF AssignColor, TypeOK
    <3>2. \A i \in DOMAIN select_stack' :
            i \in DOMAIN select_stack /\ select_stack'[i] = select_stack[i]
      BY <3>1
    <3> QED
      BY <3>2 DEF Stacked
  <2>2. CASE FinishColors
    BY <2>2 DEF FinishColors, Stacked
  <2> QED
    BY <2>1, <2>2
<1>3. PrecoloredNeverListed'
  BY <1>1, <1>2 DEF Bounded, PrecoloredNeverListed
<1> QED
  BY <1>1, <1>3 DEF Bounded, Selecting

LEMMA IdleBounded ==
  ASSUME Bounded, Skip \/ LoopTest \/ UNCHANGED vars
  PROVE  Bounded'
<1>1. UNCHANGED <<degree, simplify_worklist, freeze_worklist, spill_worklist, coalesced_nodes,
                  select_stack, active_moves, worklist_moves>>
      /\ (Selecting' => Selecting)
  BY DEF Skip, LoopTest, vars, moveVars, Selecting
<1>2. High' = High /\ Pushed' = Pushed /\ Combined' = Combined /\ Stacked' = Stacked
      /\ LiveMoves' = LiveMoves
  BY <1>1 DEF High, Pushed, Combined, Stacked, LiveMoves
<1>3. PrecoloredNeverListed'
  BY <1>1, <1>2 DEF Bounded, PrecoloredNeverListed
<1>4. Work' = Work /\ DegreesBounded' = DegreesBounded
  BY <1>1, <1>2 DEF Work, DegreesBounded
<1> QED
  BY <1>1, <1>3, <1>4 DEF Bounded, Budget

LEMMA StepBounded == Typed /\ Typed' /\ Parted /\ Bounded /\ [Next]_vars => Bounded'
<1> SUFFICES ASSUME TypeOK, AliasesEnd, TypeOK', Disjoint, Bounded, [Next]_vars,
                    Typed, Typed'
             PROVE  Bounded'
  BY DEF Typed, Parted
<1>1. CASE Simplify
  BY <1>1, SimplifyBounded
<1>2. CASE Coalesce
  <2>1. PICK m \in worklist_moves, u \in Node, v \in Node :
          CoalesceStep(m, u, v) /\ (CoalesceNothing(m, u, v) \/ Combine(m, u, v))
    BY <1>2 DEF Coalesce
  <2> QED
    BY <1>2, <2>1, CoalesceNothingBounded, CombineBounded
<1>3. CASE Freeze \/ SelectSpill
  BY <1>3, FreezeBounded
<1>4. CASE AssignColor \/ FinishColors
  BY <1>4, AssignBounded
<1>5. CASE Skip \/ LoopTest \/ UNCHANGED vars
  BY <1>5, IdleBounded
<1> QED
  BY <1>1, <1>2, <1>3, <1>4, <1>5 DEF Next

\* No step of a round puts a machine register on a worklist or on the stack.
THEOREM PrecoloredStayOff == Spec => []PrecoloredNeverListed
<1>1. Bounded => PrecoloredNeverListed
  BY DEF Bounded
<1> QED
  BY <1>1, InitBounded, InitTyped, InitParted, StepTyped, StepParted, StepBounded, PTL DEF Spec

\* The number of simplifications of a round is bounded: select_stack stays within
\* four times the square of the number of operands, and nine times that number.
StackWithin == Pushed <= MostWork

THEOREM StackBounded == Spec => [](Selecting => StackWithin)
<1>1. Typed /\ Bounded => (Selecting => StackWithin)
  <2> SUFFICES ASSUME TypeOK, Budget PROVE Pushed <= MostWork
    BY DEF Typed, Bounded, StackWithin
  <2> DEFINE rest == (2 * Size + 4) * (Size - Combined)
  <2>1. Counted /\ rest \in Nat
    BY AllCounted DEF Counted
  <2>2. Work = Cardinality(simplify_worklist) + Cardinality(freeze_worklist)
               + Cardinality(spill_worklist) + 2 * Cardinality(High)
               + 2 * Cardinality(LiveMoves) + rest + Pushed
    BY DEF Work
  <2> HIDE DEF rest
  <2> QED
    BY <2>1, <2>2, Sizes DEF Budget, Counted
<1> QED
  BY <1>1, InitBounded, InitTyped, InitParted, StepTyped, StepParted, StepBounded, PTL DEF Spec

-----------------------------------------------------------------------------
(***************************************************************************)
(* When a round is done every virtual register has a register that can be  *)
(* handed out, and no two operands joined by an edge share one.            *)
(***************************************************************************)

-----------------------------------------------------------------------------
(* get_alias is a function: a walk has one end.                            *)

OneAlias == \A n \in Node : \A a, b \in Node : AliasOf(a, n) /\ AliasOf(b, n) => a = b

LEMMA AliasUnique == TypeOK => OneAlias
<1> SUFFICES ASSUME TypeOK, NEW n \in Node, NEW a \in Node, NEW b \in Node,
                    AliasOf(a, n), AliasOf(b, n)
             PROVE  a = b
  BY DEF OneAlias
<1>1. CASE n \notin coalesced_nodes
  BY <1>1 DEF AliasOf
<1>2. CASE n \in coalesced_nodes
  <2> DEFINE T == {y \in coalesced_nodes : AliasOf(a, y)}
  <2>1. n \in T /\ a \notin coalesced_nodes
    BY <1>2 DEF AliasOf
  <2>2. ASSUME NEW y \in T, alias[y] \notin coalesced_nodes PROVE alias[y] = a
    <3>1. /\ {y} \in SUBSET coalesced_nodes /\ y \in {y}
          /\ \A z \in {y} : alias[z] \in coalesced_nodes => alias[z] \in {y}
      BY <2>2
    <3>2. \E z \in {y} : alias[z] = a
      BY <3>1 DEF AliasOf
    <3> QED
      BY <3>2
  <2>3. ASSUME NEW y \in T, alias[y] \in coalesced_nodes PROVE AliasOf(a, alias[y])
    <3> SUFFICES ASSUME NEW S \in SUBSET coalesced_nodes, alias[y] \in S,
                        \A z \in S : alias[z] \in coalesced_nodes => alias[z] \in S
                 PROVE  \E z \in S : alias[z] = a
      BY <2>1, <2>3 DEF AliasOf
    <3>1. /\ S \cup {y} \in SUBSET coalesced_nodes /\ y \in S \cup {y}
          /\ \A z \in S \cup {y} : alias[z] \in coalesced_nodes => alias[z] \in S \cup {y}
      OBVIOUS
    <3>2. AliasOf(a, y) /\ y \in coalesced_nodes
      OBVIOUS
    <3>3. PICK z \in S \cup {y} : alias[z] = a
      BY <3>1, <3>2 DEF AliasOf
    <3>4. z # y
      BY <2>1, <2>3, <3>3
    <3> QED
      BY <3>3, <3>4
  <2>4. \A y \in T : alias[y] \in coalesced_nodes => alias[y] \in T
    BY <2>3
  <2>5. PICK y \in T : alias[y] = b
    <3>1. T \in SUBSET coalesced_nodes
      OBVIOUS
    <3> HIDE DEF T
    <3> QED
      BY <1>2, <2>1, <2>4, <3>1 DEF AliasOf
  <2>6. b \notin coalesced_nodes
    BY DEF AliasOf
  <2> QED
    BY <2>2, <2>5, <2>6
<1> QED
  BY <1>1, <1>2

LEMMA AliasUniqueNext == TypeOK' => OneAlias'
  BY AliasUnique, PTL

LEMMA Alias ==
  ASSUME TypeOK, AliasesEnd, NEW n \in Node
  PROVE  /\ GetAlias(n) \in Node /\ GetAlias(n) \notin coalesced_nodes
         /\ AliasOf(GetAlias(n), n)
         /\ (n \notin coalesced_nodes => GetAlias(n) = n)
         /\ (n \in Registers => GetAlias(n) = n)
<1>1. GetAlias(n) \in Node /\ AliasOf(GetAlias(n), n)
  BY GetAliasIs
<1>2. n \in Registers => n \notin coalesced_nodes
  BY NodeNat DEF TypeOK
<1> QED
  BY <1>1, <1>2 DEF AliasOf

LEMMA AliasKept ==
  ASSUME UNCHANGED <<alias, coalesced_nodes>>
  PROVE  \A n : GetAlias(n)' = GetAlias(n)
  BY DEF GetAlias, AliasOf

\* After combine(u, v) the operands whose alias was v have the alias u.
LEMMA CombineGetAlias ==
  ASSUME TypeOK, AliasesEnd, TypeOK', NEW u \in Node, NEW v \in Node, u # v,
         u \notin coalesced_nodes, v \notin coalesced_nodes,
         coalesced_nodes' = coalesced_nodes \cup {v},
         alias' = [alias EXCEPT ![v] = u],
         NEW n \in Node
  PROVE  GetAlias(n)' = IF GetAlias(n) = v THEN u ELSE GetAlias(n)
<1>1. PICK a \in Node : a = GetAlias(n) /\ AliasOf(a, n)
  BY Alias
<1>2. PICK b \in Node : b = (IF a = v THEN u ELSE a)
  OBVIOUS
<1>3. AliasOf(b, n)'
  <2>1. AliasOf(IF a = v THEN u ELSE a, n)'
    BY <1>1, CombineAlias
  <2> QED
    BY <1>2, <2>1
<1>4. \A c \in Node : AliasOf(c, n)' => c = b
  BY <1>3, AliasUniqueNext DEF OneAlias
<1>5. GetAlias(n)' = b
  BY <1>3, <1>4 DEF GetAlias
<1> QED
  BY <1>1, <1>2, <1>5

-----------------------------------------------------------------------------
(* Every virtual register is somewhere: on a worklist, stacked, coalesced, *)
(* left for spilling, or coloured.                                         *)

EndsColorable ==
  /\ \A n \in Virtuals : alias[n] \in Colorable
  /\ LiveMoves \subseteq Colorable \X Colorable

Placed(n) ==
  IF Selecting THEN n \in Listed \cup Stacked \cup coalesced_nodes
  ELSE n \in Stacked \cup coalesced_nodes \cup spilled_nodes \/ colored[n] \in Allocatable

AllPlaced == pc # "done" => \A n \in Virtuals : Placed(n)

\* The inductive invariant.
Kept == EndsColorable /\ AllPlaced /\ NoNodeLost

LEMMA ColorableNode == Colorable \subseteq Node /\ Virtuals \subseteq Colorable
  BY NodeNat DEF Colorable

LEMMA ColorableAlias ==
  ASSUME TypeOK, AliasesEnd, EndsColorable, NEW n \in Colorable
  PROVE  GetAlias(n) \in Colorable
<1>1. n \in Node /\ AliasOf(GetAlias(n), n)
  BY ColorableNode, GetAliasIs
<1>2. CASE n \notin coalesced_nodes
  BY <1>1, <1>2 DEF AliasOf
<1>3. CASE n \in coalesced_nodes
  <2>1. \E y \in coalesced_nodes : alias[y] = GetAlias(n)
    <3>1. coalesced_nodes \in SUBSET coalesced_nodes
      OBVIOUS
    <3> QED
      BY <1>1, <1>3, <3>1 DEF AliasOf
  <2> QED
    BY <2>1 DEF TypeOK, EndsColorable
<1> QED
  BY <1>2, <1>3

LEMMA InitKept == Init => Kept
<1> SUFFICES ASSUME Init PROVE Kept
  OBVIOUS
<1>0. PICK g \in Graphs : InitGraph(g) /\ \E ms \in MoveSets[g] : InitMoves(ms)
  BY DEF Init
<1>1. PICK ms \in MoveSets[g] : InitMoves(ms)
  BY <1>0
<1>2. LiveMoves \subseteq Colorable \X Colorable
  BY <1>1, MoveAssumption DEF InitMoves, LiveMoves
<1>3. \A n \in Virtuals : alias[n] \in Colorable
  BY NodeNat DEF Init, Colorable
<1>4. \A n \in Virtuals : n \in Listed
  BY DEF Init, MkWorklist, Listed
<1>5. pc = "simplify"
  BY DEF Init
<1> QED
  BY <1>2, <1>3, <1>4, <1>5 DEF Kept, EndsColorable, AllPlaced, Placed, Selecting, NoNodeLost

\* What an action that selects has to keep.
LEMMA SelectKept ==
  ASSUME Kept, Selecting, Selecting', EndsColorable',
         \A n \in Virtuals : n \in Listed \cup Stacked \cup coalesced_nodes
            => n \in Listed' \cup Stacked' \cup coalesced_nodes'
  PROVE  Kept'
<1>1. \A n \in Virtuals : Placed(n)
  BY DEF Kept, AllPlaced, Selecting
<1>2. \A n \in Virtuals : Placed(n)'
  BY <1>1 DEF Placed
<1> QED
  BY <1>2 DEF Kept, AllPlaced, NoNodeLost, Selecting

LEMMA SameStack == UNCHANGED select_stack => Stacked' = Stacked /\ Pushed' = Pushed
  BY DEF Stacked, Pushed

LEMMA SimplifyKept ==
  ASSUME TypeOK, Kept, Simplify PROVE Kept'
<1>1. PICK n \in simplify_worklist :
        LET adj == Adjacent(n)
            crossing == {m \in adj : degree[m] = K}
            around == [m \in crossing |-> Adjacent(m) \ {n}]
            woken == Enabled(crossing, around)
        IN  /\ select_stack' = Append(select_stack, n)
            /\ active_moves' = active_moves \ woken
            /\ worklist_moves' = worklist_moves \cup woken
            /\ Relist(crossing, simplify_worklist \ {n}, freeze_worklist, spill_worklist)
  BY DEF Simplify
<1>2. /\ n \in Node /\ Selecting /\ Selecting'
      /\ UNCHANGED <<alias, coalesced_nodes>>
  BY DEF Simplify, TypeOK, Selecting
<1>3. Stacked' = Stacked \cup {n}
  BY <1>1, <1>2, PushStack DEF TypeOK
<1>4. Listed \ {n} \subseteq Listed'
  BY <1>1 DEF Relist, Listed
<1>5. LiveMoves' = LiveMoves
  BY <1>1 DEF LiveMoves, Enabled
<1>6. EndsColorable'
  BY <1>2, <1>5 DEF Kept, EndsColorable
<1> QED
  BY <1>2, <1>3, <1>4, <1>6, SelectKept

LEMMA CoalesceNothingKept ==
  ASSUME Kept, Coalesce, NEW m \in worklist_moves, NEW u \in Node, NEW v \in Node,
         CoalesceNothing(m, u, v)
  PROVE  Kept'
<1>1. /\ Selecting /\ Selecting' /\ Stacked' = Stacked
      /\ UNCHANGED <<alias, coalesced_nodes, spill_worklist>>
  BY SameStack DEF Coalesce, CoalesceNothing, Selecting
<1>2. LiveMoves' \subseteq LiveMoves
  BY DEF CoalesceNothing, LiveMoves
<1>3. Listed \subseteq Listed'
  BY DEF CoalesceNothing, AddWorkList, Listed
<1>4. EndsColorable'
  BY <1>1, <1>2 DEF Kept, EndsColorable
<1> QED
  BY <1>1, <1>3, <1>4, SelectKept

\* The ends coalesce works on are operands that can get a register.
LEMMA StepColorable ==
  ASSUME TypeOK, AliasesEnd, EndsColorable, NEW m \in worklist_moves,
         NEW u \in Node, NEW v \in Node, CoalesceStep(m, u, v)
  PROVE  u \in Colorable /\ v \in Colorable
<1>1. m[1] \in Colorable /\ m[2] \in Colorable
  BY DEF EndsColorable, LiveMoves
<1> QED
  BY <1>1, ColorableAlias DEF CoalesceStep

LEMMA CombineKept ==
  ASSUME TypeOK, AliasesEnd, Kept, Coalesce, NEW m \in worklist_moves,
         NEW u \in Node, NEW v \in Node, CoalesceStep(m, u, v), Combine(m, u, v)
  PROVE  Kept'
<1>1. /\ Selecting /\ Selecting' /\ Stacked' = Stacked
      /\ coalesced_nodes' = coalesced_nodes \cup {v} /\ alias' = [alias EXCEPT ![v] = u]
  BY SameStack DEF Coalesce, Combine, Aliased, Selecting
<1>2. LiveMoves' \subseteq LiveMoves
  <2>1. PICK woken \in SUBSET active_moves :
          /\ active_moves' = active_moves \ woken
          /\ worklist_moves' = (worklist_moves \ {m}) \cup woken
    BY DEF Combine
  <2> QED
    BY <2>1 DEF LiveMoves
<1>3. EndsColorable'
  <2>1. u \in Colorable
    BY StepColorable DEF Kept
  <2> QED
    BY <1>1, <1>2, <2>1, NodeNat DEF Kept, EndsColorable, TypeOK
<1>4. Listed \subseteq Listed' \cup {v}
  <2> DEFINE adj == Adjacent(v) \ {v}
             fresh == {t \in adj : <<t, u>> \notin adj_set /\ t # u}
             inc(t) == IF t \in fresh \ Registers THEN Plus(degree[t], 1) ELSE degree[t]
             crossing == {t \in adj : inc(t) = K}
             related == {t \in crossing : MoveRelatedNext(t)}
             freeze == (freeze_worklist \ {v}) \cup related
             simplify == simplify_worklist \cup (crossing \ related)
             spill == (IF v \in freeze_worklist THEN spill_worklist
                       ELSE spill_worklist \ {v}) \cup crossing
             promoted == {u} \cap {n \in freeze : degree'[n] >= K}
             freeable == {n \in {u} : Freeable(n)}
  <2>1. /\ spill_worklist' = spill \cup promoted
        /\ freeze_worklist' = freeze \ (promoted \cup freeable)
        /\ simplify_worklist' = simplify \cup freeable
    BY DEF Combine
  <2>2. /\ simplify_worklist \subseteq simplify /\ freeze_worklist \subseteq freeze \cup {v}
        /\ spill_worklist \subseteq spill \cup {v}
    OBVIOUS
  <2> HIDE DEF simplify, freeze, spill, promoted, freeable
  <2> QED
    BY <2>1, <2>2 DEF Listed
<1> QED
  BY <1>1, <1>3, <1>4, SelectKept

LEMMA FreezeKept ==
  ASSUME Kept, Freeze \/ SelectSpill PROVE Kept'
<1>1. /\ Selecting /\ Selecting' /\ Stacked' = Stacked
      /\ UNCHANGED <<alias, coalesced_nodes>>
  BY SameStack DEF Freeze, SelectSpill, Selecting
<1>2. PICK u : /\ FreezeMoves(u)
               /\ UNCHANGED spill_worklist \/ spill_worklist' = spill_worklist \ {u}
  BY DEF Freeze, SelectSpill
<1>3. LiveMoves' \subseteq LiveMoves
  BY <1>2 DEF FreezeMoves, LiveMoves
<1>4. Listed \subseteq Listed'
  BY <1>2 DEF FreezeMoves, Listed
<1>5. EndsColorable'
  BY <1>1, <1>3 DEF Kept, EndsColorable
<1> QED
  BY <1>1, <1>4, <1>5, SelectKept

\* One turn of the colouring loop takes the top of the stack off.
LEMMA PopStack ==
  ASSUME select_stack \in Seq(Node), select_stack # <<>>,
         select_stack' = SubSeq(select_stack, 1, Len(select_stack) - 1)
  PROVE  /\ Pushed \in Nat /\ Pushed > 0 /\ Pushed' = Pushed - 1
         /\ \A i \in 1 .. Pushed' : select_stack'[i] = select_stack[i]
         /\ DOMAIN select_stack = 1 .. Pushed /\ DOMAIN select_stack' = 1 .. Pushed'
         /\ select_stack[Pushed] \in Node
         /\ Stacked = Stacked' \cup {select_stack[Pushed]}
<1>1. /\ Pushed \in Nat /\ Pushed > 0 /\ Pushed' = Pushed - 1
      /\ \A i \in 1 .. Pushed' : select_stack'[i] = select_stack[i]
      /\ DOMAIN select_stack = 1 .. Pushed /\ DOMAIN select_stack' = 1 .. Pushed'
      /\ select_stack[Pushed] \in Node
  <2>1. Len(select_stack) \in Nat /\ DOMAIN select_stack = 1 .. Len(select_stack)
        /\ Len(select_stack) > 0
    OBVIOUS
  <2>2. select_stack[Len(select_stack)] \in Node
    BY <2>1
  <2>3. /\ Len(select_stack') = Len(select_stack) - 1
        /\ DOMAIN select_stack' = 1 .. Len(select_stack) - 1
        /\ \A i \in 1 .. Len(select_stack) - 1 : select_stack'[i] = select_stack[i]
    BY <2>1
  <2> QED
    BY <2>1, <2>2, <2>3 DEF Pushed
<1>2. \A i \in 1 .. Pushed : i \in 1 .. Pushed' \/ i = Pushed
  BY <1>1
<1>3. \A i \in 1 .. Pushed' : i \in 1 .. Pushed
  BY <1>1
<1>4. Stacked \subseteq Stacked' \cup {select_stack[Pushed]}
  BY <1>1, <1>2 DEF Stacked
<1>5. Stacked' \cup {select_stack[Pushed]} \subseteq Stacked
  BY <1>1, <1>3 DEF Stacked
<1> QED
  BY <1>1, <1>4, <1>5

LEMMA AssignKept ==
  ASSUME TypeOK, Kept, AssignColor PROVE Kept'
<1>1. /\ pc = "assign" /\ pc' = "assign" /\ ~Selecting /\ ~Selecting'
      /\ UNCHANGED <<alias, coalesced_nodes, active_moves, worklist_moves>>
  BY DEF AssignColor, moveVars, Selecting
<1>2. EndsColorable'
  BY <1>1 DEF Kept, EndsColorable, LiveMoves
<1> DEFINE n == select_stack[Pushed]
<1>3. Stacked = Stacked' \cup {n} /\ n \in Node
  BY PopStack DEF AssignColor, TypeOK
<1>4. \/ spilled_nodes' = spilled_nodes \cup {n} /\ UNCHANGED colored
      \/ \E c \in Allocatable : /\ colored' = [colored EXCEPT ![n] = c]
                                /\ UNCHANGED spilled_nodes
  BY DEF AssignColor, OkColors, Pushed
<1> HIDE DEF n
<1>5. ASSUME NEW w \in Virtuals PROVE Placed(w)'
  <2>1. w \in Stacked \cup coalesced_nodes \cup spilled_nodes \/ colored[w] \in Allocatable
    BY <1>1 DEF Kept, AllPlaced, Placed
  <2>2. spilled_nodes \subseteq spilled_nodes'
        /\ (colored[w] \in Allocatable => colored'[w] \in Allocatable)
    BY <1>4 DEF TypeOK
  <2>3. n = w => w \in spilled_nodes' \/ colored'[w] \in Allocatable
    BY <1>4 DEF TypeOK
  <2> QED
    BY <1>1, <1>3, <2>1, <2>2, <2>3 DEF Placed
<1> QED
  BY <1>1, <1>2, <1>5 DEF Kept, AllPlaced, NoNodeLost

LEMMA FinishKept ==
  ASSUME TypeOK, AliasesEnd, Kept, FinishColors PROVE Kept'
<1>1. /\ pc = "assign" /\ pc' \in {"done", "spilled"} /\ ~Selecting /\ ~Selecting'
      /\ UNCHANGED <<alias, coalesced_nodes, active_moves, worklist_moves>>
      /\ Stacked = {} /\ Stacked' = {}
  BY DEF FinishColors, moveVars, Selecting, Stacked
<1>2. EndsColorable'
  BY <1>1 DEF Kept, EndsColorable, LiveMoves
<1>3. \A n \in Virtuals : n \in coalesced_nodes \cup spilled_nodes \/ colored[n] \in Allocatable
  BY <1>1 DEF Kept, AllPlaced, Placed
<1>4. CASE pc' = "spilled"
  <2>1. UNCHANGED <<colored, spilled_nodes>>
    BY <1>4 DEF FinishColors
  <2> QED
    BY <1>1, <1>2, <1>3, <1>4, <2>1 DEF Kept, AllPlaced, Placed, NoNodeLost
<1>5. CASE pc' = "done"
  <2>1. /\ spilled_nodes = {}
        /\ colored' = [n \in Virtuals |->
             IF n \in coalesced_nodes THEN ColorOf(GetAlias(n)) ELSE colored[n]]
    BY <1>5 DEF FinishColors
  <2>2. ASSUME NEW n \in coalesced_nodes PROVE ColorOf(GetAlias(n)) \in Allocatable
    <3>1. n \in Virtuals /\ n \in Colorable /\ n \in Node
      BY ColorableNode DEF TypeOK
    <3>2. GetAlias(n) \in Colorable /\ GetAlias(n) \notin coalesced_nodes
      BY <3>1, ColorableAlias, Alias DEF Kept
    <3> QED
      BY <1>3, <2>1, <3>2, NodeNat DEF ColorOf, Colorable
  <2>3. \A n \in Virtuals : colored'[n] \in Allocatable
    BY <1>3, <2>1, <2>2
  <2> QED
    BY <1>2, <1>5, <2>3 DEF Kept, AllPlaced, NoNodeLost
<1> QED
  BY <1>1, <1>4, <1>5

LEMMA IdleKept ==
  ASSUME Kept, Skip \/ LoopTest \/ UNCHANGED vars PROVE Kept'
<1>1. /\ UNCHANGED <<simplify_worklist, freeze_worklist, spill_worklist, alias, coalesced_nodes,
                     select_stack, spilled_nodes, colored, active_moves, worklist_moves>>
      /\ Stacked' = Stacked
  BY SameStack DEF Skip, LoopTest, vars, moveVars, colorVars
<1>2. EndsColorable' /\ Listed' = Listed
  BY <1>1 DEF Kept, EndsColorable, LiveMoves, Listed
<1>3. CASE Selecting /\ Selecting'
  BY <1>1, <1>2, <1>3, SelectKept
<1>4. CASE LoopTest /\ Drained
  <2>1. Listed = {} /\ Selecting /\ pc # "done" /\ pc' = "assign" /\ ~Selecting'
    BY <1>4 DEF LoopTest, Drained, Listed, Selecting
  <2>2. \A n \in Virtuals : Placed(n)'
    BY <1>1, <2>1 DEF Kept, AllPlaced, Placed
  <2> QED
    BY <1>2, <2>1, <2>2 DEF Kept, AllPlaced, NoNodeLost
<1>5. CASE UNCHANGED vars
  <2>1. UNCHANGED pc
    BY <1>5 DEF vars
  <2> QED
    BY <1>1, <1>2, <2>1 DEF Kept, AllPlaced, Placed, NoNodeLost, Selecting
<1> QED
  BY <1>3, <1>4, <1>5 DEF Skip, LoopTest, Selecting

LEMMA StepKept == Typed /\ Kept /\ [Next]_vars => Kept'
<1> SUFFICES ASSUME TypeOK, AliasesEnd, Kept, [Next]_vars PROVE Kept'
  BY DEF Typed
<1>1. CASE Coalesce
  <2>1. PICK m \in worklist_moves, u \in Node, v \in Node :
          CoalesceStep(m, u, v) /\ (CoalesceNothing(m, u, v) \/ Combine(m, u, v))
    BY <1>1 DEF Coalesce
  <2> QED
    BY <1>1, <2>1, CoalesceNothingKept, CombineKept
<1>2. CASE Simplify \/ Freeze \/ SelectSpill
  BY <1>2, SimplifyKept, FreezeKept
<1>3. CASE AssignColor \/ FinishColors
  BY <1>3, AssignKept, FinishKept
<1>4. CASE Skip \/ LoopTest \/ UNCHANGED vars
  BY <1>4, IdleKept
<1> QED
  BY <1>1, <1>2, <1>3, <1>4 DEF Next

\* When the round is done every virtual register has a register to use.
THEOREM EveryNodeColoured == Spec => []NoNodeLost
<1>1. Kept => NoNodeLost
  BY DEF Kept
<1> QED
  BY <1>1, InitKept, StepKept, InitTyped, StepTyped, PTL DEF Spec

-----------------------------------------------------------------------------
(* Why the colouring is proper.  Every edge, with its ends replaced by     *)
(* their aliases, is kept in one of these ways until both ends have their  *)
(* last colour.  Combine(u, v) does not give u the neighbours of v that    *)
(* are on the stack: such a neighbour still avoids u, being joined to v,   *)
(* but u does not avoid it; what saves the colouring is that u is stacked  *)
(* later, so that it has its colour before the neighbour chooses one.      *)

\* Edges go both ways, and a virtual register knows its neighbours.
Coupled ==
  /\ \A a, b \in Node : <<a, b>> \in adj_set => <<b, a>> \in adj_set
  /\ \A n \in Virtuals, w \in Node : <<n, w>> \in adj_set => w \in adj_list[n]

\* A move that may still be coalesced is a move of what its ends became.
MovesFollow ==
  \A m \in LiveMoves : m \in move_list[GetAlias(m[1])] /\ m \in move_list[GetAlias(m[2])]

\* What is simplified has no such move, so it is never combined afterwards.
Still == \A n \in simplify_worklist \cup Stacked : NodeMoves(n) = {}

Avoids(a, b) == \E w \in adj_list[a] : GetAlias(w) = b

StackedBefore(a, b) ==
  \E i \in DOMAIN select_stack :
    select_stack[i] = a /\ \A j \in DOMAIN select_stack : select_stack[j] = b => i < j

Behind(a, b) == Avoids(a, b) /\ StackedBefore(a, b)
Waiting(a, b) == <<a, b>> \in adj_set /\ (pc = "assign" => a \in Stacked \/ b \in Stacked)
Settled(a, b) == /\ pc = "assign" /\ a \notin Stacked /\ b \notin Stacked
                 /\ ColorOf(a) # ColorOf(b)

Apart(a, b) ==
  /\ a # b
  /\ \/ {a, b} \subseteq Registers
     \/ Waiting(a, b) \/ Behind(a, b) \/ Behind(b, a) \/ Settled(a, b)

EdgesApart ==
  pc \notin {"done", "spilled"} /\ spilled_nodes = {}
    => \A x, y \in Node : <<x, y>> \in adj_set => Apart(GetAlias(x), GetAlias(y))

\* The inductive invariant.
Coloured == Coupled /\ MovesFollow /\ Still /\ EdgesApart /\ ColouringIsProper

BothWays == \A a, b \in Node : Apart(a, b) => Apart(b, a)

LEMMA ApartSymmetric == Coupled => BothWays
  BY DEF Coupled, Apart, Waiting, Settled, BothWays

LEMMA ApartSymmetricNext == Coupled' => BothWays'
  BY ApartSymmetric, PTL

LEMMA InitColoured == Init => Coloured
<1> SUFFICES ASSUME Init PROVE Coloured
  OBVIOUS
<1>0. PICK g \in Graphs : InitGraph(g) /\ \E ms \in MoveSets[g] : InitMoves(ms)
  BY DEF Init
<1>1. PICK ms \in MoveSets[g] : InitGraph(g) /\ InitMoves(ms)
  BY <1>0
<1>2. TypeOK /\ AliasesEnd /\ coalesced_nodes = {} /\ Stacked = {} /\ pc = "simplify"
  BY InitTyped DEF Typed, Init, Stacked
<1>3. \A n \in Node : GetAlias(n) = n
  BY <1>2, Alias
<1>4. Coupled /\ \A a, b \in Node : <<a, b>> \in adj_set => a # b
  <2>1. adj_set = g /\ \A e \in g : e \in Edge /\ e[1] # e[2] /\ <<e[2], e[1]>> \in g
    BY <1>1, GraphAssumption DEF InitGraph
  <2>2. \A n \in Virtuals : adj_list[n] = {e[2] : e \in {x \in g : x[1] = n}}
    BY <1>1, NodeNat DEF InitGraph
  <2>3. ASSUME NEW n \in Virtuals, NEW w \in Node, <<n, w>> \in adj_set PROVE w \in adj_list[n]
    <3>1. <<n, w>> \in {x \in g : x[1] = n} /\ <<n, w>>[2] = w
      BY <2>1, <2>3
    <3> QED
      BY <2>2, <3>1
  <2>4. ASSUME NEW a \in Node, NEW b \in Node, <<a, b>> \in adj_set
        PROVE  <<b, a>> \in adj_set /\ a # b
    <3>1. <<a, b>> \in g /\ <<a, b>>[1] = a /\ <<a, b>>[2] = b
      BY <2>1, <2>4
    <3> QED
      BY <2>1, <3>1
  <2> QED
    BY <2>3, <2>4 DEF Coupled
<1>5. MovesFollow
  <2>1. LiveMoves = ms /\ ms \subseteq Edge
    BY <1>1, <1>2 DEF InitMoves, LiveMoves, TypeOK
  <2>2. \A m \in ms : m[1] \in Node /\ m[2] \in Node
    BY <2>1 DEF Edge
  <2>3. \A n \in Node : move_list[n] = {m \in ms : n \in {m[1], m[2]}}
    BY <1>1 DEF InitMoves
  <2> QED
    BY <1>3, <2>1, <2>2, <2>3 DEF MovesFollow
<1>6. Still
  <2>1. \A n \in simplify_worklist : ~MoveRelated(n)
    BY DEF Init, MkWorklist
  <2> QED
    BY <1>2, <2>1 DEF Still, MoveRelated
<1>7. EdgesApart
  BY <1>2, <1>3, <1>4 DEF EdgesApart, Apart, Waiting
<1> QED
  BY <1>2, <1>4, <1>5, <1>6, <1>7 DEF Coloured, ColouringIsProper

-----------------------------------------------------------------------------
(* The moves: Coupled, MovesFollow and Still.                              *)

LEMMA FollowKept ==
  ASSUME MovesFollow, LiveMoves' \subseteq LiveMoves,
         UNCHANGED <<alias, coalesced_nodes, move_list>>
  PROVE  MovesFollow'
  BY AliasKept DEF MovesFollow

LEMMA StillKept ==
  ASSUME Still, LiveMoves' \subseteq LiveMoves, UNCHANGED move_list, NEW S,
         simplify_worklist' \cup Stacked' \subseteq simplify_worklist \cup Stacked \cup S,
         \A n \in S : NodeMoves(n)' = {}
  PROVE  Still'
<1>1. \A n : NodeMoves(n)' \subseteq NodeMoves(n)
  BY DEF NodeMoves, LiveMoves
<1> QED
  BY <1>1 DEF Still

LEMMA CoupledKept ==
  ASSUME Coupled, UNCHANGED graphVars PROVE Coupled'
  BY DEF Coupled, graphVars

Follows == Coupled /\ MovesFollow /\ Still

LEMMA SimplifyFollows ==
  ASSUME TypeOK, Follows, Simplify PROVE Follows'
<1>1. PICK n \in simplify_worklist :
        LET adj == Adjacent(n)
            crossing == {m \in adj : degree[m] = K}
            around == [m \in crossing |-> Adjacent(m) \ {n}]
            woken == Enabled(crossing, around)
        IN  /\ select_stack' = Append(select_stack, n)
            /\ active_moves' = active_moves \ woken
            /\ worklist_moves' = worklist_moves \cup woken
            /\ Relist(crossing, simplify_worklist \ {n}, freeze_worklist, spill_worklist)
  BY DEF Simplify
<1>2. UNCHANGED <<graphVars, alias, coalesced_nodes, move_list>>
  BY DEF Simplify
<1>3. Stacked' = Stacked \cup {n}
  BY <1>1, PushStack DEF TypeOK
<1>4. LiveMoves' = LiveMoves
  BY <1>1 DEF LiveMoves, Enabled
<1> DEFINE S == {m \in Node : ~MoveRelated(m)}
<1>5. simplify_worklist' \cup Stacked' \subseteq simplify_worklist \cup Stacked \cup S
  <2>1. PICK crossing \in SUBSET Node :
          simplify_worklist' = (simplify_worklist \ {n}) \cup {m \in crossing : ~MoveRelated(m)}
    BY <1>1, AdjacentType DEF Relist, TypeOK
  <2> QED
    BY <1>3, <2>1
<1>6. \A m \in S : NodeMoves(m)' = {}
  BY <1>2, <1>4 DEF NodeMoves, MoveRelated, LiveMoves
<1> QED
  BY <1>2, <1>4, <1>5, <1>6, FollowKept, StillKept, CoupledKept DEF Follows

LEMMA CoalesceNothingFollows ==
  ASSUME Follows, Coalesce, NEW m \in worklist_moves, NEW u \in Node, NEW v \in Node,
         CoalesceNothing(m, u, v)
  PROVE  Follows'
<1>1. Stacked' = Stacked /\ UNCHANGED <<graphVars, alias, coalesced_nodes, move_list>>
  BY SameStack DEF Coalesce, CoalesceNothing
<1>2. LiveMoves' \subseteq LiveMoves
  BY DEF CoalesceNothing, LiveMoves
<1> DEFINE S == {n \in {u, v} : Freeable(n)}
<1>3. simplify_worklist' \subseteq simplify_worklist \cup S
  BY DEF CoalesceNothing, AddWorkList
<1>4. \A n \in S : NodeMoves(n)' = {}
  BY DEF Freeable, MoveRelatedNext, NodeMoves
<1>5. simplify_worklist' \cup Stacked' \subseteq simplify_worklist \cup Stacked \cup S
  BY <1>1, <1>3
<1> QED
  BY <1>1, <1>2, <1>4, <1>5, FollowKept, StillKept, CoupledKept DEF Follows

LEMMA FreezeFollows ==
  ASSUME Disjoint, Follows, Freeze \/ SelectSpill PROVE Follows'
<1>1. Stacked' = Stacked /\ UNCHANGED <<graphVars, alias, coalesced_nodes, move_list>>
  BY SameStack DEF Freeze, SelectSpill
<1>2. PICK u : FreezeMoves(u)
  BY DEF Freeze, SelectSpill
<1>3. LiveMoves' = LiveMoves \ NodeMoves(u)
  BY <1>2 DEF FreezeMoves, LiveMoves, NodeMoves, Disjoint
<1>4. simplify_worklist' = simplify_worklist \cup Thawed(u) \cup {u}
  BY <1>2 DEF FreezeMoves
<1>5. \A n \in Thawed(u) \cup {u} : NodeMoves(n) \subseteq NodeMoves(u)
  BY DEF Thawed
<1>6. \A n \in Thawed(u) \cup {u} : NodeMoves(n)' = {}
  BY <1>1, <1>3, <1>5 DEF NodeMoves, LiveMoves
<1>7. simplify_worklist' \cup Stacked'
        \subseteq simplify_worklist \cup Stacked \cup (Thawed(u) \cup {u})
  BY <1>1, <1>4
<1>8. LiveMoves' \subseteq LiveMoves
  BY <1>3
<1> QED
  BY <1>1, <1>6, <1>7, <1>8, FollowKept, StillKept, CoupledKept DEF Follows

LEMMA IdleFollows ==
  ASSUME TypeOK, Follows,
         Skip \/ LoopTest \/ AssignColor \/ FinishColors \/ UNCHANGED vars
  PROVE  Follows'
<1>1. UNCHANGED <<graphVars, alias, coalesced_nodes, move_list, simplify_worklist,
                  active_moves, worklist_moves>>
  BY DEF Skip, LoopTest, AssignColor, FinishColors, vars, moveVars, graphVars
<1>2. Stacked' \subseteq Stacked
  <2>1. CASE AssignColor
    BY <2>1, PopStack DEF AssignColor, TypeOK
  <2>2. CASE Skip \/ LoopTest \/ FinishColors \/ UNCHANGED vars
    BY <2>2, SameStack DEF Skip, LoopTest, FinishColors, vars
  <2> QED
    BY <2>1, <2>2
<1>3. LiveMoves' = LiveMoves
  BY <1>1 DEF LiveMoves
<1>4. \A n : NodeMoves(n)' = NodeMoves(n)
  BY <1>1 DEF NodeMoves
<1>5. Still'
  BY <1>1, <1>2, <1>4 DEF Follows, Still
<1> QED
  BY <1>1, <1>3, <1>5, FollowKept, CoupledKept DEF Follows

-----------------------------------------------------------------------------
(* Combine.                                                                *)

\* The ends of the move it takes are neither stacked nor coalesced.
LEMMA CombineEnds ==
  ASSUME TypeOK, AliasesEnd, Follows, NEW m \in worklist_moves, NEW u \in Node, NEW v \in Node,
         CoalesceStep(m, u, v), Combine(m, u, v)
  PROVE  /\ u # v /\ v \in Virtuals /\ <<u, v>> \notin adj_set
         /\ u \notin coalesced_nodes /\ v \notin coalesced_nodes
         /\ u \notin simplify_worklist /\ u \notin Stacked /\ v \notin Stacked
<1>1. u # v /\ v \in Virtuals /\ <<u, v>> \notin adj_set
  BY DEF Combine, Constrained, Node
<1>2. m \in move_list[u] /\ m \in move_list[v]
  <2>1. m \in move_list[GetAlias(m[1])] /\ m \in move_list[GetAlias(m[2])]
    BY DEF Follows, MovesFollow, LiveMoves
  <2> QED
    BY <2>1 DEF CoalesceStep
<1>3. NodeMoves(u) # {} /\ NodeMoves(v) # {}
  BY <1>2 DEF NodeMoves
<1> QED
  BY <1>1, <1>3, EndsUncoalesced DEF Follows, Still

LEMMA CombineGraph ==
  ASSUME TypeOK, Coupled, NEW m, NEW u \in Node, NEW v \in Virtuals, u # v, Combine(m, u, v)
  PROVE  /\ adj_set \subseteq adj_set' /\ \A n \in Node : adj_list[n] \subseteq adj_list'[n]
         /\ \A t \in Adjacent(v) \ {u, v} : <<u, t>> \in adj_set'
         /\ \A x, y \in Node : <<x, y>> \in adj_set' /\ <<x, y>> \notin adj_set
              => \E t \in Node \ {u, v} : t \notin coalesced_nodes
                   /\ ((x = t /\ y = u) \/ (x = u /\ y = t))
         /\ Coupled'
<1> DEFINE adj == Adjacent(v) \ {v}
           fresh == {t \in adj : <<t, u>> \notin adj_set /\ t # u}
<1>1. /\ adj_set' = adj_set \cup {<<t, u>> : t \in fresh} \cup {<<u, t>> : t \in fresh}
      /\ adj_list' = [n \in Node |->
           IF n \in fresh \ Registers THEN adj_list[n] \cup {u}
           ELSE IF n = u /\ u \notin Registers THEN adj_list[n] \cup fresh
           ELSE adj_list[n]]
  BY DEF Combine
<1>2. Adjacent(v) \subseteq Node /\ v \in Node
  BY AdjacentType, NodeNat
<1>3. \A t \in fresh : t \in Node \ {u, v} /\ t \notin coalesced_nodes
  BY <1>2 DEF Adjacent
<1>4. \A t \in Adjacent(v) \ {u, v} : t \in fresh \/ <<u, t>> \in adj_set
  BY <1>2 DEF Coupled
<1> HIDE DEF fresh
<1>5. adj_set \subseteq adj_set' /\ \A n \in Node : adj_list[n] \subseteq adj_list'[n]
  BY <1>1
<1>6. \A t \in Adjacent(v) \ {u, v} : <<u, t>> \in adj_set'
  BY <1>1, <1>4
<1>7. \A x, y \in Node : <<x, y>> \in adj_set' /\ <<x, y>> \notin adj_set
        => \E t \in fresh : (x = t /\ y = u) \/ (x = u /\ y = t)
  BY <1>1
<1>8. \A x, y \in Node : <<x, y>> \in adj_set' => <<y, x>> \in adj_set'
  BY <1>1 DEF Coupled
<1>9. ASSUME NEW n \in Virtuals, NEW w \in Node, <<n, w>> \in adj_set' PROVE w \in adj_list'[n]
  <2>1. n \in Node /\ n \notin Registers
    BY NodeNat
  <2>2. CASE <<n, w>> \in adj_set
    BY <1>5, <2>1, <2>2 DEF Coupled
  <2>3. CASE <<n, w>> \notin adj_set
    <3>1. PICK t \in fresh : (n = t /\ w = u) \/ (n = u /\ w = t)
      BY <1>7, <1>9, <2>1, <2>3
    <3> QED
      BY <1>1, <1>3, <2>1, <3>1
  <2> QED
    BY <2>2, <2>3
<1> QED
  BY <1>3, <1>5, <1>6, <1>7, <1>8, <1>9 DEF Coupled

LEMMA CombineFollows ==
  ASSUME TypeOK, AliasesEnd, TypeOK', Follows, Coalesce, NEW m \in worklist_moves,
         NEW u \in Node, NEW v \in Node, CoalesceStep(m, u, v), Combine(m, u, v)
  PROVE  /\ Follows'
         /\ \A n \in Node : GetAlias(n)' = IF GetAlias(n) = v THEN u ELSE GetAlias(n)
<1>1. /\ u # v /\ v \in Virtuals /\ u \notin coalesced_nodes /\ v \notin coalesced_nodes
      /\ u \notin simplify_worklist /\ u \notin Stacked
  BY CombineEnds
<1>2. /\ coalesced_nodes' = coalesced_nodes \cup {v} /\ alias' = [alias EXCEPT ![v] = u]
      /\ move_list' = [move_list EXCEPT ![u] = @ \cup move_list[v]]
      /\ Stacked' = Stacked
  BY SameStack DEF Coalesce, Combine, Aliased
<1>3. \A n \in Node : GetAlias(n)' = IF GetAlias(n) = v THEN u ELSE GetAlias(n)
  BY <1>1, <1>2, CombineGetAlias
<1>4. Coupled'
  BY <1>1, CombineGraph DEF Follows
<1>5. LiveMoves' \subseteq LiveMoves
  <2>1. PICK woken \in SUBSET active_moves :
          /\ active_moves' = active_moves \ woken
          /\ worklist_moves' = (worklist_moves \ {m}) \cup woken
    BY DEF Combine
  <2> QED
    BY <2>1 DEF LiveMoves
<1>6. \A n \in Node : /\ move_list[n] \subseteq move_list'[n]
                      /\ n # u => move_list'[n] = move_list[n]
                      /\ move_list[v] \subseteq move_list'[u]
  BY <1>2 DEF TypeOK
<1>7. MovesFollow'
  <2> SUFFICES ASSUME NEW x \in LiveMoves'
               PROVE  x \in (move_list[GetAlias(x[1])])' /\ x \in (move_list[GetAlias(x[2])])'
    BY DEF MovesFollow
  <2>1. x[1] \in Node /\ x[2] \in Node /\ x \in LiveMoves
    BY <1>5 DEF LiveMoves, TypeOK, Edge
  <2>2. x \in move_list[GetAlias(x[1])] /\ x \in move_list[GetAlias(x[2])]
    BY <2>1 DEF Follows, MovesFollow
  <2>3. GetAlias(x[1]) \in Node /\ GetAlias(x[2]) \in Node
    BY <2>1, Alias
  <2>4. x \in move_list'[GetAlias(x[1])'] /\ x \in move_list'[GetAlias(x[2])']
    BY <1>3, <1>6, <2>1, <2>2, <2>3
  <2> QED
    BY <2>4
<1>8. Still'
  <2>1. \A n \in simplify_worklist' :
          n \in simplify_worklist \/ move_list'[n] \cap (active_moves' \cup worklist_moves') = {}
    <3> DEFINE adj == Adjacent(v) \ {v}
               fresh == {t \in adj : <<t, u>> \notin adj_set /\ t # u}
               inc(t) == IF t \in fresh \ Registers THEN Plus(degree[t], 1) ELSE degree[t]
               crossing == {t \in adj : inc(t) = K}
               related == {t \in crossing : MoveRelatedNext(t)}
               freeable == {n \in {u} : Freeable(n)}
    <3>1. simplify_worklist' = simplify_worklist \cup (crossing \ related) \cup freeable
      BY DEF Combine
    <3>2. \A n \in (crossing \ related) \cup freeable : ~MoveRelatedNext(n)
      BY DEF Freeable
    <3> HIDE DEF crossing, related, freeable
    <3> QED
      BY <3>1, <3>2 DEF MoveRelatedNext
  <2>2. ASSUME NEW n \in simplify_worklist \cup Stacked
        PROVE  move_list'[n] \cap (active_moves' \cup worklist_moves') = {}
    <3>1. n \in Node /\ n # u
      BY <1>1 DEF TypeOK, Stacked
    <3>2. move_list[n] \cap LiveMoves = {}
      BY DEF Follows, Still, NodeMoves, LiveMoves
    <3> QED
      BY <1>5, <1>6, <3>1, <3>2 DEF LiveMoves
  <2> QED
    BY <1>2, <2>1, <2>2 DEF Still, NodeMoves
<1> QED
  BY <1>3, <1>4, <1>7, <1>8 DEF Follows

\* How the pair of aliases of an edge fares when v gets the alias u.
LEMMA CombineApart ==
  ASSUME TypeOK, AliasesEnd, TypeOK', Follows, PrecoloredNeverListed, pc = "coalesce",
         Coalesce, NEW m \in worklist_moves,
         NEW u \in Node, NEW v \in Node, CoalesceStep(m, u, v), Combine(m, u, v),
         NEW a \in Node, NEW b \in Node, a \notin coalesced_nodes, b \notin coalesced_nodes,
         Apart(a, b), b # v
  PROVE  /\ a # v => Apart(a, b)'
         /\ a = v => b # u /\ Apart(u, b)'
<1>1. /\ u # v /\ v \in Virtuals /\ <<u, v>> \notin adj_set /\ v \notin Registers
      /\ u \notin Stacked /\ v \notin Stacked
  BY CombineEnds, NodeNat
<1>2. /\ adj_set \subseteq adj_set' /\ \A n \in Node : adj_list[n] \subseteq adj_list'[n]
      /\ \A t \in Adjacent(v) \ {u, v} : <<u, t>> \in adj_set'
      /\ Coupled'
  BY <1>1, CombineGraph DEF Follows
<1>3. pc' = "freeze" /\ UNCHANGED select_stack /\ Stacked' = Stacked
  BY SameStack DEF Coalesce
<1>4. /\ \A n \in Node : GetAlias(n)' = IF GetAlias(n) = v THEN u ELSE GetAlias(n)
      /\ \A n \in Node : adj_list[n] \subseteq Node
  BY CombineFollows DEF TypeOK
<1>5. ~(\E x \in {u, v}, y \in Node : StackedBefore(x, y))
  BY <1>1 DEF StackedBefore, Stacked
<1>6. \A x, y \in Node : StackedBefore(x, y)' = StackedBefore(x, y)
  BY <1>3 DEF StackedBefore
<1>7. \A x \in Node, y \in Node \ {v} : Avoids(x, y) => Avoids(x, y)'
  BY <1>2, <1>4 DEF Avoids
<1>8. \A x \in Node : Avoids(x, v) => Avoids(x, u)'
  BY <1>2, <1>4 DEF Avoids
<1>9. a # b /\ ({a, b} \subseteq Registers \/ <<a, b>> \in adj_set \/ Behind(a, b) \/ Behind(b, a))
  BY DEF Apart, Waiting, Settled
<1>10. ASSUME a # v PROVE Apart(a, b)'
  <2>1. Behind(a, b) => Behind(a, b)'
    BY <1>6, <1>7 DEF Behind
  <2>2. Behind(b, a) => Behind(b, a)'
    BY <1>6, <1>7, <1>10 DEF Behind
  <2>3. <<a, b>> \in adj_set => Waiting(a, b)'
    BY <1>2, <1>3 DEF Waiting
  <2> QED
    BY <1>9, <2>1, <2>2, <2>3 DEF Apart
<1>11. ASSUME a = v PROVE b # u /\ Apart(u, b)'
  <2>1. ~({a, b} \subseteq Registers) /\ ~Behind(a, b)
    BY <1>1, <1>5, <1>11 DEF Behind
  <2>2. b # u
    BY <1>1, <1>5, <1>9, <1>11, <2>1 DEF Behind, Follows, Coupled
  <2>3. ASSUME Behind(b, a) PROVE Behind(b, u)'
    <3>1. StackedBefore(b, u)
      BY <1>1, <2>3 DEF Behind, StackedBefore, Stacked
    <3> QED
      BY <1>6, <1>8, <1>11, <2>3, <3>1 DEF Behind
  <2>4. ASSUME <<a, b>> \in adj_set, b \notin Stacked PROVE Waiting(u, b)'
    <3>1. b \in adj_list[v]
      BY <1>1, <1>11, <2>4 DEF Follows, Coupled
    <3>2. b \in Adjacent(v) \ {u, v}
      BY <2>2, <2>4, <3>1 DEF Adjacent
    <3> QED
      BY <1>2, <1>3, <3>2 DEF Waiting
  <2>5. ASSUME <<a, b>> \in adj_set, b \in Stacked PROVE Behind(b, u)'
    <3>1. b \in Virtuals
      BY <2>5, UnlistedStacked DEF Node
    <3>2. v \in adj_list[b]
      BY <1>11, <2>5, <3>1 DEF Follows, Coupled
    <3>3. GetAlias(v) = v
      BY <1>11, Alias
    <3>4. Avoids(b, v)
      BY <3>2, <3>3 DEF Avoids
    <3>5. StackedBefore(b, u)
      BY <1>1, <2>5 DEF StackedBefore, Stacked
    <3> QED
      BY <1>6, <1>8, <3>4, <3>5 DEF Behind
  <2> QED
    BY <1>9, <2>1, <2>2, <2>3, <2>4, <2>5 DEF Apart
<1> QED
  BY <1>10, <1>11

LEMMA CombineEdges ==
  ASSUME TypeOK, AliasesEnd, TypeOK', Coloured, PrecoloredNeverListed, Coalesce,
         NEW m \in worklist_moves, NEW u \in Node, NEW v \in Node,
         CoalesceStep(m, u, v), Combine(m, u, v)
  PROVE  EdgesApart'
<1> SUFFICES ASSUME spilled_nodes' = {}, NEW x \in Node, NEW y \in Node, <<x, y>> \in adj_set'
             PROVE  Apart(GetAlias(x), GetAlias(y))'
  BY DEF EdgesApart
<1>0. Follows /\ pc = "coalesce" /\ pc' = "freeze" /\ spilled_nodes = {}
  BY DEF Coloured, Follows, Coalesce, colorVars
<1>1. /\ u # v /\ v \in Virtuals /\ u \notin coalesced_nodes /\ v \notin coalesced_nodes
      /\ u \notin Stacked /\ v \notin Stacked
  BY <1>0, CombineEnds
<1>2. /\ Coupled'
      /\ <<x, y>> \notin adj_set
              => \E t \in Node \ {u, v} : t \notin coalesced_nodes
                   /\ ((x = t /\ y = u) \/ (x = u /\ y = t))
  BY <1>0, <1>1, CombineGraph DEF Follows
<1>3. BothWays /\ BothWays'
  BY <1>0, <1>2, ApartSymmetric, ApartSymmetricNext DEF Follows
<1>4. PICK a \in Node : a = GetAlias(x)
  BY Alias
<1>5. PICK b \in Node : b = GetAlias(y)
  BY Alias
<1>6. a \notin coalesced_nodes /\ b \notin coalesced_nodes
  BY <1>4, <1>5, Alias
<1>7. /\ GetAlias(x)' = IF a = v THEN u ELSE a
      /\ GetAlias(y)' = IF b = v THEN u ELSE b
  BY <1>0, <1>4, <1>5, CombineFollows
<1>8. CASE <<x, y>> \in adj_set
  <2>1. Apart(a, b) /\ Apart(b, a) /\ a # b
    <3>1. Apart(a, b)
      BY <1>0, <1>4, <1>5, <1>8 DEF Coloured, EdgesApart
    <3> QED
      BY <1>3, <3>1 DEF BothWays, Apart
  <2>2. CASE b # v
    BY <1>0, <1>6, <1>7, <2>1, <2>2, CombineApart
  <2>3. CASE b = v
    <3>1. a # v /\ Apart(u, a)'
      BY <1>0, <1>6, <2>1, <2>3, CombineApart
    <3>2. Apart(a, u)'
      BY <1>3, <3>1 DEF BothWays
    <3> QED
      BY <1>7, <2>3, <3>1, <3>2
  <2> QED
    BY <2>2, <2>3
<1>9. CASE <<x, y>> \notin adj_set
  <2>1. PICK t \in Node \ {u, v} : t \notin coalesced_nodes
                   /\ ((x = t /\ y = u) \/ (x = u /\ y = t))
    BY <1>2, <1>9
  <2>2. a = x /\ b = y /\ x # y /\ x # v /\ y # v
    BY <1>1, <1>4, <1>5, <2>1, Alias
  <2>3. Apart(x, y)'
    BY <1>0, <2>2 DEF Apart, Waiting
  <2> QED
    BY <1>7, <2>2, <2>3
<1> QED
  BY <1>8, <1>9

-----------------------------------------------------------------------------
(* The other actions that select, and the start of the colouring.          *)

LEMMA SelectEdges ==
  ASSUME TypeOK, AliasesEnd, EdgesApart, Selecting, Selecting',
         UNCHANGED <<graphVars, alias, coalesced_nodes, spilled_nodes>>,
         \/ UNCHANGED select_stack
         \/ \E n \in Node : select_stack' = Append(select_stack, n)
  PROVE  EdgesApart'
<1> SUFFICES ASSUME spilled_nodes' = {}, NEW x \in Node, NEW y \in Node, <<x, y>> \in adj_set'
             PROVE  Apart(GetAlias(x), GetAlias(y))'
  BY DEF EdgesApart
<1>1. \A n : GetAlias(n)' = GetAlias(n)
  BY AliasKept
<1>2. PICK a \in Node : a = GetAlias(x)
  BY Alias
<1>3. PICK b \in Node : b = GetAlias(y)
  BY Alias
<1>4. Apart(a, b) /\ pc # "assign" /\ pc' # "assign"
  BY <1>2, <1>3 DEF EdgesApart, graphVars, Selecting
<1>5. \A c, d \in Node : StackedBefore(c, d) => StackedBefore(c, d)'
  <2>1. CASE UNCHANGED select_stack
    BY <2>1 DEF StackedBefore
  <2>2. ASSUME NEW n \in Node, select_stack' = Append(select_stack, n),
               NEW c \in Node, NEW d \in Node, StackedBefore(c, d)
        PROVE  StackedBefore(c, d)'
    <3>1. /\ Len(select_stack) \in Nat /\ DOMAIN select_stack = 1 .. Len(select_stack)
          /\ DOMAIN select_stack' = 1 .. Len(select_stack) + 1
          /\ \A i \in 1 .. Len(select_stack) : select_stack'[i] = select_stack[i]
      BY <2>2 DEF TypeOK
    <3>2. PICK i \in 1 .. Len(select_stack) :
            select_stack[i] = c /\ \A j \in 1 .. Len(select_stack) : select_stack[j] = d => i < j
      BY <2>2, <3>1 DEF StackedBefore
    <3>3. \A j \in 1 .. Len(select_stack) + 1 : select_stack'[j] = d => i < j
      BY <3>1, <3>2
    <3> QED
      BY <3>1, <3>2, <3>3 DEF StackedBefore
  <2> QED
    BY <2>1, <2>2
<1>6. \A c, d \in Node : Behind(c, d) => Behind(c, d)'
  BY <1>1, <1>5 DEF Behind, Avoids, graphVars
<1>7. Apart(a, b)'
  BY <1>4, <1>6 DEF Apart, Waiting, Settled, graphVars
<1> QED
  BY <1>1, <1>2, <1>3, <1>7

\* When colouring starts every node that needs a colour is on the stack.
LEMMA StartEdges ==
  ASSUME TypeOK, AliasesEnd, Coupled, EdgesApart, AllPlaced, LoopTest, Drained
  PROVE  EdgesApart'
<1> SUFFICES ASSUME spilled_nodes' = {}, NEW x \in Node, NEW y \in Node, <<x, y>> \in adj_set'
             PROVE  Apart(GetAlias(x), GetAlias(y))'
  BY DEF EdgesApart
<1>1. /\ pc = "loop" /\ pc' = "assign"
      /\ UNCHANGED <<graphVars, alias, coalesced_nodes, select_stack, colorVars>>
  BY DEF LoopTest
<1>2. \A n : GetAlias(n)' = GetAlias(n)
  BY <1>1, AliasKept
<1>3. PICK a \in Node : a = GetAlias(x)
  BY Alias
<1>4. PICK b \in Node : b = GetAlias(y)
  BY Alias
<1>5. Apart(a, b) /\ a \notin coalesced_nodes /\ b \notin coalesced_nodes
  BY <1>1, <1>3, <1>4, Alias DEF EdgesApart, graphVars, colorVars
<1>6. \A n \in Virtuals : n \in coalesced_nodes \/ n \in Stacked
  BY <1>1 DEF AllPlaced, Placed, Selecting, Drained, Listed
<1>7. {a, b} \subseteq Registers \/ a \in Stacked \/ b \in Stacked
  BY <1>5, <1>6 DEF Node
<1>8. Stacked' = Stacked
  BY <1>1, SameStack
<1>9. Behind(a, b)' = Behind(a, b) /\ Behind(b, a)' = Behind(b, a)
  BY <1>1, <1>2 DEF Behind, Avoids, StackedBefore, graphVars
<1>10. <<a, b>> \in adj_set => {a, b} \subseteq Registers \/ Waiting(a, b)'
  BY <1>1, <1>7, <1>8 DEF Waiting, graphVars
<1>11. Apart(a, b)'
  BY <1>1, <1>5, <1>9, <1>10 DEF Apart, Waiting, Settled
<1> QED
  BY <1>2, <1>3, <1>4, <1>11

-----------------------------------------------------------------------------
(* AssignColor.                                                            *)

\* A node that gets its last colour differs from those it avoids that have theirs.
LEMMA FreedSettled ==
  ASSUME TypeOK, AssignColor, spilled_nodes' = {}, NEW a \in Virtuals, NEW b \in Node,
         a = select_stack[Pushed], a # b, Avoids(a, b), a \notin Stacked', b \notin Stacked'
  PROVE  Settled(a, b)'
<1>1. PICK c \in OkColors(a) : colored' = [colored EXCEPT ![a] = c]
  BY DEF AssignColor, Pushed
<1>2. ColorOf(b) # c
  BY <1>1 DEF OkColors, Avoids
<1>3. a \notin Registers
  BY NodeNat
<1>4. ColorOf(a)' = c /\ ColorOf(b)' = ColorOf(b)
  BY <1>1, <1>3 DEF ColorOf, TypeOK, Node
<1>5. pc' = "assign"
  BY DEF AssignColor
<1> QED
  BY <1>2, <1>4, <1>5 DEF Settled

LEMMA PopEdges ==
  ASSUME TypeOK, AliasesEnd, Coupled, PrecoloredNeverListed, AssignColor, spilled_nodes' = {},
         NEW a \in Node, NEW b \in Node, a \notin coalesced_nodes, b \notin coalesced_nodes,
         a # b
  PROVE  /\ Behind(a, b) => Behind(a, b)' \/ Settled(a, b)'
         /\ Waiting(a, b) => Waiting(a, b)' \/ Settled(a, b)' \/ Settled(b, a)'
         /\ Settled(a, b) => Settled(a, b)'
<1> DEFINE n == select_stack[Pushed]
<1>1. /\ Pushed \in Nat /\ Pushed > 0 /\ Pushed' = Pushed - 1
      /\ \A i \in 1 .. Pushed' : select_stack'[i] = select_stack[i]
      /\ DOMAIN select_stack = 1 .. Pushed /\ DOMAIN select_stack' = 1 .. Pushed'
      /\ n \in Node /\ Stacked = Stacked' \cup {n}
  BY PopStack DEF AssignColor, TypeOK
<1>2. n \in Virtuals
  BY <1>1, UnlistedStacked DEF Node
<1>3. /\ pc = "assign" /\ pc' = "assign"
      /\ UNCHANGED <<graphVars, alias, coalesced_nodes>>
  BY DEF AssignColor
<1>4. \A x : GetAlias(x)' = GetAlias(x)
  BY <1>3, AliasKept
<1>5. ASSUME Behind(a, b) PROVE Behind(a, b)' \/ Settled(a, b)'
  <2>1. Avoids(a, b) /\ Avoids(a, b)'
    BY <1>3, <1>4, <1>5 DEF Behind, Avoids, graphVars
  <2>2. PICK i \in 1 .. Pushed :
          select_stack[i] = a /\ \A j \in 1 .. Pushed : select_stack[j] = b => i < j
    BY <1>1, <1>5 DEF Behind, StackedBefore
  <2>3. CASE i # Pushed
    <3>1. i \in 1 .. Pushed' /\ \A j \in 1 .. Pushed' : j \in 1 .. Pushed
      BY <1>1, <2>3
    <3>2. select_stack'[i] = a /\ \A j \in 1 .. Pushed' : select_stack'[j] = b => i < j
      BY <1>1, <2>2, <3>1
    <3> QED
      BY <1>1, <2>1, <3>1, <3>2 DEF Behind, StackedBefore
  <2>4. CASE i = Pushed
    <3>1. \A j \in 1 .. Pushed : select_stack[j] # b
      BY <1>1, <2>2, <2>4
    <3>2. b \notin Stacked
      BY <1>1, <3>1 DEF Stacked
    <3>3. b \notin Stacked'
      BY <1>1, <3>2
    <3>4. CASE a \in Stacked'
      <4>1. PICK k \in DOMAIN select_stack' : select_stack'[k] = a
        BY <3>4 DEF Stacked
      <4>2. \A j \in DOMAIN select_stack' : select_stack'[j] # b
        BY <3>3 DEF Stacked
      <4> QED
        BY <2>1, <4>1, <4>2 DEF Behind, StackedBefore
    <3>5. CASE a \notin Stacked'
      <4>1. a \in Virtuals /\ a = select_stack[Pushed]
        BY <1>2, <2>2, <2>4
      <4> QED
        BY <2>1, <3>3, <3>5, <4>1, FreedSettled
    <3> QED
      BY <3>4, <3>5
  <2> QED
    BY <2>3, <2>4
<1>6. ASSUME Waiting(a, b) PROVE Waiting(a, b)' \/ Settled(a, b)' \/ Settled(b, a)'
  <2>1. /\ <<a, b>> \in adj_set /\ <<b, a>> \in adj_set /\ <<a, b>> \in adj_set'
        /\ (a \in Stacked \/ b \in Stacked)
    BY <1>3, <1>6 DEF Waiting, Coupled, graphVars
  <2>2. GetAlias(a) = a /\ GetAlias(b) = b
    BY Alias
  <2>3. CASE a \in Stacked' \/ b \in Stacked'
    BY <2>1, <2>3 DEF Waiting
  <2>4. CASE a \notin Stacked' /\ b \notin Stacked' /\ a = n
    <3>1. a \in Virtuals /\ Avoids(a, b)
      BY <1>2, <2>1, <2>2, <2>4 DEF Coupled, Avoids
    <3> QED
      BY <2>4, <3>1, FreedSettled
  <2>5. CASE a \notin Stacked' /\ b \notin Stacked' /\ b = n
    <3>1. b \in Virtuals /\ Avoids(b, a)
      BY <1>2, <2>1, <2>2, <2>5 DEF Coupled, Avoids
    <3> QED
      BY <2>5, <3>1, FreedSettled
  <2> QED
    BY <1>1, <2>1, <2>3, <2>4, <2>5
<1>7. ASSUME Settled(a, b) PROVE Settled(a, b)'
  <2>1. a # n /\ b # n /\ a \notin Stacked' /\ b \notin Stacked'
    BY <1>1, <1>7 DEF Settled
  <2>2. ColorOf(a)' = ColorOf(a) /\ ColorOf(b)' = ColorOf(b)
    <3>1. UNCHANGED colored \/ \E c \in OkColors(n) : colored' = [colored EXCEPT ![n] = c]
      BY DEF AssignColor, Pushed
    <3> QED
      BY <2>1, <3>1 DEF ColorOf, TypeOK, Node
  <2> QED
    BY <1>3, <1>7, <2>1, <2>2 DEF Settled
<1> QED
  BY <1>5, <1>6, <1>7

LEMMA AssignEdges ==
  ASSUME TypeOK, AliasesEnd, Coupled, PrecoloredNeverListed, EdgesApart, AssignColor
  PROVE  EdgesApart'
<1> SUFFICES ASSUME spilled_nodes' = {}, NEW x \in Node, NEW y \in Node, <<x, y>> \in adj_set'
             PROVE  Apart(GetAlias(x), GetAlias(y))'
  BY DEF EdgesApart
<1>1. /\ pc = "assign" /\ spilled_nodes = {}
      /\ UNCHANGED <<graphVars, alias, coalesced_nodes>>
  BY DEF AssignColor
<1>2. \A n : GetAlias(n)' = GetAlias(n)
  BY <1>1, AliasKept
<1>3. PICK a \in Node : a = GetAlias(x)
  BY Alias
<1>4. PICK b \in Node : b = GetAlias(y)
  BY Alias
<1>5. Apart(a, b) /\ a \notin coalesced_nodes /\ b \notin coalesced_nodes
  BY <1>1, <1>3, <1>4, Alias DEF EdgesApart, graphVars
<1>6. a # b
  BY <1>5 DEF Apart
<1>7. /\ Behind(a, b) => Behind(a, b)' \/ Settled(a, b)'
      /\ Behind(b, a) => Behind(b, a)' \/ Settled(b, a)'
      /\ Waiting(a, b) => Waiting(a, b)' \/ Settled(a, b)' \/ Settled(b, a)'
      /\ Settled(a, b) => Settled(a, b)'
  BY <1>5, <1>6, PopEdges
<1>8. Settled(b, a)' => Settled(a, b)'
  BY DEF Settled
<1>9. Apart(a, b)'
  BY <1>5, <1>6, <1>7, <1>8 DEF Apart
<1> QED
  BY <1>2, <1>3, <1>4, <1>9

\* With an empty stack the pairs that were kept apart have different colours.
LEMMA FinishProper ==
  ASSUME TypeOK, AliasesEnd, EdgesApart, FinishColors
  PROVE  EdgesApart' /\ ColouringIsProper'
<1>1. pc = "assign" /\ pc' \in {"done", "spilled"} /\ Stacked = {} /\ UNCHANGED graphVars
  BY DEF FinishColors, Stacked
<1>2. ASSUME pc' = "done", NEW x \in Node, NEW y \in Node, <<x, y>> \in adj_set
      PROVE  ColorOf(x)' # ColorOf(y)'
  <2>1. /\ spilled_nodes = {}
        /\ colored' = [n \in Virtuals |->
             IF n \in coalesced_nodes THEN ColorOf(GetAlias(n)) ELSE colored[n]]
    BY <1>2 DEF FinishColors
  <2>2. Apart(GetAlias(x), GetAlias(y))
    BY <1>1, <1>2, <2>1 DEF EdgesApart
  <2>3. ColorOf(GetAlias(x)) # ColorOf(GetAlias(y))
    <3>1. ~StackedBefore(GetAlias(x), GetAlias(y)) /\ ~StackedBefore(GetAlias(y), GetAlias(x))
      BY <1>1 DEF StackedBefore, Stacked
    <3>2. ~Waiting(GetAlias(x), GetAlias(y))
      BY <1>1 DEF Waiting
    <3> QED
      BY <2>2, <3>1, <3>2 DEF Apart, Behind, Settled, ColorOf
  <2>4. ASSUME NEW n \in Node PROVE ColorOf(n)' = ColorOf(GetAlias(n))
    <3>1. CASE n \in Registers
      BY <3>1, Alias DEF ColorOf
    <3>2. CASE n \notin Registers /\ n \in coalesced_nodes
      BY <2>1, <3>2 DEF ColorOf, Node
    <3>3. CASE n \notin Registers /\ n \notin coalesced_nodes
      <4>1. GetAlias(n) = n /\ n \in Virtuals
        BY <3>3, Alias DEF Node
      <4> QED
        BY <2>1, <3>3, <4>1 DEF ColorOf
    <3> QED
      BY <3>1, <3>2, <3>3
  <2> QED
    BY <2>3, <2>4
<1>3. ColouringIsProper'
  <2> SUFFICES ASSUME pc' = "done", NEW e \in adj_set PROVE ColorOf(e[1])' # ColorOf(e[2])'
    BY <1>1 DEF ColouringIsProper, graphVars
  <2>1. e \in Edge
    BY DEF TypeOK
  <2>2. e[1] \in Node /\ e[2] \in Node /\ e = <<e[1], e[2]>>
    BY <2>1 DEF Edge
  <2>3. PICK x \in Node, y \in Node : e = <<x, y>> /\ x = e[1] /\ y = e[2]
    BY <2>2
  <2> QED
    BY <1>2, <2>3
<1> QED
  BY <1>1, <1>3 DEF EdgesApart

-----------------------------------------------------------------------------
LEMMA StepFollows ==
  ASSUME TypeOK, AliasesEnd, TypeOK', Disjoint, Follows, [Next]_vars PROVE Follows'
<1>1. CASE Coalesce
  <2>1. PICK m \in worklist_moves, u \in Node, v \in Node :
          CoalesceStep(m, u, v) /\ (CoalesceNothing(m, u, v) \/ Combine(m, u, v))
    BY <1>1 DEF Coalesce
  <2> QED
    BY <1>1, <2>1, CoalesceNothingFollows, CombineFollows
<1>2. CASE Simplify \/ Freeze \/ SelectSpill
  BY <1>2, SimplifyFollows, FreezeFollows
<1>3. CASE Skip \/ LoopTest \/ AssignColor \/ FinishColors \/ UNCHANGED vars
  BY <1>3, IdleFollows
<1> QED
  BY <1>1, <1>2, <1>3 DEF Next

LEMMA StepEdges ==
  ASSUME TypeOK, AliasesEnd, TypeOK', PrecoloredNeverListed, AllPlaced, Coloured, [Next]_vars
  PROVE  EdgesApart' /\ ColouringIsProper'
<1>0. EdgesApart /\ Coupled
  BY DEF Coloured
<1>1. ASSUME Coalesce PROVE EdgesApart' /\ pc' # "done"
  <2>1. PICK m \in worklist_moves, u \in Node, v \in Node :
          CoalesceStep(m, u, v) /\ (CoalesceNothing(m, u, v) \/ Combine(m, u, v))
    BY <1>1 DEF Coalesce
  <2>2. pc' = "freeze" /\ Selecting /\ Selecting' /\ UNCHANGED <<select_stack, spilled_nodes>>
    BY <1>1 DEF Coalesce, Selecting, colorVars
  <2>3. CASE CoalesceNothing(m, u, v)
    <3>1. UNCHANGED <<graphVars, alias, coalesced_nodes>>
      BY <2>3 DEF CoalesceNothing
    <3> QED
      BY <1>0, <2>2, <3>1, SelectEdges
  <2>4. CASE Combine(m, u, v)
    BY <1>1, <2>1, <2>2, <2>4, CombineEdges
  <2> QED
    BY <2>1, <2>2, <2>3, <2>4
<1>2. ASSUME Simplify PROVE EdgesApart' /\ pc' # "done"
  <2>1. /\ pc' = "coalesce" /\ Selecting /\ Selecting'
        /\ UNCHANGED <<graphVars, alias, coalesced_nodes, spilled_nodes>>
        /\ \E n \in Node : select_stack' = Append(select_stack, n)
    BY <1>2 DEF Simplify, Selecting, colorVars, TypeOK
  <2> QED
    BY <1>0, <2>1, SelectEdges
<1>3. ASSUME Freeze \/ SelectSpill \/ Skip \/ (LoopTest /\ ~Drained)
      PROVE  EdgesApart' /\ pc' # "done"
  <2>1. /\ pc' \in {"simplify", "coalesce", "freeze", "spill", "loop"}
        /\ Selecting /\ Selecting'
        /\ UNCHANGED <<graphVars, alias, coalesced_nodes, spilled_nodes, select_stack>>
    BY <1>3 DEF Freeze, SelectSpill, Skip, LoopTest, Selecting, colorVars
  <2> QED
    BY <1>0, <2>1, SelectEdges
<1>4. ASSUME LoopTest, Drained PROVE EdgesApart' /\ pc' # "done"
  BY <1>0, <1>4, StartEdges DEF LoopTest
<1>5. ASSUME AssignColor PROVE EdgesApart' /\ pc' # "done"
  BY <1>0, <1>5, AssignEdges DEF AssignColor
<1>6. CASE FinishColors
  BY <1>0, <1>6, FinishProper
<1>7. CASE UNCHANGED vars
  <2>1. /\ UNCHANGED <<pc, adj_set, adj_list, select_stack, alias, coalesced_nodes,
                       spilled_nodes, colored>>
        /\ Stacked' = Stacked
    BY <1>7, SameStack DEF vars
  <2>2. \A n : GetAlias(n)' = GetAlias(n) /\ ColorOf(n)' = ColorOf(n)
    BY <2>1, AliasKept DEF ColorOf
  <2>3. \A a, b \in Node : Apart(a, b)' = Apart(a, b)
    BY <2>1, <2>2 DEF Apart, Waiting, Behind, Avoids, StackedBefore, Settled
  <2>4. EdgesApart'
    <3> SUFFICES ASSUME pc' \notin {"done", "spilled"}, spilled_nodes' = {},
                        NEW x \in Node, NEW y \in Node, <<x, y>> \in adj_set'
                 PROVE  Apart(GetAlias(x), GetAlias(y))'
      BY DEF EdgesApart
    <3>1. PICK a \in Node, b \in Node : a = GetAlias(x) /\ b = GetAlias(y)
      BY Alias
    <3>2. Apart(a, b)
      BY <1>0, <2>1, <3>1 DEF EdgesApart
    <3> QED
      BY <2>2, <2>3, <3>1, <3>2
  <2>5. ColouringIsProper'
    BY <2>1, <2>2 DEF Coloured, ColouringIsProper
  <2> QED
    BY <2>4, <2>5
<1> QED
  BY <1>1, <1>2, <1>3, <1>4, <1>5, <1>6, <1>7 DEF Next, ColouringIsProper

LEMMA StepColoured ==
  Typed /\ Typed' /\ Parted /\ Bounded /\ Kept /\ Coloured /\ [Next]_vars => Coloured'
<1> SUFFICES ASSUME TypeOK, AliasesEnd, TypeOK', Disjoint, PrecoloredNeverListed, AllPlaced,
                    Coloured, [Next]_vars
             PROVE  Coloured'
  BY DEF Typed, Parted, Bounded, Kept
<1>1. Follows'
  BY StepFollows DEF Coloured, Follows
<1> QED
  BY <1>1, StepEdges DEF Coloured, Follows

\* When the round is done, operands joined by an edge have different registers,
\* whatever was coalesced and however often a node was stacked.
THEOREM ColouringProper == Spec => []ColouringIsProper
<1>1. Coloured => ColouringIsProper
  BY DEF Coloured
<1> QED
  BY <1>1, InitColoured, InitKept, InitBounded, InitTyped, InitParted,
     StepColoured, StepKept, StepBounded, StepTyped, StepParted, PTL DEF Spec

=============================================================================
