------------------------- MODULE MCAllocateRegister -------------------------
(* Instances of AllocateRegister: every interference graph over a few      *)
(* operands, with every choice of at most MaxMoves moves.                  *)
EXTENDS AllocateRegister

CONSTANTS NumRegisters, NumVirtuals, MaxMoves

MCRegisters == 0 .. NumRegisters - 1
MCVirtuals == NumRegisters .. NumRegisters + NumVirtuals - 1

Pair(e) == <<e[2], e[1]>>
Symmetric(s) == s \cup {Pair(e) : e \in s}
UpPairs == {e \in Edge : e[1] < e[2] /\ e[2] \in Virtuals}
MovePairs == UpPairs \cup {e \in Virtuals \X Virtuals : e[1] # e[2]}
Clique == {e \in Edge : e[1] # e[2] /\ e[1] \in Registers /\ e[2] \in Registers}

MCGraphs == {Symmetric(s) \cup Clique : s \in SUBSET UpPairs}

\* More than one move where the degrees go down with the names of the virtual registers:
\* up to those names, that is most graphs.
DegreeIn(g, v) == Cardinality({e \in g : e[1] = v})
Sorted(g) == \A v, w \in Virtuals : v < w => DegreeIn(g, v) >= DegreeIn(g, w)
MCMoveSets == [g \in MCGraphs |->
  UNION {{s \in SUBSET MovePairs : Cardinality(s) = n} : n \in 0 .. (IF Sorted(g) THEN MaxMoves ELSE 1)}]
=============================================================================
