--------------------------- MODULE MCSpillRewrite ---------------------------
(* Instances of SpillRewrite: every block of at most MaxLength instructions. *)
EXTENDS SpillRewrite

CONSTANTS MaxLength, PairsAnywhere

Paired(b) ==
  /\ \A j \in DOMAIN b : b[j] = "move_if" => j < Len(b) /\ b[j + 1] = "move_else"
  /\ \A j \in DOMAIN b : b[j] = "move_else" => j > 1 /\ b[j - 1] = "move_if"

MCBlocks ==
  {b \in UNION {[1 .. l -> Kind] : l \in 1 .. MaxLength} :
     Paired(b) /\ (PairsAnywhere \/ UncutPairs(b))}
=============================================================================
