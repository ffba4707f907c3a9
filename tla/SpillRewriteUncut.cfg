CONSTANTS
  MaxLength = 6
  PairsAnywhere = FALSE
  Span = 2
  Blocks <- MCBlocks
SPECIFICATION Spec
INVARIANTS TypeOK SpilledValueKept
CHECK_DEADLOCK FALSE
