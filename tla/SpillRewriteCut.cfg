CONSTANTS
  MaxLength = 4
  PairsAnywhere = TRUE
  Span = 1
  Blocks <- MCBlocks
SPECIFICATION FairSpec
INVARIANT SpilledValueKept
CHECK_DEADLOCK FALSE
