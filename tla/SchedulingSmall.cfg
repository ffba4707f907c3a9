CONSTANTS
  r0 = r0
  r4 = r4
  Cond = COND
  Regs = {r0, r4, COND}
  MaxLength = 4
  Blocks <- MCBlocks
SPECIFICATION FairSpec
INVARIANTS TypeOK OrderKept AllIssued
PROPERTY ScheduleEnds
CHECK_DEADLOCK FALSE
