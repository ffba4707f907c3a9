CONSTANTS
  r0 = r0
  r1 = r1
  x = x
  y = y
  Registers = {r0, r1}
  Virtuals = {x, y}
  NumBlocks = 4
  Programs <- MCPrograms
SPECIFICATION FairSpec
INVARIANTS TypeOK LivenessExact ValuesKept
PROPERTY GraphBuilt
CHECK_DEADLOCK FALSE
