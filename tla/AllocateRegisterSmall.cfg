CONSTANTS
  NumRegisters = 2
  NumVirtuals = 3
  MaxMoves = 2
  DegreeMod = 1024
  Registers <- MCRegisters
  Virtuals <- MCVirtuals
  Allocatable <- MCRegisters
  Graphs <- MCGraphs
  MoveSets <- MCMoveSets
SPECIFICATION FairSpec
INVARIANTS TypeOK ColouringIsProper PrecoloredNeverListed NoNodeLost AliasesEnd MovesPartitioned
PROPERTY RoundEnds
CHECK_DEADLOCK FALSE
