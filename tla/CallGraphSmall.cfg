CONSTANTS
  put = put
  f1 = f1
  f2 = f2
  main = main
  Users <- MCUsers
  Builtins = {put}
  Clones = {c1}
  Main = main
  Source <- MCSource
  Programs <- MCPrograms
SPECIFICATION FairSpec
INVARIANTS TypeOK SummaryExact SummarySound NoDanglingCall
PROPERTIES EffectsKept PassesEnd
CHECK_DEADLOCK FALSE
