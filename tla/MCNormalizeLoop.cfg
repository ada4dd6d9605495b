CONSTANTS
  Tasks = {t1, t2, t3}
  NoDate = NoDate
  MaxSpan = 2
  LoopRows <- MCLoopRows
  LoopDeps <- MCLoopDeps
SPECIFICATION FairLoop
INVARIANTS
  OrderSkipsOnlyCycles
  LeastFeasible
  LoopsComputeNormalize
PROPERTY Returns
CHECK_DEADLOCK FALSE
