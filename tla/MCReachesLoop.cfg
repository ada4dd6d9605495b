CONSTANTS
  Tasks = {t1, t2, t3, t4}
  NoDate = NoDate
  MaxSpan = 2
  InputGraphs <- MCInputGraphs
SPECIFICATION FairSearch
INVARIANTS
  SearchIsReaches
PROPERTY SearchEnds
CHECK_DEADLOCK FALSE
