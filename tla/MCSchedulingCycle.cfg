CONSTANTS
  Tasks = {t1, t2, t3}
  Handlers = {h1, h2}
  NoDate = NoDate
  NoDep = NoDep
  MaxSpan = 100
  InputRows <- MCInputRows
  InputDays <- MCInputDays
  InputTypes = {"finish_to_start"}
  MaxRequests = 3
SPECIFICATION Spec
INVARIANT DependenciesAcyclic
SYMMETRY Symmetry
CHECK_DEADLOCK FALSE
