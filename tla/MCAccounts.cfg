SPECIFICATION MCSpec
CONSTANTS
  a = a
  b = b
  Users = {a, b}
  Handlers = {h1, h2}
  MaxCodes = 2
  MaxChanges = 2
  MaxFailures = 1
INVARIANTS OneOwner CodesWork
PROPERTY AccessEnds
CHECK_DEADLOCK FALSE
