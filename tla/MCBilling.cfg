CONSTANTS
  Users = {u1, u2}
  Projects = {p}
  Entries = {e1, e2}
  Invoices = {i1, i2}
  Handlers = {h1, h2}
  MaxInt32 = 2
  Minutes <- MCMinutes
  None = None
  MaxRequests = 3
SYMMETRY MCSymmetry
SPECIFICATION Spec
INVARIANTS
  OneTimer
  TimeBilledOnce
  TimeFollowsInvoice
PROPERTY ImplementsLedger
CHECK_DEADLOCK FALSE
