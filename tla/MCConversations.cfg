CONSTANTS
  Users = {u1, u2}
  Convs = {c1, c2}
  Messages = {m1, m2}
  Files = {f1, f2}
  Bodies = {b1, b2}
  Handlers = {h1, h2}
  None = None
  MaxRequests = 3
SYMMETRY MCSymmetry
SPECIFICATION MCSpec
INVARIANTS
  AdminKept
  OneDMPerPair
  EventsAgree
  FilesKept
CHECK_DEADLOCK FALSE
