CONSTANTS
  a = a
  b = b
  c1 = c1
  c2 = c2
  Users = {a, b}
  Conns = {c1, c2}
  Owners <- MCOwners
  Senders = {s1}
  Message = Message
  NoEvent = NoEvent
  Capacity = 1
  MaxSends = 1
SPECIFICATION FairSpec
INVARIANTS
  NoSendOnClosed
  RegistryExact
  PresenceAgrees
PROPERTY GoroutinesEnd
CHECK_DEADLOCK FALSE
