SPECIFICATION MCSpec
CONSTANTS
  a = a
  b = b
  h1 = h1
  h2 = h2
  p1 = p1
  p2 = p2
  p3 = p3
  t1 = t1
  t2 = t2
  t3 = t3
  s1 = s1
  s2 = s2
  w1 = w1
  w2 = w2
  slack = slack
  e1 = e1
  r1 = r1
  c1 = c1
  c2 = c2
  None = None
  Sessions <- MCSessions
  Members <- MCMembers
  Pages <- MCPages
  Bodies <- MCBodies
  PagesBudgets <- NoBudgets
  Tasks <- MCTasks
  Sprints <- MCSprints
  PlanningBudgets <- NoBudgets
  Hooks <- MCHooks
  Providers <- MCProviders
  Kinds <- MCKinds
  Events <- MCEvents
  MaxEdits = 3
  Leaves = {l1}
  Approvals = {a1}
  Expenses = {x1}
  Amounts = {1, 2}
  Handlers <- MCHandlers
  MaxTurns = 4
  MaxHops = 3
  Repos <- MCRepos
  Shas <- MCShas
  Pushes <- MCPushes
  MaxPosts = 4
INVARIANTS
  LastNoticeAgrees
  SheetAsShown
  TreeAcyclic
  LinksFollowBody
  AssigneesAgree
  NoneLeftBehind
  DeliveredAsSubscribed
  PushAcknowledged
SYMMETRY Symmetry
CHECK_DEADLOCK FALSE
