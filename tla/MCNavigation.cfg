\* Each part alone: three stores of pages, two routed spaces, two of spaces.
CONSTANTS
  s1 = s1
  s2 = s2
  t1 = t1
  t2 = t2
  p1 = p1
  d1 = d1
  n1 = n1
  NoSpace = NoSpace
  Forced = Forced
  NoId = NoId
  Home = Home
  None = None
SPECIFICATION NavigationSpec
INVARIANTS
  TypesOK
  StoreFollowsTheServer
PROPERTIES
  BounceOnlyIfGone
  RouteSettles
CHECK_DEADLOCK FALSE
