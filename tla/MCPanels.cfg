\* Each part alone; here three members who add, remove and leave.
CONSTANTS
  me = me
  u2 = u2
  u3 = u3
  u4 = u4
  s1 = s1
  s2 = s2
  s3 = s3
  s4 = s4
  p1 = p1
  None = None
  Unset = Unset
  Gone = Gone
  Body = Body
  Away = Away
  Users <- ThreeUsers
  Me = me
  Outsiders = {}
  CommitOnSelect = TRUE
  Overlaps = TRUE
  Reopens = TRUE
  Others = TRUE
  MaxCalls = 2
SPECIFICATION PanelsSpec
INVARIANTS
  TypesOK
  SomeoneRemains
  FocusKept
  MovesLand
  SpacesLand
PROPERTIES
  BatchesSettle
  SettingsSurvive
  WidthIsKept
CHECK_DEADLOCK FALSE
