\* Each part alone: a page, two pages, the baseline, the title, presence.
CONSTANTS
  p1 = p1
  p2 = p2
  t1 = t1
  t2 = t2
  u1 = u1
  u2 = u2
  None = None
  Untitled = Untitled
  Blank = Blank
  Pages <- TwoPages
  Unpublished = {p1}
  MaxTexts = 3
  MaxRuns = 3
  MaxFailures = 2
  MaxPublishes = 2
  MaxEdit = 5
  MaxBody = 5
SPECIFICATION EditorSpec
INVARIANTS
  TypesOK
  EditorsShownAreEditing
  TypedTitleStays
PROPERTIES
  NoEditLost
  ImplementsTypedTexts
  EditsGetThrough
  BaselineProtects
  NobodyStaysForEver
CHECK_DEADLOCK FALSE
