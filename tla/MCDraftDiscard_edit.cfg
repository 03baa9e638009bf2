\* A late autosave after the discard of an edit draft.
CONSTANTS
    Users = {u1}
    Pages = {p1}
    Reqs = {r1}
    NoPage = NoPage
    NoDraft = NoDraft
    NoReq = NoReq
    NoSave = NoSave
    MaxDraftsPerUser = 1
    LockWait = 0
    MaxClock = 1
    MaxStamp = 2
    MaxTexts = 3
    MaxSessions = 2
    MaxRows = 3
SPECIFICATION DSpec
SYMMETRY Symmetry
CHECK_DEADLOCK FALSE
INVARIANT DiscardedEditStaysDiscarded
