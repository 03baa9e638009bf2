\* Two users, one publish request each, on one page.
CONSTANTS
    Users = {u1, u2}
    Pages = {p1}
    Reqs = {r1, r2}
    NoPage = NoPage
    NoDraft = NoDraft
    NoReq = NoReq
    NoSave = NoSave
    MaxDraftsPerUser = 1
    LockWait = 0
    MaxClock = 1
    MaxStamp = 3
    MaxTexts = 3
    MaxSessions = 2
    MaxRows = 1
SPECIFICATION Spec
SYMMETRY Symmetry
CHECK_DEADLOCK FALSE
INVARIANT EditAtNamesOneText
INVARIANT NoDraftOfDeletedPage
PROPERTY PatchReplacesWhatItsSenderSaw
