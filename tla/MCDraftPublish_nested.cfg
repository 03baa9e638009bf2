\* One user, pages pending one below the other, two publish calls.
CONSTANTS
    Users = {u1}
    Pages = {p1, p2}
    Reqs = {r1, r2}
    NoPage = NoPage
    NoDraft = NoDraft
    NoReq = NoReq
    NoSave = NoSave
    MaxDraftsPerUser = 2
    LockWait = 1
    MaxClock = 2
    MaxStamp = 3
    MaxTexts = 3
    MaxSessions = 1
    MaxRows = 2
SPECIFICATION Spec
SYMMETRY Symmetry
CHECK_DEADLOCK FALSE
INVARIANT DiscardedNewPageStaysDiscarded
INVARIANT DraftParentsLive
