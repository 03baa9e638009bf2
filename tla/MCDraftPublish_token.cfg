\* Two publishes of one draft, and a new draft with the token of the old one.
CONSTANTS
    Users = {u1}
    Pages = {p1}
    Reqs = {r1, r2}
    NoPage = NoPage
    NoDraft = NoDraft
    NoReq = NoReq
    NoSave = NoSave
    MaxDraftsPerUser = 1
    LockWait = 0
    MaxClock = 1
    MaxStamp = 3
    MaxTexts = 3
    MaxSessions = 2
    MaxRows = 2
SPECIFICATION Spec
SYMMETRY Symmetry
CHECK_DEADLOCK FALSE
PROPERTY TokenNamesOneSave
