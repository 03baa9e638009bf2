\* One user with two publish requests in flight and several edit sessions.
CONSTANTS
    Users = {u1}
    Pages = {p1}
    Reqs = {r1, r2}
    NoPage = NoPage
    NoDraft = NoDraft
    NoReq = NoReq
    NoSave = NoSave
    MaxDraftsPerUser = 1
    LockWait = 0
    MaxClock = 1
    MaxStamp = 3
    MaxTexts = 3
    MaxSessions = 2
    MaxRows = 3
SPECIFICATION Spec
SYMMETRY Symmetry
CHECK_DEADLOCK FALSE
INVARIANT TypeOK
PROPERTY EndedSessionsEstablishNothing
PROPERTY PublishReplacesWhatItsOpenerSaw
PROPERTY PublishKeepsNewerSaves
