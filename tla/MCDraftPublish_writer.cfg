\* A save of an older session merged into the draft of a newer one.
CONSTANTS
    Users = {u1}
    Pages = {p1}
    Reqs = {r1}
    NoPage = NoPage
    NoDraft = NoDraft
    NoReq = NoReq
    NoSave = NoSave
    MaxDraftsPerUser = 1
    LockWait = 0
    MaxClock = 1
    MaxStamp = 3
    MaxTexts = 3
    MaxSessions = 2
    MaxRows = 2
SPECIFICATION Spec
SYMMETRY Symmetry
CHECK_DEADLOCK FALSE
PROPERTY PublishReplacesWhatItsWriterSaw
