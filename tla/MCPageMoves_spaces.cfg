\* Two spaces, deleted, restored and emptied by moves across them, and a client
\* that asks for moves of a page it has seen some time ago.
CONSTANTS
    Spaces = {s1, s2}
    Pages = {p1, p2, p3}
    Clients = {c1}
    NoPage = NoPage
    NoSpace = NoSpace
    NoLoad = NoLoad
    Forced = Forced
    MaxDepth = 2
    MaxSiblings = 2
    LockWait = 1
    MaxClock = 2
    MaxStamp = 3
SPECIFICATION MSpec
SYMMETRY Symmetry
CHECK_DEADLOCK FALSE
INVARIANT ParentsLive
INVARIANT TreeCapped
INVARIANT TokenNamesOnePlace
PROPERTY SpaceRestoreReconstitutes
PROPERTY UnforcedMoveLeavesItsSeenPlace
