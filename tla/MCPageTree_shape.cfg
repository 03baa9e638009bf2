\* One space, a tree of four pages, moves with and without an index.
CONSTANTS
    Spaces = {s1}
    Pages = {p1, p2, p3, p4}
    NoPage = NoPage
    NoSpace = NoSpace
    Forced = Forced
    MaxDepth = 3
    MaxSiblings = 3
    LockWait = 0
    MaxClock = 1
    MaxStamp = 2
SPECIFICATION Spec
SYMMETRY Symmetry
CHECK_DEADLOCK FALSE
INVARIANT TypeOK
INVARIANT Acyclic
INVARIANT SiblingsOrdered
INVARIANT ReindexInsertsAtTheIndex
PROPERTY SilentSiblingsKeepOrder
PROPERTY ChildrenTakeThePlace
