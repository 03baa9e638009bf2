------------------------------ MODULE PageTree ------------------------------
(***************************************************************************)
(* The page trees of the spaces: parent, position and space of every page,  *)
(* as the structural transactions of server/store/page_store.go,            *)
(* page_move.go and space_store.go write them.  Each of them locks the      *)
(* space row first and is one step.                                         *)
(*                                                                          *)
(* A move carries the UpdateAt its caller has loaded, or is forced; which   *)
(* tokens callers hold is module PageMoves.                                 *)
(*                                                                          *)
(* Abstracted: content (an edit only moves UpdateAt), drafts (DraftPublish),*)
(* version snapshots, and ChannelId, which is one per space.                *)
(***************************************************************************)
EXTENDS Integers, FiniteSets, FiniteSetsExt, StoreTokens

CONSTANTS
    Spaces, Pages,
    NoPage,         \* ParentId = '': the root of a space
    NoSpace,        \* SpaceId of a page that has no row yet
    Forced,         \* the token of a move with force = true
    MaxDepth,       \* model.MaxPageDepth
    MaxSiblings,    \* MaxPageSiblingsLimit
    LockWait,       \* how long a transaction may wait for its first row lock
    MaxClock,       \* bound: milliseconds that may pass
    MaxStamp        \* bound: largest UpdateAt

ASSUME TreeParamsAssumption ==
    /\ MaxDepth \in Nat \ {0} /\ MaxSiblings \in Nat
    /\ LockWait \in Nat /\ MaxClock \in Nat /\ MaxStamp \in Nat

ASSUME FiniteAssumption == IsFiniteSet(Pages)

ASSUME RootAssumption == NoPage \notin Pages /\ NoSpace \notin Spaces

ASSUME ForcedAssumption == Forced \notin Nat

VARIABLES
    clock,      \* mmmodel.GetMillis()
    spaces,     \* DOCS_Space.DeleteAt, 0 while the space is live
    pages,      \* DOCS_Page, by id
    archived    \* history: the tree a deleted space had

vars == <<clock, spaces, pages, archived>>

-----------------------------------------------------------------------------

ParentIds == Pages \cup {NoPage}

\* createAt numbers the creations: the tie-break of the sibling order.
Row == [spaceId : Spaces \cup {NoSpace}, parentId : ParentIds, sortOrder : Nat,
        createAt : Nat, deleteAt : Nat, updateAt : Nat]

Placement == [page : Pages, parentId : ParentIds, sortOrder : Nat]

TypeOK ==
    /\ clock \in Nat \ {0}
    /\ spaces \in [Spaces -> Nat]
    /\ pages \in [Pages -> Row]
    /\ archived \in [Spaces -> SUBSET Placement]

Init ==
    /\ clock = 1
    /\ spaces = [s \in Spaces |-> 0]
    /\ pages = [p \in Pages |-> [spaceId |-> NoSpace, parentId |-> NoPage, sortOrder |-> 0,
                                 createAt |-> 0, deleteAt |-> 0, updateAt |-> 0]]
    /\ archived = [s \in Spaces |-> {}]

-----------------------------------------------------------------------------
(* Reading the tree                                                        *)

ClockReads == StaleReads(clock, LockWait)

SpaceLive(s) == spaces[s] = 0

Exists(p) == pages[p].spaceId # NoSpace

Live(p) == Exists(p) /\ pages[p].deleteAt = 0

\* tryLockLiveParent, and the lock of the target row scoped to the URL's space.
LiveIn(p, s) == Live(p) /\ pages[p].spaceId = s

Children(p) == {q \in Pages : Live(q) /\ pages[q].parentId = p}

Group(s, parent) == {p \in Pages : LiveIn(p, s) /\ pages[p].parentId = parent}

\* ORDER BY SortOrder, CreateAt, Id.
Before(p, q) ==
    \/ pages[p].sortOrder < pages[q].sortOrder
    \/ pages[p].sortOrder = pages[q].sortOrder /\ pages[p].createAt < pages[q].createAt

\* The zero-based position of p among the pages of g.
Place(p, g) == Cardinality({q \in g \ {p} : Before(q, p)})

NextSortOrder(s, parent) ==
    1 + Max({0} \cup {pages[p].sortOrder : p \in Group(s, parent)})

\* Mutant of HasRoom: the group may already be one page over the limit.
HasRoomOffByOne(group, added) == Cardinality(group) + added <= MaxSiblings + 1

\* siblingCapError.
HasRoom(group, added) == Cardinality(group) + added <= MaxSiblings

\* pageSubtreeCTE: p and what is reached from it through live children, as the
\* least set that contains p and is closed under them.
ClosedBelow(S) == \A q \in Pages : Live(q) /\ pages[q].parentId \in S => q \in S

Subtree(p) ==
    LET closed == {S \in SUBSET Pages : p \in S /\ ClosedBelow(S)}
    IN {q \in Pages : \A S \in closed : q \in S}

\* The live parent of a page, or NoPage.
Above(p) ==
    IF p \in Pages /\ pages[p].parentId \in Pages /\ Live(pages[p].parentId)
    THEN pages[p].parentId ELSE NoPage

\* moveAncestorsCTE: the pages on the way from p to its root, p included; a walk
\* longer than the number of pages has met a cycle and ends.
Depth(p) ==
    LET up[n \in 0 .. Cardinality(Pages)] == IF n = 0 THEN p ELSE Above(up[n - 1])
    IN Cardinality({n \in DOMAIN up : up[n] # NoPage})

\* pageSubtreeMaxDepth: the levels below p.
Height(p) == Max({Depth(q) - Depth(p) : q \in Subtree(p)})

\* Mutant of FitsDepth: the levels below the moved page are not counted.
FitsDepthAlone(parent, below) == Depth(parent) + 1 <= MaxDepth

\* depthCapError.
FitsDepth(parent, below) == Depth(parent) + 1 + below <= MaxDepth

\* Mutant of MayHang: only the page itself is refused as its own parent.
MayHangBelowItself(p, dest, s) ==
    \/ dest = NoPage
    \/ dest \in Pages \ {p} /\ LiveIn(dest, s) /\ FitsDepth(dest, 0)

\* validateMoveDestination: a root, or a live page of the space outside the
\* subtree of p and not too deep for it.
MayHang(p, dest, s) ==
    \/ dest = NoPage
    \/ /\ dest \in Pages \ {p}
       /\ LiveIn(dest, s)
       /\ dest \notin Subtree(p)
       /\ FitsDepth(dest, Height(p))

Tick ==
    /\ clock < MaxClock
    /\ clock' = clock + 1
    /\ UNCHANGED <<spaces, pages, archived>>

-----------------------------------------------------------------------------
(* Create, edit, delete, restore                                           *)

\* insertPageTx, under CreatePage and under the publish of a new page.
CreatePage(p, s, parent) ==
    /\ SpaceLive(s)
    /\ ~ Exists(p)
    /\ parent = NoPage \/ (parent \in Pages /\ LiveIn(parent, s) /\ FitsDepth(parent, 0))
    /\ HasRoom(Group(s, parent), 1)
    /\ pages' = [pages EXCEPT ![p] =
           [spaceId |-> s, parentId |-> parent, sortOrder |-> NextSortOrder(s, parent),
            createAt |-> 1 + Cardinality({q \in Pages : Exists(q)}),
            deleteAt |-> 0, updateAt |-> clock]]
    /\ UNCHANGED <<clock, spaces, archived>>

\* applyPagePatchTx, under UpdatePage and under the publish of an edit.
EditPage(p) ==
    /\ Live(p)
    /\ pages' = [pages EXCEPT ![p].updateAt = NextMonotonic(clock, @)]
    /\ UNCHANGED <<clock, spaces, archived>>

\* Mutant of Promoted: the promoted child keeps its token.
PromotedSilently(c, p, now) ==
    [pages[c] EXCEPT !.parentId = pages[p].parentId,
                     !.sortOrder = pages[p].sortOrder + Place(c, Children(p))]

\* A child of the deleted page p, in the block that takes the place of p.
Promoted(c, p, now) ==
    [pages[c] EXCEPT !.parentId = pages[p].parentId,
                     !.sortOrder = pages[p].sortOrder + Place(c, Children(p)),
                     !.updateAt = NextMonotonic(now, @)]

\* Mutant of Shifted: no room is made for the block of children.
NotShifted(q, n) == pages[q]

\* A later sibling of the deleted page, moved up to make room for n children.
Shifted(q, n) == [pages[q] EXCEPT !.sortOrder = @ + n - 1]

\* A page deleted or revived at stamp now.
Stamped(p, deleteAt, now) ==
    [pages[p] EXCEPT !.deleteAt = deleteAt, !.updateAt = NextMonotonic(now, @)]

PagesAfterDelete(p, now) ==
    LET n == Cardinality(Children(p))
        siblings == Group(pages[p].spaceId, pages[p].parentId)
    IN [q \in Pages |->
           IF q = p THEN Stamped(p, now, now)
           ELSE IF q \in Children(p) THEN Promoted(q, p, now)
           ELSE IF n > 1 /\ q \in siblings /\ Before(p, q) THEN Shifted(q, n)
           ELSE pages[q]]

\* DeletePage: the children are promoted into the page's slot, in their order.
DeletePage(p, now) ==
    /\ Live(p)
    /\ SpaceLive(pages[p].spaceId)
    /\ Children(p) # {} =>
           HasRoom(Group(pages[p].spaceId, pages[p].parentId) \ {p}, Cardinality(Children(p)))
    /\ pages' = PagesAfterDelete(p, now)
    /\ UNCHANGED <<clock, spaces, archived>>

\* Where RestorePage puts p: under its old parent if that is live and not too
\* deep, else at the root.
RestoreParent(p) ==
    LET old == pages[p].parentId
    IN IF old \in Pages /\ LiveIn(old, pages[p].spaceId) /\ FitsDepth(old, 0)
       THEN old ELSE NoPage

RestorePage(p, now) ==
    /\ Exists(p) /\ ~ Live(p)
    /\ SpaceLive(pages[p].spaceId)
    /\ HasRoom(Group(pages[p].spaceId, RestoreParent(p)), 1)
    /\ pages' = [pages EXCEPT ![p] =
           [Stamped(p, 0, now) EXCEPT
               !.parentId = RestoreParent(p),
               !.sortOrder = NextSortOrder(pages[p].spaceId, RestoreParent(p))]]
    /\ UNCHANGED <<clock, spaces, archived>>

-----------------------------------------------------------------------------
(* Moves                                                                   *)

\* Mutant of MayMove: no compare-and-swap on UpdateAt.
MayMoveBlind(p, s, base) == SpaceLive(s) /\ LiveIn(p, s)

\* The checks MovePage and MovePageToSpace share: the page is in the space of
\* the URL, and its token is the caller's unless the move is forced.
MayMove(p, s, base) ==
    /\ SpaceLive(s)
    /\ LiveIn(p, s)
    /\ base = Forced \/ base = pages[p].updateAt

\* MovePage without an index: append to the group of another parent.  (The same
\* parent without an index changes nothing.)
MovePageAppend(p, s, dest, base) ==
    /\ MayMove(p, s, base)
    /\ dest # pages[p].parentId
    /\ MayHang(p, dest, s)
    /\ HasRoom(Group(s, dest), 1)
    /\ pages' = [pages EXCEPT ![p] =
           [pages[p] EXCEPT !.parentId = dest, !.sortOrder = NextSortOrder(s, dest),
                            !.updateAt = NextMonotonic(clock, @)]]
    /\ UNCHANGED <<clock, spaces, archived>>

\* Mutant of Renumbered: the page trades places with the one at the index.
RenumberedBySwap(p, group, index) ==
    [q \in group |-> IF q = p THEN index + 1
                     ELSE IF Place(q, group) = index THEN Place(p, group) + 1
                     ELSE Place(q, group) + 1]

\* Mutant of Renumbered: the moved page is counted among those before the index.
RenumberedInPlace(p, group, index) ==
    [q \in group |-> IF q = p THEN index + 1
                     ELSE IF Place(q, group) < index THEN Place(q, group) + 1
                     ELSE Place(q, group) + 2]

\* reindexSiblingGroup: the group of p is numbered from 1, with p at index.
Renumbered(p, group, index) ==
    LET others == group \ {p}
    IN [q \in group |-> IF q = p THEN index + 1
                        ELSE IF Place(q, others) < index THEN Place(q, others) + 1
                        ELSE Place(q, others) + 2]

\* What a caller may send as sibling_index: any position, and numbers out of range.
Indexes == -2 .. Cardinality(Pages)

\* Mutant of Clamped: a negative index is taken as it is.
ClampedAbove(index, group) == Min({index, Cardinality(group) - 1})

\* The index of a move is clamped to the bounds of its group.
Clamped(index, group) == Max({0, Min({index, Cardinality(group) - 1})})

\* The new token of a page moved to an index: reparenting it and renumbering its
\* group are two updates.
MovedToken(p, reparented) ==
    LET now == NextMonotonic(clock, pages[p].updateAt)
    IN IF reparented THEN NextMonotonic(now, now) ELSE NextMonotonic(now, pages[p].updateAt)

\* The table after p was placed at index in the group of dest.
PagesAfterReindex(p, s, dest, index) ==
    LET group == Group(s, dest) \cup {p}
        order == Renumbered(p, group, Clamped(index, group))
    IN [q \in Pages |->
           IF q = p
           THEN [pages[p] EXCEPT !.parentId = dest, !.sortOrder = order[p],
                                 !.updateAt = MovedToken(p, dest # pages[p].parentId)]
           ELSE IF q \in group THEN [pages[q] EXCEPT !.sortOrder = order[q]]
           ELSE pages[q]]

\* MovePage with an index, within the group or into that of another parent.
MovePageToIndex(p, s, dest, base) ==
    /\ MayMove(p, s, base)
    /\ dest = pages[p].parentId \/ MayHang(p, dest, s)
    /\ HasRoom(Group(s, dest) \cup {p}, 0)
    /\ \E index \in Indexes : pages' = PagesAfterReindex(p, s, dest, index)
    /\ UNCHANGED <<clock, spaces, archived>>

\* Mutant of Rehomed: only the moved root changes its space.
RehomedRootOnly(p) == {p}

\* rewriteSubtreeSpace: the pages that change their space with p.
Rehomed(p) == Subtree(p)

\* MovePageToSpace: p goes to the end of a group of space t, its live subtree
\* follows it.
MovePageToSpace(p, s, t, dest, base) ==
    /\ t # s /\ SpaceLive(t)
    /\ MayMove(p, s, base)
    /\ MayHang(p, dest, t)
    /\ HasRoom(Group(t, dest), 1)
    /\ LET now == NextMonotonic(clock, pages[p].updateAt) IN
       pages' = [q \in Pages |->
           IF q = p
           THEN [pages[p] EXCEPT !.spaceId = t, !.parentId = dest,
                                 !.sortOrder = NextSortOrder(t, dest),
                                 !.updateAt = NextMonotonic(now, now)]
           ELSE IF q \in Rehomed(p)
           THEN [pages[q] EXCEPT !.spaceId = t, !.updateAt = NextMonotonic(now, @)]
           ELSE pages[q]]
    /\ UNCHANGED <<clock, spaces, archived>>

-----------------------------------------------------------------------------
(* Spaces                                                                  *)

PlacementsIn(ps) ==
    {[page |-> p, parentId |-> pages[p].parentId, sortOrder |-> pages[p].sortOrder] : p \in ps}

PagesOf(s) == {p \in Pages : LiveIn(p, s)}

\* Mutant of CascadeStamp: the stamp is the clock, whatever was deleted before.
CascadeStampClock(s) == clock

\* One stamp for the space and its live pages, later than that of every page of
\* the space that was deleted on its own.
CascadeStamp(s) ==
    Max({clock} \cup {pages[p].deleteAt + 1 : p \in {q \in Pages : pages[q].spaceId = s}})

DeleteSpace(s) ==
    /\ SpaceLive(s)
    /\ spaces' = [spaces EXCEPT ![s] = CascadeStamp(s)]
    /\ pages' = [p \in Pages |->
           IF p \in PagesOf(s) THEN Stamped(p, CascadeStamp(s), CascadeStamp(s)) ELSE pages[p]]
    /\ archived' = [archived EXCEPT ![s] = PlacementsIn(PagesOf(s))]
    /\ UNCHANGED clock

\* The pages that went down with space s.
CascadedPages(s) ==
    {p \in Pages : pages[p].spaceId = s /\ pages[p].deleteAt = spaces[s]}

RestoreSpace(s, now) ==
    /\ ~ SpaceLive(s)
    /\ spaces' = [spaces EXCEPT ![s] = 0]
    /\ pages' = [p \in Pages |->
           IF p \in CascadedPages(s) THEN Stamped(p, 0, now) ELSE pages[p]]
    /\ archived' = [archived EXCEPT ![s] = {}]
    /\ UNCHANGED clock

-----------------------------------------------------------------------------

PageStep(p) ==
    \/ \E s \in Spaces, parent \in ParentIds : CreatePage(p, s, parent)
    \/ EditPage(p)
    \/ \E now \in ClockReads : DeletePage(p, now) \/ RestorePage(p, now)

MoveStep(p, s, dest, base) ==
    \/ MovePageAppend(p, s, dest, base)
    \/ MovePageToIndex(p, s, dest, base)
    \/ \E t \in Spaces : MovePageToSpace(p, s, t, dest, base)

SpaceStep(s) ==
    \/ DeleteSpace(s)
    \/ \E now \in ClockReads : RestoreSpace(s, now)

Bounded == \A p \in Pages : pages[p].updateAt <= MaxStamp

Next ==
    /\ \/ Tick
       \/ \E p \in Pages : PageStep(p)
       \/ \E p \in Pages, s \in Spaces, dest \in ParentIds : MoveStep(p, s, dest, Forced)
       \/ \E s \in Spaces : SpaceStep(s)
    /\ Bounded'

Spec == Init /\ [][Next]_vars

-----------------------------------------------------------------------------
(* What must hold                                                          *)

\* A live page is in a live space and hangs at its root or under a live page of
\* the same space, whatever is deleted, moved away or restored (DeletePage: "no
\* live page sits under a deleted parent").
ParentsLive ==
    \A p \in Pages : Live(p) =>
        /\ SpaceLive(pages[p].spaceId)
        /\ pages[p].parentId # NoPage =>
               pages[p].parentId \in Pages /\ LiveIn(pages[p].parentId, pages[p].spaceId)

\* No live page is its own ancestor: every set of live pages has a member whose
\* parent is outside of it (the cycle guards of the moves).
Acyclic ==
    \A S \in SUBSET {p \in Pages : Live(p)} :
        S # {} => \E p \in S : pages[p].parentId \notin S

\* No sequence of moves, deletes and restores grows the tree past the depth cap.
DepthCapped == \A p \in Pages : Live(p) => Depth(p) <= MaxDepth

\* No group of siblings outgrows what reindexSiblingGroup can renumber.
SiblingsCapped ==
    \A s \in Spaces, parent \in ParentIds : Cardinality(Group(s, parent)) <= MaxSiblings

\* No group of siblings and no branch grows past its cap, whichever of create,
\* promotion, move, restore and exchange of subtrees adds to it (page_store.go,
\* page_move.go).
TreeCapped == SiblingsCapped /\ DepthCapped

\* Two live siblings never share a SortOrder, so their order does not rest on
\* the tie-break of their ids.
SiblingsOrdered ==
    \A p, q \in Pages :
        /\ p # q /\ Live(p) /\ Live(q)
        /\ pages[p].spaceId = pages[q].spaceId /\ pages[p].parentId = pages[q].parentId
        => pages[p].sortOrder # pages[q].sortOrder

Siblings(p, q) ==
    /\ Live(p) /\ Live(q)
    /\ pages[p].spaceId = pages[q].spaceId /\ pages[p].parentId = pages[q].parentId

\* Two siblings whose tokens a step does not move keep their order: the shifts
\* that a delete or a renumbering makes silently are no reordering.
SilentSiblingsKeepOrder ==
    [][\A p, q \in Pages :
           /\ Siblings(p, q) /\ Siblings(p, q)'
           /\ pages[p].updateAt = pages'[p].updateAt /\ pages[q].updateAt = pages'[q].updateAt
           => (Before(p, q) <=> Before(p, q)')]_vars

\* Whatever the order of a group, renumbering it numbers it from 1 without gaps,
\* finds the moved page at the index asked for or at the nearest end, and keeps the
\* others in their order (reindexSiblingGroup).
ReindexInsertsAtTheIndex ==
    \A p \in Pages, dest \in ParentIds : Live(p) =>
        LET group == Group(pages[p].spaceId, dest) \cup {p} IN
        \A index \in Indexes :
            LET order == Renumbered(p, group, Clamped(index, group)) IN
            /\ {order[q] : q \in group} = 1 .. Cardinality(group)
            /\ order[p] = Max({1, Min({index + 1, Cardinality(group)})})
            /\ \A q, r \in group \ {p} : Before(q, r) => order[q] < order[r]

\* A deleted page is replaced by its children: they take its place between its
\* siblings and keep their order (DeletePage, "as a contiguous block").
ChildrenTakeThePlace ==
    [][\A p \in Pages :
           Live(p) /\ ~ Live(p)' /\ SpaceLive(pages[p].spaceId)' =>
           /\ \A c \in Children(p), q \in Pages \ {p} :
                  Siblings(p, q) => (Before(p, q) <=> Before(c, q)')
           /\ \A c, d \in Children(p) : Before(c, d) <=> Before(c, d)']_vars

\* A restored space has exactly the tree it had when it was deleted: no page is
\* missing, none that was deleted on its own comes back, none has moved
\* (RestoreSpace: "the pre-delete tree reconstitutes").
SpaceRestoreReconstitutes ==
    [][\A s \in Spaces : ~ SpaceLive(s) /\ SpaceLive(s)' =>
           PlacementsIn(PagesOf(s))' = archived[s]]_vars

=============================================================================
