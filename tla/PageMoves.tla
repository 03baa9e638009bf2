------------------------------ MODULE PageMoves ------------------------------
(***************************************************************************)
(* PageTree with the clients that move pages.  A client loads a page, and   *)
(* later asks to move it with the space it saw the page in and with the     *)
(* UpdateAt it saw; between the two, others edit, move, delete and restore  *)
(* (app/page_hierarchy.go, api_page.go).                                    *)
(***************************************************************************)
EXTENDS PageTree

CONSTANTS
    Clients,        \* callers that move pages
    NoLoad          \* a client that has loaded no page

VARIABLE
    loaded          \* what a client knows of the page it looks at

mvars == <<vars, loaded>>

Load == [page : Pages, spaceId : Spaces, parentId : ParentIds, updateAt : Nat]

ASSUME NoLoadAssumption == NoLoad \notin Load

MovesTypeOK == TypeOK /\ loaded \in [Clients -> Load \cup {NoLoad}]

MInit == Init /\ loaded = [c \in Clients |-> NoLoad]

\* A client reads a live page of a live space.
LoadPage(c, p) ==
    /\ Live(p)
    /\ SpaceLive(pages[p].spaceId)
    /\ loaded' = [loaded EXCEPT ![c] =
           [page |-> p, spaceId |-> pages[p].spaceId, parentId |-> pages[p].parentId,
            updateAt |-> pages[p].updateAt]]
    /\ UNCHANGED vars

\* The client asks for a move of that page, with the token it holds or by force.
\* It may hold the answer back and ask again with the old token.
RequestMove(c, dest, force) ==
    /\ loaded[c] # NoLoad
    /\ MoveStep(loaded[c].page, loaded[c].spaceId, dest,
                IF force THEN Forced ELSE loaded[c].updateAt)
    /\ UNCHANGED loaded

MNext ==
    /\ \/ \E c \in Clients, p \in Pages : LoadPage(c, p)
       \/ \E c \in Clients, dest \in ParentIds, force \in BOOLEAN : RequestMove(c, dest, force)
       \/ /\ \/ Tick
             \/ \E p \in Pages : PageStep(p)
             \/ \E s \in Spaces : SpaceStep(s)
          /\ UNCHANGED loaded
    /\ Bounded'

MSpec == MInit /\ [][MNext]_mvars

-----------------------------------------------------------------------------

\* UpdateAt guards the place of a page: a client whose token is current has seen
\* the space and the parent the page has now, so an unforced move displaces the
\* page from where its caller saw it (store.MovePage: "the CAS baseline guards
\* the page's own identity, parent, and content").
TokenNamesOnePlace ==
    \A c \in Clients :
        LET q == loaded[c] IN
        q # NoLoad /\ q.updateAt = pages[q.page].updateAt =>
            /\ q.spaceId = pages[q.page].spaceId
            /\ q.parentId = pages[q.page].parentId

\* The page hangs where a client with knowledge q saw it.
SeenInPlace(q) == LiveIn(q.page, q.spaceId) /\ pages[q.page].parentId = q.parentId

\* A page that leaves its place by an unforced move leaves the place its mover
\* saw: while it hangs elsewhere, is deleted or is in another space, the mover's
\* token moves it nowhere (MayMove).
UnforcedMoveLeavesItsSeenPlace ==
    [][\A c \in Clients :
           loaded[c] # NoLoad /\ ~ SeenInPlace(loaded[c]) =>
               \A dest \in ParentIds : ~ RequestMove(c, dest, FALSE)]_mvars

=============================================================================
