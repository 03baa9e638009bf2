------------------------------ MODULE PageStore ------------------------------
(***************************************************************************)
(* The web client's pages: the entity store's two page slices (byId and    *)
(* the per-space index), the thunks that load, move and delete pages, and  *)
(* the tree the panel builds from them, over the server of PageTree.       *)
(*                                                                         *)
(* A call is sent, served and answered in three steps; calls overlap and   *)
(* are answered in any order.  A move is applied before it is sent.  Other *)
(* users write to the server and the client hears nothing of it: the       *)
(* client has no page events, only listings and answers.                   *)
(*                                                                         *)
(* drift says why the tree of a space may differ from the server's; the    *)
(* next listing that nothing overtakes clears it.                          *)
(***************************************************************************)
EXTENDS Naturals, Sequences, FiniteSets, FiniteSetsExt, SequencesExt, Functions

CONSTANTS
  Spaces, Pages, NoPage, NoSpace, Forced, MaxDepth, MaxSiblings,
  LockWait, MaxClock, MaxStamp,     \* of PageTree
  Opened,        \* the spaces whose listing is in at the start
  Title,         \* the rank of each page's title
  MaxInFlight,   \* bound on calls under way
  MaxCalls,      \* bound on calls sent
  MaxFailures,   \* bound on calls that fail on the way there or back
  MaxOthers      \* bound on writes of other users

StoreAssumption ==
  /\ Pages \subseteq Nat \ {0} /\ IsFiniteSet(Pages) /\ NoPage = 0
  /\ Spaces # {} /\ NoSpace \notin Spaces /\ Forced \notin Nat
  /\ MaxDepth \in Nat \ {0} /\ MaxSiblings \in Nat
  /\ LockWait \in Nat /\ MaxClock \in Nat /\ MaxStamp \in Nat
  /\ Opened \subseteq Spaces
  /\ Title \in [Pages -> Nat]
  /\ MaxInFlight \in Nat /\ MaxCalls \in Nat /\ MaxFailures \in Nat /\ MaxOthers \in Nat

VARIABLES
  rows,      \* server: DOCS_Page
  known,     \* client: pages (byId), a function on the pages it holds
  listed,    \* client: pagesInSpace, a function on the spaces with an entry
  calls,     \* calls under way, in the order they were sent
  drift,     \* history: why the tree of each space may be behind
  sent, failures, others   \* bounds

client == <<known, listed>>
bounds == <<sent, failures, others>>
vars == <<rows, known, listed, calls, drift, sent, failures, others>>

Server == INSTANCE PageTree WITH
  clock <- 1, spaces <- [s \in Spaces |-> 0], pages <- rows, archived <- [s \in Spaces |-> {}]

\* What the client keeps of a page.
Entity(r) == [space |-> r.spaceId, parent |-> r.parentId, order |-> r.sortOrder, token |-> r.updateAt]

\* Three kinds of answer.
Waiting == [answer |-> "waiting"]
Failed == [answer |-> "failed"]
Answer(pages) == [answer |-> "ok", pages |-> pages]

Reasons == {"unlisted", "others", "overlap", "promotion", "failure", "stray"}

\* The pages are in one space, each below a page of lower id or at the root, in a
\* tree that the server would have let grow.
Init ==
  /\ \E up \in [Pages -> Pages \cup {NoPage}] :
       /\ \A p \in Pages : up[p] < p
       /\ rows = [p \in Pages |->
            [spaceId |-> CHOOSE s \in Spaces : TRUE, parentId |-> up[p],
             sortOrder |-> Cardinality({q \in Pages : q <= p /\ up[q] = up[p]}),
             createAt |-> p, deleteAt |-> 0, updateAt |-> 1]]
  /\ Server!TreeCapped
  /\ known = [p \in {q \in Pages : rows[q].spaceId \in Opened} |-> Entity(rows[p])]
  /\ listed = [s \in Opened |-> {p \in Pages : rows[p].spaceId = s}]
  /\ calls = << >>
  /\ drift = [s \in Spaces |-> IF s \in Opened THEN {} ELSE {"unlisted"}]
  /\ sent = 0 /\ failures = 0 /\ others = 0

-----------------------------------------------------------------------------
(* The tree shown                                                          *)

\* bySortOrder.
Before(p, q) ==
  \/ known[p].order < known[q].order
  \/ known[p].order = known[q].order /\ Title[p] < Title[q]

Place(p, group) == Cardinality({q \in group \ {p} : Before(q, p)})

\* getPagesForSpace: the index resolved through byId.
Listed(s) == IF s \in DOMAIN listed THEN listed[s] \cap DOMAIN known ELSE {}

\* buildPageTree: a page whose parent is not in the list is a root.
ShownParent(p, s) == IF known[p].parent \in Listed(s) THEN known[p].parent ELSE NoPage

ShownGroup(s, parent) == {p \in Listed(s) : ShownParent(p, s) = parent}

\* The rows reached from the roots: the least set with the roots that is closed
\* under the rows below.
Reached(s) ==
  LET closed(S) == \A p \in Listed(s) : ShownParent(p, s) \in S \cup {NoPage} => p \in S
  IN {p \in Listed(s) : \A S \in SUBSET Listed(s) : closed(S) => p \in S}

ShownRows(s) ==
  {[page |-> p, parent |-> ShownParent(p, s), at |-> Place(p, ShownGroup(s, ShownParent(p, s)))] :
     p \in Reached(s)}

TrueRows(s) ==
  {[page |-> p, parent |-> rows[p].parentId,
    at |-> Server!Place(p, Server!Group(s, rows[p].parentId))] :
     p \in {q \in Pages : Server!LiveIn(q, s)}}

InStep(s) == ShownRows(s) = TrueRows(s)

-----------------------------------------------------------------------------
(* Reducers                                                                *)

\* RECEIVED_PAGES with a spaceId: the space's pages are replaced.
ReceivedListing(s, pages) ==
  /\ known' = [p \in DOMAIN pages \cup {q \in DOMAIN known : known[q].space # s} |->
                 IF p \in DOMAIN pages THEN pages[p] ELSE known[p]]
  /\ listed' = [t \in DOMAIN listed \cup {s} |->
                  IF t = s THEN {p \in DOMAIN pages : pages[p].space = s} ELSE listed[t]]

\* RECEIVED_PAGES without: the page is merged in; its space gets an entry.
ReceivedPage(p, page) ==
  /\ known' = [q \in DOMAIN known \cup {p} |-> IF q = p THEN page ELSE known[q]]
  /\ listed' = [t \in DOMAIN listed \cup {page.space} |->
                  IF t = page.space
                  THEN {p} \cup (IF t \in DOMAIN listed THEN listed[t] ELSE {})
                  ELSE listed[t]]

\* MOVED_PAGE, reindexAfterMove: the destination group is numbered from 1 with
\* the page at the index, the group it leaves keeps its gap.
Reindexed(p, s, parent, index) ==
  LET group == {q \in DOMAIN known \ {p} : known[q].space = s /\ known[q].parent = parent}
      at == Min({index, Cardinality(group)})
      number(q) == IF Place(q, group) < at THEN Place(q, group) + 1 ELSE Place(q, group) + 2
  IN [q \in DOMAIN known |->
        IF q = p THEN [known[p] EXCEPT !.parent = parent, !.order = at + 1]
        ELSE IF q \in group THEN [known[q] EXCEPT !.order = number(q)]
        ELSE known[q]]

\* DELETED_PAGE.
DeletedPage(s, ids) ==
  /\ known' = Restrict(known, DOMAIN known \ ids)
  /\ listed' = IF s \in DOMAIN listed THEN [listed EXCEPT ![s] = @ \ ids] ELSE listed

\* collectSubtreeIds: p and every page below it in the store, in any space, as the
\* least set with p that is closed under them.
Subtree(p) ==
  LET closed(S) == p \in S /\ \A q \in DOMAIN known : known[q].parent \in S => q \in S
  IN {q \in DOMAIN known : \A S \in SUBSET DOMAIN known : closed(S) => q \in S}

-----------------------------------------------------------------------------
(* Thunks: sending                                                         *)

Call(op, s) ==
  [op |-> op, space |-> s, page |-> NoPage, parent |-> NoPage, index |-> 0,
   token |-> 0, ids |-> {}, reply |-> Waiting, fresh |-> FALSE]

Reads == {"list", "page"}

\* A call sent while another is under way may be overtaken, unless both only read.
\* A page moved in the tree of a space it has left is renumbered where it is.
Send(c) ==
  /\ Len(calls) < MaxInFlight /\ sent < MaxCalls
  /\ sent' = sent + 1
  /\ calls' = Append(calls, c)
  /\ LET overlaps == \E i \in DOMAIN calls : ~({calls[i].op, c.op} \subseteq Reads)
         strays(s) == c.op = "move" /\ known[c.page].space = s /\ s # c.space
     IN drift' = [s \in Spaces |-> drift[s] \cup (IF overlaps THEN {"overlap"} ELSE {})
                                           \cup (IF strays(s) THEN {"stray"} ELSE {})]
  /\ UNCHANGED <<rows, failures, others>>

\* loadPages, fetchPages.
FetchPages == \E s \in Spaces : Send(Call("list", s)) /\ UNCHANGED client

\* fetchPage, for a routed page the store does not hold and for its body.
FetchPage ==
  /\ \E s \in Spaces, p \in Pages : Send([Call("page", s) EXCEPT !.page = p])
  /\ UNCHANGED client

\* The panel offers no place within the page's own subtree.
MayDropOn(p, parent) == parent \notin Subtree(p)

\* movePage up to its await.
MovePage ==
  \E s \in Spaces : \E p \in Reached(s), parent \in Reached(s) \cup {NoPage} :
    /\ MayDropOn(p, parent)
    /\ \E index \in 0 .. Cardinality(ShownGroup(s, parent) \ {p}) :
         /\ Send([Call("move", s) EXCEPT !.page = p, !.parent = parent, !.index = index,
                                         !.token = known[p].token])
         /\ known' = Reindexed(p, s, parent, index)
    /\ UNCHANGED listed

\* deletePage up to its await: what will be pruned is read now.
DeletePage ==
  /\ \E s \in Spaces : \E p \in Reached(s) :
       Send([Call("delete", s) EXCEPT !.page = p, !.ids = Subtree(p)])
  /\ UNCHANGED client

-----------------------------------------------------------------------------
(* The server's side of a call                                             *)

\* The answer of call i, and whether the server now differs from what the
\* listings under way have read.
Replied(i, reply, wrote) ==
  calls' = [j \in DOMAIN calls |->
    IF j = i THEN [calls[j] EXCEPT !.reply = reply, !.fresh = ~wrote]
    ELSE IF wrote THEN [calls[j] EXCEPT !.fresh = FALSE] ELSE calls[j]]

CanDelete(c) ==
  /\ Server!LiveIn(c.page, c.space)
  /\ \/ Server!Children(c.page) = {}
     \/ Server!HasRoom(Server!Group(c.space, rows[c.page].parentId) \ {c.page},
                       Cardinality(Server!Children(c.page)))

CanMove(c) ==
  /\ Server!MayMove(c.page, c.space, c.token)
  /\ c.parent = rows[c.page].parentId \/ Server!MayHang(c.page, c.parent, c.space)
  /\ Server!HasRoom(Server!Group(c.space, c.parent) \cup {c.page}, 0)

ServeRead(i) ==
  LET c == calls[i]
      live == {p \in Pages : Server!LiveIn(p, c.space)}
      wanted == IF c.op = "list" THEN live ELSE live \cap {c.page}
  IN /\ c.op \in Reads
     /\ Replied(i, IF c.op = "page" /\ wanted = {} THEN Failed
                   ELSE Answer([p \in wanted |-> Entity(rows[p])]), FALSE)
     /\ UNCHANGED <<rows, drift>>

ServeMove(i) ==
  LET c == calls[i]
  IN /\ c.op = "move"
     /\ IF CanMove(c)
        THEN /\ rows' = Server!PagesAfterReindex(c.page, c.space, c.parent, c.index)
             /\ Replied(i, Answer([p \in {c.page} |-> Entity(rows'[p])]), TRUE)
        ELSE rows' = rows /\ Replied(i, Failed, FALSE)
     /\ UNCHANGED drift

\* The server promotes the children of a deleted page.
ServeDelete(i) ==
  LET c == calls[i]
  IN /\ c.op = "delete"
     /\ IF CanDelete(c)
        THEN /\ Server!DeletePage(c.page, 1)
             /\ Replied(i, Answer(<< >>), TRUE)
             /\ drift' = IF Server!Children(c.page) = {} THEN drift
                         ELSE [drift EXCEPT ![c.space] = @ \cup {"promotion"}]
        ELSE rows' = rows /\ Replied(i, Failed, FALSE) /\ UNCHANGED drift

Serve ==
  /\ \E i \in DOMAIN calls :
       /\ calls[i].reply = Waiting
       /\ ServeRead(i) \/ ServeMove(i) \/ ServeDelete(i)
  /\ UNCHANGED <<client, bounds>>

\* A call fails before it reaches the server, or its answer is lost.  A failed
\* move drifts no further than the listing that follows it.
Fail ==
  /\ failures < MaxFailures /\ failures' = failures + 1
  /\ \E i \in DOMAIN calls :
       /\ calls[i].reply # Failed
       /\ calls' = [calls EXCEPT ![i].reply = Failed]
       /\ drift' = IF calls[i].op = "move" THEN drift
                   ELSE [drift EXCEPT ![calls[i].space] = @ \cup {"failure"}]
  /\ UNCHANGED <<rows, client, sent, others>>

-----------------------------------------------------------------------------
(* Thunks: the answer                                                      *)

\* A listing that nothing overtook shows the space as it is.
Listing(c, rest) ==
  /\ ReceivedListing(c.space, c.reply.pages)
  /\ drift' = IF c.fresh /\ rest = << >> THEN [drift EXCEPT ![c.space] = {}] ELSE drift
  /\ calls' = rest

Merged(c, rest) ==
  /\ ReceivedPage(c.page, c.reply.pages[c.page])
  /\ calls' = rest /\ UNCHANGED drift

Pruned(c, rest) ==
  /\ DeletedPage(c.space, c.ids)
  /\ calls' = rest /\ UNCHANGED drift

\* Mutant of Refused: the failure of a move is only reported.
RefusedQuietly(c, rest) == calls' = rest /\ UNCHANGED <<client, drift>>

\* A failed move lists the space again; any other failure is reported and leaves
\* the store alone.
Refused(c, rest) ==
  /\ calls' = IF c.op = "move" THEN Append(rest, Call("list", c.space)) ELSE rest
  /\ UNCHANGED <<client, drift>>

Receive ==
  /\ \E i \in DOMAIN calls :
       LET c == calls[i] rest == RemoveAt(calls, i)
       IN \/ c.reply = Failed /\ Refused(c, rest)
          \/ c.reply.answer = "ok" /\ c.op = "list" /\ Listing(c, rest)
          \/ c.reply.answer = "ok" /\ c.op \in {"page", "move"} /\ Merged(c, rest)
          \/ c.reply.answer = "ok" /\ c.op = "delete" /\ Pruned(c, rest)
  /\ UNCHANGED <<rows, bounds>>

-----------------------------------------------------------------------------
(* Other users                                                             *)

Other(touched) ==
  /\ others < MaxOthers /\ others' = others + 1
  /\ calls' = [i \in DOMAIN calls |-> [calls[i] EXCEPT !.fresh = FALSE]]
  /\ drift' = [s \in Spaces |-> IF s \in touched THEN drift[s] \cup {"others"} ELSE drift[s]]
  /\ UNCHANGED <<client, sent, failures>>

OtherMoves ==
  \E s \in Spaces, p \in Pages, dest \in Pages \cup {NoPage} :
    Server!MovePageToIndex(p, s, dest, Forced) /\ Other({s})

OtherRelocates ==
  \E s, t \in Spaces, p \in Pages, dest \in Pages \cup {NoPage} :
    Server!MovePageToSpace(p, s, t, dest, Forced) /\ Other({s, t})

OtherDeletes ==
  \E p \in Pages : Server!DeletePage(p, 1) /\ Other({rows[p].spaceId})

OtherEdits ==
  \E p \in Pages : Server!EditPage(p) /\ Other({rows[p].spaceId})

Next ==
  \/ FetchPages \/ FetchPage \/ MovePage \/ DeletePage
  \/ Serve \/ Fail \/ Receive
  \/ OtherMoves \/ OtherRelocates \/ OtherDeletes \/ OtherEdits

Spec == Init /\ [][Next]_vars

-----------------------------------------------------------------------------
(* Properties                                                              *)

EntityType == [space : Spaces, parent : Pages \cup {NoPage}, order : Nat, token : Nat]

IsReply(r) ==
  \/ r \in {Waiting, Failed}
  \/ /\ r = Answer(r.pages) /\ DOMAIN r.pages \subseteq Pages
     /\ r.pages \in [DOMAIN r.pages -> EntityType]

IsCall(c) ==
  /\ c \in [op : Reads \cup {"move", "delete"}, space : Spaces, page : Pages \cup {NoPage},
            parent : Pages \cup {NoPage}, index : Nat, token : Nat, ids : SUBSET Pages,
            reply : {c.reply}, fresh : BOOLEAN]
  /\ IsReply(c.reply)

TypeOK ==
  /\ rows \in [Pages -> Server!Row]
  /\ DOMAIN known \subseteq Pages /\ known \in [DOMAIN known -> EntityType]
  /\ DOMAIN listed \subseteq Spaces /\ listed \in [DOMAIN listed -> SUBSET Pages]
  /\ calls \in Seq(Range(calls)) /\ \A c \in Range(calls) : IsCall(c)
  /\ drift \in [Spaces -> SUBSET Reasons]
  /\ {sent, failures, others} \subseteq Nat

\* With nothing under way the tree of a space is the server's, unless another
\* user wrote, a listing, a fetch or a delete failed, calls overlapped or a delete
\* promoted subpages since its last listing: the optimistic renumbering, the merge
\* of a move's answer and the pruning of a delete leave what the server has
\* (entities.ts), and a refused move "restores server truth" (actions.test.ts).
Agrees(excused) ==
  \A s \in DOMAIN listed :
    calls = << >> /\ drift[s] \cap excused = {} => InStep(s)

TreeFollowsTheServer == Agrees(Reasons)

\* Two moves under way leave the server's order (entities.ts: "whatever this
\* function writes has to survive that merge sitting next to it").
\* Not kept: the answer of the first move is merged next to the renumbering of
\* the second.
OverlappingMovesAgree == Agrees(Reasons \ {"overlap"})

\* "Deleting a page deletes its subpages on the server, so the store prunes the
\* same set" (entities.ts).
\* Not kept: the server promotes the subpages that the client prunes.
DeletePrunesWhatTheServerDeletes == Agrees(Reasons \ {"promotion"})

\* "so nothing is silently dropped" (page_tree.ts): every page of the list has a
\* row.
\* Not kept: one page of a pair that another user swapped is fetched again, and
\* each names the other as its parent.
NothingDropped == \A s \in Spaces : Reached(s) = Listed(s)

\* "resolving by id alone would render it inside the wrong space" (selectors.ts):
\* the tree of a space shows pages of that space.
\* Not kept: a page moved to another space is fetched there, and the index of the
\* old space still resolves to it.
RowsBelongToTheSpace == \A s \in Spaces : \A p \in Reached(s) : known[p].space = s

\* Every page of the list has a row while no other user writes and no call fails
\* or overtakes another, moves under way included.
OwnMovesDropNothing == \A s \in Spaces : drift[s] = {} => Reached(s) = Listed(s)
=============================================================================
