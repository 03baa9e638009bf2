----------------------------- MODULE PageTreePanel -----------------------------
(***************************************************************************)
(* The page tree panel: rows that are collapsed, focused, moved by keys    *)
(* and by drag and drop, over a store that changes under them              *)
(* (page_tree_panel.tsx, page_tree_node.tsx, dnd/, hooks/page_tree).       *)
(*                                                                         *)
(* The tree is one tab stop.  Focus moves from row to row; a row that the  *)
(* tree loses while it has the focus drops it to the body, and a layout    *)
(* effect takes it back.  A store change and its effects are one step.     *)
(***************************************************************************)
EXTENDS PageRows

CONSTANTS
  Pages,        \* ids of pages, published or not: 1 .. n
  Body, Away,   \* the focus is on the body, on something outside of the tree
  Gestures,     \* what the user does: "focus", "collapse", "keys", "drag", "leave"
  MaxChanges    \* bound on store changes by others

PanelAssumption ==
  /\ RowsAssumption
  /\ Pages \subseteq Nat \ {Root} /\ IsFiniteSet(Pages)
  /\ Gestures \subseteq {"focus", "collapse", "keys", "drag", "leave"}
  /\ MaxChanges \in Nat
  /\ Body \notin Pages /\ Away \notin Pages \cup {Body}

VARIABLES
  tree,        \* the space's pages and its orphan drafts, in the store
  collapsed,   \* the ids the user has collapsed, kept from session to session
  focusedId,   \* the row that owns the tab stop
  focusIndex,  \* its last index among the visible rows
  owns,        \* treeHasFocus
  at,          \* the element that has the focus: a row's, Body or Away
  dropped,     \* the user has dropped the focus to the body himself
  changes

focus == <<focusedId, focusIndex, owns, at, dropped>>
vars == <<tree, collapsed, focus, changes>>

Rows == VisibleRows(tree, collapsed)
Shown == Visible(tree, collapsed)
IndexIn(seq, x) == CHOOSE i \in DOMAIN seq : seq[i] = x

\* The pages in the order of their ids below each place.
TreeOf(place, below) ==
  LET before(p) == {q \in DOMAIN place : place[q] = place[p] /\ q < p}
  IN [pages |-> [p \in DOMAIN place |->
                   [parent |-> place[p], order |-> Cardinality(before(p)) + 1]],
      drafts |-> below]

\* Those with the pages S.
TreesOf(S) ==
  LET parents == Pages \cup {Root}
  IN {TreeOf(place, below) : place \in [S -> parents], below \in [Pages \ S -> parents]}

Trees ==
  {t \in UNION {TreesOf(S) : S \in SUBSET Pages} :
     /\ \A p \in DOMAIN t.pages :
          t.pages[p].parent \in {Root} \cup {q \in DOMAIN t.pages : q < p}
     /\ WithinCap(t)}

Init ==
  /\ tree \in Trees
  /\ collapsed = {}
  /\ focusedId = Root /\ focusIndex = 0
  /\ owns = FALSE /\ at = Away /\ dropped = FALSE
  /\ changes = 0

-----------------------------------------------------------------------------
(* Focus *)

\* Mutant of Heir: the index is not clamped.
HeirUnclamped(rows, id, index) ==
  IF id \in Range(rows) THEN id ELSE IF index \in DOMAIN rows THEN rows[index] ELSE Root

\* The row that inherits the focus: the focused one if it is still there, else
\* the one at its index, else the last.
Heir(rows, id, index) ==
  IF id \in Range(rows) THEN id ELSE rows[Min({index, Len(rows)})]

RowIndex(rows, id, index) == IF id \in Range(rows) THEN IndexIn(rows, id) ELSE index

\* The row is not rendered where it was: its element is another, or none.  (So is
\* that of a row below one that moved, and of a draft that was published; the
\* effect below then gives the new element the focus that the old one had.)
Remounted(id) ==
  \/ id \notin Visible(tree', collapsed')
  \/ ShownParent(tree, id) # ShownParent(tree', id)

\* The effect after the rows or the focused row changed to id, with the focus
\* on element e: focus the tree has lost it takes back.
Effect(rows, id, index, e, has) ==
  LET heir == IF has /\ e = Body /\ id # Root /\ rows # <<>> THEN Heir(rows, id, index) ELSE Root
  IN IF heir # Root
     THEN /\ focusedId' = heir /\ at' = heir
          /\ focusIndex' = IndexIn(rows, heir)
     ELSE /\ focusedId' = id /\ at' = e
          /\ focusIndex' = RowIndex(rows, id, index)

\* The rows changed: focus on a row that is not rendered any more is lost.
Rerender ==
  /\ Effect(Rows', focusedId, RowIndex(Rows, focusedId, focusIndex),
            IF at \in Pages /\ Remounted(at) THEN Body ELSE at, owns)
  /\ dropped' = (dropped /\ at' = Body)
  /\ UNCHANGED owns

\* focusRow, a click on a row, and Tab into the tree.
Focus(id) ==
  /\ focusedId' = id /\ at' = id
  /\ focusIndex' = IndexIn(Rows, id)
  /\ owns' = TRUE /\ dropped' = FALSE
  /\ UNCHANGED <<tree, collapsed, changes>>

ClickRow == "focus" \in Gestures /\ \E id \in Shown : Focus(id)

\* The row that has the tab stop: the focused one, else the routed one, else
\* the first.
TabStops ==
  IF focusedId \in Shown THEN {focusedId} ELSE Shown

TabIn == "focus" \in Gestures /\ at \notin Pages /\ \E id \in TabStops : Focus(id)

\* Focus moves to something outside: the tree gives it up.  From the body it
\* does not notice.
FocusOutside ==
  /\ "focus" \in Gestures /\ at # Away
  /\ at' = Away
  /\ owns' = (owns /\ at = Body)
  /\ dropped' = FALSE
  /\ UNCHANGED <<tree, collapsed, focusedId, focusIndex, changes>>

\* A click on nothing that takes focus: it is just lost, and the tree is told
\* of no new owner.
ClickAway ==
  /\ "leave" \in Gestures /\ at # Body
  /\ at' = Body /\ dropped' = TRUE
  /\ UNCHANGED <<tree, collapsed, focusedId, focusIndex, owns, changes>>

-----------------------------------------------------------------------------
(* Keys *)

HasChildren(id) == Group(tree, id) # {}
Key(id) == "focus" \in Gestures /\ at = id /\ at \in Shown

\* Up, Down, Home, End, Right into an open row, Left to the parent.
StepTargets(id) ==
  LET i == IndexIn(Rows, id)
  IN {Rows[j] : j \in {i - 1, i + 1, 1, Len(Rows)} \cap DOMAIN Rows}
     \cup (IF HasChildren(id) /\ id \notin collapsed THEN {Rows[i + 1]} ELSE {})
     \cup (IF ShownParent(tree, id) # Root /\ ~(HasChildren(id) /\ id \notin collapsed)
           THEN {ShownParent(tree, id)} ELSE {})

KeyStep == at \in Pages /\ Key(at) /\ \E id \in StepTargets(at) : Focus(id)

Collapse(ids, close) ==
  /\ collapsed' = IF close THEN collapsed \cup ids ELSE collapsed \ ids
  /\ UNCHANGED <<tree, changes>>
  /\ Rerender

\* Right opens a closed row, Left closes an open one.
KeyToggle ==
  /\ at \in Pages /\ Key(at) /\ "collapse" \in Gestures
  /\ HasChildren(at)
  /\ Collapse({at}, at \notin collapsed)

\* The chevron, with shift for the whole subtree.
Chevron ==
  /\ "collapse" \in Gestures
  /\ \E id \in Shown :
       /\ HasChildren(id)
       /\ \E ids \in {{id}, {id} \cup Descendants(tree, id)} :
            Collapse(ids, id \notin collapsed)

-----------------------------------------------------------------------------
(* Moves *)

\* onMove: the store moves the page at once (see PageStore for its answer).
Moves(m) ==
  /\ IsMove(m)
  /\ tree' = After(tree, m)
  /\ UNCHANGED <<collapsed, changes>>
  /\ Rerender

\* Alt and an arrow key on the focused row.
KeyMove ==
  /\ "keys" \in Gestures
  /\ at \in Shown
  /\ \E intent \in Intents : Moves(resolveReorder(tree, at, intent))

\* A page is dragged and dropped where a row or a strip takes it.
DropPage ==
  /\ "drag" \in Gestures
  /\ \E source \in DOMAIN tree.pages \cap Shown, drop \in Drops,
        target \in DOMAIN tree.pages \cup {Root} :
       /\ MayDrop(tree, source, target, drop, collapsed)
       /\ Moves(resolveMove(tree, source, target, drop))

-----------------------------------------------------------------------------
(* The store changes: listings arrive, other thunks settle *)

Changed(t) ==
  /\ changes < MaxChanges
  /\ changes' = changes + 1
  /\ tree' = t
  /\ UNCHANGED collapsed
  /\ Rerender

Without(f, S) == [x \in DOMAIN f \ S |-> f[x]]

\* A page is deleted with its subpages (see PageStore), and drafts below it
\* fall back to the roots.
PageLeaves ==
  \E p \in DOMAIN tree.pages :
    Changed([tree EXCEPT !.pages = Without(@, {p} \cup Descendants(tree, p))])

\* A draft is discarded, or published as the last of its group.
DraftLeaves == \E d \in DOMAIN tree.drafts : Changed([tree EXCEPT !.drafts = Without(@, {d})])

DraftPublished ==
  \E d \in DOMAIN tree.drafts :
    LET parent == ShownParent(tree, d)
        last == Cardinality(Pages) + changes + 1
    IN Changed([pages |-> [x \in DOMAIN tree.pages \cup {d} |->
                             IF x = d THEN [parent |-> parent, order |-> last] ELSE tree.pages[x]],
                drafts |-> Without(tree.drafts, {d})])

DraftArrives ==
  \E d \in Pages \ Ids(tree), parent \in DOMAIN tree.pages \cup {Root} :
    /\ parent # Root => Depth(tree, parent) < MaxDepth
    /\ Changed([tree EXCEPT !.drafts = [x \in DOMAIN @ \cup {d} |->
                                          IF x = d THEN parent ELSE @[x]]])

\* A listing shows a page where another user has moved it.
PageMoved ==
  \E p \in DOMAIN tree.pages, parent \in DOMAIN tree.pages \cup {Root} :
    /\ parent # p /\ parent \notin Descendants(tree, p)
    /\ FitsAt([tree EXCEPT !.drafts = <<>>], p, IF parent = Root THEN 0 ELSE Depth(tree, parent) + 1)
    /\ Changed(After(tree, Move(p, parent, 0)))

Next ==
  \/ ClickRow \/ TabIn \/ FocusOutside \/ ClickAway
  \/ KeyStep \/ KeyToggle \/ Chevron
  \/ KeyMove \/ DropPage
  \/ PageLeaves \/ DraftLeaves \/ DraftPublished \/ DraftArrives \/ PageMoved

Spec == Init /\ [][Next]_vars

-----------------------------------------------------------------------------
(* Properties *)

TypeOK ==
  /\ DOMAIN tree.pages \cap DOMAIN tree.drafts = {}
  /\ tree.pages \in [DOMAIN tree.pages -> [parent : Pages \cup {Root}, order : Nat]]
  /\ tree.drafts \in [DOMAIN tree.drafts -> Pages \cup {Root}]
  /\ Ids(tree) \subseteq Pages
  /\ collapsed \subseteq Pages
  /\ focusedId \in Pages \cup {Root} /\ focusIndex \in Nat
  /\ owns \in BOOLEAN /\ dropped \in BOOLEAN /\ at \in Pages \cup {Body, Away}
  /\ at \in Pages => at \in Shown /\ at = focusedId /\ owns

\* Every page and draft has its row, within the depth cap, whatever is moved,
\* dropped, published and deleted (page_tree.ts, keyboard.ts, dnd).
RowsComplete == Complete(tree) /\ WithinCap(tree)

\* While the tree has the focus, no move, collapse or deletion leaves it on the
\* body unless no row is left or the user dropped it (page_tree_panel.tsx, the
\* layout effect).
FocusKept == owns /\ at = Body => dropped \/ Rows = <<>>

\* "It only ever reclaims focus the tree just lost, never steals it"
\* (page_tree_panel.tsx): focus goes from the body to a row in the step that
\* lost it, or by the user.
\* Not kept: after a click outside the tree owns the focus still, and the next
\* store change takes it back.
FocusNotStolen == [][at = Body /\ tree' # tree => at' = Body]_vars

\* A key moves the page one step the way it says, and the opposite key brings
\* the very same tree back (keyboard.ts).
KeysStep ==
  \A id \in DOMAIN tree.pages, intent \in Intents :
    LET m == resolveReorder(tree, id, intent)
    IN IsMove(m) => Steps(tree, After(tree, m), id, intent)

KeysUndo ==
  \A id \in DOMAIN tree.pages, intent \in Intents :
    LET m == resolveReorder(tree, id, intent)
        u == After(tree, m)
        back == resolveReorder(u, id, Opposite[intent])
    IN IsMove(m) /\ (intent = "outdent" => LastPageIn(tree, ShownParent(tree, id)) = id)
         => IsMove(back) /\ Shape(After(u, back)) = Shape(tree)

\* A page dropped lands where the line or the highlight was (use_pages_dnd.ts,
\* "the page would land as this row's sibling", page_tree_node.tsx).
DropsLand ==
  \A source \in DOMAIN tree.pages, target \in DOMAIN tree.pages \cup {Root}, drop \in Drops :
    MayDrop(tree, source, target, drop, collapsed)
      => LandsAt(After(tree, resolveMove(tree, source, target, drop)), source, target, drop)

\* "Alt+arrows perform the same four moves" (page_tree_panel.tsx): what a key
\* does to the rows, some drop on a row or strip in sight does as well.
KeysMatchDrops ==
  \A id \in DOMAIN tree.pages \cap Shown, intent \in Intents :
    LET m == resolveReorder(tree, id, intent)
    IN IsMove(m) => \E target \in DOMAIN tree.pages \cup {Root}, drop \in Drops :
         /\ MayDrop(tree, id, target, drop, collapsed)
         /\ Shape(After(tree, resolveMove(tree, id, target, drop))) = Shape(After(tree, m))

=============================================================================
