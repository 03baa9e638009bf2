-------------------------------- MODULE PageRows --------------------------------
(***************************************************************************)
(* The rows of the page tree and the moves made on them: buildPageTree,    *)
(* flattenVisibleRows, resolveReorder (Alt and an arrow key), resolveMove  *)
(* and the drop targets (drag and drop), buildSubtreeHeightMap and         *)
(* reindexAfterMove, as operators on one tree.                             *)
(*                                                                         *)
(* A tree is [pages, drafts]: the place each published page is stored in   *)
(* and the parent of each draft that has no page.  Titles and creation     *)
(* times sort as the ids do.                                               *)
(***************************************************************************)
EXTENDS Integers, FiniteSets, SequencesExt

CONSTANTS
  Root,      \* '' as a parent
  MaxDepth   \* MAX_PAGE_DEPTH

RowsAssumption == Root = 0 /\ MaxDepth \in Nat

-----------------------------------------------------------------------------
(* The tree *)

Ids(t) == DOMAIN t.pages \cup DOMAIN t.drafts

\* A row whose parent is no page of the tree is a root.
ShownParent(t, id) ==
  LET parent == IF id \in DOMAIN t.pages THEN t.pages[id].parent ELSE t.drafts[id]
  IN IF parent \in DOMAIN t.pages THEN parent ELSE Root

\* bySortOrder and byCreateAt: the published pages, then the drafts.
Before(t, p, q) ==
  LET page(x) == x \in DOMAIN t.pages
  IN CASE page(p) /\ page(q) -> t.pages[p].order < t.pages[q].order
       [] page(p) # page(q) -> page(p)
       [] OTHER -> p < q

Group(t, parent) == {id \in Ids(t) : ShownParent(t, id) = parent}
PublishedIn(t, parent) == Group(t, parent) \cap DOMAIN t.pages
Siblings(t, id) == Group(t, ShownParent(t, id))

\* The index of a row in its group, from 0, and the row at an index.
IndexOf(t, id) == Cardinality({q \in Siblings(t, id) : Before(t, q, id)})
SiblingAt(t, id, index) == CHOOSE q \in Siblings(t, id) : IndexOf(t, q) = index
LastPageIn(t, parent) ==
  CHOOSE p \in PublishedIn(t, parent) : \A q \in PublishedIn(t, parent) : ~Before(t, p, q)

Depth(t, id) ==
  LET depth[x \in Ids(t)] ==
        IF ShownParent(t, x) = Root THEN 0 ELSE depth[ShownParent(t, x)] + 1
  IN depth[id]

Height(t, id) ==
  LET height[x \in Ids(t)] == Max({0} \cup {height[c] + 1 : c \in Group(t, x)})
  IN height[id]

Descendants(t, id) ==
  LET below[x \in Ids(t)] == Group(t, x) \cup UNION {below[c] : c \in Group(t, x)}
  IN below[id]

\* A row shows unless a row above it is collapsed.
Shows(t, id, collapsed) ==
  LET shows[x \in Ids(t)] ==
        LET parent == ShownParent(t, x)
        IN parent # Root => parent \notin collapsed /\ shows[parent]
  IN shows[id]

Visible(t, collapsed) == {id \in Ids(t) : Shows(t, id, collapsed)}

\* Row p is above row q.
Above(t, p, q) ==
  LET above[e \in Ids(t) \X Ids(t)] ==
        LET xp == ShownParent(t, e[1])
            yp == ShownParent(t, e[2])
        IN IF xp = yp THEN Before(t, e[1], e[2])
           ELSE IF Depth(t, e[1]) < Depth(t, e[2]) THEN e[1] = yp \/ above[<<e[1], yp>>]
           ELSE above[<<xp, e[2]>>]
  IN above[<<p, q>>]

\* The rows from top to bottom.
VisibleRows(t, collapsed) ==
  LET shown == Visible(t, collapsed)
      line == [id \in shown |-> Cardinality({q \in shown : Above(t, q, id)}) + 1]
  IN [i \in 1 .. Cardinality(shown) |-> CHOOSE id \in shown : line[id] = i]

-----------------------------------------------------------------------------
(* Moves: the page, its new parent, its index in the group without it *)

Move(page, parent, index) == [page |-> page, parent |-> parent, index |-> index]
Blocked(why) == [blocked |-> why]
IsMove(m) == "page" \in DOMAIN m

ReorderUp(t, id, index) ==
  IF index = 0 THEN Blocked("boundary") ELSE Move(id, ShownParent(t, id), index - 1)

LastPublished(t, id) == Cardinality(PublishedIn(t, ShownParent(t, id))) - 1

ReorderDown(t, id, index) ==
  IF index = LastPublished(t, id) THEN Blocked("boundary")
  ELSE Move(id, ShownParent(t, id), index + 1)

FitsAt(t, id, depth) == depth + Height(t, id) <= MaxDepth

\* A page sorts after no draft, so the row before it is a page.
ReorderIndent(t, id, index) ==
  IF index = 0 THEN Blocked("boundary")
  ELSE LET parent == SiblingAt(t, id, index - 1)
       IN IF FitsAt(t, id, Depth(t, parent) + 1)
          THEN Move(id, parent, Cardinality(PublishedIn(t, parent)))
          ELSE Blocked("depth")

ReorderOutdent(t, id) ==
  LET parent == ShownParent(t, id)
  IN IF parent = Root THEN Blocked("boundary")
     ELSE Move(id, ShownParent(t, parent), IndexOf(t, parent) + 1)

Intents == {"up", "down", "indent", "outdent"}

\* An unpublished page is not moved.
resolveReorder(t, id, intent) ==
  IF id \notin DOMAIN t.pages THEN Blocked("boundary")
  ELSE LET index == IndexOf(t, id)
       IN CASE intent = "up"      -> ReorderUp(t, id, index)
            [] intent = "down"    -> ReorderDown(t, id, index)
            [] intent = "indent"  -> ReorderIndent(t, id, index)
            [] intent = "outdent" -> ReorderOutdent(t, id)

\* The drag resolver's groups are those of the stored parents.
Stored(t, parent, source) == {p \in DOMAIN t.pages \ {source} : t.pages[p].parent = parent}
StoredIndex(t, target, source) ==
  Cardinality({p \in Stored(t, t.pages[target].parent, source) : Before(t, p, target)})

Drops == {"top", "bottom", "reparent", "append"}

\* Mutant of EdgeIndex: the page takes the target's index on either edge.
EdgeIndexTop(t, source, target, drop) == StoredIndex(t, target, source)
EdgeIndex(t, source, target, drop) ==
  StoredIndex(t, target, source) + (IF drop = "bottom" THEN 1 ELSE 0)

\* A drop on a row's middle or on a group's strip appends to the group, a drop
\* on an edge makes the page the row's sibling.
resolveMove(t, source, target, drop) ==
  IF drop \in {"reparent", "append"}
  THEN Move(source, target, Cardinality(Stored(t, target, source)))
  ELSE Move(source, t.pages[target].parent, EdgeIndex(t, source, target, drop))

Expanded(t, id, collapsed) == Group(t, id) # {} /\ id \notin collapsed

\* A row takes a page unless it is the page or below it, or the page would get
\* too deep; an expanded row offers no bottom edge.
RowTakes(t, source, target, drop, collapsed) ==
  /\ target \in DOMAIN t.pages \ {source} /\ Shows(t, target, collapsed)
  /\ target \notin Descendants(t, source)
  /\ drop = "bottom" => ~Expanded(t, target, collapsed)
  /\ FitsAt(t, source, Depth(t, target) + (IF drop = "reparent" THEN 1 ELSE 0))

\* An open group has a strip if its last page is expanded.
StripIn(t, parent, collapsed) ==
  /\ PublishedIn(t, parent) # {} /\ Expanded(t, LastPageIn(t, parent), collapsed)
  /\ parent # Root => parent \notin collapsed /\ Shows(t, parent, collapsed)

StripTakes(t, source, parent, collapsed) ==
  /\ StripIn(t, parent, collapsed)
  /\ parent # source /\ parent \notin Descendants(t, source)
  /\ FitsAt(t, source, IF parent = Root THEN 0 ELSE Depth(t, parent) + 1)

MayDrop(t, source, target, drop, collapsed) ==
  IF drop = "append" THEN StripTakes(t, source, target, collapsed)
  ELSE RowTakes(t, source, target, drop, collapsed)

\* reindexAfterMove: the orders of the group with the page at its index.
Inserted(t, m) ==
  LET others == Stored(t, m.parent, m.page)
      at == Min({m.index, Cardinality(others)})
      place(p) == Cardinality({q \in others : Before(t, q, p)})
  IN [p \in others \cup {m.page} |->
        IF p = m.page THEN at + 1 ELSE IF place(p) < at THEN place(p) + 1 ELSE place(p) + 2]

\* The group it leaves keeps its gap, which no reader sees: it is closed here.
After(t, m) ==
  LET order == Inserted(t, m)
      left == Stored(t, t.pages[m.page].parent, m.page)
  IN [t EXCEPT !.pages = [p \in DOMAIN t.pages |->
        CASE p \in DOMAIN order -> [parent |-> m.parent, order |-> order[p]]
          [] p \in left \ DOMAIN order ->
               [t.pages[p] EXCEPT !.order = Cardinality({q \in left : Before(t, q, p)}) + 1]
          [] OTHER -> t.pages[p]]]

-----------------------------------------------------------------------------
(* What they promise *)

\* The rows as a reader sees them: each with its parent and its index.
Shape(t) == [id \in Ids(t) |-> <<ShownParent(t, id), IndexOf(t, id)>>]

\* Every row is reached from the root, within the cap.
Complete(t) == \A id \in Ids(t) : id = Root \/ id \notin Descendants(t, id)
WithinCap(t) == \A id \in Ids(t) : Depth(t, id) <= MaxDepth

NextTo(t, p, q) == ShownParent(t, p) = ShownParent(t, q) /\ IndexOf(t, q) = IndexOf(t, p) + 1
LastIn(t, id, parent) == ShownParent(t, id) = parent /\ LastPageIn(t, parent) = id

\* Where the line or the highlight says the page will be.
LandsAt(t, source, target, drop) ==
  CASE drop = "top" -> NextTo(t, source, target)
    [] drop = "bottom" -> NextTo(t, target, source)
    [] OTHER -> LastIn(t, source, target)

\* One step in the direction asked for.
Steps(t, u, id, intent) ==
  CASE intent = "up" -> NextTo(u, id, SiblingAt(t, id, IndexOf(t, id) - 1))
    [] intent = "down" -> NextTo(u, SiblingAt(t, id, IndexOf(t, id) + 1), id)
    [] intent = "indent" -> LastIn(u, id, SiblingAt(t, id, IndexOf(t, id) - 1))
    [] intent = "outdent" -> NextTo(u, ShownParent(t, id), id)

Opposite == [up |-> "down", down |-> "up", indent |-> "outdent", outdent |-> "indent"]

=============================================================================
