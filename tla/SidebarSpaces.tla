--------------------------- MODULE SidebarSpaces ---------------------------
(***************************************************************************)
(* The spaces sidebar: two categories, Favorites and Spaces, composed from *)
(* the spaces the store holds, the user's favorites and the order stored   *)
(* for the team, both of them user preferences.  A space is shown under    *)
(* Favorites when it is favorited or holds a favorited page that is        *)
(* loaded.  Dragging a row writes the order and may flip the favorite; a   *)
(* drag carries the category its row had when it began.                    *)
(***************************************************************************)
EXTENDS Naturals, Integers, SequencesExt

CONSTANTS
  Spaces, Pages, SpaceOf,
  Natural,       \* the spaces by sort_order and title: a sequence
  Budget,        \* keys a stored order may hold
  None,          \* nothing is dragged
  PageFavorites, \* pages are favorited
  Loads,         \* lists arrive, and the page is loaded anew
  Singles,       \* spaces come and go one by one
  Meanwhile      \* another session toggles a favorite during a drag

SidebarAssumption ==
  /\ SpaceOf \in [Pages -> Spaces] /\ None \notin Spaces
  /\ ToSet(Natural) = Spaces /\ Len(Natural) = Cardinality(Spaces)
  /\ Budget \in Nat /\ {PageFavorites, Loads, Singles, Meanwhile} \subseteq BOOLEAN

VARIABLES
  favs,      \* the favorite preferences in the order they were made
  order,     \* the stored SidebarOrder
  loaded,    \* the team's spaces in the store
  known,     \* the pages in the store
  collapsed, \* the Favorites category is closed
  drag,      \* [space, from] or None
  dropped    \* history: the drop just made, or None: [space, target, edge] and
             \* the other rows before it, those of them that had a stored place

store == <<favs, order, loaded, known>>
vars == <<store, collapsed, drag, dropped>>

Categories == {"favorites", "spaces"}
Edges == {"top", "bottom"}

Init ==
  /\ favs = <<>>
  /\ order = [c \in Categories |-> <<>>]
  /\ IF Loads THEN loaded = {} /\ known = {} ELSE loaded = Spaces /\ known = Pages
  /\ collapsed = FALSE
  /\ drag = None /\ dropped = None

-----------------------------------------------------------------------------
(* What is shown *)

\* indexOf: from 0, and -1 for what is not there.
IndexOf(seq, x) == IF Contains(seq, x) THEN (CHOOSE i \in DOMAIN seq : seq[i] = x) - 1 ELSE -1

Only(seq, S) == SelectSeq(seq, LAMBDA x : x \in S)

\* applyStoredOrder: a stable sort, what the order has not seen comes last.
Sorted(ids, stored) ==
  LET seen == SelectSeq(stored, LAMBDA x : x \in ToSet(ids))
  IN seen \o SelectSeq(ids, LAMBDA x : x \notin ToSet(seen))

\* The sequence with later repetitions left out.
Distinct(seq) ==
  LET firsts == SelectSeq([i \in DOMAIN seq |-> i], LAMBDA i : \A j \in 1..i-1 : seq[j] # seq[i])
  IN [k \in DOMAIN firsts |-> seq[firsts[k]]]

\* getDocsFavoriteSpaceIds: favorited outright, then by a page of theirs.
FavoriteIds(ps) ==
  LET byPage == Only(favs, ps)
  IN Distinct(Only(favs, Spaces) \o [i \in DOMAIN byPage |-> SpaceOf[byPage[i]]])

\* The Favorites category with the spaces ss and pages ps in the store ...
Favorites(ss, ps) == Sorted(Only(FavoriteIds(ps), ss), order["favorites"])

\* ... and the Spaces category.
Rest(ss, ps) == Sorted(Only(Natural, ss \ ToSet(Favorites(ss, ps))), order["spaces"])

ShownIn(c, ss, ps) == IF c = "favorites" THEN Favorites(ss, ps) ELSE Rest(ss, ps)
Shown(c) == ShownIn(c, loaded, known)

\* All rows but one, once everything is loaded.
OtherRows(s) == [c \in Categories |-> Only(ShownIn(c, Spaces, Pages), Spaces \ {s})]

\* The rows on screen.
Rows(c) == IF c = "favorites" /\ collapsed THEN <<>> ELSE Shown(c)

-----------------------------------------------------------------------------
(* Favorites and orders *)

\* useToggleFavorite reads the membership from the store when it is called.
Toggled(id) == IF Contains(favs, id) THEN Remove(favs, id) ELSE Append(favs, id)

\* One key less, from the tail of the longer list.
Shorter(o) ==
  IF Len(o["spaces"]) >= Len(o["favorites"])
  THEN [o EXCEPT !["spaces"] = Front(@)]
  ELSE [o EXCEPT !["favorites"] = Front(@)]

\* serializeSidebarOrder: keys are dropped until the rest fits.
Trimmed(o) ==
  LET over == Len(o["favorites"]) + Len(o["spaces"]) - Budget
      cut[n \in Nat] == IF n = 0 THEN o ELSE Shorter(cut[n - 1])
  IN cut[IF over > 0 THEN over ELSE 0]

Clamped(index, list) == IF index < 0 THEN 0 ELSE IF index > Len(list) THEN Len(list) ELSE index

\* moveBetween on the lists shown.
MoveBetween(s, to, index) ==
  LET without == [c \in Categories |-> Remove(Shown(c), s)]
  IN [without EXCEPT ![to] = InsertAt(@, Clamped(index, @) + 1, s)]

\* applyMove: a move to the other category flips the favorite.
ApplyMove(s, from, to, index) ==
  /\ order' = Trimmed(MoveBetween(s, to, index))
  /\ favs' = IF from # to THEN Toggled(s) ELSE favs

\* Mutant of GetDropIndex: the row's own removal is not counted.
GetDropIndexPlain(source, target, edge) == IF edge = "top" THEN target ELSE target + 1

GetDropIndex(source, target, edge) ==
  (IF edge = "top" THEN target ELSE target + 1) - (IF source < target THEN 1 ELSE 0)

-----------------------------------------------------------------------------
(* Actions *)

\* The star of a space's header or of its row's menu; a page's menu.
Toggle(id) ==
  /\ drag # None => Meanwhile
  /\ id \in Pages => PageFavorites /\ id \in known
  /\ id \in Spaces => id \in loaded
  /\ favs' = Toggled(id) /\ dropped' = None
  /\ UNCHANGED <<order, loaded, known, collapsed, drag>>

ToggleCollapsed ==
  /\ drag = None
  /\ collapsed' = ~collapsed /\ dropped' = None
  /\ UNCHANGED <<store, drag>>

DragStart(s, c) ==
  /\ drag = None
  /\ Contains(Rows(c), s)
  /\ drag' = [space |-> s, from |-> c] /\ dropped' = None
  /\ UNCHANGED <<store, collapsed>>

Dropped(target, edge) ==
  /\ drag' = None
  /\ dropped' = [space |-> drag.space, target |-> target, edge |-> edge,
                 before |-> OtherRows(drag.space),
                 placed |-> ToSet(order["favorites"] \o order["spaces"]) \ {drag.space}]
  /\ UNCHANGED <<loaded, known, collapsed>>

\* On another space's row.
DropOn(t, edge) ==
  /\ drag # None
  /\ drag.space # t
  /\ \E to \in Categories :
       /\ Contains(Rows(to), t)
       /\ LET target == IndexOf(Shown(to), t)
          IN ApplyMove(drag.space, drag.from, to,
               IF drag.from = to THEN GetDropIndex(IndexOf(Shown(to), drag.space), target, edge)
               ELSE IF edge = "bottom" THEN target + 1 ELSE target)
  /\ Dropped(t, edge)

\* On the hint an empty Favorites category shows.
DropOnFavorites ==
  /\ drag # None
  /\ drag.from # "favorites"
  /\ ~collapsed /\ Shown("favorites") = <<>>
  /\ ApplyMove(drag.space, drag.from, "favorites", 0)
  /\ Dropped(None, "top")

DropNowhere ==
  /\ drag # None
  /\ drag' = None /\ dropped' = None
  /\ UNCHANGED <<store, collapsed>>

SpacesAre(ss) ==
  /\ ss # loaded
  /\ loaded' = ss /\ dropped' = None
  /\ UNCHANGED <<favs, order, known, collapsed, drag>>

ListingArrives == Loads /\ SpacesAre(Spaces)

\* A single fetch, a space created, left or archived.
SpaceComes(s) == Singles /\ SpacesAre(loaded \cup {s})
SpaceGoes(s) == Singles /\ SpacesAre(loaded \ {s})

\* A space's pages are fetched when it is visited.
PagesArrive(s) ==
  /\ Loads /\ s \in loaded
  /\ known' = known \cup {p \in Pages : SpaceOf[p] = s} /\ dropped' = None
  /\ UNCHANGED <<favs, order, loaded, collapsed, drag>>

\* The browser's reload: the preferences are the server's.
Reload ==
  /\ Loads
  /\ loaded' = {} /\ known' = {} /\ collapsed' = FALSE
  /\ drag' = None /\ dropped' = None
  /\ UNCHANGED <<favs, order>>

Drop == (\E t \in Spaces, edge \in Edges : DropOn(t, edge)) \/ DropOnFavorites

Next ==
  \/ \E id \in Spaces \cup Pages : Toggle(id)
  \/ ToggleCollapsed
  \/ \E s \in Spaces, c \in Categories : DragStart(s, c)
  \/ Drop \/ DropNowhere
  \/ ListingArrives \/ Reload
  \/ \E s \in Spaces : SpaceComes(s) \/ SpaceGoes(s) \/ PagesArrive(s)

Spec == Init /\ [][Next]_vars

-----------------------------------------------------------------------------
(* Properties *)

TypeOK ==
  /\ ToSet(favs) \subseteq Spaces \cup Pages /\ IsInjective(favs)
  /\ DOMAIN order = Categories
  /\ LET keys == order["favorites"] \o order["spaces"]
     IN ToSet(keys) \subseteq Spaces /\ IsInjective(keys) /\ Len(keys) <= Budget
  /\ loaded \subseteq Spaces /\ known \subseteq Pages
  /\ collapsed \in BOOLEAN
  /\ drag # None => drag.space \in Spaces /\ drag.from \in Categories
  /\ dropped # None =>
       dropped.space \in Spaces /\ dropped.target \in Spaces \cup {None} /\ dropped.edge \in Edges

\* "a stale entry can't hide a space, and a newly created one still appears"
\* (use_sidebar_spaces.ts): every space of the team has one row, whatever the
\* stored order and the favorites name.
EachSpaceOnce ==
  LET rows == Shown("favorites") \o Shown("spaces")
  IN ToSet(rows) = loaded /\ IsInjective(rows)

\* "favoriting is a move between categories" (use_sidebar_spaces.ts): a drop
\* beside a row leaves the dragged row beside it, on the side that was shown.
Beside(s, t, edge) ==
  \E c \in Categories :
    /\ Contains(Shown(c), s) /\ Contains(Shown(c), t)
    /\ IndexOf(Shown(c), s) = IndexOf(Shown(c), t) + (IF edge = "top" THEN -1 ELSE 1)
DropsLand ==
  dropped # None => (dropped.target # None => Beside(dropped.space, dropped.target, dropped.edge))

\* A drop moves the row dragged: the others keep the order they have once
\* everything is loaded.
OthersKeepTheirOrder == dropped # None => OtherRows(dropped.space) = dropped.before

\* "the ordering survives navigation and reloads" (spaces_sidebar.tsx): of the
\* rows that were given a place, only the one dragged loses it.
\* Not kept: a move made before every list is in writes an order without the rest.
ArrangedOrderSurvives ==
  dropped # None =>
    \A c \in Categories :
      Only(OtherRows(dropped.space)[c], dropped.placed) = Only(dropped.before[c], dropped.placed)
=============================================================================
