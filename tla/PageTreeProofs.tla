--------------------------- MODULE PageTreeProofs ---------------------------
(***************************************************************************)
(* Proofs about PageTree, for every set of spaces, every finite set of      *)
(* pages and every limit: lemmas about its operators and its rows, the type *)
(* invariant, and the shape of the trees: live pages hang under live pages  *)
(* of their space, without cycles, and a restored space has the tree it was *)
(* deleted with.  Then the order of siblings, and the caps on the size of a *)
(* group and on the depth of a tree.  Last, about PageMoves: what the token *)
(* of a client says of the place of a page, for every number of clients.    *)
(*                                                                          *)
(* The inductions are on the pages a space would show if it were live: the  *)
(* shape holds in a deleted space as well, where no action looks, so that   *)
(* it still holds when the space is restored.                               *)
(***************************************************************************)
EXTENDS PageMoves, FiniteSetTheorems, WellFoundedInduction, TLAPS

(* A finite set of integers that is not empty has a maximum.  A least subset *)
(* without one would have one after all, that of the subset less an element.  *)
LEMMA MaxIsMaximum ==
    ASSUME NEW S, IsFiniteSet(S), S \subseteq Int, S # {}
    PROVE  Max(S) \in S /\ \A y \in S : Max(S) >= y
  <1> DEFINE HasMax(T) == \E x \in T : \A y \in T : x >= y
             bad == {T \in SUBSET S : T # {} /\ ~ HasMax(T)}
  <1>1. bad = {}
    <2> SUFFICES ASSUME bad # {} PROVE FALSE
      OBVIOUS
    <2>1. IsWellFoundedOn(StrictSubsetOrdering(S), FiniteSubsetsOf(S))
      BY FS_StrictSubsetOrderingWellFounded
    <2>2. bad \subseteq FiniteSubsetsOf(S)
      BY FS_Subset DEF FiniteSubsetsOf
    <2>3. \E T \in bad : \A U \in bad : <<U, T>> \notin StrictSubsetOrdering(S)
      <3> HIDE DEF bad
      <3> QED
        BY <2>1, <2>2, WFMin
    <2>4. PICK T \in bad : \A U \in bad : <<U, T>> \notin StrictSubsetOrdering(S)
      BY <2>3
    <2>5. PICK x \in T : TRUE
      OBVIOUS
    <2>6. CASE T \ {x} = {}
      <3>1. T = {x} /\ x >= x
        BY <2>6
      <3> QED
        BY <3>1
    <2>7. CASE T \ {x} # {}
      <3>1. <<T \ {x}, T>> \in StrictSubsetOrdering(S)
        BY DEF StrictSubsetOrdering
      <3>2. HasMax(T \ {x})
        BY <2>4, <2>7, <3>1
      <3>3. PICK m \in T \ {x} : \A y \in T \ {x} : m >= y
        BY <3>2
      <3>4. HasMax(T)
        <4>1. CASE m >= x
          BY <3>3, <4>1
        <4>2. CASE x > m
          BY <3>3, <4>2
        <4> QED
          BY <4>1, <4>2
      <3> QED
        BY <3>4
    <2> QED
      BY <2>6, <2>7
  <1>2. HasMax(S)
    BY <1>1
  <1> QED
    BY <1>2 DEF Max

(* The values a function takes on a finite set are finitely many. *)
LEMMA FiniteRange ==
    ASSUME NEW S, IsFiniteSet(S), NEW f
    PROVE  IsFiniteSet({f[x] : x \in S})
  <1> DEFINE T == {f[x] : x \in S}
             g == [x \in S |-> f[x]]
  <1>1. g \in Surjection(S, T)
    BY DEF Surjection
  <1> QED
    BY <1>1, FS_Surjection

LEMMA PagesFinite ==
    ASSUME NEW S \in SUBSET Pages
    PROVE  IsFiniteSet(S) /\ Cardinality(S) \in Nat
  BY FiniteAssumption, FS_Subset, FS_CardinalityType

(* nextMonotonic and monotonicBump move a token past its old value. *)
LEMMA NextMonotonicGrows ==
    ASSUME NEW now \in Nat, NEW prev \in Nat
    PROVE  NextMonotonic(now, prev) \in Nat /\ NextMonotonic(now, prev) > prev
  BY DEF NextMonotonic

(* The clock values a transaction may stamp are positive. *)
LEMMA ClockReadsPositive ==
    ASSUME clock \in Nat \ {0}
    PROVE  ClockReads \subseteq Nat \ {0}
  BY DEF ClockReads, StaleReads

(* A page is appended behind every page of its group. *)
LEMMA NextSortOrderIsLast ==
    ASSUME TypeOK, NEW s \in Spaces, NEW parent \in ParentIds
    PROVE  /\ NextSortOrder(s, parent) \in Nat
           /\ \A p \in Group(s, parent) : pages[p].sortOrder < NextSortOrder(s, parent)
  <1> DEFINE g == Group(s, parent)
             f == [p \in Pages |-> pages[p].sortOrder]
             orders == {0} \cup {f[p] : p \in g}
  <1>1. g \in SUBSET Pages /\ IsFiniteSet(g)
    BY PagesFinite DEF Group
  <1>2. f \in [Pages -> Nat]
    BY DEF TypeOK, Row
  <1>3. IsFiniteSet(orders)
    <2> HIDE DEF f, g
    <2>1. IsFiniteSet({f[p] : p \in g})
      BY <1>1, FiniteRange
    <2>2. \A T : IsFiniteSet(T) => IsFiniteSet({0} \cup T)
      BY FS_Singleton, FS_Union
    <2> QED
      BY <2>1, <2>2
  <1>4. orders \subseteq Nat /\ orders # {}
    <2> HIDE DEF f, g
    <2> QED
      BY <1>1, <1>2
  <1>5. Max(orders) \in orders /\ \A y \in orders : Max(orders) >= y
    <2>1. orders \subseteq Int
      BY <1>4
    <2> HIDE DEF orders
    <2> QED
      BY <2>1, <1>3, <1>4, MaxIsMaximum, Zenon
  <1>6. NextSortOrder(s, parent) = 1 + Max(orders)
    <2>1. orders = {0} \cup {pages[p].sortOrder : p \in g}
      BY <1>1
    <2> QED
      BY <2>1 DEF NextSortOrder
  <1>7. \A p \in g : f[p] \in orders /\ f[p] = pages[p].sortOrder
    BY <1>1
  <1>8. ASSUME NEW p \in g
        PROVE  pages[p].sortOrder \in Nat /\ Max(orders) >= pages[p].sortOrder
    BY <1>1, <1>2, <1>5, <1>7
  <1>9. Max(orders) \in Nat
    BY <1>4, <1>5
  <1> HIDE DEF orders, f
  <1> QED
    BY <1>6, <1>8, <1>9

(* The stamp of a space is later than that of every page deleted on its own. *)
LEMMA CascadeStampIsLater ==
    ASSUME TypeOK, NEW s \in Spaces
    PROVE  /\ CascadeStamp(s) \in Nat \ {0}
           /\ \A p \in Pages : pages[p].spaceId = s => pages[p].deleteAt < CascadeStamp(s)
  <1> DEFINE g == {q \in Pages : pages[q].spaceId = s}
             f == [p \in Pages |-> pages[p].deleteAt + 1]
             stamps == {clock} \cup {f[p] : p \in g}
  <1>1. g \in SUBSET Pages /\ IsFiniteSet(g)
    BY PagesFinite
  <1>2. f \in [Pages -> Nat \ {0}] /\ clock \in Nat \ {0}
    BY DEF TypeOK, Row
  <1>3. IsFiniteSet(stamps)
    <2> HIDE DEF f, g
    <2>1. IsFiniteSet({f[p] : p \in g})
      BY <1>1, FiniteRange
    <2>2. \A T : IsFiniteSet(T) => IsFiniteSet({clock} \cup T)
      BY FS_Singleton, FS_Union
    <2> QED
      BY <2>1, <2>2
  <1>4. stamps \subseteq Nat \ {0} /\ stamps # {}
    BY <1>1, <1>2
  <1>5. Max(stamps) \in stamps /\ \A y \in stamps : Max(stamps) >= y
    <2>1. stamps \subseteq Int
      BY <1>4
    <2> HIDE DEF stamps
    <2> QED
      BY <2>1, <1>3, <1>4, MaxIsMaximum, Zenon
  <1>6. CascadeStamp(s) = Max(stamps)
    <2>1. stamps = {clock} \cup {pages[p].deleteAt + 1 : p \in g}
      BY <1>1
    <2> QED
      BY <2>1 DEF CascadeStamp
  <1>7. \A p \in g : f[p] \in stamps /\ f[p] = pages[p].deleteAt + 1
    BY <1>1
  <1>8. ASSUME NEW p \in Pages, pages[p].spaceId = s
        PROVE  pages[p].deleteAt \in Nat /\ Max(stamps) >= pages[p].deleteAt + 1
    <2>1. p \in g
      BY <1>8
    <2>2. pages[p].deleteAt \in Nat
      BY DEF TypeOK, Row
    <2> HIDE DEF stamps, f, g
    <2> QED
      BY <2>1, <2>2, <1>5, <1>7
  <1>9. Max(stamps) \in Nat \ {0}
    BY <1>4, <1>5
  <1> HIDE DEF stamps, f
  <1> QED
    BY <1>6, <1>8, <1>9

(* A place in a set of pages is a number below its size. *)
LEMMA PlaceType ==
    ASSUME NEW p, NEW g \in SUBSET Pages
    PROVE  Place(p, g) \in Nat
  <1>1. {q \in g \ {p} : Before(q, p)} \in SUBSET Pages
    OBVIOUS
  <1> QED
    BY <1>1, PagesFinite DEF Place

-----------------------------------------------------------------------------
(* Type correctness                                                        *)

LEMMA InitType == Init => TypeOK
  BY DEF Init, TypeOK, Row, ParentIds, Placement

(* Changing one row of the table, or building it row by row. *)
LEMMA RowUpdate ==
    ASSUME pages \in [Pages -> Row], NEW p \in Pages, NEW row \in Row
    PROVE  [pages EXCEPT ![p] = row] \in [Pages -> Row]
  OBVIOUS

LEMMA RestType ==
    ASSUME TypeOK, pages' \in [Pages -> Row], UNCHANGED <<clock, spaces, archived>>
    PROVE  TypeOK'
  BY DEF TypeOK

(* A row deleted or revived keeps its type. *)
LEMMA StampedRow ==
    ASSUME TypeOK, NEW p \in Pages, NEW d \in Nat, NEW now \in Nat
    PROVE  /\ Stamped(p, d, now) \in Row
           /\ Stamped(p, d, now).deleteAt = d
           /\ Stamped(p, d, now).spaceId = pages[p].spaceId
           /\ Stamped(p, d, now).parentId = pages[p].parentId
           /\ Stamped(p, d, now).sortOrder = pages[p].sortOrder
           /\ Stamped(p, d, now).updateAt > pages[p].updateAt
  <1> DEFINE t == NextMonotonic(now, pages[p].updateAt)
  <1>1. pages[p] \in Row
    BY DEF TypeOK
  <1>2. t \in Nat /\ t > pages[p].updateAt
    BY <1>1, NextMonotonicGrows DEF Row
  <1>3. Stamped(p, d, now) = [pages[p] EXCEPT !.deleteAt = d, !.updateAt = t]
    BY DEF Stamped
  <1> HIDE DEF t
  <1> QED
    BY <1>1, <1>2, <1>3 DEF Row

(* A promoted child keeps its space and takes the parent of the deleted page. *)
LEMMA PromotedRow ==
    ASSUME TypeOK, NEW c \in Pages, NEW p \in Pages, NEW now \in Nat
    PROVE  /\ Promoted(c, p, now) \in Row
           /\ Promoted(c, p, now).deleteAt = pages[c].deleteAt
           /\ Promoted(c, p, now).spaceId = pages[c].spaceId
           /\ Promoted(c, p, now).parentId = pages[p].parentId
           /\ Promoted(c, p, now).sortOrder = pages[p].sortOrder + Place(c, Children(p))
           /\ Promoted(c, p, now).updateAt > pages[c].updateAt
  <1> DEFINE t == NextMonotonic(now, pages[c].updateAt)
             o == pages[p].sortOrder + Place(c, Children(p))
  <1>1. pages[c] \in Row /\ pages[p] \in Row
    BY DEF TypeOK
  <1>2. t \in Nat /\ t > pages[c].updateAt
    BY <1>1, NextMonotonicGrows DEF Row
  <1>3. o \in Nat
    <2>1. Children(p) \in SUBSET Pages
      BY DEF Children
    <2>2. Place(c, Children(p)) \in Nat
      BY <2>1, PlaceType
    <2> QED
      BY <2>2, <1>1 DEF Row
  <1>4. Promoted(c, p, now) =
            [pages[c] EXCEPT !.parentId = pages[p].parentId, !.sortOrder = o, !.updateAt = t]
    BY DEF Promoted
  <1> HIDE DEF t, o
  <1>5. Promoted(c, p, now) \in Row
    BY <1>1, <1>2, <1>3, <1>4 DEF Row
  <1> QED
    BY <1>1, <1>2, <1>4, <1>5 DEF Row, o

(* A shifted sibling only moves on. *)
LEMMA ShiftedRow ==
    ASSUME TypeOK, NEW q \in Pages, NEW n \in Nat, n > 1
    PROVE  /\ Shifted(q, n) \in Row
           /\ Shifted(q, n).deleteAt = pages[q].deleteAt
           /\ Shifted(q, n).spaceId = pages[q].spaceId
           /\ Shifted(q, n).parentId = pages[q].parentId
           /\ Shifted(q, n).updateAt = pages[q].updateAt
           /\ Shifted(q, n).sortOrder = pages[q].sortOrder + n - 1
  <1>1. pages[q] \in Row
    BY DEF TypeOK
  <1>2. pages[q].sortOrder + n - 1 \in Nat
    BY <1>1 DEF Row
  <1> DEFINE o == pages[q].sortOrder + n - 1
  <1>3. Shifted(q, n) = [pages[q] EXCEPT !.sortOrder = o]
    BY DEF Shifted
  <1> HIDE DEF o
  <1> QED
    BY <1>1, <1>2, <1>3 DEF Row, o

(* The table after a delete, row by row. *)
LEMMA DeletedTable ==
    ASSUME TypeOK, NEW p \in Pages, NEW now \in Nat
    PROVE  /\ PagesAfterDelete(p, now) \in [Pages -> Row]
           /\ PagesAfterDelete(p, now)[p] = Stamped(p, now, now)
           /\ \A q \in Pages \ {p} :
                  LET new == PagesAfterDelete(p, now)[q] IN
                  \/ q \in Children(p) /\ new = Promoted(q, p, now)
                  \/ /\ q \notin Children(p)
                     /\ q \in Group(pages[p].spaceId, pages[p].parentId)
                     /\ Before(p, q)
                     /\ Cardinality(Children(p)) > 1
                     /\ new = Shifted(q, Cardinality(Children(p)))
                  \/ /\ q \notin Children(p)
                     /\ \/ Cardinality(Children(p)) <= 1
                        \/ q \notin Group(pages[p].spaceId, pages[p].parentId)
                        \/ ~ Before(p, q)
                     /\ new = pages[q]
  <1> DEFINE n == Cardinality(Children(p))
             tab == PagesAfterDelete(p, now)
             later(q) == n > 1 /\ q \in Group(pages[p].spaceId, pages[p].parentId) /\ Before(p, q)
  <1>1. n \in Nat
    BY PagesFinite DEF Children
  <1>2. tab = [q \in Pages |-> IF q = p THEN Stamped(p, now, now)
                               ELSE IF q \in Children(p) THEN Promoted(q, p, now)
                               ELSE IF later(q) THEN Shifted(q, n)
                               ELSE pages[q]]
    BY DEF PagesAfterDelete
  <1>3. \A q \in Pages :
            /\ Promoted(q, p, now) \in Row
            /\ n > 1 => Shifted(q, n) \in Row
            /\ pages[q] \in Row
    BY <1>1, PromotedRow, ShiftedRow DEF TypeOK
  <1>4. Stamped(p, now, now) \in Row
    BY StampedRow
  <1> HIDE DEF n, tab
  <1>5. tab \in [Pages -> Row]
    BY <1>2, <1>3, <1>4
  <1>6. tab[p] = Stamped(p, now, now)
    BY <1>2
  <1>7. ASSUME NEW q \in Pages \ {p}
        PROVE  \/ q \in Children(p) /\ tab[q] = Promoted(q, p, now)
               \/ q \notin Children(p) /\ later(q) /\ tab[q] = Shifted(q, n)
               \/ q \notin Children(p) /\ ~ later(q) /\ tab[q] = pages[q]
    BY <1>2
  <1> QED
    BY <1>1, <1>5, <1>6, <1>7 DEF n, tab

LEMMA PageStepType ==
    ASSUME TypeOK, NEW p \in Pages, PageStep(p)
    PROVE  TypeOK'
  <1>r. ClockReads \subseteq Nat /\ clock \in Nat /\ pages \in [Pages -> Row] /\ pages[p] \in Row
    BY ClockReadsPositive DEF TypeOK
  <1>1. CASE \E s \in Spaces, parent \in ParentIds : CreatePage(p, s, parent)
    <2>1. PICK s \in Spaces, parent \in ParentIds : CreatePage(p, s, parent)
      BY <1>1
    <2> DEFINE n == 1 + Cardinality({q \in Pages : Exists(q)})
               o == NextSortOrder(s, parent)
               row == [spaceId |-> s, parentId |-> parent, sortOrder |-> o,
                       createAt |-> n, deleteAt |-> 0, updateAt |-> clock]
    <2>2. n \in Nat /\ o \in Nat
      <3>1. {q \in Pages : Exists(q)} \in SUBSET Pages
        OBVIOUS
      <3> QED
        BY <3>1, PagesFinite, NextSortOrderIsLast
    <2>3. pages' = [pages EXCEPT ![p] = row] /\ UNCHANGED <<clock, spaces, archived>>
      BY <2>1 DEF CreatePage
    <2>4. row \in Row
      <3> HIDE DEF n, o
      <3> QED
        BY <2>2, <1>r DEF Row
    <2> HIDE DEF row
    <2> QED
      BY <2>3, <2>4, <1>r, RowUpdate, RestType
  <1>2. CASE EditPage(p)
    <2> DEFINE t == NextMonotonic(clock, pages[p].updateAt)
               row == [pages[p] EXCEPT !.updateAt = t]
    <2>1. t \in Nat
      BY <1>r, NextMonotonicGrows DEF Row
    <2>2. pages' = [pages EXCEPT ![p] = row] /\ UNCHANGED <<clock, spaces, archived>>
      BY <1>2, <1>r DEF EditPage
    <2>3. row \in Row
      <3> HIDE DEF t
      <3> QED
        BY <2>1, <1>r DEF Row
    <2> HIDE DEF row
    <2> QED
      BY <2>2, <2>3, <1>r, RowUpdate, RestType
  <1>3. ASSUME NEW now \in ClockReads, DeletePage(p, now)
        PROVE  TypeOK'
    <2>1. pages' = PagesAfterDelete(p, now) /\ UNCHANGED <<clock, spaces, archived>>
      BY <1>3 DEF DeletePage
    <2> QED
      BY <2>1, <1>r, DeletedTable, RestType
  <1>4. ASSUME NEW now \in ClockReads, RestorePage(p, now)
        PROVE  TypeOK'
    <2> DEFINE dest == RestoreParent(p)
               o == NextSortOrder(pages[p].spaceId, dest)
               row == [Stamped(p, 0, now) EXCEPT !.parentId = dest, !.sortOrder = o]
    <2>1. pages' = [pages EXCEPT ![p] = row] /\ UNCHANGED <<clock, spaces, archived>>
      BY <1>4 DEF RestorePage
    <2>2. dest \in ParentIds
      BY DEF RestoreParent, ParentIds
    <2>3. pages[p].spaceId \in Spaces
      BY <1>4, <1>r DEF RestorePage, Exists, Row
    <2>4. o \in Nat
      BY <2>2, <2>3, NextSortOrderIsLast
    <2>5. Stamped(p, 0, now) \in Row
      BY <1>r, StampedRow
    <2>6. row \in Row
      <3> HIDE DEF dest, o
      <3> QED
        BY <2>2, <2>4, <2>5 DEF Row
    <2> HIDE DEF row
    <2> QED
      BY <2>1, <2>6, <1>r, RowUpdate, RestType
  <1> QED
    BY <1>1, <1>2, <1>3, <1>4 DEF PageStep

(* The index of a move is clamped into its group. *)
LEMMA ClampedType ==
    ASSUME NEW index \in Int, NEW g \in SUBSET Pages, g # {}
    PROVE  Clamped(index, g) \in 0 .. Cardinality(g) - 1
  <1> DEFINE last == Cardinality(g) - 1
             m == Min({index, last})
  <1>1. last \in Nat
    <2>1. IsFiniteSet(g) /\ Cardinality(g) \in Nat
      BY PagesFinite
    <2>2. Cardinality(g) # 0
      BY <2>1, FS_EmptySet
    <2> QED
      BY <2>1, <2>2
  <1>2. m \in {index, last} /\ m <= index /\ m <= last
    <2> HIDE DEF last
    <2>1. \E x \in {index, last} : \A y \in {index, last} : x <= y
      <3>1. CASE index <= last
        BY <1>1, <3>1
      <3>2. CASE last <= index
        BY <1>1, <3>2
      <3> QED
        BY <1>1, <3>1, <3>2
    <2>2. m = CHOOSE x \in {index, last} : \A y \in {index, last} : x <= y
      BY DEF Min
    <2> QED
      BY <2>1, <2>2
  <1>3. Clamped(index, g) = Max({0, m})
    BY DEF Clamped
  <1> HIDE DEF last, m
  <1>4. Max({0, m}) \in {0, m} /\ Max({0, m}) >= 0
    <2>1. m \in Int
      BY <1>1, <1>2
    <2>2. \E x \in {0, m} : \A y \in {0, m} : x >= y
      <3>1. CASE m >= 0
        BY <2>1, <3>1
      <3>2. CASE 0 >= m
        BY <2>1, <3>2
      <3> QED
        BY <2>1, <3>1, <3>2
    <2>3. Max({0, m}) = CHOOSE x \in {0, m} : \A y \in {0, m} : x >= y
      BY DEF Max
    <2> QED
      BY <2>1, <2>2, <2>3
  <1> QED
    BY <1>1, <1>2, <1>3, <1>4 DEF last

(* Renumbering gives every page of the group a position from 1 on. *)
LEMMA RenumberedType ==
    ASSUME NEW p, NEW g \in SUBSET Pages, NEW index \in Nat, NEW q \in g
    PROVE  Renumbered(p, g, index)[q] \in Nat \ {0}
  <1>1. Place(q, g \ {p}) \in Nat
    <2>1. g \ {p} \in SUBSET Pages
      OBVIOUS
    <2> QED
      BY <2>1, PlaceType
  <1> QED
    BY <1>1 DEF Renumbered

LEMMA MovedTokenGrows ==
    ASSUME TypeOK, NEW p \in Pages, NEW reparented \in BOOLEAN
    PROVE  MovedToken(p, reparented) \in Nat /\ MovedToken(p, reparented) > pages[p].updateAt
  <1> DEFINE now == NextMonotonic(clock, pages[p].updateAt)
  <1>1. pages[p].updateAt \in Nat /\ clock \in Nat
    BY DEF TypeOK, Row
  <1>2. now \in Nat /\ now > pages[p].updateAt
    BY <1>1, NextMonotonicGrows
  <1>3. MovedToken(p, reparented) =
            IF reparented THEN NextMonotonic(now, now) ELSE NextMonotonic(now, pages[p].updateAt)
    BY DEF MovedToken
  <1> HIDE DEF now
  <1>4. NextMonotonic(now, now) \in Nat /\ NextMonotonic(now, now) > now
    BY <1>2, NextMonotonicGrows
  <1>5. NextMonotonic(now, pages[p].updateAt) \in Nat
        /\ NextMonotonic(now, pages[p].updateAt) > pages[p].updateAt
    BY <1>1, <1>2, NextMonotonicGrows
  <1> QED
    BY <1>1, <1>2, <1>3, <1>4, <1>5

(* What a reindexing leaves of a row: all but its position. *)
OnlyReordered(tab, q) ==
    /\ tab[q].spaceId = pages[q].spaceId
    /\ tab[q].deleteAt = pages[q].deleteAt
    /\ tab[q].parentId = pages[q].parentId
    /\ tab[q].updateAt = pages[q].updateAt

(* What it leaves of the row of the moved page. *)
OnlyReparented(tab, p, dest) ==
    /\ tab[p].spaceId = pages[p].spaceId
    /\ tab[p].deleteAt = pages[p].deleteAt
    /\ tab[p].parentId = dest
    /\ tab[p].updateAt > pages[p].updateAt

(* The table after a page was placed at an index, row by row: its siblings only *)
(* change their position.                                                       *)
LEMMA ReindexedTable ==
    ASSUME TypeOK, NEW p \in Pages, NEW s \in Spaces, NEW dest \in ParentIds, NEW index \in Int,
           NEW tab, tab = PagesAfterReindex(p, s, dest, index),
           NEW group, group = Group(s, dest) \cup {p}
    PROVE  /\ tab \in [Pages -> Row]
           /\ OnlyReparented(tab, p, dest)
           /\ \A q \in group : tab[q].sortOrder = Renumbered(p, group, Clamped(index, group))[q]
           /\ \A q \in Pages \ {p} :
                  /\ OnlyReordered(tab, q)
                  /\ q \notin group => tab[q].sortOrder = pages[q].sortOrder
  <1> DEFINE order == Renumbered(p, group, Clamped(index, group))
             t == MovedToken(p, dest # pages[p].parentId)
             moved == [pages[p] EXCEPT !.parentId = dest, !.sortOrder = order[p], !.updateAt = t]
             shifted(q) == [pages[q] EXCEPT !.sortOrder = order[q]]
  <1>1. group \in SUBSET Pages /\ group # {}
    BY DEF Group
  <1>2. Clamped(index, group) \in Nat
    <2>1. Clamped(index, group) \in 0 .. Cardinality(group) - 1
      BY <1>1, ClampedType
    <2> QED
      BY <2>1
  <1>3. \A q \in group : order[q] \in Nat
    BY <1>1, <1>2, RenumberedType
  <1>4. t \in Nat /\ t > pages[p].updateAt
    BY MovedTokenGrows
  <1>5. tab = [q \in Pages |-> IF q = p THEN moved ELSE IF q \in group THEN shifted(q) ELSE pages[q]]
    BY DEF PagesAfterReindex
  <1>6. \A q \in Pages : pages[q] \in Row
    BY DEF TypeOK
  <1>7. p \in group
    OBVIOUS
  <1> HIDE DEF order, t
  <1>8. /\ moved \in Row
        /\ moved.spaceId = pages[p].spaceId /\ moved.deleteAt = pages[p].deleteAt
        /\ moved.parentId = dest /\ moved.updateAt = t /\ moved.sortOrder = order[p]
    BY <1>3, <1>4, <1>6, <1>7 DEF Row
  <1>9. ASSUME NEW q \in group
        PROVE  /\ shifted(q) \in Row
               /\ shifted(q).spaceId = pages[q].spaceId /\ shifted(q).deleteAt = pages[q].deleteAt
               /\ shifted(q).parentId = pages[q].parentId /\ shifted(q).updateAt = pages[q].updateAt
               /\ shifted(q).sortOrder = order[q]
    BY <1>1, <1>3, <1>6 DEF Row
  <1> HIDE DEF moved, shifted
  <1>10. tab \in [Pages -> Row]
    BY <1>1, <1>5, <1>6, <1>8, <1>9
  <1>11. tab[p] = moved /\ \A q \in Pages \ {p} : tab[q] = IF q \in group THEN shifted(q) ELSE pages[q]
    BY <1>5
  <1>12. \A q \in group : tab[q].sortOrder = order[q]
    BY <1>1, <1>8, <1>9, <1>11
  <1>13. OnlyReparented(tab, p, dest)
    BY <1>4, <1>8, <1>11 DEF OnlyReparented
  <1>14. ASSUME NEW q \in Pages \ {p}
         PROVE  /\ OnlyReordered(tab, q)
                /\ q \notin group => tab[q].sortOrder = pages[q].sortOrder
    BY <1>9, <1>11 DEF OnlyReordered
  <1> QED
    BY <1>10, <1>12, <1>13, <1>14 DEF order

(* A row of a subtree on its way to another space. *)
LEMMA RehomedTable ==
    ASSUME TypeOK, NEW p \in Pages, NEW s \in Spaces, NEW t \in Spaces, NEW dest \in ParentIds,
           NEW base, MovePageToSpace(p, s, t, dest, base)
    PROVE  /\ pages' \in [Pages -> Row]
           /\ pages'[p].spaceId = t /\ pages'[p].parentId = dest
           /\ pages'[p].deleteAt = pages[p].deleteAt
           /\ pages'[p].sortOrder = NextSortOrder(t, dest)
           /\ pages'[p].updateAt > pages[p].updateAt
           /\ \A q \in Pages \ {p} :
                  /\ pages'[q].parentId = pages[q].parentId
                  /\ pages'[q].deleteAt = pages[q].deleteAt
                  /\ pages'[q].sortOrder = pages[q].sortOrder
                  /\ q \in Subtree(p) => pages'[q].spaceId = t /\ pages'[q].updateAt > pages[q].updateAt
                  /\ q \notin Subtree(p) => pages'[q] = pages[q]
  <1> DEFINE now == NextMonotonic(clock, pages[p].updateAt)
             o == NextSortOrder(t, dest)
             moved == [pages[p] EXCEPT !.spaceId = t, !.parentId = dest, !.sortOrder = o,
                                       !.updateAt = NextMonotonic(now, now)]
             token(q) == NextMonotonic(now, pages[q].updateAt)
             rehomed(q) == [pages[q] EXCEPT !.spaceId = t, !.updateAt = token(q)]
  <1>1. \A q \in Pages : pages[q] \in Row /\ pages[q].updateAt \in Nat
    BY DEF TypeOK, Row
  <1>2. now \in Nat /\ now > pages[p].updateAt /\ o \in Nat
    BY <1>1, NextMonotonicGrows, NextSortOrderIsLast DEF TypeOK
  <1>3. pages' = [q \in Pages |-> IF q = p THEN moved
                                  ELSE IF q \in Subtree(p) THEN rehomed(q) ELSE pages[q]]
    BY DEF MovePageToSpace, Rehomed
  <1> HIDE DEF now, o
  <1>4. NextMonotonic(now, now) \in Nat /\ NextMonotonic(now, now) > pages[p].updateAt
    <2>1. NextMonotonic(now, now) \in Nat /\ NextMonotonic(now, now) > now
      BY <1>2, NextMonotonicGrows
    <2> QED
      BY <2>1, <1>1, <1>2
  <1>5. \A q \in Pages : token(q) \in Nat /\ token(q) > pages[q].updateAt
    BY <1>1, <1>2, NextMonotonicGrows
  <1>6. /\ moved \in Row
        /\ moved.spaceId = t /\ moved.parentId = dest /\ moved.deleteAt = pages[p].deleteAt
        /\ moved.sortOrder = o /\ moved.updateAt > pages[p].updateAt
    BY <1>1, <1>2, <1>4 DEF Row
  <1> HIDE DEF token
  <1>7. ASSUME NEW q \in Pages
        PROVE  /\ rehomed(q) \in Row
               /\ rehomed(q).spaceId = t /\ rehomed(q).parentId = pages[q].parentId
               /\ rehomed(q).deleteAt = pages[q].deleteAt
               /\ rehomed(q).sortOrder = pages[q].sortOrder
               /\ rehomed(q).updateAt > pages[q].updateAt
    BY <1>1, <1>5 DEF Row
  <1> HIDE DEF moved, rehomed
  <1>8. pages' \in [Pages -> Row]
    BY <1>1, <1>3, <1>6, <1>7
  <1>9. pages'[p] = moved
    BY <1>3
  <1>10. \A q \in Pages \ {p} : pages'[q] = IF q \in Subtree(p) THEN rehomed(q) ELSE pages[q]
    BY <1>3
  <1> QED
    BY <1>6, <1>7, <1>8, <1>9, <1>10 DEF o

LEMMA MoveStepType ==
    ASSUME TypeOK, NEW p \in Pages, NEW s \in Spaces, NEW dest \in ParentIds, NEW base,
           MoveStep(p, s, dest, base)
    PROVE  TypeOK'
  <1>r. clock \in Nat /\ pages \in [Pages -> Row] /\ pages[p] \in Row
    BY DEF TypeOK
  <1>1. CASE MovePageAppend(p, s, dest, base)
    <2> DEFINE o == NextSortOrder(s, dest)
               t == NextMonotonic(clock, pages[p].updateAt)
               row == [pages[p] EXCEPT !.parentId = dest, !.sortOrder = o, !.updateAt = t]
    <2>1. t \in Nat /\ o \in Nat
      BY <1>r, NextMonotonicGrows, NextSortOrderIsLast DEF Row
    <2>2. pages' = [pages EXCEPT ![p] = row] /\ UNCHANGED <<clock, spaces, archived>>
      BY <1>1, <1>r DEF MovePageAppend
    <2>3. row \in Row
      <3> HIDE DEF o, t
      <3> QED
        BY <2>1, <1>r DEF Row
    <2> HIDE DEF row
    <2> QED
      BY <2>2, <2>3, <1>r, RowUpdate, RestType
  <1>2. CASE MovePageToIndex(p, s, dest, base)
    <2>1. PICK index \in Indexes : pages' = PagesAfterReindex(p, s, dest, index)
      BY <1>2 DEF MovePageToIndex
    <2>2. index \in Int
      BY FiniteAssumption, FS_CardinalityType DEF Indexes
    <2>3. pages' \in [Pages -> Row]
      BY <2>1, <2>2, ReindexedTable
    <2> QED
      BY <1>2, <2>1, <2>3, RestType DEF MovePageToIndex
  <1>3. ASSUME NEW t \in Spaces, MovePageToSpace(p, s, t, dest, base)
        PROVE  TypeOK'
    BY <1>3, RehomedTable, RestType DEF MovePageToSpace
  <1> QED
    BY <1>1, <1>2, <1>3 DEF MoveStep

LEMMA SpaceStepType ==
    ASSUME TypeOK, NEW s \in Spaces, SpaceStep(s)
    PROVE  TypeOK'
  <1>r. /\ clock \in Nat \ {0} /\ ClockReads \subseteq Nat
        /\ pages \in [Pages -> Row] /\ spaces \in [Spaces -> Nat]
        /\ archived \in [Spaces -> SUBSET Placement]
    BY ClockReadsPositive DEF TypeOK
  <1>1. CASE DeleteSpace(s)
    <2> DEFINE stamp == CascadeStamp(s)
    <2>1. stamp \in Nat
      BY CascadeStampIsLater
    <2>2. pages' \in [Pages -> Row]
      <3>1. \A p \in Pages : Stamped(p, stamp, stamp) \in Row
        BY <2>1, StampedRow
      <3>2. pages' = [p \in Pages |-> IF p \in PagesOf(s) THEN Stamped(p, stamp, stamp) ELSE pages[p]]
        BY <1>1 DEF DeleteSpace
      <3> QED
        BY <3>1, <3>2, <1>r
    <2>3. PlacementsIn(PagesOf(s)) \in SUBSET Placement
      BY <1>r DEF PlacementsIn, PagesOf, Placement, Row
    <2> HIDE DEF stamp
    <2>4. spaces' \in [Spaces -> Nat] /\ archived' \in [Spaces -> SUBSET Placement] /\ clock' = clock
      BY <1>1, <1>r, <2>1, <2>3 DEF DeleteSpace, stamp
    <2> QED
      BY <2>2, <2>4, <1>r DEF TypeOK
  <1>2. ASSUME NEW now \in ClockReads, RestoreSpace(s, now)
        PROVE  TypeOK'
    <2>1. \A p \in Pages : Stamped(p, 0, now) \in Row
      BY <1>r, StampedRow
    <2>2. pages' = [p \in Pages |-> IF p \in CascadedPages(s) THEN Stamped(p, 0, now) ELSE pages[p]]
      BY <1>2 DEF RestoreSpace
    <2>3. pages' \in [Pages -> Row]
      BY <2>1, <2>2, <1>r
    <2>4. spaces' \in [Spaces -> Nat] /\ archived' \in [Spaces -> SUBSET Placement] /\ clock' = clock
      BY <1>2, <1>r DEF RestoreSpace
    <2> QED
      BY <2>3, <2>4, <1>r DEF TypeOK
  <1> QED
    BY <1>1, <1>2 DEF SpaceStep

LEMMA TickType == TypeOK /\ Tick => TypeOK'
  BY DEF TypeOK, Tick

LEMMA StutterType == TypeOK /\ UNCHANGED vars => TypeOK'
  BY DEF TypeOK, vars

(* Every reachable page table, with its spaces and archived trees, is well typed. *)
THEOREM TreeTypeCorrect == Spec => []TypeOK
  <1>1. Init => TypeOK
    BY InitType
  <1>2. TypeOK /\ [Next]_vars => TypeOK'
    <2> SUFFICES ASSUME TypeOK, [Next]_vars PROVE TypeOK'
      OBVIOUS
    <2>1. CASE Tick
      BY <2>1, TickType
    <2>2. ASSUME NEW p \in Pages, PageStep(p) PROVE TypeOK'
      BY <2>2, PageStepType
    <2>3. ASSUME NEW p \in Pages, NEW s \in Spaces, NEW dest \in ParentIds, MoveStep(p, s, dest, Forced)
          PROVE  TypeOK'
      BY <2>3, MoveStepType
    <2>4. ASSUME NEW s \in Spaces, SpaceStep(s) PROVE TypeOK'
      BY <2>4, SpaceStepType
    <2>5. CASE UNCHANGED vars
      BY <2>5, StutterType
    <2> QED
      BY <2>1, <2>2, <2>3, <2>4, <2>5 DEF Next
  <1> QED
    BY <1>1, <1>2, PTL DEF Spec

-----------------------------------------------------------------------------
(***************************************************************************)
(* The trees.  The induction is on the pages a space would show if it were  *)
(* live: those whose DeleteAt is that of their space.  Deleting and         *)
(* restoring a space leaves them as they are, and so keeps the tree while   *)
(* nobody sees it.                                                          *)
(***************************************************************************)

Kept(p) == Exists(p) /\ pages[p].deleteAt = spaces[pages[p].spaceId]

LiveInLive == \A p \in Pages : Live(p) => SpaceLive(pages[p].spaceId)

ParentKept(p) ==
    pages[p].parentId # NoPage =>
        /\ pages[p].parentId \in Pages
        /\ Kept(pages[p].parentId)
        /\ pages[pages[p].parentId].spaceId = pages[p].spaceId

ParentsKept == \A p \in Pages : Kept(p) => ParentKept(p)

Rooted(S) == S # {} => \E p \in S : pages[p].parentId \notin S

KeptAcyclic == \A S \in SUBSET {p \in Pages : Kept(p)} : Rooted(S)

TreesArchived ==
    \A s \in Spaces : ~ SpaceLive(s) => PlacementsIn(CascadedPages(s)) = archived[s]

TreeInv == TypeOK /\ LiveInLive /\ ParentsKept /\ KeptAcyclic /\ TreesArchived

-----------------------------------------------------------------------------
(* What follows in a state                                                 *)

LEMMA LiveIsKept ==
    ASSUME TreeInv, NEW p \in Pages, Live(p)
    PROVE  Kept(p) /\ pages[p].spaceId \in Spaces
  BY DEF TreeInv, LiveInLive, Live, Kept, SpaceLive, Exists, TypeOK, Row

LEMMA KeptInLiveIsLive ==
    ASSUME NEW p \in Pages, Kept(p), SpaceLive(pages[p].spaceId)
    PROVE  Live(p)
  BY DEF Live, Kept, SpaceLive

LEMMA InvParentsLive == TreeInv => ParentsLive
  <1> SUFFICES ASSUME TreeInv, NEW p \in Pages, Live(p)
               PROVE  /\ SpaceLive(pages[p].spaceId)
                      /\ pages[p].parentId # NoPage =>
                             /\ pages[p].parentId \in Pages
                             /\ LiveIn(pages[p].parentId, pages[p].spaceId)
    BY DEF ParentsLive
  <1>1. SpaceLive(pages[p].spaceId)
    BY DEF TreeInv, LiveInLive
  <1>2. ParentKept(p)
    BY LiveIsKept DEF TreeInv, ParentsKept
  <1>3. ASSUME pages[p].parentId # NoPage
        PROVE  pages[p].parentId \in Pages /\ LiveIn(pages[p].parentId, pages[p].spaceId)
    BY <1>1, <1>2, <1>3, KeptInLiveIsLive DEF ParentKept, LiveIn
  <1> QED
    BY <1>1, <1>3

LEMMA InvAcyclic == TreeInv => Acyclic
  <1> SUFFICES ASSUME TreeInv, NEW S \in SUBSET {p \in Pages : Live(p)}, S # {}
               PROVE  \E p \in S : pages[p].parentId \notin S
    BY DEF Acyclic
  <1>1. S \in SUBSET {p \in Pages : Kept(p)}
    BY LiveIsKept
  <1> QED
    BY <1>1 DEF TreeInv, KeptAcyclic, Rooted

(* The subtree of a page is the least set that contains it and is closed. *)
LEMMA SubtreeIsLeast ==
    ASSUME NEW p \in Pages
    PROVE  /\ p \in Subtree(p) /\ Subtree(p) \subseteq Pages
           /\ ClosedBelow(Subtree(p))
           /\ \A S \in SUBSET Pages : p \in S /\ ClosedBelow(S) => Subtree(p) \subseteq S
  <1>1. p \in Subtree(p) /\ Subtree(p) \subseteq Pages
    BY DEF Subtree
  <1>2. ASSUME NEW S \in SUBSET Pages, p \in S, ClosedBelow(S)
        PROVE  Subtree(p) \subseteq S
    BY <1>2 DEF Subtree
  <1>3. ASSUME NEW q \in Pages, Live(q), pages[q].parentId \in Subtree(p)
        PROVE  q \in Subtree(p)
    <2>1. ASSUME NEW S \in SUBSET Pages, p \in S, ClosedBelow(S)
          PROVE  q \in S
      <3>1. pages[q].parentId \in S
        BY <1>3, <2>1, <1>2
      <3> QED
        BY <3>1, <1>3, <2>1 DEF ClosedBelow
    <2> QED
      BY <2>1 DEF Subtree
  <1>4. ClosedBelow(Subtree(p))
    BY <1>3 DEF ClosedBelow
  <1> QED
    BY <1>1, <1>2, <1>4

(* The subtree of a live page is live, in its space, and hangs at it. *)
LEMMA SubtreeInSpace ==
    ASSUME TreeInv, NEW p \in Pages, NEW s \in Spaces, LiveIn(p, s)
    PROVE  /\ \A q \in Subtree(p) : LiveIn(q, s)
           /\ \A q \in Subtree(p) \ {p} : pages[q].parentId \in Subtree(p)
           /\ \A q \in Pages : Kept(q) /\ pages[q].parentId \in Subtree(p) => q \in Subtree(p)
  <1>1. ClosedBelow(PagesOf(s))
    <2> SUFFICES ASSUME NEW q \in Pages, Live(q), pages[q].parentId \in PagesOf(s)
                 PROVE  q \in PagesOf(s)
      BY DEF ClosedBelow
    <2>1. ParentKept(q)
      BY LiveIsKept DEF TreeInv, ParentsKept
    <2>2. pages[q].parentId # NoPage /\ pages[pages[q].parentId].spaceId = s
      BY RootAssumption DEF PagesOf, LiveIn
    <2> QED
      BY <2>1, <2>2 DEF ParentKept, PagesOf, LiveIn
  <1>2. Subtree(p) \subseteq PagesOf(s)
    <2>1. PagesOf(s) \in SUBSET Pages /\ p \in PagesOf(s)
      BY DEF PagesOf
    <2> QED
      BY <1>1, <2>1, SubtreeIsLeast
  <1>3. ASSUME NEW q \in Subtree(p) \ {p}, pages[q].parentId \notin Subtree(p)
        PROVE  FALSE
    <2> DEFINE T == Subtree(p) \ {q}
    <2>1. T \in SUBSET Pages /\ p \in T /\ ClosedBelow(Subtree(p))
      BY SubtreeIsLeast
    <2>2. ClosedBelow(T)
      BY <1>3, <2>1 DEF ClosedBelow
    <2>3. Subtree(p) \subseteq T
      <3> HIDE DEF T
      <3> QED
        BY <2>1, <2>2, SubtreeIsLeast
    <2> QED
      BY <1>3, <2>3
  <1>4. ASSUME NEW q \in Pages, Kept(q), pages[q].parentId \in Subtree(p)
        PROVE  q \in Subtree(p)
    <2>1. ParentKept(q) /\ pages[q].parentId # NoPage
      BY <1>4, SubtreeIsLeast, RootAssumption DEF TreeInv, ParentsKept
    <2>2. pages[pages[q].parentId].spaceId = s /\ SpaceLive(s)
      BY <1>2, <1>4 DEF TreeInv, LiveInLive, PagesOf, LiveIn
    <2>3. Live(q)
      BY <1>4, <2>1, <2>2, KeptInLiveIsLive DEF ParentKept
    <2> QED
      BY <1>4, <2>3, SubtreeIsLeast DEF ClosedBelow
  <1> QED
    BY <1>2, <1>3, <1>4 DEF PagesOf

-----------------------------------------------------------------------------
(* Three ways a step changes a tree                                        *)

Tree == ParentsKept /\ KeptAcyclic

(* The structure of a row: all that tells where a page hangs. *)
SameStructure(q) ==
    /\ pages'[q].spaceId = pages[q].spaceId
    /\ pages'[q].parentId = pages[q].parentId

SamePosition(q) == pages'[q].sortOrder = pages[q].sortOrder

StaysPut(q) == SameStructure(q) /\ SamePosition(q) /\ (Kept(q)' <=> Kept(q))

LEMMA ParentKeptAfter ==
    ASSUME NEW q \in Pages, NEW u \in Pages,
           pages'[q].parentId = u, Kept(u)', pages'[u].spaceId = pages'[q].spaceId
    PROVE  ParentKept(q)'
  BY DEF ParentKept, Kept, Exists

(* Nothing moves: the kept pages stay and stay where they are. *)
LEMMA TreeUnchanged ==
    ASSUME TreeInv, \A q \in Pages : SameStructure(q), \A q \in Pages : Kept(q)' <=> Kept(q)
    PROVE  Tree'
  <1>1. ASSUME NEW q \in Pages, Kept(q)', pages'[q].parentId # NoPage
        PROVE  ParentKept(q)'
    <2>1. ParentKept(q) /\ pages[q].parentId # NoPage
      BY <1>1 DEF TreeInv, ParentsKept, SameStructure
    <2>2. /\ pages[q].parentId \in Pages /\ Kept(pages[q].parentId)'
          /\ pages'[pages[q].parentId].spaceId = pages'[q].spaceId
      BY <2>1 DEF ParentKept, SameStructure
    <2> QED
      BY <2>2 DEF ParentKept, SameStructure
  <1>2. ParentsKept'
    BY <1>1 DEF ParentsKept, ParentKept
  <1>3. ASSUME NEW S \in SUBSET {q \in Pages : Kept(q)'}, S # {}
        PROVE  \E q \in S : pages'[q].parentId \notin S
    <2>1. Rooted(S) /\ S \subseteq Pages
      BY <1>3 DEF TreeInv, KeptAcyclic
    <2> QED
      BY <2>1, <1>3 DEF Rooted, SameStructure
  <1>4. KeptAcyclic'
    BY <1>3 DEF KeptAcyclic, Rooted
  <1> QED
    BY <1>2, <1>4 DEF Tree

(* A page is hung at the root of a space or under a live page of it, and D comes *)
(* with it: the page alone if it was not in a tree, its subtree if it was.       *)
Hung(p, s, dest, D) ==
    /\ p \in D
    /\ dest # NoPage => LiveIn(dest, s) /\ dest \notin D
    /\ pages'[p].spaceId = s /\ pages'[p].parentId = dest /\ pages'[p].deleteAt = 0
    /\ \A q \in D \ {p} : /\ Live(q) /\ pages[q].parentId \in D
                          /\ pages'[q].spaceId = s
                          /\ pages'[q].parentId = pages[q].parentId
                          /\ pages'[q].deleteAt = 0
    /\ \A q \in Pages \ D : SameStructure(q) /\ pages'[q].deleteAt = pages[q].deleteAt
    /\ \A q \in Pages : Kept(q) /\ pages[q].parentId \in D => q \in D

LEMMA TreeHang ==
    ASSUME TreeInv, UNCHANGED spaces,
           NEW p \in Pages, NEW s \in Spaces, SpaceLive(s), NEW dest \in ParentIds,
           NEW D \in SUBSET Pages, Hung(p, s, dest, D)
    PROVE  Tree'
  <1> USE DEF Hung
  <1>s. s # NoSpace /\ spaces'[s] = 0 /\ spaces' = spaces
    BY RootAssumption DEF SpaceLive
  <1>1. \A q \in D : Kept(q)'
    BY <1>s DEF Kept, Exists
  <1>2. \A q \in Pages \ D : Kept(q)' <=> Kept(q)
    BY <1>s DEF Kept, Exists, SameStructure
  <1>3. \A q \in D \ {p} : Kept(q)
    BY LiveIsKept
  <1>4. ParentKept(p)'
    <2> SUFFICES ASSUME dest # NoPage PROVE dest \in Pages /\ Kept(dest)' /\ pages'[dest].spaceId = s
      BY DEF ParentKept
    <2>1. dest \in Pages \ D /\ Kept(dest) /\ pages[dest].spaceId = s
      BY LiveIsKept DEF ParentIds, LiveIn
    <2> QED
      BY <2>1, <1>2 DEF SameStructure
  <1>5. ASSUME NEW q \in D \ {p}
        PROVE  ParentKept(q)'
    <2>1. pages'[q].parentId \in D
      OBVIOUS
    <2>2. pages'[pages'[q].parentId].spaceId = s /\ pages'[q].spaceId = s
      BY <2>1
    <2> QED
      BY <1>1, <2>1, <2>2 DEF ParentKept
  <1>6. ASSUME NEW q \in Pages \ D, Kept(q)'
        PROVE  ParentKept(q)'
    <2> SUFFICES ASSUME pages[q].parentId # NoPage PROVE ParentKept(q)'
      BY DEF ParentKept, SameStructure
    <2>u. PICK u : u = pages[q].parentId
      OBVIOUS
    <2>1. Kept(q) /\ ParentKept(q)
      BY <1>2, <1>6 DEF TreeInv, ParentsKept
    <2>2. u \in Pages \ D /\ Kept(u) /\ pages[u].spaceId = pages[q].spaceId
      BY <2>u, <2>1 DEF ParentKept
    <2>3. Kept(u)' /\ pages'[u].spaceId = pages[u].spaceId
      BY <2>2, <1>2 DEF SameStructure
    <2>4. pages'[q].parentId = u /\ pages'[q].spaceId = pages[q].spaceId
      BY <2>u DEF SameStructure
    <2> QED
      BY <2>2, <2>3, <2>4, ParentKeptAfter
  <1>7. ParentsKept'
    BY <1>4, <1>5, <1>6 DEF ParentsKept
  <1>8. ASSUME NEW S \in SUBSET {q \in Pages : Kept(q)'}, S # {}, \A q \in S : pages'[q].parentId \in S
        PROVE  FALSE
    <2>1. \A q \in S \ {p} : Kept(q) /\ pages[q].parentId \in S
      BY <1>2, <1>3, <1>8 DEF SameStructure
    <2>2. CASE p \notin S
      <3>1. Rooted(S)
        BY <2>1, <2>2 DEF TreeInv, KeptAcyclic
      <3> QED
        BY <3>1, <2>1, <2>2, <1>8 DEF Rooted
    <2>3. CASE p \in S
      <3>1. dest \in S \ D
        BY <2>3, <1>8, RootAssumption
      <3>2. Rooted(S \ D)
        BY <2>1 DEF TreeInv, KeptAcyclic
      <3>3. PICK q \in S \ D : pages[q].parentId \notin S \ D
        BY <3>1, <3>2 DEF Rooted
      <3>4. Kept(q) /\ pages[q].parentId \in D
        BY <3>3, <2>1
      <3> QED
        BY <3>3, <3>4
    <2> QED
      BY <2>2, <2>3
  <1>9. KeptAcyclic'
    BY <1>8 DEF KeptAcyclic, Rooted
  <1> QED
    BY <1>7, <1>9 DEF Tree

(* A live page leaves its tree, and its children hang where it hung. *)
LEMMA TreePromote ==
    ASSUME TreeInv, UNCHANGED spaces,
           NEW p \in Pages, Live(p),
           pages'[p].deleteAt # 0, pages'[p].spaceId = pages[p].spaceId,
           \A q \in Pages \ {p} : /\ pages'[q].spaceId = pages[q].spaceId
                                  /\ pages'[q].deleteAt = pages[q].deleteAt,
           \A q \in Children(p) : pages'[q].parentId = pages[p].parentId,
           \A q \in Pages \ (Children(p) \cup {p}) : pages'[q].parentId = pages[q].parentId
    PROVE  Tree'
  <1>p. Kept(p) /\ SpaceLive(pages[p].spaceId) /\ ParentKept(p)
    BY LiveIsKept DEF TreeInv, LiveInLive, ParentsKept
  <1>1. ~ Kept(p)'
    BY <1>p DEF Kept, SpaceLive
  <1>2. \A q \in Pages \ {p} : Kept(q)' <=> Kept(q)
    BY DEF Kept, Exists
  <1>3. ASSUME NEW q \in Pages, Kept(q), pages[q].parentId = p
        PROVE  q \in Children(p) /\ pages[q].spaceId = pages[p].spaceId
    <2>1. ParentKept(q) /\ p # NoPage
      BY <1>3, RootAssumption DEF TreeInv, ParentsKept
    <2>2. pages[q].spaceId = pages[p].spaceId
      BY <1>3, <2>1 DEF ParentKept
    <2>3. Live(q)
      BY <1>3, <1>p, <2>2, KeptInLiveIsLive
    <2> QED
      BY <1>3, <2>2, <2>3 DEF Children
  <1>4. \A q \in Children(p) : q \in Pages /\ pages[q].parentId = p
    BY DEF Children
  <1>5. pages[p].parentId # p
    <2>1. Rooted({p})
      BY <1>p DEF TreeInv, KeptAcyclic
    <2> QED
      BY <2>1 DEF Rooted
  <1>6. ASSUME NEW q \in Pages, Kept(q)'
        PROVE  ParentKept(q)'
    <2>1. q # p /\ Kept(q) /\ ParentKept(q) /\ pages'[q].spaceId = pages[q].spaceId
      BY <1>1, <1>2, <1>6 DEF TreeInv, ParentsKept
    <2>2. CASE q \in Children(p)
      <3>1. pages'[q].parentId = pages[p].parentId /\ pages[q].spaceId = pages[p].spaceId
        BY <2>1, <2>2, <1>3, <1>4
      <3> SUFFICES ASSUME pages[p].parentId # NoPage PROVE ParentKept(q)'
        BY <3>1 DEF ParentKept
      <3>u. PICK u : u = pages[p].parentId
        OBVIOUS
      <3>2. u \in Pages \ {p} /\ Kept(u) /\ pages[u].spaceId = pages[p].spaceId
        BY <3>u, <1>p, <1>5 DEF ParentKept
      <3>3. Kept(u)' /\ pages'[u].spaceId = pages[u].spaceId
        BY <3>2, <1>2
      <3>4. pages'[q].parentId = u
        BY <3>u, <3>1
      <3> QED
        BY <2>1, <3>1, <3>2, <3>3, <3>4, ParentKeptAfter
    <2>3. CASE q \notin Children(p)
      <3>1. pages'[q].parentId = pages[q].parentId /\ pages[q].parentId # p
        BY <2>1, <2>3, <1>3
      <3> SUFFICES ASSUME pages[q].parentId # NoPage PROVE ParentKept(q)'
        BY <3>1 DEF ParentKept
      <3>u. PICK u : u = pages[q].parentId
        OBVIOUS
      <3>2. u \in Pages \ {p} /\ Kept(u) /\ pages[u].spaceId = pages[q].spaceId
        BY <3>u, <2>1, <3>1 DEF ParentKept
      <3>3. Kept(u)' /\ pages'[u].spaceId = pages[u].spaceId
        BY <3>2, <1>2
      <3>4. pages'[q].parentId = u
        BY <3>u, <3>1
      <3> QED
        BY <2>1, <3>2, <3>3, <3>4, ParentKeptAfter
    <2> QED
      BY <2>2, <2>3
  <1>7. ASSUME NEW S \in SUBSET {q \in Pages : Kept(q)'}, S # {}, \A q \in S : pages'[q].parentId \in S
        PROVE  FALSE
    <2>1. p \notin S /\ \A q \in S : q \in Pages /\ Kept(q)
      BY <1>1, <1>2, <1>7
    <2>2. CASE S \cap Children(p) = {}
      <3>1. Rooted(S)
        BY <2>1 DEF TreeInv, KeptAcyclic
      <3>2. \A q \in S : pages[q].parentId \in S
        BY <2>1, <2>2, <1>7
      <3> QED
        BY <3>1, <3>2, <1>7 DEF Rooted
    <2>3. CASE S \cap Children(p) # {}
      <3>1. pages[p].parentId \in S
        BY <2>3, <1>7
      <3>2. Rooted(S \cup {p})
        BY <2>1, <1>p DEF TreeInv, KeptAcyclic
      <3>3. \A q \in S \cup {p} : pages[q].parentId \in S \cup {p}
        BY <2>1, <3>1, <1>4, <1>7
      <3> QED
        BY <3>2, <3>3 DEF Rooted
    <2> QED
      BY <2>2, <2>3
  <1> QED
    BY <1>6, <1>7 DEF Tree, ParentsKept, KeptAcyclic, Rooted

-----------------------------------------------------------------------------
(* The steps                                                               *)

(* A row that stays, or that was and is in a live space. *)
AwayFromDead(q) ==
    \/ pages'[q] = pages[q]
    \/ /\ Exists(q) => SpaceLive(pages[q].spaceId)
       /\ pages'[q].spaceId \in Spaces /\ SpaceLive(pages'[q].spaceId)

(* A step on pages of live spaces leaves the trees of deleted spaces alone. *)
LEMMA DeadUntouched ==
    ASSUME TreeInv, TypeOK', Tree', UNCHANGED <<spaces, archived>>,
           \A q \in Pages : AwayFromDead(q)
    PROVE  TreeInv'
  <1>1. LiveInLive'
    <2> SUFFICES ASSUME NEW q \in Pages, Live(q)' PROVE SpaceLive(pages[q].spaceId)'
      BY DEF LiveInLive
    <2>1. CASE pages'[q] = pages[q]
      BY <2>1 DEF Live, Exists, SpaceLive, TreeInv, LiveInLive
    <2>2. CASE pages'[q] # pages[q]
      BY <2>2 DEF AwayFromDead, SpaceLive
    <2> QED
      BY <2>1, <2>2
  <1>2. ASSUME NEW s \in Spaces, ~ SpaceLive(s)'
        PROVE  PlacementsIn(CascadedPages(s))' = archived'[s]
    <2>1. ~ SpaceLive(s) /\ spaces'[s] = spaces[s] /\ s # NoSpace
      BY <1>2, RootAssumption DEF SpaceLive
    <2>2. \A q \in Pages : pages[q].spaceId = s \/ pages'[q].spaceId = s => pages'[q] = pages[q]
      BY <2>1 DEF AwayFromDead, Exists
    <2>3. CascadedPages(s)' = CascadedPages(s)
      BY <2>1, <2>2 DEF CascadedPages
    <2>4. \A q \in CascadedPages(s) : pages'[q] = pages[q]
      BY <2>2 DEF CascadedPages
    <2>5. PlacementsIn(CascadedPages(s))' = PlacementsIn(CascadedPages(s))
      BY <2>3, <2>4 DEF PlacementsIn
    <2> QED
      BY <2>1, <2>5 DEF TreeInv, TreesArchived
  <1> QED
    BY <1>1, <1>2 DEF TreeInv, TreesArchived, Tree

(* A page that was in no tree is hung somewhere: it brings nobody along. *)
LEMMA AloneHung ==
    ASSUME TreeInv, NEW p \in Pages, ~ Kept(p), NEW s, NEW dest \in ParentIds,
           dest # NoPage => LiveIn(dest, s),
           pages'[p].spaceId = s, pages'[p].parentId = dest, pages'[p].deleteAt = 0,
           \A q \in Pages \ {p} : pages'[q] = pages[q]
    PROVE  Hung(p, s, dest, {p})
  <1>1. dest # NoPage => LiveIn(dest, s) /\ dest \notin {p}
    BY LiveIsKept DEF LiveIn, ParentIds
  <1>2. \A q \in Pages : Kept(q) /\ pages[q].parentId \in {p} => q \in {p}
    BY RootAssumption DEF TreeInv, ParentsKept, ParentKept
  <1>3. \A q \in Pages \ {p} : SameStructure(q) /\ pages'[q].deleteAt = pages[q].deleteAt
    BY DEF SameStructure
  <1> QED
    BY <1>1, <1>2, <1>3 DEF Hung

LEMMA CreatePageHangs ==
    ASSUME TreeInv, NEW p \in Pages, NEW s \in Spaces, NEW parent \in ParentIds,
           CreatePage(p, s, parent)
    PROVE  /\ Hung(p, s, parent, {p})
           /\ pages'[p].sortOrder = NextSortOrder(s, parent)
           /\ \A q \in Pages \ {p} : pages'[q] = pages[q]
  <1>t. pages \in [Pages -> Row]
    BY DEF TreeInv, TypeOK
  <1>1. ~ Exists(p) /\ (parent # NoPage => LiveIn(parent, s))
    BY DEF CreatePage
  <1>2. /\ pages'[p].spaceId = s /\ pages'[p].parentId = parent /\ pages'[p].deleteAt = 0
        /\ pages'[p].sortOrder = NextSortOrder(s, parent)
        /\ \A q \in Pages \ {p} : pages'[q] = pages[q]
    BY <1>t DEF CreatePage
  <1> QED
    BY <1>1, <1>2, AloneHung DEF Kept

LEMMA CreatePageInv ==
    ASSUME TreeInv, TypeOK', NEW p \in Pages, NEW s \in Spaces, NEW parent \in ParentIds,
           CreatePage(p, s, parent)
    PROVE  TreeInv'
  <1>1. ~ Exists(p) /\ SpaceLive(s) /\ UNCHANGED <<spaces, archived>>
    BY DEF CreatePage
  <1>2. Hung(p, s, parent, {p}) /\ \A q \in Pages \ {p} : pages'[q] = pages[q]
    BY CreatePageHangs
  <1>3. Tree'
    BY <1>1, <1>2, TreeHang
  <1>4. \A q \in Pages : AwayFromDead(q)
    BY <1>1, <1>2 DEF AwayFromDead, Hung
  <1> QED
    BY <1>1, <1>3, <1>4, DeadUntouched

LEMMA EditPageInv ==
    ASSUME TreeInv, TypeOK', NEW p \in Pages, EditPage(p)
    PROVE  TreeInv' /\ \A q \in Pages : StaysPut(q)
  <1>t. pages \in [Pages -> Row] /\ pages[p] \in Row
    BY DEF TreeInv, TypeOK
  <1>1. /\ Live(p) /\ UNCHANGED <<spaces, archived>>
        /\ pages' = [pages EXCEPT ![p] = [pages[p] EXCEPT !.updateAt = NextMonotonic(clock, pages[p].updateAt)]]
    BY <1>t DEF EditPage
  <1>2. /\ pages'[p].spaceId = pages[p].spaceId /\ pages'[p].parentId = pages[p].parentId
        /\ pages'[p].deleteAt = pages[p].deleteAt /\ pages'[p].sortOrder = pages[p].sortOrder
        /\ \A q \in Pages \ {p} : pages'[q] = pages[q]
    BY <1>1, <1>t DEF Row
  <1>3. \A q \in Pages : StaysPut(q)
    BY <1>1, <1>2 DEF StaysPut, SameStructure, SamePosition, Kept, Exists
  <1>4. \A q \in Pages : AwayFromDead(q)
    <2>1. pages[p].spaceId \in Spaces /\ SpaceLive(pages[p].spaceId)
      BY <1>1, LiveIsKept DEF TreeInv, LiveInLive
    <2> QED
      BY <2>1, <1>2 DEF AwayFromDead
  <1>5. Tree'
    BY <1>3, TreeUnchanged DEF StaysPut
  <1> QED
    BY <1>1, <1>3, <1>4, <1>5, DeadUntouched

LEMMA DeletePageInv ==
    ASSUME TreeInv, TypeOK', NEW p \in Pages, NEW now \in Nat \ {0}, DeletePage(p, now)
    PROVE  TreeInv'
  <1>t. TypeOK
    BY DEF TreeInv
  <1>1. /\ Live(p) /\ UNCHANGED <<spaces, archived>>
        /\ pages' = PagesAfterDelete(p, now)
        /\ pages[p].spaceId \in Spaces /\ SpaceLive(pages[p].spaceId)
    BY LiveIsKept DEF DeletePage
  <1>2. pages'[p].deleteAt # 0 /\ pages'[p].spaceId = pages[p].spaceId
    <2>1. pages'[p] = Stamped(p, now, now)
      BY <1>1, <1>t, DeletedTable
    <2> QED
      BY <2>1, <1>t, StampedRow
  <1>3. ASSUME NEW q \in Pages \ {p}
        PROVE  /\ pages'[q].spaceId = pages[q].spaceId
               /\ pages'[q].deleteAt = pages[q].deleteAt
               /\ q \in Children(p) => pages'[q].parentId = pages[p].parentId
               /\ q \notin Children(p) => pages'[q].parentId = pages[q].parentId
               /\ \/ pages'[q] = pages[q]
                  \/ q \in Children(p)
                  \/ q \in Group(pages[p].spaceId, pages[p].parentId)
    <2> DEFINE n == Cardinality(Children(p))
    <2>1. \/ q \in Children(p) /\ pages'[q] = Promoted(q, p, now)
          \/ /\ q \notin Children(p) /\ n > 1 /\ pages'[q] = Shifted(q, n)
             /\ q \in Group(pages[p].spaceId, pages[p].parentId)
          \/ q \notin Children(p) /\ pages'[q] = pages[q]
      BY <1>1, <1>t, DeletedTable
    <2>2. n \in Nat
      BY PagesFinite DEF Children
    <2> HIDE DEF n
    <2>3. CASE q \in Children(p) /\ pages'[q] = Promoted(q, p, now)
      BY <2>3, <1>t, PromotedRow
    <2>4. CASE /\ q \notin Children(p) /\ n > 1 /\ pages'[q] = Shifted(q, n)
               /\ q \in Group(pages[p].spaceId, pages[p].parentId)
      BY <2>2, <2>4, <1>t, ShiftedRow
    <2>5. CASE q \notin Children(p) /\ pages'[q] = pages[q]
      BY <2>5
    <2> QED
      BY <2>1, <2>3, <2>4, <2>5
  <1>4. p \notin Children(p)
    <2>1. Rooted({p})
      BY <1>1, LiveIsKept DEF TreeInv, KeptAcyclic
    <2> QED
      BY <2>1 DEF Rooted, Children
  <1>5. Tree'
    <2>1. \A q \in Children(p) : pages'[q].parentId = pages[p].parentId
      BY <1>3, <1>4 DEF Children
    <2>2. \A q \in Pages \ (Children(p) \cup {p}) : pages'[q].parentId = pages[q].parentId
      BY <1>3
    <2> QED
      BY <1>1, <1>2, <1>3, <2>1, <2>2, TreePromote
  <1>6. ASSUME NEW q \in Pages
        PROVE  AwayFromDead(q)
    <2>1. CASE q = p
      BY <2>1, <1>1, <1>2 DEF AwayFromDead
    <2>2. CASE q # p /\ pages'[q] = pages[q]
      BY <2>2 DEF AwayFromDead
    <2>3. CASE q # p /\ (q \in Children(p) \/ q \in Group(pages[p].spaceId, pages[p].parentId))
      <3>1. Live(q)
        BY <2>3 DEF Children, Group, LiveIn
      <3>2. pages[q].spaceId \in Spaces /\ SpaceLive(pages[q].spaceId)
        BY <3>1, LiveIsKept DEF TreeInv, LiveInLive
      <3> QED
        BY <2>3, <3>2, <1>3 DEF AwayFromDead
    <2> QED
      BY <2>1, <2>2, <2>3, <1>3
  <1> QED
    BY <1>1, <1>5, <1>6, DeadUntouched

LEMMA RestorePageHangs ==
    ASSUME TreeInv, NEW p \in Pages, NEW now \in Nat, RestorePage(p, now)
    PROVE  /\ pages[p].spaceId \in Spaces /\ SpaceLive(pages[p].spaceId) /\ ~ Live(p)
           /\ RestoreParent(p) \in ParentIds
           /\ Hung(p, pages[p].spaceId, RestoreParent(p), {p})
           /\ pages'[p].sortOrder = NextSortOrder(pages[p].spaceId, RestoreParent(p))
           /\ \A q \in Pages \ {p} : pages'[q] = pages[q]
  <1>t. TypeOK /\ pages \in [Pages -> Row] /\ pages[p] \in Row
    BY DEF TreeInv, TypeOK
  <1> DEFINE dest == RestoreParent(p)
             o == NextSortOrder(pages[p].spaceId, dest)
             st == Stamped(p, 0, now)
  <1>1. /\ Exists(p) /\ ~ Live(p)
        /\ pages[p].spaceId \in Spaces /\ SpaceLive(pages[p].spaceId)
        /\ pages' = [pages EXCEPT ![p] = [st EXCEPT !.parentId = dest, !.sortOrder = o]]
    BY <1>t DEF RestorePage, Exists, Row
  <1>2. st \in Row /\ st.deleteAt = 0 /\ st.spaceId = pages[p].spaceId
    BY <1>t, StampedRow
  <1>3. dest \in ParentIds /\ (dest # NoPage => LiveIn(dest, pages[p].spaceId))
    BY DEF RestoreParent, ParentIds
  <1> HIDE DEF o, st, dest
  <1>4. /\ pages'[p].spaceId = pages[p].spaceId /\ pages'[p].parentId = dest
        /\ pages'[p].deleteAt = 0 /\ pages'[p].sortOrder = o
        /\ \A q \in Pages \ {p} : pages'[q] = pages[q]
    BY <1>1, <1>2, <1>t DEF Row
  <1>5. ~ Kept(p)
    BY <1>1, KeptInLiveIsLive
  <1>d. PICK d \in ParentIds : d = dest
    BY <1>3
  <1>6. Hung(p, pages[p].spaceId, dest, {p})
    BY <1>d, <1>3, <1>4, <1>5, AloneHung
  <1> QED
    BY <1>1, <1>3, <1>4, <1>6 DEF o, dest

LEMMA RestorePageInv ==
    ASSUME TreeInv, TypeOK', NEW p \in Pages, NEW now \in Nat, RestorePage(p, now)
    PROVE  TreeInv'
  <1>0. UNCHANGED <<spaces, archived>>
    BY DEF RestorePage
  <1>1. PICK s \in Spaces, d \in ParentIds :
            /\ s = pages[p].spaceId /\ SpaceLive(s) /\ Hung(p, s, d, {p})
            /\ \A q \in Pages \ {p} : pages'[q] = pages[q]
    BY RestorePageHangs
  <1>2. Tree'
    BY <1>0, <1>1, TreeHang
  <1>3. \A q \in Pages : AwayFromDead(q)
    BY <1>1 DEF AwayFromDead, Hung
  <1> QED
    BY <1>0, <1>2, <1>3, DeadUntouched

(* The subtree of a page comes along to where the page may hang. *)
LEMMA SubtreeHung ==
    ASSUME TreeInv, NEW p \in Pages, NEW s \in Spaces, LiveIn(p, s),
           NEW t \in Spaces, NEW dest \in ParentIds, MayHang(p, dest, t),
           pages'[p].spaceId = t, pages'[p].parentId = dest,
           pages'[p].deleteAt = pages[p].deleteAt,
           \A q \in Pages \ {p} : /\ pages'[q].parentId = pages[q].parentId
                                  /\ pages'[q].deleteAt = pages[q].deleteAt,
           \A q \in Subtree(p) : pages'[q].spaceId = t,
           \A q \in Pages \ Subtree(p) : pages'[q].spaceId = pages[q].spaceId
    PROVE  Hung(p, t, dest, Subtree(p))
  <1>d. PICK D \in SUBSET Pages : D = Subtree(p)
    BY SubtreeIsLeast
  <1>1. dest # NoPage => LiveIn(dest, t) /\ dest \notin D
    BY <1>d DEF MayHang
  <1>2. p \in D /\ pages'[p].deleteAt = 0
    BY <1>d, SubtreeIsLeast DEF LiveIn, Live
  <1>3. \A q \in D \ {p} : /\ Live(q) /\ pages[q].parentId \in D
                           /\ pages'[q].spaceId = t
                           /\ pages'[q].parentId = pages[q].parentId
                           /\ pages'[q].deleteAt = 0
    <2>1. \A q \in D : LiveIn(q, s)
      BY <1>d, SubtreeInSpace
    <2>2. \A q \in D \ {p} : pages[q].parentId \in D
      BY <1>d, SubtreeInSpace
    <2> QED
      BY <1>d, <2>1, <2>2 DEF LiveIn, Live
  <1>4. \A q \in Pages \ D : SameStructure(q) /\ pages'[q].deleteAt = pages[q].deleteAt
    BY <1>d, <1>2 DEF SameStructure
  <1>5. \A q \in Pages : Kept(q) /\ pages[q].parentId \in D => q \in D
    BY <1>d, SubtreeInSpace
  <1> QED
    BY <1>d, <1>1, <1>2, <1>3, <1>4, <1>5 DEF Hung

(* A live page is in a space that is live. *)
LEMMA LiveAway ==
    ASSUME TreeInv, UNCHANGED spaces, NEW q \in Pages, Live(q),
           \/ pages'[q].spaceId = pages[q].spaceId
           \/ pages'[q].spaceId \in Spaces /\ SpaceLive(pages'[q].spaceId)
    PROVE  AwayFromDead(q)
  <1>1. pages[q].spaceId \in Spaces /\ SpaceLive(pages[q].spaceId)
    BY LiveIsKept DEF TreeInv, LiveInLive
  <1> QED
    BY <1>1 DEF AwayFromDead

LEMMA MovePageAppendHangs ==
    ASSUME TreeInv, NEW p \in Pages, NEW s \in Spaces, NEW dest \in ParentIds, NEW base,
           MovePageAppend(p, s, dest, base)
    PROVE  /\ Hung(p, s, dest, Subtree(p))
           /\ pages'[p].sortOrder = NextSortOrder(s, dest)
           /\ pages'[p].updateAt > pages[p].updateAt
           /\ \A q \in Pages \ {p} : pages'[q] = pages[q]
  <1>t. TypeOK /\ pages \in [Pages -> Row] /\ pages[p] \in Row /\ clock \in Nat
    BY DEF TreeInv, TypeOK
  <1> DEFINE o == NextSortOrder(s, dest)
             u == NextMonotonic(clock, pages[p].updateAt)
  <1>1. /\ LiveIn(p, s) /\ SpaceLive(s) /\ MayHang(p, dest, s)
        /\ pages' = [pages EXCEPT ![p] =
               [pages[p] EXCEPT !.parentId = dest, !.sortOrder = o, !.updateAt = u]]
    BY <1>t DEF MovePageAppend, MayMove
  <1>u. u > pages[p].updateAt
    BY <1>t, NextMonotonicGrows DEF Row
  <1> HIDE DEF o, u
  <1>2. /\ pages'[p].spaceId = s /\ pages'[p].parentId = dest
        /\ pages'[p].deleteAt = pages[p].deleteAt
        /\ pages'[p].sortOrder = o /\ pages'[p].updateAt = u
        /\ \A q \in Pages \ {p} : pages'[q] = pages[q]
    BY <1>1, <1>t DEF Row, LiveIn
  <1>3. \A q \in Subtree(p) : pages'[q].spaceId = s
    <2>1. \A q \in Subtree(p) : q \in Pages /\ pages[q].spaceId = s
      BY <1>1, SubtreeInSpace, SubtreeIsLeast DEF LiveIn
    <2> QED
      BY <2>1, <1>2
  <1>4. \A q \in Pages \ Subtree(p) : pages'[q].spaceId = pages[q].spaceId
    BY <1>2, SubtreeIsLeast
  <1>5. Hung(p, s, dest, Subtree(p))
    BY <1>1, <1>2, <1>3, <1>4, SubtreeHung
  <1> QED
    BY <1>2, <1>5, <1>u DEF o

LEMMA MovePageAppendInv ==
    ASSUME TreeInv, TypeOK', NEW p \in Pages, NEW s \in Spaces, NEW dest \in ParentIds, NEW base,
           MovePageAppend(p, s, dest, base)
    PROVE  TreeInv'
  <1>1. Live(p) /\ pages[p].spaceId = s /\ SpaceLive(s) /\ UNCHANGED <<spaces, archived>>
    BY DEF MovePageAppend, MayMove, LiveIn
  <1>2. Hung(p, s, dest, Subtree(p)) /\ \A q \in Pages \ {p} : pages'[q] = pages[q]
    BY MovePageAppendHangs
  <1>3. Tree'
    BY <1>1, <1>2, SubtreeIsLeast, TreeHang
  <1>4. \A q \in Pages : AwayFromDead(q)
    <2>1. AwayFromDead(p)
      BY <1>1, <1>2, LiveAway DEF Hung
    <2> QED
      BY <2>1, <1>2 DEF AwayFromDead
  <1> QED
    BY <1>1, <1>3, <1>4, DeadUntouched

LEMMA MovePageToIndexHangs ==
    ASSUME TreeInv, NEW p \in Pages, NEW s \in Spaces, NEW dest \in ParentIds, NEW base,
           MovePageToIndex(p, s, dest, base)
    PROVE  /\ OnlyReparented(pages', p, dest)
           /\ \A q \in Pages \ {p} : OnlyReordered(pages', q)
           /\ \/ MayHang(p, dest, s) /\ Hung(p, s, dest, Subtree(p))
              \/ \A q \in Pages : SameStructure(q) /\ (Kept(q)' <=> Kept(q))
  <1>t. TypeOK
    BY DEF TreeInv
  <1>1. LiveIn(p, s) /\ UNCHANGED spaces /\ (dest = pages[p].parentId \/ MayHang(p, dest, s))
    BY DEF MovePageToIndex, MayMove
  <1>2. PICK index \in Indexes : pages' = PagesAfterReindex(p, s, dest, index)
    BY DEF MovePageToIndex
  <1>i. index \in Int
    BY FiniteAssumption, FS_CardinalityType DEF Indexes
  <1>3. /\ OnlyReparented(pages', p, dest)
        /\ \A q \in Pages \ {p} : OnlyReordered(pages', q)
    BY <1>t, <1>2, <1>i, ReindexedTable
  <1>4. CASE dest = pages[p].parentId
    <2>1. \A q \in Pages : SameStructure(q) /\ (Kept(q)' <=> Kept(q))
      BY <1>1, <1>3, <1>4 DEF SameStructure, OnlyReparented, OnlyReordered, Kept, Exists
    <2> QED
      BY <1>3, <2>1
  <1>5. CASE MayHang(p, dest, s)
    <2>1. \A q \in Pages : pages'[q].spaceId = pages[q].spaceId /\ pages'[q].deleteAt = pages[q].deleteAt
      BY <1>3 DEF OnlyReparented, OnlyReordered
    <2>2. \A q \in Subtree(p) : pages'[q].spaceId = s
      BY <2>1, <1>1, SubtreeInSpace, SubtreeIsLeast DEF LiveIn
    <2>3. /\ pages'[p].spaceId = s /\ pages'[p].parentId = dest
          /\ \A q \in Pages \ {p} : pages'[q].parentId = pages[q].parentId
      BY <1>1, <1>3 DEF OnlyReparented, OnlyReordered, LiveIn
    <2>4. \A q \in Pages \ Subtree(p) : pages'[q].spaceId = pages[q].spaceId
      BY <2>1
    <2>5. Hung(p, s, dest, Subtree(p))
      BY <1>1, <1>5, <2>1, <2>2, <2>3, <2>4, SubtreeHung
    <2> QED
      BY <1>3, <1>5, <2>5
  <1> QED
    BY <1>1, <1>4, <1>5

LEMMA MovePageToIndexInv ==
    ASSUME TreeInv, TypeOK', NEW p \in Pages, NEW s \in Spaces, NEW dest \in ParentIds, NEW base,
           MovePageToIndex(p, s, dest, base)
    PROVE  TreeInv'
  <1>t. TypeOK /\ pages \in [Pages -> Row]
    BY DEF TreeInv, TypeOK
  <1>1. LiveIn(p, s) /\ SpaceLive(s) /\ UNCHANGED <<spaces, archived>>
    BY DEF MovePageToIndex, MayMove
  <1>2. PICK index \in Indexes : pages' = PagesAfterReindex(p, s, dest, index)
    BY DEF MovePageToIndex
  <1>g. PICK group : group = Group(s, dest) \cup {p}
    OBVIOUS
  <1>3. /\ OnlyReparented(pages', p, dest)
        /\ \A q \in Pages \ {p} : OnlyReordered(pages', q)
        /\ \/ Hung(p, s, dest, Subtree(p))
           \/ \A q \in Pages : SameStructure(q) /\ (Kept(q)' <=> Kept(q))
    BY MovePageToIndexHangs
  <1>4. Tree'
    BY <1>1, <1>3, SubtreeIsLeast, TreeHang, TreeUnchanged
  <1>5. ASSUME NEW q \in Pages
        PROVE  AwayFromDead(q)
    <2>1. CASE q \in group
      <3>1. Live(q) /\ pages'[q].spaceId = pages[q].spaceId
        BY <2>1, <1>1, <1>3, <1>g DEF Group, LiveIn, OnlyReparented, OnlyReordered
      <3> QED
        BY <1>1, <3>1, LiveAway
    <2>2. CASE q \notin group
      <3>1. pages'[q] = pages[q]
        BY <2>2, <1>2, <1>g, <1>t DEF PagesAfterReindex
      <3> QED
        BY <3>1 DEF AwayFromDead
    <2> QED
      BY <2>1, <2>2
  <1> QED
    BY <1>1, <1>4, <1>5, DeadUntouched

LEMMA MovePageToSpaceHangs ==
    ASSUME TreeInv, NEW p \in Pages, NEW s \in Spaces, NEW t \in Spaces,
           NEW dest \in ParentIds, NEW base, MovePageToSpace(p, s, t, dest, base)
    PROVE  Hung(p, t, dest, Subtree(p))
  <1>1. LiveIn(p, s) /\ MayHang(p, dest, t) /\ TypeOK
    BY DEF MovePageToSpace, MayMove, TreeInv
  <1>2. /\ pages'[p].spaceId = t /\ pages'[p].parentId = dest
        /\ pages'[p].deleteAt = pages[p].deleteAt
        /\ \A q \in Pages \ {p} :
               /\ pages'[q].parentId = pages[q].parentId
               /\ pages'[q].deleteAt = pages[q].deleteAt
               /\ q \in Subtree(p) => pages'[q].spaceId = t
               /\ q \notin Subtree(p) => pages'[q] = pages[q]
    BY <1>1, RehomedTable
  <1>3. /\ \A q \in Subtree(p) : pages'[q].spaceId = t
        /\ \A q \in Pages \ Subtree(p) : pages'[q].spaceId = pages[q].spaceId
    BY <1>2, SubtreeIsLeast
  <1> QED
    BY <1>1, <1>2, <1>3, SubtreeHung

LEMMA MovePageToSpaceInv ==
    ASSUME TreeInv, TypeOK', NEW p \in Pages, NEW s \in Spaces, NEW t \in Spaces,
           NEW dest \in ParentIds, NEW base, MovePageToSpace(p, s, t, dest, base)
    PROVE  TreeInv'
  <1>1. LiveIn(p, s) /\ SpaceLive(t) /\ UNCHANGED <<spaces, archived>> /\ TypeOK
    BY DEF MovePageToSpace, MayMove, TreeInv
  <1>2. Tree'
    BY <1>1, MovePageToSpaceHangs, SubtreeIsLeast, TreeHang
  <1>3. /\ pages'[p].spaceId = t
        /\ \A q \in Pages \ {p} :
               /\ q \in Subtree(p) => pages'[q].spaceId = t
               /\ q \notin Subtree(p) => pages'[q] = pages[q]
    BY <1>1, RehomedTable
  <1>4. ASSUME NEW q \in Pages
        PROVE  AwayFromDead(q)
    <2>1. CASE q \in Subtree(p)
      <3>1. Live(q) /\ pages'[q].spaceId = t
        BY <2>1, <1>1, <1>3, SubtreeInSpace DEF LiveIn
      <3> QED
        BY <3>1, <1>1, LiveAway
    <2>2. CASE q \notin Subtree(p)
      BY <2>2, <1>3, SubtreeIsLeast DEF AwayFromDead
    <2> QED
      BY <2>1, <2>2
  <1> QED
    BY <1>1, <1>2, <1>4, DeadUntouched

LEMMA DeleteSpaceInv ==
    ASSUME TreeInv, TypeOK', NEW s \in Spaces, DeleteSpace(s)
    PROVE  TreeInv' /\ \A q \in Pages : StaysPut(q)
  <1>st. PICK st : st = CascadeStamp(s)
    OBVIOUS
  <1>t. /\ TypeOK /\ spaces \in [Spaces -> Nat] /\ pages \in [Pages -> Row]
        /\ archived \in [Spaces -> SUBSET Placement] /\ s # NoSpace
    BY RootAssumption DEF TreeInv, TypeOK
  <1>1. /\ SpaceLive(s)
        /\ spaces' = [spaces EXCEPT ![s] = st]
        /\ pages' = [p \in Pages |-> IF p \in PagesOf(s) THEN Stamped(p, st, st) ELSE pages[p]]
        /\ archived' = [archived EXCEPT ![s] = PlacementsIn(PagesOf(s))]
    BY <1>st DEF DeleteSpace
  <1>2. /\ st \in Nat \ {0}
        /\ \A p \in Pages : pages[p].spaceId = s => pages[p].deleteAt < st
    BY <1>st, <1>t, CascadeStampIsLater
  <1>3. ASSUME NEW q \in PagesOf(s)
        PROVE  /\ q \in Pages /\ pages[q].spaceId = s /\ pages[q].deleteAt = 0
               /\ pages'[q].deleteAt = st /\ pages'[q].spaceId = s
               /\ pages'[q].parentId = pages[q].parentId
               /\ pages'[q].sortOrder = pages[q].sortOrder
    <2>1. q \in Pages /\ pages[q].spaceId = s /\ pages[q].deleteAt = 0
      BY DEF PagesOf, LiveIn, Live
    <2>2. pages'[q] = Stamped(q, st, st)
      BY <1>1, <2>1
    <2> QED
      BY <2>1, <2>2, <1>2, <1>t, StampedRow
  <1>4. \A q \in Pages \ PagesOf(s) : pages'[q] = pages[q]
    BY <1>1
  <1>5. spaces'[s] = st /\ spaces[s] = 0 /\ \A r \in Spaces \ {s} : spaces'[r] = spaces[r]
    BY <1>1, <1>t DEF SpaceLive
  <1>6. ASSUME NEW q \in Pages \ PagesOf(s), pages[q].spaceId = s
        PROVE  pages[q].deleteAt # 0 /\ pages[q].deleteAt < st
    BY <1>2, <1>6, <1>t DEF PagesOf, LiveIn, Live, Exists
  <1>7. ASSUME NEW q \in Pages
        PROVE  StaysPut(q)
    <2>0. pages[q].spaceId \in Spaces \cup {NoSpace} /\ pages[q].deleteAt \in Nat
      BY <1>t DEF Row
    <2>1. CASE q \in PagesOf(s)
      BY <2>1, <1>3, <1>5, <1>t DEF StaysPut, SameStructure, SamePosition, Kept, Exists
    <2>2. CASE q \notin PagesOf(s) /\ pages[q].spaceId = s
      BY <2>0, <2>2, <1>2, <1>4, <1>5, <1>6 DEF StaysPut, SameStructure, SamePosition, Kept, Exists
    <2>3. CASE q \notin PagesOf(s) /\ pages[q].spaceId # s
      BY <2>0, <2>3, <1>4, <1>5 DEF StaysPut, SameStructure, SamePosition, Kept, Exists
    <2> QED
      BY <2>1, <2>2, <2>3
  <1>8. Tree'
    BY <1>7, TreeUnchanged DEF StaysPut
  <1>9. ASSUME NEW q \in Pages, Live(q)'
        PROVE  SpaceLive(pages[q].spaceId)'
    <2>1. q \notin PagesOf(s)
      BY <1>2, <1>3, <1>9 DEF Live
    <2>2. pages'[q] = pages[q] /\ Live(q)
      BY <2>1, <1>4, <1>9 DEF Live, Exists
    <2>3. pages[q].spaceId \in Spaces /\ SpaceLive(pages[q].spaceId) /\ pages[q].spaceId # s
      BY <2>1, <2>2, LiveIsKept DEF TreeInv, LiveInLive, PagesOf, LiveIn
    <2> QED
      BY <2>2, <2>3, <1>5 DEF SpaceLive
  <1>10. CascadedPages(s)' = PagesOf(s)
    BY <1>2, <1>3, <1>4, <1>5, <1>6 DEF CascadedPages, PagesOf
  <1>11. PlacementsIn(CascadedPages(s))' = archived'[s]
    <2>1. archived'[s] = PlacementsIn(PagesOf(s))
      BY <1>1, <1>t
    <2>2. PlacementsIn(CascadedPages(s))' = PlacementsIn(PagesOf(s))
      BY <1>3, <1>10 DEF PlacementsIn
    <2> QED
      BY <2>1, <2>2
  <1>12. ASSUME NEW r \in Spaces \ {s}, ~ SpaceLive(r)'
         PROVE  PlacementsIn(CascadedPages(r))' = archived'[r]
    <2>1. ~ SpaceLive(r) /\ archived'[r] = archived[r] /\ spaces'[r] = spaces[r]
      BY <1>1, <1>5, <1>12, <1>t DEF SpaceLive
    <2>2. \A q \in Pages : pages[q].spaceId = r \/ pages'[q].spaceId = r => pages'[q] = pages[q]
      BY <1>3, <1>4
    <2>3. CascadedPages(r)' = CascadedPages(r)
      BY <2>1, <2>2 DEF CascadedPages
    <2>4. \A q \in CascadedPages(r) : pages'[q] = pages[q]
      BY <2>2 DEF CascadedPages
    <2>5. PlacementsIn(CascadedPages(r))' = PlacementsIn(CascadedPages(r))
      BY <2>3, <2>4 DEF PlacementsIn
    <2> QED
      BY <2>1, <2>5 DEF TreeInv, TreesArchived
  <1> QED
    BY <1>7, <1>8, <1>9, <1>11, <1>12 DEF TreeInv, LiveInLive, TreesArchived, Tree

LEMMA RestoreSpaceInv ==
    ASSUME TreeInv, TypeOK', NEW s \in Spaces, NEW now \in Nat, RestoreSpace(s, now)
    PROVE  /\ TreeInv' /\ \A q \in Pages : StaysPut(q)
           /\ PlacementsIn(PagesOf(s))' = archived[s]
           /\ \A r \in Spaces \ {s} : spaces'[r] = spaces[r]
  <1>t. /\ TypeOK /\ spaces \in [Spaces -> Nat] /\ pages \in [Pages -> Row]
        /\ archived \in [Spaces -> SUBSET Placement] /\ s # NoSpace
    BY RootAssumption DEF TreeInv, TypeOK
  <1>1. /\ ~ SpaceLive(s)
        /\ spaces' = [spaces EXCEPT ![s] = 0]
        /\ pages' = [p \in Pages |-> IF p \in CascadedPages(s) THEN Stamped(p, 0, now) ELSE pages[p]]
        /\ archived' = [archived EXCEPT ![s] = {}]
    BY DEF RestoreSpace
  <1>2. ASSUME NEW q \in CascadedPages(s)
        PROVE  /\ q \in Pages /\ pages[q].spaceId = s /\ pages[q].deleteAt = spaces[s]
               /\ pages'[q].deleteAt = 0 /\ pages'[q].spaceId = s
               /\ pages'[q].parentId = pages[q].parentId
               /\ pages'[q].sortOrder = pages[q].sortOrder
    <2>1. q \in Pages /\ pages[q].spaceId = s /\ pages[q].deleteAt = spaces[s]
      BY DEF CascadedPages
    <2>2. pages'[q] = Stamped(q, 0, now)
      BY <1>1, <2>1
    <2> QED
      BY <2>1, <2>2, <1>t, StampedRow
  <1>3. \A q \in Pages \ CascadedPages(s) : pages'[q] = pages[q]
    BY <1>1
  <1>4. spaces'[s] = 0 /\ spaces[s] # 0 /\ \A r \in Spaces \ {s} : spaces'[r] = spaces[r]
    BY <1>1, <1>t DEF SpaceLive
  <1>5. ASSUME NEW q \in Pages \ CascadedPages(s), pages[q].spaceId = s
        PROVE  pages[q].deleteAt # 0 /\ pages[q].deleteAt # spaces[s]
    BY <1>5, <1>1, <1>t DEF CascadedPages, TreeInv, LiveInLive, Live, Exists
  <1>6. ASSUME NEW q \in Pages
        PROVE  StaysPut(q)
    <2>0. pages[q].spaceId \in Spaces \cup {NoSpace}
      BY <1>t DEF Row
    <2>1. CASE q \in CascadedPages(s)
      BY <2>1, <1>2, <1>4, <1>t DEF StaysPut, SameStructure, SamePosition, Kept, Exists
    <2>2. CASE q \notin CascadedPages(s) /\ pages[q].spaceId = s
      BY <2>2, <1>3, <1>4, <1>5 DEF StaysPut, SameStructure, SamePosition, Kept, Exists
    <2>3. CASE q \notin CascadedPages(s) /\ pages[q].spaceId # s
      BY <2>0, <2>3, <1>3, <1>4 DEF StaysPut, SameStructure, SamePosition, Kept, Exists
    <2> QED
      BY <2>1, <2>2, <2>3
  <1>7. Tree'
    BY <1>6, TreeUnchanged DEF StaysPut
  <1>8. ASSUME NEW q \in Pages, Live(q)'
        PROVE  SpaceLive(pages[q].spaceId)'
    <2>1. CASE q \in CascadedPages(s)
      BY <2>1, <1>2, <1>4 DEF SpaceLive
    <2>2. CASE q \notin CascadedPages(s)
      <3>1. pages'[q] = pages[q] /\ Live(q)
        BY <2>2, <1>3, <1>8 DEF Live, Exists
      <3>2. pages[q].spaceId \in Spaces /\ SpaceLive(pages[q].spaceId) /\ pages[q].spaceId # s
        BY <3>1, <1>1, LiveIsKept DEF TreeInv, LiveInLive
      <3> QED
        BY <3>1, <3>2, <1>4 DEF SpaceLive
    <2> QED
      BY <2>1, <2>2
  <1>9. ASSUME NEW r \in Spaces, ~ SpaceLive(r)'
        PROVE  PlacementsIn(CascadedPages(r))' = archived'[r]
    <2>1. r # s /\ ~ SpaceLive(r) /\ archived'[r] = archived[r] /\ spaces'[r] = spaces[r]
      BY <1>1, <1>4, <1>9, <1>t DEF SpaceLive
    <2>2. \A q \in Pages : pages[q].spaceId = r \/ pages'[q].spaceId = r => pages'[q] = pages[q]
      BY <2>1, <1>2, <1>3
    <2>3. CascadedPages(r)' = CascadedPages(r)
      BY <2>1, <2>2 DEF CascadedPages
    <2>4. \A q \in CascadedPages(r) : pages'[q] = pages[q]
      BY <2>2 DEF CascadedPages
    <2>5. PlacementsIn(CascadedPages(r))' = PlacementsIn(CascadedPages(r))
      BY <2>3, <2>4 DEF PlacementsIn
    <2> QED
      BY <2>1, <2>5 DEF TreeInv, TreesArchived
  <1>10. PagesOf(s)' = CascadedPages(s)
    BY <1>2, <1>3, <1>5, <1>t DEF PagesOf, LiveIn, Live, Exists
  <1>11. PlacementsIn(PagesOf(s))' = PlacementsIn(CascadedPages(s))
    BY <1>2, <1>10 DEF PlacementsIn
  <1>12. PlacementsIn(CascadedPages(s)) = archived[s]
    BY <1>1 DEF TreeInv, TreesArchived
  <1>13. TreeInv'
    BY <1>7, <1>8, <1>9 DEF TreeInv, LiveInLive, TreesArchived, Tree
  <1> QED
    BY <1>4, <1>6, <1>11, <1>12, <1>13

LEMMA IdleInv ==
    ASSUME TreeInv, TypeOK', UNCHANGED <<spaces, pages, archived>>
    PROVE  TreeInv'
  <1>1. \A q \in Pages : SameStructure(q) /\ (Kept(q)' <=> Kept(q))
    BY DEF SameStructure, Kept, Exists
  <1>2. \A q \in Pages : AwayFromDead(q)
    BY DEF AwayFromDead
  <1> QED
    BY <1>1, <1>2, TreeUnchanged, DeadUntouched

(* A step restores the tree a space was deleted with. *)
Reconstitutes ==
    \A s \in Spaces : ~ SpaceLive(s) /\ SpaceLive(s)' =>
        PlacementsIn(PagesOf(s))' = archived[s]

LEMMA QuietStep ==
    ASSUME UNCHANGED spaces
    PROVE  Reconstitutes
  BY DEF Reconstitutes, SpaceLive

LEMMA TreeStep ==
    ASSUME TreeInv, [Next]_vars
    PROVE  TreeInv' /\ Reconstitutes
  <1>t. TypeOK /\ ClockReads \subseteq Nat \ {0} /\ Nat \ {0} \subseteq Nat
    BY ClockReadsPositive DEF TreeInv, TypeOK
  <1>1. CASE Tick
    <2>1. TypeOK' /\ UNCHANGED <<spaces, pages, archived>>
      BY <1>1, <1>t, TickType DEF Tick
    <2> QED
      BY <2>1, IdleInv, QuietStep
  <1>2. ASSUME NEW p \in Pages, PageStep(p)
        PROVE  TreeInv' /\ Reconstitutes
    <2>1. TypeOK'
      BY <1>2, <1>t, PageStepType
    <2>2. ASSUME NEW s \in Spaces, NEW parent \in ParentIds, CreatePage(p, s, parent)
          PROVE  TreeInv' /\ Reconstitutes
      BY <2>1, <2>2, CreatePageInv, QuietStep DEF CreatePage
    <2>3. CASE EditPage(p)
      BY <2>1, <2>3, EditPageInv, QuietStep DEF EditPage
    <2>4. ASSUME NEW now \in ClockReads, DeletePage(p, now)
          PROVE  TreeInv' /\ Reconstitutes
      BY <1>t, <2>1, <2>4, DeletePageInv, QuietStep DEF DeletePage
    <2>5. ASSUME NEW now \in ClockReads, RestorePage(p, now)
          PROVE  TreeInv' /\ Reconstitutes
      BY <1>t, <2>1, <2>5, RestorePageInv, QuietStep DEF RestorePage
    <2> QED
      BY <1>2, <2>2, <2>3, <2>4, <2>5 DEF PageStep
  <1>3. ASSUME NEW p \in Pages, NEW s \in Spaces, NEW dest \in ParentIds, MoveStep(p, s, dest, Forced)
        PROVE  TreeInv' /\ Reconstitutes
    <2>1. TypeOK'
      BY <1>3, <1>t, MoveStepType
    <2>2. CASE MovePageAppend(p, s, dest, Forced)
      BY <2>1, <2>2, MovePageAppendInv, QuietStep DEF MovePageAppend
    <2>3. CASE MovePageToIndex(p, s, dest, Forced)
      BY <2>1, <2>3, MovePageToIndexInv, QuietStep DEF MovePageToIndex
    <2>4. ASSUME NEW t \in Spaces, MovePageToSpace(p, s, t, dest, Forced)
          PROVE  TreeInv' /\ Reconstitutes
      BY <2>1, <2>4, MovePageToSpaceInv, QuietStep DEF MovePageToSpace
    <2> QED
      BY <1>3, <2>2, <2>3, <2>4 DEF MoveStep
  <1>4. ASSUME NEW s \in Spaces, SpaceStep(s)
        PROVE  TreeInv' /\ Reconstitutes
    <2>1. TypeOK'
      BY <1>4, <1>t, SpaceStepType
    <2>2. CASE DeleteSpace(s)
      <3>1. SpaceLive(s) /\ \A r \in Spaces \ {s} : spaces'[r] = spaces[r]
        BY <2>2, <1>t DEF DeleteSpace, TypeOK
      <3>2. Reconstitutes
        BY <3>1 DEF Reconstitutes, SpaceLive
      <3> QED
        BY <2>1, <2>2, <3>2, DeleteSpaceInv
    <2>3. ASSUME NEW now \in ClockReads, RestoreSpace(s, now)
          PROVE  TreeInv' /\ Reconstitutes
      <3>1. /\ TreeInv' /\ PlacementsIn(PagesOf(s))' = archived[s]
            /\ \A r \in Spaces \ {s} : spaces'[r] = spaces[r]
        BY <1>t, <2>1, <2>3, RestoreSpaceInv
      <3>2. Reconstitutes
        BY <3>1 DEF Reconstitutes, SpaceLive
      <3> QED
        BY <3>1, <3>2
    <2> QED
      BY <1>4, <2>2, <2>3 DEF SpaceStep
  <1>5. CASE UNCHANGED vars
    <2>1. TypeOK' /\ UNCHANGED <<spaces, pages, archived>>
      BY <1>5, <1>t, StutterType DEF vars
    <2> QED
      BY <2>1, IdleInv, QuietStep
  <1> QED
    BY <1>1, <1>2, <1>3, <1>4, <1>5 DEF Next

LEMMA TreeInit ==
    ASSUME Init
    PROVE  TreeInv
  <1>1. TypeOK /\ \A p \in Pages : ~ Exists(p)
    BY InitType DEF Init, Exists
  <1>2. \A s \in Spaces : SpaceLive(s)
    BY DEF Init, SpaceLive
  <1>3. LiveInLive /\ ParentsKept /\ TreesArchived
    BY <1>1, <1>2 DEF LiveInLive, ParentsKept, TreesArchived, Live, Kept
  <1>4. KeptAcyclic
    BY <1>1 DEF KeptAcyclic, Rooted, Kept
  <1> QED
    BY <1>1, <1>3, <1>4 DEF TreeInv

-----------------------------------------------------------------------------

(* What the pages of a space would show if it were live is a forest, in every *)
(* reachable state.                                                            *)
THEOREM TreeInvariant == Spec => []TreeInv
  <1>1. Init => TreeInv
    BY TreeInit
  <1>2. TreeInv /\ [Next]_vars => TreeInv'
    BY TreeStep
  <1> QED
    BY <1>1, <1>2, PTL DEF Spec

(* No live page is in a deleted space, under a deleted page or under a page of *)
(* another space, after any sequence of creates, deletes, moves and restores.   *)
THEOREM LivePagesHangLive == Spec => []ParentsLive
  BY TreeInvariant, InvParentsLive, PTL

(* No sequence of moves, deletes and restores closes a cycle of pages. *)
THEOREM NoCycles == Spec => []Acyclic
  BY TreeInvariant, InvAcyclic, PTL

(* A restored space has exactly the tree it was deleted with. *)
THEOREM RestoreReconstitutes == Spec => SpaceRestoreReconstitutes
  <1>1. TreeInv /\ [Next]_vars => [Reconstitutes]_vars
    BY TreeStep
  <1>2. SpaceRestoreReconstitutes <=> [][Reconstitutes]_vars
    BY DEF SpaceRestoreReconstitutes, Reconstitutes
  <1> QED
    BY <1>1, <1>2, TreeInvariant, PTL DEF Spec

-----------------------------------------------------------------------------
(* No two pages of g share a position. *)
Distinct(g) == \A p, q \in g : p # q => pages[p].sortOrder # pages[q].sortOrder

-----------------------------------------------------------------------------
(* Places and renumberings                                                 *)

(* Pages with different positions are ordered by them alone. *)
LEMMA BeforeByPosition ==
    ASSUME TypeOK, NEW p \in Pages, NEW q \in Pages,
           pages[p].sortOrder # pages[q].sortOrder
    PROVE  /\ Before(p, q) <=> pages[p].sortOrder < pages[q].sortOrder
           /\ Before(p, q) <=> ~ Before(q, p)
  <1>1. pages[p].sortOrder \in Nat /\ pages[q].sortOrder \in Nat
    BY DEF TypeOK, Row
  <1> QED
    BY <1>1 DEF Before

(* The order of siblings is transitive and strict. *)
LEMMA BeforeIsStrict ==
    ASSUME TypeOK, NEW p \in Pages, NEW q \in Pages, NEW r \in Pages, Before(p, q)
    PROVE  ~ Before(q, p) /\ (Before(q, r) => Before(p, r))
  <1>1. \A x \in {p, q, r} : pages[x].sortOrder \in Nat /\ pages[x].createAt \in Nat
    BY DEF TypeOK, Row
  <1> QED
    BY <1>1 DEF Before

(* The places in a group start at zero and end below its size. *)
LEMMA PlaceBelowSize ==
    ASSUME NEW g \in SUBSET Pages, NEW p \in g
    PROVE  Place(p, g) \in Nat /\ Place(p, g) < Cardinality(g)
  <1> DEFINE ahead == {q \in g \ {p} : Before(q, p)}
  <1>1. IsFiniteSet(g) /\ Cardinality(g) \in Nat
    BY PagesFinite
  <1>2. IsFiniteSet(g \ {p}) /\ Cardinality(g \ {p}) = Cardinality(g) - 1
    BY <1>1, FS_RemoveElement
  <1>3. ahead \in SUBSET (g \ {p})
    OBVIOUS
  <1>4. Cardinality(ahead) <= Cardinality(g \ {p}) /\ Cardinality(ahead) \in Nat
    <2> HIDE DEF ahead
    <2> QED
      BY <1>2, <1>3, FS_Subset, FS_CardinalityType
  <1>5. Place(p, g) = Cardinality(ahead)
    BY DEF Place
  <1> HIDE DEF ahead
  <1> QED
    BY <1>1, <1>2, <1>4, <1>5

(* A page that comes before another has the lower place. *)
LEMMA PlaceMonotone ==
    ASSUME TypeOK, NEW g \in SUBSET Pages, NEW p \in g, NEW q \in g, Before(p, q)
    PROVE  Place(p, g) < Place(q, g)
  <1> DEFINE A == {r \in g \ {p} : Before(r, p)}
             B == {r \in g \ {q} : Before(r, q)}
  <1>1. p \in B /\ p # q
    BY BeforeIsStrict
  <1>2. A \subseteq B \ {p}
    <2> SUFFICES ASSUME NEW r \in g \ {p}, Before(r, p)
                 PROVE  r # q /\ Before(r, q)
      OBVIOUS
    <2> QED
      BY BeforeIsStrict
  <1>3. IsFiniteSet(B) /\ Cardinality(B) \in Nat
    <2>1. B \in SUBSET Pages
      OBVIOUS
    <2> HIDE DEF B
    <2> QED
      BY <2>1, PagesFinite
  <1>4. Place(p, g) = Cardinality(A) /\ Place(q, g) = Cardinality(B)
    BY DEF Place
  <1> HIDE DEF A, B
  <1>5. IsFiniteSet(B \ {p}) /\ Cardinality(B \ {p}) = Cardinality(B) - 1
    BY <1>1, <1>3, FS_RemoveElement
  <1>6. Cardinality(A) <= Cardinality(B \ {p}) /\ Cardinality(A) \in Nat
    BY <1>2, <1>5, FS_Subset, FS_CardinalityType
  <1> QED
    BY <1>3, <1>4, <1>5, <1>6

(* Where no position is shared, the places tell the order, and each its page. *)
LEMMA PlaceTellsOrder ==
    ASSUME TypeOK, NEW g \in SUBSET Pages, Distinct(g), NEW p \in g, NEW q \in g, p # q
    PROVE  /\ Before(p, q) <=> Place(p, g) < Place(q, g)
           /\ Place(p, g) # Place(q, g)
  <1>1. Before(p, q) <=> ~ Before(q, p)
    BY BeforeByPosition DEF Distinct
  <1>2. Place(p, g) \in Nat /\ Place(q, g) \in Nat
    BY PlaceBelowSize
  <1>3. CASE Before(p, q)
    BY <1>2, <1>3, PlaceMonotone
  <1>4. CASE Before(q, p)
    <2>1. Place(q, g) < Place(p, g)
      BY <1>4, PlaceMonotone
    <2> QED
      BY <1>1, <1>2, <1>4, <2>1
  <1> QED
    BY <1>1, <1>3, <1>4

(* reindexSiblingGroup: the positions are 1 to the size of the group, the moved *)
(* page is at its index, and the others keep their order.                      *)
LEMMA RenumberedIsAnOrder ==
    ASSUME TypeOK, NEW g \in SUBSET Pages, NEW p \in g, Distinct(g \ {p}),
           NEW index \in 0 .. Cardinality(g) - 1,
           NEW order, order = Renumbered(p, g, index)
    PROVE  /\ order \in [g -> 1 .. Cardinality(g)]
           /\ order[p] = index + 1
           /\ \A q, r \in g : q # r => order[q] # order[r]
           /\ \A q, r \in g \ {p} : Before(q, r) <=> order[q] < order[r]
           /\ {order[q] : q \in g} = 1 .. Cardinality(g)
  <1> DEFINE others == g \ {p}
             n == Cardinality(g)
             place == [q \in others |-> Place(q, others)]
  <1>1. IsFiniteSet(g) /\ n \in Nat /\ others \in SUBSET Pages
    BY PagesFinite
  <1>2. Cardinality(others) = n - 1
    BY <1>1, FS_RemoveElement
  <1>3. order = [q \in g |-> IF q = p THEN index + 1
                             ELSE IF Place(q, others) < index THEN Place(q, others) + 1
                             ELSE Place(q, others) + 2]
    BY DEF Renumbered
  <1>4. ASSUME NEW q \in others
        PROVE  place[q] \in Nat /\ place[q] < n - 1
    <2>1. Place(q, others) \in Nat /\ Place(q, others) < Cardinality(others)
      BY <1>1, PlaceBelowSize
    <2> QED
      BY <2>1, <1>2
  <1>5. ASSUME NEW q \in others, NEW r \in others, q # r
        PROVE  (Before(q, r) <=> place[q] < place[r]) /\ place[q] # place[r]
    BY <1>1, <1>5, PlaceTellsOrder
  <1>6. /\ order[p] = index + 1
        /\ \A q \in others : order[q] = IF place[q] < index THEN place[q] + 1 ELSE place[q] + 2
    BY <1>3
  <1>7. \A q \in others : ~ Before(q, q)
    BY BeforeIsStrict
  <1> HIDE DEF n, place
  <1>8. ASSUME NEW q \in others
        PROVE  order[q] \in 1 .. n /\ order[q] # index + 1
    BY <1>1, <1>4, <1>6
  <1>9. order \in [g -> 1 .. n]
    <2>1. order[p] \in 1 .. n
      BY <1>1, <1>6 DEF n
    <2> QED
      BY <1>3, <1>8, <2>1
  <1>10. ASSUME NEW q \in others, NEW r \in others, q # r
         PROVE  order[q] # order[r] /\ (Before(q, r) <=> order[q] < order[r])
    <2>1. place[q] \in Nat /\ place[r] \in Nat /\ place[q] # place[r]
      BY <1>4, <1>5, <1>10
    <2>2. order[q] # order[r] /\ (place[q] < place[r] <=> order[q] < order[r])
      BY <2>1, <1>6
    <2> QED
      BY <2>2, <1>5, <1>10
  <1>11. \A q, r \in others : Before(q, r) <=> order[q] < order[r]
    <2> SUFFICES ASSUME NEW q \in others, NEW r \in others
                 PROVE  Before(q, r) <=> order[q] < order[r]
      OBVIOUS
    <2>1. CASE q = r
      BY <2>1, <1>1, <1>7, <1>8
    <2> QED
      BY <2>1, <1>10
  <1>12. \A q, r \in g : q # r => order[q] # order[r]
    BY <1>6, <1>8, <1>10
  <1>13. order \in Injection(g, 1 .. n)
    BY <1>9, <1>12 DEF Injection, IsInjective
  <1>14. order \in Surjection(g, 1 .. n)
    <2>1. IsFiniteSet(1 .. n) /\ Cardinality(1 .. n) = n
      BY <1>1, FS_Interval
    <2> QED
      BY <1>13, <2>1, FS_Injection DEF n
  <1>15. {order[q] : q \in g} = 1 .. n
    BY <1>9, <1>14 DEF Surjection
  <1> QED
    BY <1>6, <1>9, <1>11, <1>12, <1>15 DEF n

-----------------------------------------------------------------------------
(* The groups of the kept pages                                            *)

KeptGroup(s, parent) ==
    {p \in Pages : Kept(p) /\ pages[p].spaceId = s /\ pages[p].parentId = parent}

OrderlyGroup(s, parent) ==
    /\ Distinct(KeptGroup(s, parent))
    /\ Cardinality(KeptGroup(s, parent)) <= MaxSiblings

(* The inductive invariant of the order and of the cap on siblings. *)
Orderly == \A s \in Spaces, parent \in ParentIds : OrderlyGroup(s, parent)

(* In a live space the kept pages are the live ones. *)
LEMMA GroupIsKept ==
    ASSUME TreeInv, NEW s, NEW parent
    PROVE  /\ Group(s, parent) \subseteq KeptGroup(s, parent)
           /\ SpaceLive(s) => Group(s, parent) = KeptGroup(s, parent)
  <1>1. ASSUME NEW p \in Group(s, parent)
        PROVE  p \in KeptGroup(s, parent)
    BY LiveIsKept DEF Group, LiveIn, KeptGroup
  <1>2. ASSUME SpaceLive(s), NEW p \in KeptGroup(s, parent)
        PROVE  p \in Group(s, parent)
    BY <1>2, KeptInLiveIsLive DEF Group, LiveIn, KeptGroup
  <1> QED
    BY <1>1, <1>2

LEMMA InvSiblingsOrdered == TreeInv /\ Orderly => SiblingsOrdered
  <1> SUFFICES ASSUME TreeInv, Orderly,
                      NEW p \in Pages, NEW q \in Pages, p # q, Live(p), Live(q),
                      pages[p].spaceId = pages[q].spaceId, pages[p].parentId = pages[q].parentId
               PROVE  pages[p].sortOrder # pages[q].sortOrder
    BY DEF SiblingsOrdered
  <1>1. Kept(p) /\ Kept(q) /\ pages[p].spaceId \in Spaces
    BY LiveIsKept
  <1>2. pages[p].parentId \in ParentIds
    BY DEF TreeInv, TypeOK, Row
  <1>3. Distinct(KeptGroup(pages[p].spaceId, pages[p].parentId))
    BY <1>1, <1>2 DEF Orderly, OrderlyGroup
  <1> QED
    BY <1>1, <1>3 DEF Distinct, KeptGroup

LEMMA InvSiblingsCapped == TreeInv /\ Orderly => SiblingsCapped
  <1> SUFFICES ASSUME TreeInv, Orderly, NEW s \in Spaces, NEW parent \in ParentIds
               PROVE  Cardinality(Group(s, parent)) <= MaxSiblings
    BY DEF SiblingsCapped
  <1>1. /\ KeptGroup(s, parent) \in SUBSET Pages
        /\ Cardinality(KeptGroup(s, parent)) <= MaxSiblings
    BY DEF Orderly, OrderlyGroup, KeptGroup
  <1>2. IsFiniteSet(KeptGroup(s, parent)) /\ Cardinality(KeptGroup(s, parent)) \in Nat
    BY <1>1, PagesFinite
  <1>3. Group(s, parent) \subseteq KeptGroup(s, parent)
    BY GroupIsKept
  <1>4. /\ Cardinality(Group(s, parent)) <= Cardinality(KeptGroup(s, parent))
        /\ Cardinality(Group(s, parent)) \in Nat
    BY <1>2, <1>3, FS_Subset, FS_CardinalityType
  <1> QED
    BY <1>1, <1>2, <1>4, TreeParamsAssumption

(* Max and Min of two numbers. *)
LEMMA MaxOfTwo ==
    ASSUME NEW a \in Int, NEW b \in Int
    PROVE  /\ Max({a, b}) = IF a >= b THEN a ELSE b
           /\ Min({a, b}) = IF a <= b THEN a ELSE b
  <1>1. Max({a, b}) = CHOOSE x \in {a, b} : \A y \in {a, b} : x >= y
    BY DEF Max
  <1>2. Min({a, b}) = CHOOSE x \in {a, b} : \A y \in {a, b} : x <= y
    BY DEF Min
  <1>3. CASE a >= b
    BY <1>1, <1>2, <1>3
  <1>4. CASE ~ (a >= b)
    BY <1>1, <1>2, <1>4
  <1> QED
    BY <1>3, <1>4

(* Clamping an index and counting from one is the nearest position to it. *)
LEMMA ClampedPosition ==
    ASSUME NEW index \in Int, NEW g, Cardinality(g) \in Nat \ {0}
    PROVE  Clamped(index, g) + 1 = Max({1, Min({index + 1, Cardinality(g)})})
  <1>n. PICK n \in Nat \ {0} : n = Cardinality(g)
    OBVIOUS
  <1>l. PICK l \in Int : l = n - 1
    OBVIOUS
  <1>i. PICK i \in Int : i = index + 1
    OBVIOUS
  <1>a. PICK a \in Int : a = IF index <= l THEN index ELSE l
    OBVIOUS
  <1>b. PICK b \in Int : b = IF i <= n THEN i ELSE n
    OBVIOUS
  <1>0. 0 \in Int /\ 1 \in Int /\ n \in Int
    OBVIOUS
  <1>1. Min({index, l}) = a
    BY <1>a, MaxOfTwo, Zenon
  <1>2. Min({i, n}) = b
    BY <1>0, <1>b, MaxOfTwo, Zenon
  <1>3. Max({0, a}) = IF 0 >= a THEN 0 ELSE a
    BY <1>0, MaxOfTwo, Zenon
  <1>4. Max({1, b}) = IF 1 >= b THEN 1 ELSE b
    BY <1>0, MaxOfTwo, Zenon
  <1>5. Clamped(index, g) = Max({0, a})
    BY <1>n, <1>l, <1>1 DEF Clamped
  <1>6. Max({1, Min({index + 1, Cardinality(g)})}) = Max({1, b})
    BY <1>n, <1>i, <1>2
  <1> QED
    BY <1>l, <1>i, <1>a, <1>b, <1>3, <1>4, <1>5, <1>6

LEMMA InvReindexInserts == TreeInv /\ Orderly => ReindexInsertsAtTheIndex
  <1> SUFFICES ASSUME TreeInv, Orderly, NEW p \in Pages, NEW dest \in ParentIds, Live(p),
                      NEW index \in Indexes
               PROVE  LET g == Group(pages[p].spaceId, dest) \cup {p}
                          order == Renumbered(p, g, Clamped(index, g))
                      IN  /\ {order[q] : q \in g} = 1 .. Cardinality(g)
                          /\ order[p] = Max({1, Min({index + 1, Cardinality(g)})})
                          /\ \A q, r \in g \ {p} : Before(q, r) => order[q] < order[r]
    BY Zenon DEF ReindexInsertsAtTheIndex
  <1>g. PICK g : g = Group(pages[p].spaceId, dest) \cup {p}
    OBVIOUS
  <1>1. g \in SUBSET Pages /\ p \in g /\ g # {} /\ TypeOK
    BY <1>g DEF Group, TreeInv
  <1>2. IsFiniteSet(g) /\ Cardinality(g) \in Nat \ {0}
    BY <1>1, PagesFinite, FS_EmptySet
  <1>3. index \in Int
    BY FiniteAssumption, FS_CardinalityType DEF Indexes
  <1>4. Distinct(g \ {p})
    <2>1. Distinct(KeptGroup(pages[p].spaceId, dest))
      BY LiveIsKept DEF Orderly, OrderlyGroup
    <2>2. g \ {p} \subseteq KeptGroup(pages[p].spaceId, dest)
      BY <1>g, GroupIsKept
    <2> QED
      BY <2>1, <2>2 DEF Distinct
  <1>k. PICK k \in 0 .. Cardinality(g) - 1 : k = Clamped(index, g)
    BY <1>1, <1>3, ClampedType
  <1>o. PICK order : order = Renumbered(p, g, k)
    OBVIOUS
  <1>5. /\ order[p] = k + 1
        /\ \A q, r \in g \ {p} : Before(q, r) <=> order[q] < order[r]
        /\ {order[q] : q \in g} = 1 .. Cardinality(g)
    BY <1>1, <1>4, <1>o, RenumberedIsAnOrder
  <1>6. k + 1 = Max({1, Min({index + 1, Cardinality(g)})})
    BY <1>2, <1>3, <1>k, ClampedPosition
  <1> QED
    BY <1>g, <1>k, <1>o, <1>5, <1>6

-----------------------------------------------------------------------------
(* Three ways a step changes the groups                                    *)

(* A group that is part of one there was, in the positions it had, is orderly. *)
LEMMA GroupFrom ==
    ASSUME Orderly, NEW s, NEW parent, NEW r \in Spaces, NEW u \in ParentIds,
           KeptGroup(s, parent)' \subseteq KeptGroup(r, u),
           \A q \in KeptGroup(s, parent)' : SamePosition(q)
    PROVE  OrderlyGroup(s, parent)'
  <1>1. OrderlyGroup(r, u)
    BY DEF Orderly
  <1>2. Distinct(KeptGroup(s, parent))'
    BY <1>1 DEF OrderlyGroup, Distinct, SamePosition
  <1>3. IsFiniteSet(KeptGroup(r, u)) /\ Cardinality(KeptGroup(r, u)) \in Nat
    BY PagesFinite DEF KeptGroup
  <1>4. PICK g \in SUBSET KeptGroup(r, u) : g = KeptGroup(s, parent)'
    OBVIOUS
  <1>5. Cardinality(g) <= Cardinality(KeptGroup(r, u)) /\ Cardinality(g) \in Nat
    BY <1>3, FS_Subset, FS_CardinalityType
  <1>6. Cardinality(KeptGroup(s, parent))' <= MaxSiblings
    BY <1>1, <1>3, <1>4, <1>5, TreeParamsAssumption DEF OrderlyGroup
  <1> QED
    BY <1>2, <1>6 DEF OrderlyGroup

(* Nothing moves. *)
LEMMA OrderlyUnchanged ==
    ASSUME Orderly,
           \A q \in Pages : StaysPut(q)
    PROVE  Orderly'
  <1>1. ASSUME NEW s \in Spaces, NEW parent \in ParentIds
        PROVE  OrderlyGroup(s, parent)'
    <2>1. KeptGroup(s, parent)' \subseteq KeptGroup(s, parent)
      BY DEF KeptGroup, StaysPut, SameStructure
    <2>2. \A q \in KeptGroup(s, parent)' : SamePosition(q)
      BY DEF KeptGroup, StaysPut
    <2> QED
      BY <2>1, <2>2, GroupFrom
  <1> QED
    BY <1>1 DEF Orderly

(* Where the pages of a group come from when a page is hung somewhere: from the *)
(* same group, from the group of the same parent in its old space, or, in the   *)
(* group the page is hung in, from that group and the page.                     *)
LEMMA HungGroups ==
    ASSUME TreeInv, UNCHANGED spaces, NEW p \in Pages, NEW s \in Spaces, NEW dest \in ParentIds,
           NEW D \in SUBSET Pages, Hung(p, s, dest, D),
           NEW r \in Spaces, NEW u \in ParentIds
    PROVE  \/ /\ r = s /\ u = dest
              /\ KeptGroup(r, u)' \subseteq KeptGroup(s, dest) \cup {p}
           \/ /\ p \notin KeptGroup(r, u)'
              /\ \E q \in Spaces : KeptGroup(r, u)' \subseteq KeptGroup(q, u)
  <1>1. ASSUME NEW q \in Pages \ D, Kept(q)'
        PROVE  /\ Kept(q) /\ pages[q].spaceId = pages'[q].spaceId
               /\ pages[q].parentId = pages'[q].parentId
               /\ pages[q].parentId \notin D
    <2>1. SameStructure(q) /\ pages'[q].deleteAt = pages[q].deleteAt
      BY DEF Hung
    <2>2. Kept(q)
      BY <1>1, <2>1 DEF Kept, Exists, SameStructure
    <2> QED
      BY <2>1, <2>2 DEF SameStructure, Hung
  <1>2. ASSUME NEW q \in D \ {p}
        PROVE  /\ Live(q) /\ pages[q].parentId \in D
               /\ pages'[q].parentId = pages[q].parentId
    BY DEF Hung
  <1>3. p \in D /\ pages'[p].spaceId = s /\ pages'[p].parentId = dest /\ dest \notin D
    BY RootAssumption DEF Hung
  <1>4. CASE r = s /\ u = dest
    <2>1. ASSUME NEW q \in KeptGroup(r, u)', q # p
          PROVE  q \in KeptGroup(s, dest)
      <3>1. q \in Pages /\ Kept(q)' /\ pages'[q].spaceId = s /\ pages'[q].parentId = dest
        BY <1>4 DEF KeptGroup
      <3>2. q \notin D
        BY <2>1, <3>1, <1>2, <1>3
      <3> QED
        BY <3>1, <3>2, <1>1 DEF KeptGroup
    <2> QED
      BY <1>4, <2>1
  <1>5. CASE ~ (r = s /\ u = dest) /\ u \notin D
    <2>1. p \notin KeptGroup(r, u)'
      BY <1>3, <1>5 DEF KeptGroup
    <2>2. ASSUME NEW q \in KeptGroup(r, u)'
          PROVE  q \in KeptGroup(r, u)
      <3>1. q \in Pages \ {p} /\ Kept(q)' /\ pages'[q].spaceId = r /\ pages'[q].parentId = u
        BY <2>1 DEF KeptGroup
      <3>2. q \notin D
        BY <3>1, <1>2, <1>5
      <3> QED
        BY <3>1, <3>2, <1>1 DEF KeptGroup
    <2> QED
      BY <2>1, <2>2
  <1>6. CASE u \in D
    <2>1. p \notin KeptGroup(r, u)'
      BY <1>3, <1>6 DEF KeptGroup
    <2>2. ASSUME NEW q \in KeptGroup(r, u)'
          PROVE  pages[u].spaceId \in Spaces /\ q \in KeptGroup(pages[u].spaceId, u)
      <3>1. q \in Pages \ {p} /\ Kept(q)' /\ pages'[q].parentId = u
        BY <2>1 DEF KeptGroup
      <3>2. q \in D \ {p}
        BY <3>1, <1>1, <1>6
      <3>3. Live(q) /\ pages[q].parentId = u
        BY <3>1, <3>2, <1>2
      <3>4. Kept(q) /\ pages[q].spaceId \in Spaces /\ ParentKept(q)
        BY <3>1, <3>3, LiveIsKept DEF TreeInv, ParentsKept
      <3>5. u # NoPage
        BY <1>6, RootAssumption
      <3>6. pages[u].spaceId = pages[q].spaceId
        BY <3>3, <3>4, <3>5 DEF ParentKept
      <3> QED
        BY <3>1, <3>3, <3>4, <3>6 DEF KeptGroup
    <2>3. CASE KeptGroup(r, u)' = {}
      BY <2>1, <2>3
    <2>4. CASE KeptGroup(r, u)' # {}
      BY <2>1, <2>2, <2>4
    <2> QED
      BY <2>3, <2>4
  <1> QED
    BY <1>4, <1>5, <1>6

(* A set of pages is no larger than one it is part of, or that and a page. *)
LEMMA PartIsSmaller ==
    ASSUME NEW g \in SUBSET Pages, NEW k \in SUBSET Pages, g \subseteq k
    PROVE  Cardinality(g) <= Cardinality(k) /\ Cardinality(g) \in Nat /\ Cardinality(k) \in Nat
  <1>1. IsFiniteSet(k) /\ Cardinality(k) \in Nat /\ Cardinality(g) \in Nat
    BY PagesFinite
  <1>2. Cardinality(g) <= Cardinality(k)
    BY <1>1, FS_Subset
  <1> QED
    BY <1>1, <1>2

LEMMA OneMore ==
    ASSUME NEW g \in SUBSET Pages, NEW k \in SUBSET Pages, NEW p \in Pages, g \subseteq k \cup {p}
    PROVE  Cardinality(g) <= Cardinality(k) + 1 /\ Cardinality(g) \in Nat /\ Cardinality(k) \in Nat
  <1>1. IsFiniteSet(k) /\ Cardinality(k) \in Nat
    BY PagesFinite
  <1>2. PICK h \in SUBSET Pages : h = k \cup {p}
    OBVIOUS
  <1>3. Cardinality(h) = IF p \in k THEN Cardinality(k) ELSE Cardinality(k) + 1
    BY <1>1, <1>2, FS_AddElement
  <1>4. Cardinality(g) <= Cardinality(h) /\ Cardinality(g) \in Nat
    BY <1>2, PartIsSmaller
  <1> QED
    BY <1>1, <1>3, <1>4

(* A page is appended to a group that has room for it. *)
LEMMA OrderlyAppend ==
    ASSUME TreeInv, Orderly, UNCHANGED spaces,
           NEW p \in Pages, NEW s \in Spaces, SpaceLive(s), NEW dest \in ParentIds,
           NEW D \in SUBSET Pages, Hung(p, s, dest, D),
           HasRoom(Group(s, dest), 1),
           pages'[p].sortOrder = NextSortOrder(s, dest),
           \A q \in Pages \ {p} : SamePosition(q)
    PROVE  Orderly'
  <1>1. Group(s, dest) = KeptGroup(s, dest)
    BY GroupIsKept
  <1>2. /\ pages'[p].sortOrder \in Nat
        /\ \A q \in KeptGroup(s, dest) : pages[q].sortOrder < pages'[p].sortOrder
    BY <1>1, NextSortOrderIsLast DEF TreeInv
  <1>3. \A q \in Pages : pages[q].sortOrder \in Nat
    BY DEF TreeInv, TypeOK, Row
  <1>4. ASSUME NEW r \in Spaces, NEW u \in ParentIds
        PROVE  OrderlyGroup(r, u)'
    <2>1. CASE r = s /\ u = dest /\ KeptGroup(r, u)' \subseteq KeptGroup(s, dest) \cup {p}
      <3>1. Distinct(KeptGroup(s, dest))
        BY DEF Orderly, OrderlyGroup
      <3>2. ASSUME NEW x \in KeptGroup(r, u)', NEW y \in KeptGroup(r, u)', x # y
            PROVE  pages'[x].sortOrder # pages'[y].sortOrder
        <4>0. x \in KeptGroup(s, dest) \cup {p} /\ y \in KeptGroup(s, dest) \cup {p}
          BY <2>1
        <4>k. \A q \in KeptGroup(s, dest) : q \in Pages
          BY DEF KeptGroup
        <4>1. CASE x # p /\ y # p
          BY <3>1, <3>2, <4>0, <4>1, <4>k DEF SamePosition, Distinct
        <4>2. CASE x = p
          <5>1. pages'[y].sortOrder = pages[y].sortOrder /\ pages[y].sortOrder < pages'[p].sortOrder
            BY <3>2, <4>0, <4>2, <4>k, <1>2 DEF SamePosition
          <5> QED
            BY <5>1, <4>0, <4>2, <4>k, <1>2, <1>3, <3>2
        <4>3. CASE y = p
          <5>1. pages'[x].sortOrder = pages[x].sortOrder /\ pages[x].sortOrder < pages'[p].sortOrder
            BY <3>2, <4>0, <4>3, <4>k, <1>2 DEF SamePosition
          <5> QED
            BY <5>1, <4>0, <4>3, <4>k, <1>2, <1>3, <3>2
        <4> QED
          BY <4>1, <4>2, <4>3
      <3>k. PICK k \in SUBSET Pages : k = KeptGroup(s, dest)
        BY DEF KeptGroup
      <3>g. PICK g \in SUBSET Pages : g = KeptGroup(r, u)'
        BY DEF KeptGroup
      <3>3. Cardinality(g) <= Cardinality(k) + 1 /\ Cardinality(g) \in Nat /\ Cardinality(k) \in Nat
        BY <2>1, <3>k, <3>g, OneMore
      <3>4. Cardinality(k) + 1 <= MaxSiblings
        BY <1>1, <3>k DEF HasRoom
      <3>5. Cardinality(KeptGroup(r, u))' <= MaxSiblings
        BY <3>g, <3>3, <3>4, TreeParamsAssumption
      <3> QED
        BY <3>2, <3>5 DEF OrderlyGroup, Distinct
    <2>2. CASE p \notin KeptGroup(r, u)' /\ \E q \in Spaces : KeptGroup(r, u)' \subseteq KeptGroup(q, u)
      <3>1. \A q \in KeptGroup(r, u)' : SamePosition(q)
        BY <2>2 DEF KeptGroup
      <3> QED
        BY <2>2, <3>1, GroupFrom
    <2> QED
      BY <2>1, <2>2, HungGroups
  <1> QED
    BY <1>4 DEF Orderly

-----------------------------------------------------------------------------
(* Deleting a page                                                         *)

Position(q) == pages[q].sortOrder

(* DeletePage, row by row: g is the group of the deleted page, C its children. *)
LEMMA DeletedRows ==
    ASSUME TreeInv, NEW p \in Pages, NEW now \in Nat \ {0}, DeletePage(p, now),
           NEW g, g = KeptGroup(pages[p].spaceId, pages[p].parentId),
           NEW C, C = KeptGroup(pages[p].spaceId, p)
    PROVE  /\ g \in SUBSET Pages /\ C \in SUBSET Pages /\ C = Children(p)
           /\ p \in g \ C /\ g \cap C = {}
           /\ ~ Kept(p)' /\ pages'[p].updateAt > pages[p].updateAt
           /\ \A q \in Pages \ {p} : /\ Kept(q)' <=> Kept(q)
                                     /\ pages'[q].spaceId = pages[q].spaceId
           /\ \A q \in C : /\ pages'[q].parentId = pages[p].parentId
                           /\ Position(q)' = Position(p) + Place(q, C)
                           /\ pages'[q].updateAt > pages[q].updateAt
           /\ \A q \in g \ {p} :
                  Position(q)' = IF Before(p, q) /\ Cardinality(C) > 1
                                 THEN Position(q) + Cardinality(C) - 1 ELSE Position(q)
           /\ \A q \in Pages \ (C \cup {p}) : pages'[q].parentId = pages[q].parentId
           /\ \A q \in Pages \ (C \cup g) : pages'[q] = pages[q]
  <1> DEFINE n == Cardinality(Children(p))
  <1>t. TypeOK /\ UNCHANGED spaces /\ pages' = PagesAfterDelete(p, now)
    BY DEF TreeInv, DeletePage
  <1>1. /\ Live(p) /\ Kept(p) /\ pages[p].spaceId \in Spaces /\ SpaceLive(pages[p].spaceId)
    BY LiveIsKept DEF DeletePage
  <1>2. g = Group(pages[p].spaceId, pages[p].parentId)
    BY <1>1, GroupIsKept
  <1>3. C = Children(p)
    <2>1. ASSUME NEW q \in C
          PROVE  q \in Children(p)
      BY <1>1, KeptInLiveIsLive DEF KeptGroup, Children
    <2>2. ASSUME NEW q \in Children(p)
          PROVE  q \in C
      <3>1. q \in Pages /\ Live(q) /\ pages[q].parentId = p /\ p # NoPage
        BY RootAssumption DEF Children
      <3>2. Kept(q) /\ ParentKept(q)
        BY <3>1, LiveIsKept DEF TreeInv, ParentsKept
      <3> QED
        BY <3>1, <3>2 DEF KeptGroup, ParentKept
    <2> QED
      BY <2>1, <2>2
  <1>4. pages[p].parentId # p
    <2>1. Rooted({p})
      BY <1>1 DEF TreeInv, KeptAcyclic
    <2> QED
      BY <2>1 DEF Rooted
  <1>5. /\ g \in SUBSET Pages /\ C \in SUBSET Pages
        /\ p \in g \ C /\ g \cap C = {}
    BY <1>1, <1>4 DEF KeptGroup
  <1>6. /\ pages'[p].deleteAt # 0 /\ pages'[p].spaceId = pages[p].spaceId
        /\ pages'[p].updateAt > pages[p].updateAt
    <2>1. pages'[p] = Stamped(p, now, now)
      BY <1>t, DeletedTable
    <2>2. /\ Stamped(p, now, now).deleteAt = now /\ Stamped(p, now, now).spaceId = pages[p].spaceId
          /\ Stamped(p, now, now).updateAt > pages[p].updateAt
      BY <1>t, StampedRow
    <2> QED
      BY <2>1, <2>2
  <1>7. ~ Kept(p)'
    BY <1>t, <1>1, <1>6 DEF Kept, SpaceLive
  <1>8. ASSUME NEW q \in Pages \ {p}
        PROVE  /\ pages'[q].spaceId = pages[q].spaceId
               /\ pages'[q].deleteAt = pages[q].deleteAt
               /\ q \in C => /\ pages'[q].parentId = pages[p].parentId
                             /\ Position(q)' = Position(p) + Place(q, C)
                             /\ pages'[q].updateAt > pages[q].updateAt
               /\ q \notin C => pages'[q].parentId = pages[q].parentId
               /\ q \in g => Position(q)' = IF Before(p, q) /\ n > 1
                                            THEN Position(q) + n - 1 ELSE Position(q)
               /\ q \notin C \cup g => pages'[q] = pages[q]
    <2>1. \/ q \in C /\ pages'[q] = Promoted(q, p, now)
          \/ /\ q \notin C /\ q \in g /\ Before(p, q) /\ n > 1 /\ pages'[q] = Shifted(q, n)
          \/ q \notin C /\ (n <= 1 \/ q \notin g \/ ~ Before(p, q)) /\ pages'[q] = pages[q]
      BY <1>t, <1>2, <1>3, DeletedTable
    <2>2. n \in Nat
      BY PagesFinite DEF Children
    <2> HIDE DEF n
    <2>3. CASE q \in C /\ pages'[q] = Promoted(q, p, now)
      BY <2>3, <1>t, <1>3, <1>5, PromotedRow DEF Position
    <2>4. CASE q \notin C /\ q \in g /\ Before(p, q) /\ n > 1 /\ pages'[q] = Shifted(q, n)
      BY <2>2, <2>4, <1>t, ShiftedRow DEF Position
    <2>5. CASE q \notin C /\ (n <= 1 \/ q \notin g \/ ~ Before(p, q)) /\ pages'[q] = pages[q]
      BY <2>2, <2>5 DEF Position
    <2> QED
      BY <2>1, <2>3, <2>4, <2>5
  <1>9. \A q \in Pages \ {p} : Kept(q)' <=> Kept(q)
    BY <1>t, <1>8 DEF Kept, Exists
  <1> HIDE DEF n
  <1>10. \A q \in g \ {p} : Position(q)' = IF Before(p, q) /\ n > 1
                                           THEN Position(q) + n - 1 ELSE Position(q)
    BY <1>5, <1>8
  <1>11. \A q \in C : /\ pages'[q].parentId = pages[p].parentId
                      /\ Position(q)' = Position(p) + Place(q, C)
                      /\ pages'[q].updateAt > pages[q].updateAt
    BY <1>5, <1>8
  <1>12. \A q \in Pages \ (C \cup {p}) : pages'[q].parentId = pages[q].parentId
    BY <1>8
  <1>13. \A q \in Pages \ (C \cup g) : pages'[q] = pages[q]
    BY <1>5, <1>8
  <1>14. n = Cardinality(C)
    BY <1>3 DEF n
  <1> QED
    BY <1>3, <1>5, <1>6, <1>7, <1>8, <1>9, <1>10, <1>11, <1>12, <1>13, <1>14

(* The block of children stands where the page stood, in its order, and the *)
(* siblings keep theirs.                                                     *)
LEMMA DeletedOrder ==
    ASSUME TreeInv, Orderly, NEW p \in Pages, NEW now \in Nat \ {0}, DeletePage(p, now),
           NEW g, g = KeptGroup(pages[p].spaceId, pages[p].parentId),
           NEW C, C = KeptGroup(pages[p].spaceId, p)
    PROVE  /\ \A q \in g \cup C : Position(q)' \in Nat
           /\ \A q, r \in g \ {p} : q # r =>
                  /\ Position(q)' # Position(r)'
                  /\ Position(q) < Position(r) <=> Position(q)' < Position(r)'
           /\ \A c \in C, q \in g \ {p} :
                  /\ Position(c)' # Position(q)'
                  /\ Before(p, q) <=> Position(c)' < Position(q)'
           /\ \A c, d \in C : c # d =>
                  /\ Position(c)' # Position(d)'
                  /\ Before(c, d) <=> Position(c)' < Position(d)'
  <1>n. PICK n : n = Cardinality(C)
    OBVIOUS
  <1>t. TypeOK /\ UNCHANGED spaces
    BY DEF TreeInv, DeletePage
  <1>1. /\ g \in SUBSET Pages /\ C \in SUBSET Pages /\ p \in g
        /\ \A q \in C : Position(q)' = Position(p) + Place(q, C)
        /\ \A q \in g \ {p} : Position(q)' = IF Before(p, q) /\ n > 1
                                             THEN Position(q) + n - 1 ELSE Position(q)
    BY <1>n, DeletedRows
  <1>2. Distinct(g) /\ Distinct(C)
    <2>1. pages[p].spaceId \in Spaces /\ pages[p].parentId \in ParentIds /\ p \in ParentIds
      BY <1>t, LiveIsKept DEF DeletePage, TypeOK, Row, ParentIds
    <2> QED
      BY <2>1 DEF Orderly, OrderlyGroup
  <1>3. \A q \in Pages : Position(q) \in Nat
    BY <1>t DEF TypeOK, Row, Position
  <1>4. n \in Nat
    BY <1>1, <1>n, PagesFinite
  <1>5. ASSUME NEW c \in C
        PROVE  Place(c, C) \in Nat /\ Place(c, C) < n
    BY <1>1, <1>n, PlaceBelowSize
  <1>6. ASSUME NEW q \in g, NEW r \in g, q # r
        PROVE  /\ Position(q) # Position(r)
               /\ Before(q, r) <=> Position(q) < Position(r)
    BY <1>t, <1>1, <1>2, <1>6, BeforeByPosition DEF Distinct, Position
  <1>7. ASSUME NEW q \in g \ {p}
        PROVE  /\ Position(q)' \in Nat
               /\ Position(q) # Position(p)
               /\ Position(q)' = IF Position(p) < Position(q) /\ n > 1
                                 THEN Position(q) + n - 1 ELSE Position(q)
    <2>1. /\ Position(q) # Position(p)
          /\ Position(q)' = IF Position(p) < Position(q) /\ n > 1
                            THEN Position(q) + n - 1 ELSE Position(q)
      BY <1>1, <1>6
    <2>2. Position(q) \in Nat
      BY <1>1, <1>3
    <2> QED
      BY <2>1, <2>2, <1>4
  <1>8. ASSUME NEW q \in g \ {p}, NEW r \in g \ {p}, q # r
        PROVE  /\ Position(q)' # Position(r)'
               /\ Position(q) < Position(r) <=> Position(q)' < Position(r)'
    <2>1. /\ Position(q) # Position(r)
          /\ Position(p) \in Nat /\ Position(q) \in Nat /\ Position(r) \in Nat
      BY <1>1, <1>3, <1>6, <1>8
    <2> QED
      BY <2>1, <1>4, <1>7
  <1>9. ASSUME NEW c \in C, NEW q \in g \ {p}
        PROVE  /\ Position(c)' # Position(q)'
               /\ Before(p, q) <=> Position(c)' < Position(q)'
    <2>1. Position(c)' = Position(p) + Place(c, C) /\ Position(p) \in Nat /\ Position(q) \in Nat
      BY <1>1, <1>3
    <2>2. Before(p, q) <=> Position(p) < Position(q)
      BY <1>1, <1>6
    <2> QED
      BY <2>1, <2>2, <1>4, <1>5, <1>7
  <1>10. ASSUME NEW c \in C, NEW d \in C, c # d
         PROVE  /\ Position(c)' # Position(d)'
                /\ Before(c, d) <=> Position(c)' < Position(d)'
    <2>1. /\ Before(c, d) <=> Place(c, C) < Place(d, C)
          /\ Place(c, C) # Place(d, C)
      BY <1>t, <1>1, <1>2, <1>10, PlaceTellsOrder
    <2>2. /\ Position(c)' = Position(p) + Place(c, C) /\ Position(d)' = Position(p) + Place(d, C)
          /\ Position(p) \in Nat
      BY <1>1, <1>3
    <2> QED
      BY <2>1, <2>2, <1>5
  <1>11. ASSUME NEW q \in g \cup C
         PROVE  Position(q)' \in Nat
    <2>1. CASE q \in C
      <3>1. Position(q)' = Position(p) + Place(q, C) /\ Position(p) \in Nat
        BY <1>1, <1>3, <2>1
      <3> QED
        BY <3>1, <2>1, <1>5
    <2>2. CASE q = p
      <3>1. pages'[p] = Stamped(p, now, now)
        BY <1>t, DeletedTable DEF DeletePage
      <3> QED
        BY <3>1, <2>2, <1>t, <1>3, StampedRow DEF Position
    <2> QED
      BY <2>1, <2>2, <1>7
  <1> QED
    BY <1>8, <1>9, <1>10, <1>11

(* Siblings whose tokens a step does not move keep the order of their positions. *)
KeepsOrder ==
    \A x, y \in Pages :
        /\ x # y /\ Siblings(x, y) /\ Siblings(x, y)'
        /\ pages'[x].updateAt = pages[x].updateAt /\ pages'[y].updateAt = pages[y].updateAt
        => (Position(x) < Position(y) <=> Position(x)' < Position(y)')

(* The children of p stand where p stood. *)
TakenOver(p) ==
    /\ \A c \in Children(p), q \in Pages \ {p} :
           Siblings(p, q) => (Before(p, q) <=> Before(c, q)')
    /\ \A c, d \in Children(p) : Before(c, d) <=> Before(c, d)'

LEMMA DeletePageOrderly ==
    ASSUME TreeInv, Orderly, NEW p \in Pages, NEW now \in Nat \ {0}, DeletePage(p, now)
    PROVE  Orderly'
  <1>g. PICK g : g = KeptGroup(pages[p].spaceId, pages[p].parentId)
    OBVIOUS
  <1>C. PICK C : C = KeptGroup(pages[p].spaceId, p)
    OBVIOUS
  <1>1. /\ g \in SUBSET Pages /\ C \in SUBSET Pages /\ C = Children(p)
        /\ p \in g \ C /\ g \cap C = {} /\ ~ Kept(p)'
        /\ \A q \in Pages \ {p} : /\ Kept(q)' <=> Kept(q)
                                  /\ pages'[q].spaceId = pages[q].spaceId
        /\ \A q \in C : pages'[q].parentId = pages[p].parentId
        /\ \A q \in Pages \ (C \cup {p}) : pages'[q].parentId = pages[q].parentId
        /\ \A q \in Pages \ (C \cup g) : pages'[q] = pages[q]
    BY <1>g, <1>C, DeletedRows
  <1>2. /\ \A q, r \in g \ {p} : q # r => Position(q)' # Position(r)'
        /\ \A c \in C, q \in g \ {p} : Position(c)' # Position(q)'
        /\ \A c, d \in C : c # d => Position(c)' # Position(d)'
    BY <1>g, <1>C, DeletedOrder
  <1>3. ASSUME NEW s \in Spaces, NEW parent \in ParentIds
        PROVE  OrderlyGroup(s, parent)'
    <2>0. ASSUME NEW q \in KeptGroup(s, parent)'
          PROVE  /\ q \in Pages \ {p} /\ Kept(q) /\ pages[q].spaceId = s
                 /\ q \in C => s = pages[p].spaceId /\ parent = pages[p].parentId
                 /\ q \notin C => q \in KeptGroup(s, parent)
      <3>1. /\ q \in Pages /\ Kept(q)' /\ pages'[q].spaceId = s /\ pages'[q].parentId = parent
        BY DEF KeptGroup
      <3>2. q # p /\ Kept(q) /\ pages[q].spaceId = s
        BY <3>1, <1>1
      <3>3. CASE q \in C
        BY <3>1, <3>2, <3>3, <1>1, <1>C DEF KeptGroup
      <3>4. CASE q \notin C
        BY <3>1, <3>2, <3>4, <1>1 DEF KeptGroup
      <3> QED
        BY <3>1, <3>2, <3>3, <3>4
    <2>1. CASE s = pages[p].spaceId /\ parent = pages[p].parentId
      <3>1. PICK k \in SUBSET Pages : k = KeptGroup(s, parent)'
        BY DEF KeptGroup
      <3>2. k \subseteq (g \ {p}) \cup C
        BY <2>0, <2>1, <3>1, <1>g
      <3>3. \A x, y \in k : x # y => Position(x)' # Position(y)'
        BY <3>2, <1>2
      <3>4. Cardinality(k) <= MaxSiblings
        <4>g. PICK h \in SUBSET Pages : h = g \ {p}
          BY <1>1
        <4>1. /\ IsFiniteSet(h) /\ IsFiniteSet(C) /\ IsFiniteSet(g) /\ Cardinality(h) \in Nat
              /\ Cardinality(C) \in Nat
          BY <4>g, <1>1, PagesFinite
        <4>2. CASE C = {}
          <5>1. k \subseteq g
            BY <3>2, <4>2
          <5>2. Cardinality(g) <= MaxSiblings
            BY <1>g, <2>1 DEF Orderly, OrderlyGroup
          <5>3. Cardinality(k) <= Cardinality(g) /\ Cardinality(k) \in Nat /\ Cardinality(g) \in Nat
            BY <5>1, <1>1, PartIsSmaller
          <5> QED
            BY <5>2, <5>3, TreeParamsAssumption
        <4>3. CASE C # {}
          <5>1. /\ HasRoom(Group(pages[p].spaceId, pages[p].parentId) \ {p}, Cardinality(Children(p)))
                /\ SpaceLive(pages[p].spaceId)
            BY <4>3, <1>1 DEF DeletePage
          <5>2. g = Group(pages[p].spaceId, pages[p].parentId)
            BY <5>1, <1>g, GroupIsKept
          <5>3. Cardinality(h) + Cardinality(C) <= MaxSiblings
            BY <5>1, <5>2, <4>g, <1>1 DEF HasRoom
          <5>4. Cardinality(h \cup C) <= Cardinality(h) + Cardinality(C) /\ h \cup C \in SUBSET Pages
            <6>1. h \cap C = {} /\ Cardinality({}) = 0
              BY <4>g, <1>1, FS_EmptySet
            <6>2. Cardinality(h \cup C) = Cardinality(h) + Cardinality(C) - Cardinality(h \cap C)
              BY <4>1, FS_Union
            <6>3. h \cup C \in SUBSET Pages
              BY <1>1
            <6> QED
              BY <6>1, <6>2, <6>3, <4>1
          <5>5. PICK hc \in SUBSET Pages : hc = h \cup C
            BY <5>4
          <5>6. k \subseteq hc
            BY <3>2, <4>g, <5>5
          <5>7. Cardinality(k) <= Cardinality(hc) /\ Cardinality(k) \in Nat /\ Cardinality(hc) \in Nat
            BY <5>6, PartIsSmaller
          <5> QED
            BY <4>1, <5>3, <5>4, <5>5, <5>7, TreeParamsAssumption
        <4> QED
          BY <4>2, <4>3
      <3> QED
        BY <3>1, <3>3, <3>4 DEF OrderlyGroup, Distinct, Position
    <2>2. CASE ~ (s = pages[p].spaceId /\ parent = pages[p].parentId)
      <3>1. KeptGroup(s, parent)' \subseteq KeptGroup(s, parent)
        BY <2>0, <2>2
      <3>2. ASSUME NEW q \in KeptGroup(s, parent)'
            PROVE  SamePosition(q)
        <4>1. q \notin C \cup g /\ q \in Pages
          BY <2>0, <2>2, <1>g DEF KeptGroup
        <4> QED
          BY <4>1, <1>1 DEF SamePosition
      <3> QED
        BY <3>1, <3>2, GroupFrom
    <2> QED
      BY <2>1, <2>2
  <1> QED
    BY <1>3 DEF Orderly

LEMMA DeletePageKeepsOrder ==
    ASSUME TreeInv, Orderly, NEW p \in Pages, NEW now \in Nat \ {0}, DeletePage(p, now)
    PROVE  KeepsOrder
  <1>g. PICK g : g = KeptGroup(pages[p].spaceId, pages[p].parentId)
    OBVIOUS
  <1>C. PICK C : C = KeptGroup(pages[p].spaceId, p)
    OBVIOUS
  <1>1. /\ pages'[p].updateAt > pages[p].updateAt
        /\ \A q \in C : pages'[q].updateAt > pages[q].updateAt
        /\ \A q \in Pages \ (C \cup g) : pages'[q] = pages[q]
    BY <1>g, <1>C, DeletedRows
  <1>2. \A q, r \in g \ {p} : q # r => (Position(q) < Position(r) <=> Position(q)' < Position(r)')
    BY <1>g, <1>C, DeletedOrder
  <1>t. \A q \in Pages : pages[q].updateAt \in Nat
    BY DEF TreeInv, TypeOK, Row
  <1>3. ASSUME NEW x \in Pages, NEW y \in Pages, x # y, Siblings(x, y),
               pages'[x].updateAt = pages[x].updateAt, pages'[y].updateAt = pages[y].updateAt
        PROVE  Position(x) < Position(y) <=> Position(x)' < Position(y)'
    <2>1. x # p /\ y # p /\ x \notin C /\ y \notin C
      BY <1>1, <1>3, <1>t
    <2>2. Kept(x) /\ Kept(y)
      BY <1>3, LiveIsKept DEF Siblings
    <2>3. x \in g <=> y \in g
      BY <1>3, <1>g, <2>2 DEF KeptGroup, Siblings
    <2>4. CASE x \in g
      BY <2>1, <2>3, <2>4, <1>2, <1>3
    <2>5. CASE x \notin g
      <3>1. pages'[x] = pages[x] /\ pages'[y] = pages[y]
        BY <2>1, <2>3, <2>5, <1>1
      <3> QED
        BY <3>1 DEF Position
    <2> QED
      BY <2>4, <2>5
  <1> QED
    BY <1>3 DEF KeepsOrder

LEMMA DeletePageTakenOver ==
    ASSUME TreeInv, Orderly, TypeOK', NEW p \in Pages, NEW now \in Nat \ {0}, DeletePage(p, now)
    PROVE  TakenOver(p)
  <1>g. PICK g : g = KeptGroup(pages[p].spaceId, pages[p].parentId)
    OBVIOUS
  <1>C. PICK C : C = KeptGroup(pages[p].spaceId, p)
    OBVIOUS
  <1>1. C = Children(p) /\ g \in SUBSET Pages
    BY <1>g, <1>C, DeletedRows
  <1>2. /\ \A q \in g \cup C : Position(q)' \in Nat
        /\ \A c \in C, q \in g \ {p} :
               /\ Position(c)' # Position(q)'
               /\ Before(p, q) <=> Position(c)' < Position(q)'
        /\ \A c, d \in C : c # d =>
               /\ Position(c)' # Position(d)'
               /\ Before(c, d) <=> Position(c)' < Position(d)'
    BY <1>g, <1>C, DeletedOrder
  <1>3. ASSUME NEW c \in C, NEW q \in Pages \ {p}, Siblings(p, q)
        PROVE  Before(p, q) <=> Before(c, q)'
    <2>1. q \in g
      BY <1>3, <1>g, LiveIsKept DEF Siblings, KeptGroup
    <2> QED
      BY <2>1, <1>2 DEF Before, Position
  <1>4. ASSUME NEW c \in C, NEW d \in C
        PROVE  Before(c, d) <=> Before(c, d)'
    <2>1. CASE c = d
      <3>1. ~ Before(c, c)
        BY <1>1, BeforeIsStrict DEF TreeInv, Children
      <3>2. ~ Before(c, c)'
        BY <1>1 DEF Before, TypeOK, Row, Children
      <3> QED
        BY <3>1, <3>2, <2>1
    <2>2. CASE c # d
      BY <2>2, <1>2 DEF Before, Position
    <2> QED
      BY <2>1, <2>2
  <1> QED
    BY <1>1, <1>3, <1>4 DEF TakenOver

-----------------------------------------------------------------------------
(* Moving a page to an index                                               *)

LEMMA MovePageToIndexOrderly ==
    ASSUME TreeInv, Orderly, NEW p \in Pages, NEW s \in Spaces, NEW dest \in ParentIds, NEW base,
           MovePageToIndex(p, s, dest, base)
    PROVE  Orderly' /\ KeepsOrder
  <1>g. PICK g : g = Group(s, dest) \cup {p}
    OBVIOUS
  <1>t. /\ TypeOK /\ UNCHANGED spaces /\ SpaceLive(s) /\ LiveIn(p, s) /\ HasRoom(g, 0)
        /\ g \in SUBSET Pages
    BY <1>g DEF TreeInv, MovePageToIndex, MayMove, Group
  <1>1. PICK index \in Indexes : pages' = PagesAfterReindex(p, s, dest, index)
    BY DEF MovePageToIndex
  <1>i. index \in Int
    BY FiniteAssumption, FS_CardinalityType DEF Indexes
  <1>k. PICK k \in 0 .. Cardinality(g) - 1 : k = Clamped(index, g)
    BY <1>t, <1>i, <1>g, ClampedType
  <1>o. PICK order : order = Renumbered(p, g, k)
    OBVIOUS
  <1>2. /\ OnlyReparented(pages', p, dest)
        /\ \A q \in g : pages'[q].sortOrder = order[q]
        /\ \A q \in Pages \ {p} : /\ OnlyReordered(pages', q)
                                  /\ q \notin g => pages'[q].sortOrder = pages[q].sortOrder
    BY <1>t, <1>1, <1>i, <1>g, <1>k, <1>o, ReindexedTable
  <1>3. Group(s, dest) = KeptGroup(s, dest)
    BY <1>t, GroupIsKept
  <1>4. Distinct(g \ {p})
    <2>1. Distinct(KeptGroup(s, dest))
      BY DEF Orderly, OrderlyGroup
    <2> QED
      BY <2>1, <1>3, <1>g DEF Distinct
  <1>5. /\ \A q, r \in g : q # r => order[q] # order[r]
        /\ \A q, r \in g \ {p} : Before(q, r) <=> order[q] < order[r]
    <2>1. p \in g /\ g \in SUBSET Pages /\ TypeOK
      BY <1>t, <1>g
    <2> QED
      BY <2>1, <1>4, <1>o, RenumberedIsAnOrder
  <1>6. ASSUME NEW r \in Spaces, NEW u \in ParentIds
        PROVE  OrderlyGroup(r, u)'
    <2>1. ASSUME NEW q \in KeptGroup(r, u)', q # p
          PROVE  q \in KeptGroup(r, u)
      <3>1. q \in Pages /\ Kept(q)' /\ pages'[q].spaceId = r /\ pages'[q].parentId = u
        BY DEF KeptGroup
      <3>2. OnlyReordered(pages', q)
        BY <3>1, <2>1, <1>2
      <3> QED
        BY <3>1, <3>2, <1>t DEF KeptGroup, OnlyReordered, Kept, Exists
    <2>2. CASE r = s /\ u = dest
      <3>1. PICK h \in SUBSET Pages : h = KeptGroup(r, u)'
        BY DEF KeptGroup
      <3>2. h \subseteq g
        BY <2>1, <2>2, <3>1, <1>3, <1>g
      <3>3. Cardinality(h) <= Cardinality(g) /\ Cardinality(h) \in Nat /\ Cardinality(g) \in Nat
        BY <3>2, <1>t, PartIsSmaller
      <3>4. Cardinality(h) <= MaxSiblings
        BY <3>3, <1>t, TreeParamsAssumption DEF HasRoom
      <3>5. Distinct(h)'
        BY <3>2, <1>2, <1>5 DEF Distinct
      <3> QED
        BY <3>1, <3>4, <3>5 DEF OrderlyGroup, Distinct
    <2>3. CASE ~ (r = s /\ u = dest)
      <3>1. p \notin KeptGroup(r, u)'
        BY <2>3, <1>2, <1>t DEF KeptGroup, OnlyReparented, LiveIn
      <3>2. KeptGroup(r, u)' \subseteq KeptGroup(r, u)
        BY <2>1, <3>1
      <3>3. ASSUME NEW q \in KeptGroup(r, u)'
            PROVE  SamePosition(q)
        <4>1. q \in Pages \ {p} /\ q \notin g
          BY <3>1, <3>2, <2>3, <1>3, <1>g DEF KeptGroup
        <4> QED
          BY <4>1, <1>2 DEF SamePosition
      <3> QED
        BY <3>2, <3>3, GroupFrom
    <2> QED
      BY <2>2, <2>3
  <1>7. ASSUME NEW x \in Pages, NEW y \in Pages, x # y, Siblings(x, y),
               pages'[x].updateAt = pages[x].updateAt, pages'[y].updateAt = pages[y].updateAt
        PROVE  Position(x) < Position(y) <=> Position(x)' < Position(y)'
    <2>1. x # p /\ y # p
      BY <1>7, <1>2, <1>t DEF OnlyReparented, TypeOK, Row
    <2>2. x \in g <=> y \in g
      BY <1>7, <2>1, <1>g DEF Siblings, Group, LiveIn
    <2>3. CASE x \in g
      <3>1. pages[x].sortOrder # pages[y].sortOrder
        BY <2>1, <2>2, <2>3, <1>4, <1>7 DEF Distinct
      <3>2. Before(x, y) <=> pages[x].sortOrder < pages[y].sortOrder
        BY <3>1, <1>t, BeforeByPosition
      <3>3. Before(x, y) <=> order[x] < order[y]
        BY <2>1, <2>2, <2>3, <1>5
      <3> QED
        BY <3>2, <3>3, <2>2, <2>3, <1>2 DEF Position
    <2>4. CASE x \notin g
      BY <2>1, <2>2, <2>4, <1>2 DEF Position
    <2> QED
      BY <2>3, <2>4
  <1> QED
    BY <1>6, <1>7 DEF Orderly, KeepsOrder

-----------------------------------------------------------------------------
(* The other steps                                                         *)

(* Pages whose positions a step leaves alone keep their order. *)
LEMMA QuietPositions ==
    ASSUME \A q \in Pages : Live(q) /\ pages'[q].updateAt = pages[q].updateAt => SamePosition(q)
    PROVE  KeepsOrder
  BY DEF KeepsOrder, Siblings, SamePosition, Position

LEMMA CreatePageOrderly ==
    ASSUME TreeInv, Orderly, NEW p \in Pages, NEW s \in Spaces, NEW parent \in ParentIds,
           CreatePage(p, s, parent)
    PROVE  Orderly' /\ KeepsOrder
  <1>1. ~ Live(p) /\ SpaceLive(s) /\ UNCHANGED spaces /\ HasRoom(Group(s, parent), 1)
    BY DEF CreatePage, Live
  <1>2. /\ Hung(p, s, parent, {p})
        /\ pages'[p].sortOrder = NextSortOrder(s, parent)
        /\ \A q \in Pages \ {p} : pages'[q] = pages[q]
    BY CreatePageHangs
  <1>3. \A q \in Pages \ {p} : SamePosition(q)
    BY <1>2 DEF SamePosition
  <1>4. KeepsOrder
    BY <1>1, <1>3, QuietPositions
  <1>5. PICK D \in SUBSET Pages : D = {p}
    OBVIOUS
  <1>6. Hung(p, s, parent, D)
    BY <1>2, <1>5
  <1>7. Orderly'
    BY <1>1, <1>2, <1>3, <1>6, OrderlyAppend
  <1> QED
    BY <1>4, <1>7

LEMMA RestorePageOrderly ==
    ASSUME TreeInv, Orderly, NEW p \in Pages, NEW now \in Nat, RestorePage(p, now)
    PROVE  Orderly' /\ KeepsOrder
  <1>s. PICK s : s = pages[p].spaceId
    OBVIOUS
  <1>d. PICK d : d = RestoreParent(p)
    OBVIOUS
  <1>1. UNCHANGED spaces /\ HasRoom(Group(s, d), 1)
    BY <1>s, <1>d DEF RestorePage
  <1>2. /\ s \in Spaces /\ SpaceLive(s) /\ ~ Live(p) /\ d \in ParentIds
        /\ Hung(p, s, d, {p})
        /\ pages'[p].sortOrder = NextSortOrder(s, d)
        /\ \A q \in Pages \ {p} : pages'[q] = pages[q]
    BY <1>s, <1>d, RestorePageHangs
  <1>3. \A q \in Pages \ {p} : SamePosition(q)
    BY <1>2 DEF SamePosition
  <1>4. KeepsOrder
    BY <1>2, <1>3, QuietPositions
  <1>5. PICK D \in SUBSET Pages : D = {p}
    OBVIOUS
  <1>6. Hung(p, s, d, D)
    BY <1>2, <1>5
  <1>7. Orderly'
    BY <1>1, <1>2, <1>3, <1>6, OrderlyAppend
  <1> QED
    BY <1>4, <1>7

LEMMA MovePageAppendOrderly ==
    ASSUME TreeInv, Orderly, NEW p \in Pages, NEW s \in Spaces, NEW dest \in ParentIds, NEW base,
           MovePageAppend(p, s, dest, base)
    PROVE  Orderly' /\ KeepsOrder
  <1>1. UNCHANGED spaces /\ SpaceLive(s) /\ HasRoom(Group(s, dest), 1)
    BY DEF MovePageAppend, MayMove
  <1>2. /\ Hung(p, s, dest, Subtree(p))
        /\ pages'[p].sortOrder = NextSortOrder(s, dest)
        /\ pages'[p].updateAt > pages[p].updateAt
        /\ \A q \in Pages \ {p} : pages'[q] = pages[q]
    BY MovePageAppendHangs
  <1>3. \A q \in Pages \ {p} : SamePosition(q)
    BY <1>2 DEF SamePosition
  <1>4. pages[p].updateAt \in Nat
    BY DEF TreeInv, TypeOK, Row
  <1>5. KeepsOrder
    BY <1>2, <1>3, <1>4, QuietPositions
  <1>6. PICK D \in SUBSET Pages : D = Subtree(p)
    BY SubtreeIsLeast
  <1>7. Hung(p, s, dest, D)
    BY <1>2, <1>6
  <1>8. Orderly'
    BY <1>1, <1>2, <1>3, <1>7, OrderlyAppend
  <1> QED
    BY <1>5, <1>8

LEMMA MovePageToSpaceOrderly ==
    ASSUME TreeInv, Orderly, NEW p \in Pages, NEW s \in Spaces, NEW t \in Spaces,
           NEW dest \in ParentIds, NEW base, MovePageToSpace(p, s, t, dest, base)
    PROVE  Orderly' /\ KeepsOrder
  <1>1. UNCHANGED spaces /\ SpaceLive(t) /\ HasRoom(Group(t, dest), 1) /\ TypeOK
    BY DEF MovePageToSpace, TreeInv
  <1>2. PICK D \in SUBSET Pages : D = Subtree(p)
    BY SubtreeIsLeast
  <1>3. Hung(p, t, dest, D)
    BY <1>2, MovePageToSpaceHangs
  <1>4. /\ pages'[p].sortOrder = NextSortOrder(t, dest)
        /\ pages'[p].updateAt > pages[p].updateAt
        /\ \A q \in Pages \ {p} : SamePosition(q)
    BY <1>1, RehomedTable DEF SamePosition
  <1>5. pages[p].updateAt \in Nat
    BY <1>1 DEF TypeOK, Row
  <1>6. KeepsOrder
    BY <1>4, <1>5, QuietPositions
  <1>7. Orderly'
    BY <1>1, <1>3, <1>4, OrderlyAppend
  <1> QED
    BY <1>6, <1>7

LEMMA StillOrderly ==
    ASSUME Orderly, \A q \in Pages : StaysPut(q)
    PROVE  Orderly' /\ KeepsOrder
  BY OrderlyUnchanged, QuietPositions DEF StaysPut

(* A deleted page, if its space is not deleted with it. *)
Deletes(p) == Live(p) /\ ~ Live(p)' /\ SpaceLive(pages[p].spaceId)'

(* What is hung somewhere is live. *)
LEMMA HungDeletesNone ==
    ASSUME NEW p \in Pages, NEW s \in Spaces, NEW dest, NEW D \in SUBSET Pages, Hung(p, s, dest, D),
           NEW q \in Pages
    PROVE  ~ Deletes(q)
  <1>1. CASE q \in D
    <2>1. pages'[q].deleteAt = 0 /\ pages'[q].spaceId = s /\ s # NoSpace
      BY <1>1, RootAssumption DEF Hung
    <2> QED
      BY <2>1 DEF Deletes, Live, Exists
  <1>2. CASE q \notin D
    <2>1. SameStructure(q) /\ pages'[q].deleteAt = pages[q].deleteAt
      BY <1>2 DEF Hung
    <2> QED
      BY <2>1 DEF Deletes, Live, Exists, SameStructure
  <1> QED
    BY <1>1, <1>2

(* A step that moves no page and takes none out of the tree of its space. *)
LEMMA StillDeletesNone ==
    ASSUME TreeInv, \A q \in Pages : StaysPut(q), NEW q \in Pages
    PROVE  ~ Deletes(q)
  <1> SUFFICES ASSUME Live(q), SpaceLive(pages[q].spaceId)'
               PROVE  Live(q)'
    BY DEF Deletes
  <1>1. Kept(q)'
    BY LiveIsKept DEF StaysPut
  <1> QED
    BY <1>1 DEF Live, Kept, SpaceLive

(* A step on the tree keeps groups in order. *)
LEMMA OrderlyStep ==
    ASSUME TreeInv, TreeInv', Orderly, [Next]_vars
    PROVE  /\ Orderly' /\ KeepsOrder
           /\ \A p \in Pages : Deletes(p) => TakenOver(p)
  <1>t. TypeOK /\ ClockReads \subseteq Nat \ {0} /\ Nat \ {0} \subseteq Nat /\ TypeOK'
    BY ClockReadsPositive DEF TreeInv, TypeOK
  <1> DEFINE Done == /\ Orderly' /\ KeepsOrder
                     /\ \A p \in Pages : Deletes(p) => TakenOver(p)
  <1>0. CASE UNCHANGED <<spaces, pages, archived>>
    <2>1. \A q \in Pages : StaysPut(q)
      BY <1>0 DEF StaysPut, SameStructure, SamePosition, Kept, Exists
    <2> QED
      BY <2>1, StillOrderly, StillDeletesNone
  <1>1. ASSUME NEW p \in Pages, PageStep(p)
        PROVE  Done
    <2>2. ASSUME NEW s \in Spaces, NEW parent \in ParentIds, CreatePage(p, s, parent)
          PROVE  Done
      <3>1. PICK D \in SUBSET Pages : Hung(p, s, parent, D)
        BY <2>2, CreatePageHangs
      <3> QED
        BY <2>2, <3>1, CreatePageOrderly, HungDeletesNone
    <2>3. CASE EditPage(p)
      <3>1. \A q \in Pages : StaysPut(q)
        BY <1>t, <2>3, EditPageInv
      <3> QED
        BY <3>1, StillOrderly, StillDeletesNone
    <2>4. ASSUME NEW now \in ClockReads, DeletePage(p, now)
          PROVE  Done
      <3>1. Orderly' /\ KeepsOrder /\ TakenOver(p)
        BY <1>t, <2>4, DeletePageOrderly, DeletePageKeepsOrder, DeletePageTakenOver
      <3>2. ASSUME NEW q \in Pages \ {p}
            PROVE  ~ Deletes(q)
        <4>1. (Kept(q)' <=> Kept(q)) /\ pages'[q].spaceId = pages[q].spaceId
          BY <1>t, <2>4, DeletedRows
        <4> SUFFICES ASSUME Live(q), SpaceLive(pages[q].spaceId)'
                     PROVE  Live(q)'
          BY DEF Deletes
        <4>2. Kept(q)'
          BY <4>1, LiveIsKept
        <4> QED
          BY <4>2 DEF Live, Kept, SpaceLive
      <3> QED
        BY <3>1, <3>2
    <2>5. ASSUME NEW now \in ClockReads, RestorePage(p, now)
          PROVE  Done
      <3>1. PICK s \in Spaces, d \in ParentIds, D \in SUBSET Pages : Hung(p, s, d, D)
        BY <1>t, <2>5, RestorePageHangs
      <3> QED
        BY <1>t, <2>5, <3>1, RestorePageOrderly, HungDeletesNone
    <2> QED
      BY <1>1, <2>2, <2>3, <2>4, <2>5 DEF PageStep
  <1>2. ASSUME NEW p \in Pages, NEW s \in Spaces, NEW dest \in ParentIds, MoveStep(p, s, dest, Forced)
        PROVE  Done
    <2>d. PICK D \in SUBSET Pages : D = Subtree(p)
      BY SubtreeIsLeast
    <2>2. CASE MovePageAppend(p, s, dest, Forced)
      <3>1. Hung(p, s, dest, D)
        BY <2>2, <2>d, MovePageAppendHangs
      <3> QED
        BY <2>2, <3>1, MovePageAppendOrderly, HungDeletesNone
    <2>3. CASE MovePageToIndex(p, s, dest, Forced)
      <3>1. /\ OnlyReparented(pages', p, dest)
            /\ \A q \in Pages \ {p} : OnlyReordered(pages', q)
        BY <2>3, MovePageToIndexHangs
      <3>2. ASSUME NEW q \in Pages
            PROVE  ~ Deletes(q)
        BY <3>1 DEF Deletes, Live, Exists, OnlyReparented, OnlyReordered
      <3> QED
        BY <2>3, <3>2, MovePageToIndexOrderly
    <2>4. ASSUME NEW t \in Spaces, MovePageToSpace(p, s, t, dest, Forced)
          PROVE  Done
      <3>1. Hung(p, t, dest, D)
        BY <2>4, <2>d, MovePageToSpaceHangs
      <3> QED
        BY <2>4, <3>1, MovePageToSpaceOrderly, HungDeletesNone
    <2> QED
      BY <1>2, <2>2, <2>3, <2>4 DEF MoveStep
  <1>3. ASSUME NEW s \in Spaces, SpaceStep(s)
        PROVE  Done
    <2>1. \A q \in Pages : StaysPut(q)
      BY <1>3, <1>t, DeleteSpaceInv, RestoreSpaceInv DEF SpaceStep
    <2> QED
      BY <2>1, StillOrderly, StillDeletesNone
  <1> QED
    BY <1>0, <1>1, <1>2, <1>3 DEF Next, Tick, vars

LEMMA OrderlyInit == Init => Orderly
  <1> SUFFICES ASSUME Init, NEW s \in Spaces, NEW parent \in ParentIds
               PROVE  OrderlyGroup(s, parent)
    BY DEF Orderly
  <1>1. KeptGroup(s, parent) = {}
    BY DEF Init, KeptGroup, Kept, Exists
  <1>2. Cardinality({}) = 0
    BY FS_EmptySet
  <1> QED
    BY <1>1, <1>2, TreeParamsAssumption DEF OrderlyGroup, Distinct

(* The order of siblings is that of their positions, which a step keeps unless it *)
(* moves a token.                                                                 *)
Silent ==
    \A p, q \in Pages :
        /\ Siblings(p, q) /\ Siblings(p, q)'
        /\ pages[p].updateAt = pages'[p].updateAt /\ pages[q].updateAt = pages'[q].updateAt
        => (Before(p, q) <=> Before(p, q)')

LEMMA SilentStep ==
    ASSUME TreeInv, TreeInv', Orderly, Orderly', KeepsOrder
    PROVE  Silent
  <1> SUFFICES ASSUME NEW p \in Pages, NEW q \in Pages, Siblings(p, q), Siblings(p, q)',
                      pages[p].updateAt = pages'[p].updateAt, pages[q].updateAt = pages'[q].updateAt
               PROVE  Before(p, q) <=> Before(p, q)'
    BY DEF Silent
  <1>1. CASE p = q
    <2>1. ~ Before(p, p)
      BY BeforeIsStrict DEF TreeInv
    <2>2. ~ Before(p, p)'
      BY DEF Before, TreeInv, TypeOK, Row
    <2> QED
      BY <1>1, <2>1, <2>2
  <1>2. CASE p # q
    <2>1. SiblingsOrdered /\ SiblingsOrdered'
      BY InvSiblingsOrdered, PTL
    <2>2. Position(p) # Position(q) /\ Position(p)' # Position(q)'
      BY <1>2, <2>1 DEF SiblingsOrdered, Siblings, Position
    <2>3. Position(p) < Position(q) <=> Position(p)' < Position(q)'
      BY <1>2 DEF KeepsOrder
    <2> QED
      BY <2>2, <2>3 DEF Before, Position
  <1> QED
    BY <1>1, <1>2

-----------------------------------------------------------------------------
(* Levels                                                                  *)

(* The level of a kept page is one more than that of the page above it. *)
Levels(lvl) ==
    \A p \in Pages : Kept(p) =>
        lvl[p] = IF pages[p].parentId = NoPage THEN 1 ELSE lvl[pages[p].parentId] + 1

(* The inductive invariant of the cap on the depth. *)
Levelled == \E lvl \in [Pages -> 1 .. MaxDepth] : Levels(lvl)

(* A set of numbers up to N that holds zero, and with a number the next, is all *)
(* of them.                                                                      *)
LEMMA UpTo ==
    ASSUME NEW N \in Nat, NEW G \in SUBSET (0 .. N), 0 \in G,
           \A m \in G : m < N => m + 1 \in G
    PROVE  G = 0 .. N
  <1> DEFINE T == {m \in 0 .. N : 0 .. m \subseteq G}
  <1>1. IsFiniteSet(T) /\ T \subseteq Int /\ T # {}
    <2>1. IsFiniteSet(0 .. N)
      BY FS_Interval
    <2>2. 0 \in T /\ T \subseteq 0 .. N
      OBVIOUS
    <2> HIDE DEF T
    <2>3. IsFiniteSet(T)
      BY <2>1, <2>2, FS_Subset
    <2>4. T \subseteq Int
      BY <2>2
    <2> QED
      BY <2>2, <2>3, <2>4
  <1>2. Max(T) \in T /\ \A y \in T : Max(T) >= y
    <2> HIDE DEF T
    <2> QED
      BY <1>1, MaxIsMaximum
  <1>m. PICK m \in T : \A y \in T : m >= y
    BY <1>2
  <1>3. m \in 0 .. N /\ 0 .. m \subseteq G
    OBVIOUS
  <1>4. ~ (m < N)
    <2> SUFFICES ASSUME m < N PROVE FALSE
      OBVIOUS
    <2>1. m + 1 \in G
      BY <1>3
    <2>2. 0 .. m + 1 \subseteq G /\ m + 1 \in 0 .. N
      BY <1>3, <2>1
    <2>3. m + 1 \in T
      BY <2>2
    <2> QED
      BY <1>m, <1>3, <2>3
  <1>5. m = N
    BY <1>3, <1>4
  <1> QED
    BY <1>3, <1>5

LEMMA AboveType ==
    ASSUME NEW p \in ParentIds
    PROVE  Above(p) \in ParentIds
  BY DEF Above, ParentIds

(* moveAncestorsCTE, as a walk. *)
Walk(up, p, N) ==
    /\ up \in [0 .. N -> ParentIds]
    /\ up[0] = p
    /\ \A n \in 1 .. N : up[n] = Above(up[n - 1])

(* There is a walk up from every page. *)
LEMMA WalkExists ==
    ASSUME NEW p \in ParentIds, NEW N \in Nat
    PROVE  \E up : Walk(up, p, N)
  <1> DEFINE G == {m \in 0 .. N : \E up : Walk(up, p, m)}
  <1>1. 0 \in G
    <2>1. Walk([n \in 0 .. 0 |-> p], p, 0)
      BY DEF Walk
    <2> QED
      BY <2>1
  <1>2. ASSUME NEW m \in G, m < N
        PROVE  m + 1 \in G
    <2>1. PICK up : Walk(up, p, m)
      OBVIOUS
    <2>2. m \in Nat /\ m + 1 \in 0 .. N
      BY <1>2
    <2> DEFINE next == [n \in 0 .. m + 1 |-> IF n <= m THEN up[n] ELSE Above(up[m])]
    <2>3. up[m] \in ParentIds /\ Above(up[m]) \in ParentIds
      BY <2>1, <2>2, AboveType DEF Walk
    <2>4. next \in [0 .. m + 1 -> ParentIds]
      BY <2>1, <2>2, <2>3 DEF Walk
    <2>5. next[0] = p
      BY <2>1, <2>2 DEF Walk
    <2>6. ASSUME NEW n \in 1 .. m + 1
          PROVE  next[n] = Above(next[n - 1])
      <3>1. CASE n <= m
        <4>1. next[n] = up[n] /\ next[n - 1] = up[n - 1] /\ n \in 1 .. m
          BY <2>2, <3>1
        <4> QED
          BY <4>1, <2>1 DEF Walk
      <3>2. CASE n = m + 1
        <4>1. next[n] = Above(up[m]) /\ next[n - 1] = up[m]
          BY <2>2, <3>2
        <4> QED
          BY <4>1
      <3> QED
        BY <2>2, <3>1, <3>2
    <2>7. Walk(next, p, m + 1)
      <3> HIDE DEF next
      <3> QED
        BY <2>4, <2>5, <2>6 DEF Walk
    <2> QED
      BY <2>2, <2>7
  <1>3. G = 0 .. N
    <2>1. G \in SUBSET (0 .. N)
      OBVIOUS
    <2> HIDE DEF G
    <2> QED
      BY <1>1, <1>2, <2>1, UpTo
  <1> QED
    BY <1>3

(* Depth counts the pages of that walk. *)
LEMMA DepthByWalk ==
    ASSUME NEW p \in ParentIds
    PROVE  \E up : /\ Walk(up, p, Cardinality(Pages))
                   /\ Depth(p) = Cardinality({n \in 0 .. Cardinality(Pages) : up[n] # NoPage})
  <1>N. PICK N \in Nat : N = Cardinality(Pages)
    BY PagesFinite
  <1> DEFINE IsUp(f) == f = [n \in 0 .. N |-> IF n = 0 THEN p ELSE Above(f[n - 1])]
             up == CHOOSE f : IsUp(f)
  <1>1. PICK f : Walk(f, p, N)
    BY WalkExists
  <1>2. IsUp(f)
    BY <1>1 DEF Walk
  <1>3. IsUp(up)
    BY <1>2
  <1>4. Depth(p) = Cardinality({n \in DOMAIN up : up[n] # NoPage})
    BY <1>N DEF Depth
  <1>5. PICK g : g = up
    OBVIOUS
  <1> HIDE DEF up
  <1>6. g = [n \in 0 .. N |-> IF n = 0 THEN p ELSE Above(g[n - 1])]
    BY <1>3, <1>5
  <1>7. DOMAIN g = 0 .. N /\ g[0] = p /\ \A n \in 1 .. N : g[n] = Above(g[n - 1])
    BY <1>6
  <1> DEFINE G == {n \in 0 .. N : g[n] \in ParentIds}
  <1>8. G = 0 .. N
    <2>1. 0 \in G /\ G \in SUBSET (0 .. N)
      BY <1>7
    <2>2. ASSUME NEW m \in G, m < N
          PROVE  m + 1 \in G
      <3>1. m \in 0 .. N /\ g[m] \in ParentIds /\ m + 1 \in 1 .. N /\ (m + 1) - 1 = m
        BY <2>2
      <3>2. g[m + 1] = Above(g[m])
        BY <3>1, <1>7
      <3> QED
        BY <3>1, <3>2, AboveType
    <2> HIDE DEF G
    <2> QED
      BY <2>1, <2>2, UpTo
  <1>9. Walk(g, p, N)
    BY <1>6, <1>7, <1>8 DEF Walk
  <1> QED
    BY <1>N, <1>4, <1>5, <1>7, <1>9

(* A live page has a level, and the pages above it have the levels below. *)
LEMMA LevelAbove ==
    ASSUME TreeInv, NEW lvl \in [Pages -> 1 .. MaxDepth], Levels(lvl), NEW p \in Pages, Live(p)
    PROVE  /\ lvl[p] \in 1 .. MaxDepth
           /\ lvl[p] = 1 <=> Above(p) = NoPage
           /\ lvl[p] > 1 => /\ Above(p) \in Pages /\ Live(Above(p))
                            /\ lvl[Above(p)] = lvl[p] - 1
  <1>1. Kept(p) /\ lvl[p] \in 1 .. MaxDepth
    BY LiveIsKept
  <1>2. CASE pages[p].parentId = NoPage
    <2>1. Above(p) = NoPage /\ lvl[p] = 1
      BY <1>1, <1>2, RootAssumption DEF Above, Levels
    <2> QED
      BY <2>1
  <1>3. CASE pages[p].parentId # NoPage
    <2>u. PICK u : u = pages[p].parentId
      OBVIOUS
    <2>1. u \in Pages /\ LiveIn(u, pages[p].spaceId)
      BY <1>3, <2>u, InvParentsLive DEF ParentsLive
    <2>2. Above(p) = u /\ Live(u) /\ lvl[p] = lvl[u] + 1 /\ u # NoPage
      BY <1>1, <1>3, <2>u, <2>1 DEF Above, Levels, LiveIn
    <2>3. lvl[u] \in 1 .. MaxDepth
      BY <2>1
    <2> QED
      BY <2>1, <2>2, <2>3, TreeParamsAssumption
  <1> QED
    BY <1>2, <1>3

(* The walk up from a live page loses one level with each step, and leaves the *)
(* tree after as many.                                                          *)
LEMMA WalkOfLevels ==
    ASSUME TreeInv, NEW lvl \in [Pages -> 1 .. MaxDepth], Levels(lvl), NEW p \in Pages, Live(p),
           NEW N \in Nat, NEW up, Walk(up, p, N)
    PROVE  \A n \in 0 .. N :
               IF n < lvl[p] THEN up[n] \in Pages /\ Live(up[n]) /\ lvl[up[n]] = lvl[p] - n
                             ELSE up[n] = NoPage
  <1>k. PICK k \in 1 .. MaxDepth : k = lvl[p]
    OBVIOUS
  <1> DEFINE Right(n) == IF n < k THEN up[n] \in Pages /\ Live(up[n]) /\ lvl[up[n]] = k - n
                                  ELSE up[n] = NoPage
             G == {n \in 0 .. N : Right(n)}
  <1>1. 0 \in G
    BY <1>k DEF Walk
  <1>2. ASSUME NEW m \in G, m < N
        PROVE  m + 1 \in G
    <2>1. m \in 0 .. N /\ m + 1 \in 0 .. N /\ m + 1 \in 1 .. N /\ Right(m)
      BY <1>2
    <2>2. up[m + 1] = Above(up[m])
      <3>1. (m + 1) - 1 = m
        BY <2>1
      <3> QED
        BY <2>1, <3>1 DEF Walk
    <2>3. CASE m < k
      <3>q. PICK q : q = up[m]
        OBVIOUS
      <3>1. q \in Pages /\ Live(q) /\ lvl[q] = k - m
        BY <2>1, <2>3, <3>q
      <3>2. /\ lvl[q] = 1 <=> Above(q) = NoPage
            /\ lvl[q] > 1 => /\ Above(q) \in Pages /\ Live(Above(q))
                             /\ lvl[Above(q)] = lvl[q] - 1
        BY <3>1, LevelAbove
      <3>3. CASE m + 1 < k
        <4>1. lvl[q] > 1 /\ lvl[q] - 1 = k - (m + 1)
          BY <3>1, <3>3, <2>1
        <4> QED
          BY <4>1, <3>2, <3>3, <3>q, <2>1, <2>2
      <3>4. CASE ~ (m + 1 < k)
        <4>1. lvl[q] = 1
          BY <3>1, <3>4, <2>1, <2>3
        <4> QED
          BY <4>1, <3>2, <3>4, <3>q, <2>1, <2>2
      <3> QED
        BY <3>3, <3>4
    <2>4. CASE ~ (m < k)
      <3>1. up[m + 1] = NoPage
        BY <2>1, <2>2, <2>4, RootAssumption DEF Above
      <3>2. ~ (m + 1 < k)
        BY <2>1, <2>4
      <3> QED
        BY <3>1, <3>2, <2>1
    <2> QED
      BY <2>3, <2>4
  <1>3. G = 0 .. N
    <2>1. G \in SUBSET (0 .. N)
      OBVIOUS
    <2> HIDE DEF G
    <2> QED
      BY <1>1, <1>2, <2>1, UpTo
  <1> QED
    BY <1>k, <1>3

(* The pages of a path have different levels, so it is no longer than there are *)
(* pages.                                                                        *)
LEMMA LevelBound ==
    ASSUME TreeInv, NEW lvl \in [Pages -> 1 .. MaxDepth], Levels(lvl), NEW p \in Pages, Live(p)
    PROVE  lvl[p] <= Cardinality(Pages)
  <1>N. PICK N \in Nat : N = Cardinality(Pages)
    BY PagesFinite
  <1>k. PICK k \in Nat : k = lvl[p]
    BY LevelAbove
  <1> SUFFICES ASSUME N < k PROVE FALSE
    BY <1>N, <1>k
  <1>1. PICK up : Walk(up, p, N)
    BY WalkExists DEF ParentIds
  <1>2. \A n \in 0 .. N : up[n] \in Pages /\ lvl[up[n]] = k - n
    BY <1>1, <1>k, WalkOfLevels
  <1> DEFINE path == [n \in 0 .. N |-> up[n]]
  <1>3. path \in [0 .. N -> Pages]
    BY <1>2
  <1>4. \A m, n \in 0 .. N : path[m] = path[n] => m = n
    BY <1>2
  <1>5. path \in Injection(0 .. N, Pages)
    <2> HIDE DEF path
    <2> QED
      BY <1>3, <1>4 DEF Injection, IsInjective
  <1> HIDE DEF path
  <1>6. IsFiniteSet(0 .. N) /\ Cardinality(0 .. N) = N + 1
    BY FS_Interval
  <1>7. Cardinality(0 .. N) <= Cardinality(Pages)
    BY <1>5, <1>6, FiniteAssumption, FS_Injection, FS_PigeonHole
  <1> QED
    BY <1>6, <1>7, <1>N

(* The depth of a live page is its level. *)
LEMMA DepthIsLevel ==
    ASSUME TreeInv, NEW lvl \in [Pages -> 1 .. MaxDepth], Levels(lvl), NEW p \in Pages, Live(p)
    PROVE  Depth(p) = lvl[p]
  <1>N. PICK N \in Nat : N = Cardinality(Pages)
    BY PagesFinite
  <1>k. PICK k \in Nat \ {0} : k = lvl[p]
    BY LevelAbove
  <1>1. k <= N
    BY <1>N, <1>k, LevelBound
  <1>2. PICK up : /\ Walk(up, p, N)
                  /\ Depth(p) = Cardinality({n \in 0 .. N : up[n] # NoPage})
    BY <1>N, DepthByWalk DEF ParentIds
  <1>3. \A n \in 0 .. N : IF n < k THEN up[n] \in Pages ELSE up[n] = NoPage
    BY <1>2, <1>k, WalkOfLevels
  <1>4. {n \in 0 .. N : up[n] # NoPage} = 0 .. k - 1
    BY <1>1, <1>3, RootAssumption
  <1>5. Cardinality(0 .. k - 1) = k
    BY FS_Interval
  <1> QED
    BY <1>2, <1>4, <1>5, <1>k

LEMMA InvDepthCapped == TreeInv /\ Levelled => DepthCapped
  <1> SUFFICES ASSUME TreeInv, Levelled, NEW p \in Pages, Live(p)
               PROVE  Depth(p) <= MaxDepth
    BY DEF DepthCapped
  <1>1. PICK lvl \in [Pages -> 1 .. MaxDepth] : Levels(lvl)
    BY DEF Levelled
  <1>2. Depth(p) = lvl[p] /\ lvl[p] \in 1 .. MaxDepth
    BY <1>1, DepthIsLevel
  <1> QED
    BY <1>2

(* The pages below a page have higher levels. *)
LEMMA SubtreeLevels ==
    ASSUME TreeInv, NEW lvl \in [Pages -> 1 .. MaxDepth], Levels(lvl), NEW p \in Pages, Live(p)
    PROVE  \A q \in Subtree(p) \ {p} : lvl[q] > lvl[p]
  <1> DEFINE S == {q \in Pages : Live(q) => lvl[q] > lvl[p] \/ q = p}
  <1>1. ASSUME NEW q \in Pages, Live(q), pages[q].parentId \in S
        PROVE  q \in S
    <2>u. PICK u : u = pages[q].parentId
      OBVIOUS
    <2>1. u \in Pages /\ LiveIn(u, pages[q].spaceId) /\ u # NoPage
      BY <1>1, <2>u, InvParentsLive, RootAssumption DEF ParentsLive
    <2>2. lvl[q] = lvl[u] + 1
      BY <1>1, <2>u, <2>1, LiveIsKept DEF Levels
    <2>3. lvl[u] >= lvl[p]
      <3>1. lvl[u] > lvl[p] \/ u = p
        BY <1>1, <2>u, <2>1 DEF LiveIn
      <3> QED
        BY <3>1, <2>1
    <2>4. lvl[q] > lvl[p]
      BY <2>1, <2>2, <2>3
    <2> QED
      BY <2>4
  <1>2. S \in SUBSET Pages /\ p \in S /\ ClosedBelow(S)
    BY <1>1 DEF ClosedBelow
  <1>3. Subtree(p) \subseteq S
    <2> HIDE DEF S
    <2> QED
      BY <1>2, SubtreeIsLeast
  <1>4. \A q \in Subtree(p) : Live(q)
    <2>1. LiveIn(p, pages[p].spaceId) /\ pages[p].spaceId \in Spaces
      BY LiveIsKept DEF LiveIn
    <2> QED
      BY <2>1, SubtreeInSpace DEF LiveIn
  <1> QED
    BY <1>3, <1>4

(* pageSubtreeMaxDepth bounds how far the subtree of a page reaches below it. *)
LEMMA HeightBounds ==
    ASSUME TreeInv, NEW lvl \in [Pages -> 1 .. MaxDepth], Levels(lvl), NEW p \in Pages, Live(p)
    PROVE  Height(p) \in Int /\ \A q \in Subtree(p) : lvl[q] - lvl[p] <= Height(p)
  <1>D. PICK D \in SUBSET Pages : D = Subtree(p)
    BY SubtreeIsLeast
  <1>1. \A q \in D : Live(q)
    <2>1. LiveIn(p, pages[p].spaceId) /\ pages[p].spaceId \in Spaces
      BY LiveIsKept DEF LiveIn
    <2> QED
      BY <1>D, <2>1, SubtreeInSpace DEF LiveIn
  <1>2. Depth(p) = lvl[p] /\ \A q \in D : Depth(q) = lvl[q]
    BY <1>1, DepthIsLevel
  <1> DEFINE f == [q \in Pages |-> lvl[q] - lvl[p]]
             H == {f[q] : q \in D}
  <1>3. Height(p) = Max(H)
    <2>1. {Depth(q) - Depth(p) : q \in Subtree(p)} = H
      BY <1>D, <1>2
    <2> QED
      BY <2>1 DEF Height
  <1>4. f \in [Pages -> Int]
    OBVIOUS
  <1>5. \A q \in D : f[q] = lvl[q] - lvl[p]
    OBVIOUS
  <1> HIDE DEF f
  <1>6. IsFiniteSet(H)
    <2>1. IsFiniteSet(D)
      BY PagesFinite
    <2> QED
      BY <2>1, FiniteRange
  <1>7. H \subseteq Int /\ H # {}
    BY <1>4, <1>D, SubtreeIsLeast
  <1>8. \A q \in D : f[q] \in H
    OBVIOUS
  <1> HIDE DEF H
  <1>9. Max(H) \in H /\ \A y \in H : Max(H) >= y
    BY <1>6, <1>7, MaxIsMaximum
  <1>10. ASSUME NEW q \in D
         PROVE  lvl[q] - lvl[p] <= Height(p)
    <2>1. Max(H) >= f[q] /\ f[q] \in Int /\ Max(H) \in Int
      BY <1>4, <1>7, <1>8, <1>9
    <2> QED
      BY <2>1, <1>3, <1>5
  <1> QED
    BY <1>3, <1>7, <1>9, <1>10, <1>D

(* How deep a page hung under dest is. *)
LevelUnder(lvl, dest) == IF dest = NoPage THEN 1 ELSE lvl[dest] + 1

(* A page is hung somewhere, and the pages that come with it are not too deep there. *)
LEMMA LevelledHung ==
    ASSUME TreeInv, UNCHANGED spaces,
           NEW p \in Pages, NEW s \in Spaces, SpaceLive(s), NEW dest \in ParentIds,
           NEW D \in SUBSET Pages, Hung(p, s, dest, D),
           NEW lvl \in [Pages -> 1 .. MaxDepth], Levels(lvl),
           \A q \in D : /\ lvl[q] >= lvl[p]
                        /\ lvl[q] - lvl[p] + LevelUnder(lvl, dest) <= MaxDepth
    PROVE  Levelled'
  <1>b. PICK b \in Nat \ {0} : b = LevelUnder(lvl, dest)
    <2>1. LevelUnder(lvl, dest) \in Nat \ {0}
      <3>1. CASE dest = NoPage
        BY <3>1 DEF LevelUnder
      <3>2. CASE dest # NoPage
        <4>1. dest \in Pages /\ lvl[dest] \in 1 .. MaxDepth
          BY <3>2 DEF ParentIds
        <4> QED
          BY <3>2, <4>1 DEF LevelUnder
      <3> QED
        BY <3>1, <3>2
    <2> QED
      BY <2>1
  <1> DEFINE new == [q \in Pages |-> IF q \in D THEN lvl[q] - lvl[p] + b ELSE lvl[q]]
  <1>1. new \in [Pages -> 1 .. MaxDepth]
    <2>1. ASSUME NEW q \in D
          PROVE  lvl[q] - lvl[p] + b \in 1 .. MaxDepth
      <3>1. lvl[q] \in 1 .. MaxDepth /\ lvl[p] \in 1 .. MaxDepth
        OBVIOUS
      <3>2. lvl[q] >= lvl[p] /\ lvl[q] - lvl[p] + b <= MaxDepth
        BY <1>b
      <3> QED
        BY <3>1, <3>2, TreeParamsAssumption
    <2> QED
      BY <2>1
  <1>2. /\ \A q \in D : new[q] = lvl[q] - lvl[p] + b
        /\ \A q \in Pages \ D : new[q] = lvl[q]
    OBVIOUS
  <1> HIDE DEF new
  <1>3. ASSUME NEW q \in Pages, Kept(q)'
        PROVE  new[q] = IF pages'[q].parentId = NoPage THEN 1 ELSE new[pages'[q].parentId] + 1
    <2>1. CASE q = p
      <3>1. q \in D /\ pages'[q].parentId = dest /\ new[q] = b
        <4>1. q \in D /\ pages'[q].parentId = dest
          BY <2>1 DEF Hung
        <4>2. lvl[p] \in 1 .. MaxDepth
          OBVIOUS
        <4> QED
          BY <2>1, <4>1, <4>2, <1>2
      <3>2. CASE dest = NoPage
        BY <3>1, <3>2, <1>b DEF LevelUnder
      <3>3. CASE dest # NoPage
        <4>1. dest \in Pages \ D
          BY <3>3 DEF Hung, ParentIds
        <4> QED
          BY <3>1, <3>3, <4>1, <1>b, <1>2 DEF LevelUnder
      <3> QED
        BY <3>2, <3>3
    <2>2. CASE q \in D \ {p}
      <3>u. PICK u : u = pages[q].parentId
        OBVIOUS
      <3>1. Live(q) /\ u \in D /\ pages'[q].parentId = u
        BY <2>2, <3>u DEF Hung
      <3>2. u # NoPage /\ lvl[q] = lvl[u] + 1
        BY <3>1, <3>u, LiveIsKept, RootAssumption DEF Levels
      <3>3. lvl[u] \in 1 .. MaxDepth /\ lvl[p] \in 1 .. MaxDepth
        BY <3>1
      <3> QED
        BY <3>1, <3>2, <3>3, <2>2, <1>2
    <2>3. CASE q \notin D
      <3>1. SameStructure(q) /\ pages'[q].deleteAt = pages[q].deleteAt
        BY <2>3 DEF Hung
      <3>2. Kept(q)
        BY <1>3, <3>1 DEF Kept, Exists, SameStructure
      <3>u. PICK u : u = pages[q].parentId
        OBVIOUS
      <3>3. u \notin D /\ pages'[q].parentId = u
        BY <3>1, <3>2, <3>u, <2>3 DEF Hung, SameStructure
      <3>4. lvl[q] = (IF u = NoPage THEN 1 ELSE lvl[u] + 1) /\ (u # NoPage => u \in Pages)
        BY <3>2, <3>u DEF Levels, TreeInv, ParentsKept, ParentKept
      <3> QED
        BY <3>3, <3>4, <2>3, <1>2
    <2> QED
      BY <2>1, <2>2, <2>3
  <1>4. Levels(new)'
    BY <1>3 DEF Levels
  <1> QED
    BY <1>1, <1>4 DEF Levelled

(* A page that was in no tree goes under one that is not too deep. *)
LEMMA LevelledAlone ==
    ASSUME TreeInv, Levelled, UNCHANGED spaces,
           NEW p \in Pages, NEW s \in Spaces, SpaceLive(s), NEW dest \in ParentIds,
           Hung(p, s, dest, {p}), dest # NoPage => FitsDepth(dest, 0)
    PROVE  Levelled'
  <1>1. PICK lvl \in [Pages -> 1 .. MaxDepth] : Levels(lvl)
    BY DEF Levelled
  <1>2. LevelUnder(lvl, dest) <= MaxDepth /\ LevelUnder(lvl, dest) \in Nat
    <2>1. CASE dest = NoPage
      BY <2>1, TreeParamsAssumption DEF LevelUnder
    <2>2. CASE dest # NoPage
      <3>1. dest \in Pages /\ Live(dest)
        BY <2>2 DEF Hung, LiveIn, ParentIds
      <3>2. Depth(dest) = lvl[dest] /\ lvl[dest] \in 1 .. MaxDepth
        BY <3>1, <1>1, DepthIsLevel
      <3> QED
        BY <3>2, <2>2, TreeParamsAssumption DEF FitsDepth, LevelUnder
    <2> QED
      BY <2>1, <2>2
  <1>3. lvl[p] \in 1 .. MaxDepth
    OBVIOUS
  <1>4. PICK D \in SUBSET Pages : D = {p}
    OBVIOUS
  <1>5. \A q \in D : /\ lvl[q] >= lvl[p]
                     /\ lvl[q] - lvl[p] + LevelUnder(lvl, dest) <= MaxDepth
    BY <1>2, <1>3, <1>4
  <1>6. Hung(p, s, dest, D)
    BY <1>4
  <1> QED
    BY <1>1, <1>5, <1>6, LevelledHung

(* A subtree goes to where its page may hang. *)
LEMMA LevelledMove ==
    ASSUME TreeInv, Levelled, UNCHANGED spaces,
           NEW p \in Pages, Live(p), NEW s \in Spaces, SpaceLive(s), NEW dest \in ParentIds,
           Hung(p, s, dest, Subtree(p)), MayHang(p, dest, s)
    PROVE  Levelled'
  <1>1. PICK lvl \in [Pages -> 1 .. MaxDepth] : Levels(lvl)
    BY DEF Levelled
  <1>D. PICK D \in SUBSET Pages : D = Subtree(p)
    BY SubtreeIsLeast
  <1>p. lvl[p] \in 1 .. MaxDepth /\ \A q \in D : lvl[q] \in 1 .. MaxDepth
    OBVIOUS
  <1>2. \A q \in D : lvl[q] >= lvl[p]
    <2>1. \A q \in D \ {p} : lvl[q] > lvl[p]
      BY <1>1, <1>D, SubtreeLevels
    <2> QED
      BY <2>1, <1>p
  <1>3. ASSUME NEW q \in D
        PROVE  lvl[q] - lvl[p] + LevelUnder(lvl, dest) <= MaxDepth
    <2>1. CASE dest = NoPage
      BY <2>1, <1>p, TreeParamsAssumption DEF LevelUnder
    <2>2. CASE dest # NoPage
      <3>1. dest \in Pages /\ Live(dest) /\ FitsDepth(dest, Height(p))
        BY <2>2 DEF MayHang, LiveIn
      <3>2. Depth(dest) = lvl[dest] /\ lvl[dest] \in 1 .. MaxDepth
        BY <3>1, <1>1, DepthIsLevel
      <3>3. Height(p) \in Int /\ lvl[q] - lvl[p] <= Height(p)
        BY <1>1, <1>D, HeightBounds
      <3> QED
        BY <3>1, <3>2, <3>3, <2>2, <1>p, TreeParamsAssumption DEF FitsDepth, LevelUnder
    <2> QED
      BY <2>1, <2>2
  <1>4. Hung(p, s, dest, D)
    BY <1>D
  <1> QED
    BY <1>1, <1>2, <1>3, <1>4, LevelledHung

(* The subtree of a deleted page moves up by one level. *)
LEMMA LevelledPromote ==
    ASSUME TreeInv, Levelled, NEW p \in Pages, NEW now \in Nat \ {0}, DeletePage(p, now)
    PROVE  Levelled'
  <1>1. PICK lvl \in [Pages -> 1 .. MaxDepth] : Levels(lvl)
    BY DEF Levelled
  <1>C. PICK C : C = KeptGroup(pages[p].spaceId, p)
    OBVIOUS
  <1>D. PICK D \in SUBSET Pages : D = Subtree(p)
    BY SubtreeIsLeast
  <1>2. /\ C = Children(p) /\ ~ Kept(p)'
        /\ \A q \in Pages \ {p} : Kept(q)' <=> Kept(q)
        /\ \A q \in C : pages'[q].parentId = pages[p].parentId
        /\ \A q \in Pages \ (C \cup {p}) : pages'[q].parentId = pages[q].parentId
    BY <1>C, DeletedRows
  <1>3. /\ Live(p) /\ Kept(p) /\ pages[p].spaceId \in Spaces /\ LiveIn(p, pages[p].spaceId)
    BY LiveIsKept DEF DeletePage, LiveIn
  <1>4. /\ p \in D
        /\ \A q \in D \ {p} : pages[q].parentId \in D
        /\ \A q \in Pages : Kept(q) /\ pages[q].parentId \in D => q \in D
    BY <1>3, <1>D, SubtreeInSpace, SubtreeIsLeast
  <1>5. \A q \in D \ {p} : lvl[q] > lvl[p]
    BY <1>1, <1>3, <1>D, SubtreeLevels
  <1>6. \A q \in Pages : lvl[q] \in 1 .. MaxDepth
    OBVIOUS
  <1> DEFINE new == [q \in Pages |-> IF q \in D \ {p} THEN lvl[q] - 1 ELSE lvl[q]]
  <1>7. new \in [Pages -> 1 .. MaxDepth]
    <2>1. ASSUME NEW q \in D \ {p}
          PROVE  lvl[q] - 1 \in 1 .. MaxDepth
      <3>1. lvl[q] > lvl[p] /\ lvl[q] \in 1 .. MaxDepth /\ lvl[p] \in 1 .. MaxDepth
        BY <1>5, <1>6
      <3> QED
        BY <3>1, TreeParamsAssumption
    <2> QED
      BY <2>1, <1>6
  <1>8. \A q \in Pages : new[q] = IF q \in D \ {p} THEN lvl[q] - 1 ELSE lvl[q]
    OBVIOUS
  <1> HIDE DEF new
  <1>9. \A q \in Pages : Kept(q) =>
            /\ lvl[q] = (IF pages[q].parentId = NoPage THEN 1 ELSE lvl[pages[q].parentId] + 1)
            /\ pages[q].parentId # NoPage => pages[q].parentId \in Pages
    BY <1>1 DEF Levels, TreeInv, ParentsKept, ParentKept
  <1>10. pages[p].parentId \notin D
    <2> SUFFICES ASSUME pages[p].parentId \in D PROVE FALSE
      OBVIOUS
    <2>u. PICK u \in D : u = pages[p].parentId
      OBVIOUS
    <2>1. lvl[p] = lvl[u] + 1
      BY <2>u, <1>3, <1>9, RootAssumption
    <2>2. lvl[u] >= lvl[p]
      BY <1>5, <1>6
    <2> QED
      BY <2>1, <2>2, <1>6
  <1>11. ASSUME NEW q \in Pages, Kept(q)'
         PROVE  new[q] = IF pages'[q].parentId = NoPage THEN 1 ELSE new[pages'[q].parentId] + 1
    <2>1. q # p /\ Kept(q)
      BY <1>2, <1>11
    <2>2. CASE q \in C
      <3>u. PICK u : u = pages[p].parentId
        OBVIOUS
      <3>1. pages[q].parentId = p /\ p # NoPage /\ lvl[q] = lvl[p] + 1 /\ pages'[q].parentId = u
        BY <2>1, <2>2, <3>u, <1>2, <1>9, RootAssumption DEF Children
      <3>2. q \in D \ {p} /\ new[q] = lvl[p]
        BY <3>1, <2>1, <1>4, <1>6, <1>8
      <3>3. lvl[p] = (IF u = NoPage THEN 1 ELSE lvl[u] + 1) /\ (u # NoPage => u \in Pages)
        BY <3>u, <1>3, <1>9
      <3>4. u # NoPage => new[u] = lvl[u]
        BY <3>3, <3>u, <1>8, <1>10
      <3> QED
        BY <3>1, <3>2, <3>3, <3>4
    <2>3. CASE q \notin C
      <3>u. PICK u : u = pages[q].parentId
        OBVIOUS
      <3>1. pages'[q].parentId = u /\ u # p
        <4>1. u # p
          <5>1. ASSUME u = p PROVE FALSE
            <6>1. ParentKept(q)
              BY <2>1 DEF TreeInv, ParentsKept
            <6>2. pages[q].spaceId = pages[p].spaceId
              BY <5>1, <6>1, <3>u, RootAssumption DEF ParentKept
            <6> QED
              BY <5>1, <6>2, <3>u, <2>1, <2>3, <1>C DEF KeptGroup
          <5> QED
            BY <5>1
        <4> QED
          BY <4>1, <3>u, <2>1, <2>3, <1>2
      <3>2. lvl[q] = (IF u = NoPage THEN 1 ELSE lvl[u] + 1) /\ (u # NoPage => u \in Pages)
        BY <3>u, <2>1, <1>9
      <3>3. CASE q \in D
        <4>1. u \in D \ {p} /\ u # NoPage /\ u \in Pages
          BY <3>u, <3>1, <3>3, <2>1, <1>4, RootAssumption
        <4>2. new[q] = lvl[q] - 1 /\ new[u] = lvl[u] - 1
          BY <4>1, <3>3, <2>1, <1>8
        <4> QED
          BY <4>1, <4>2, <3>1, <3>2, <1>6
      <3>4. CASE q \notin D
        <4>1. u \notin D /\ new[q] = lvl[q]
          BY <3>u, <3>4, <2>1, <1>4, <1>8
        <4>2. u # NoPage => new[u] = lvl[u]
          BY <4>1, <3>2, <1>8
        <4> QED
          BY <4>1, <4>2, <3>1, <3>2
      <3> QED
        BY <3>3, <3>4
    <2> QED
      BY <2>2, <2>3
  <1>12. Levels(new)'
    BY <1>11 DEF Levels
  <1> QED
    BY <1>7, <1>12 DEF Levelled

LEMMA LevelledUnchanged ==
    ASSUME Levelled, \A q \in Pages : SameStructure(q) /\ (Kept(q)' <=> Kept(q))
    PROVE  Levelled'
  <1>1. PICK lvl \in [Pages -> 1 .. MaxDepth] : Levels(lvl)
    BY DEF Levelled
  <1>2. Levels(lvl)'
    BY <1>1 DEF Levels, SameStructure
  <1> QED
    BY <1>2 DEF Levelled

LEMMA LevelledStep ==
    ASSUME TreeInv, Levelled, [Next]_vars
    PROVE  Levelled'
  <1>t. TypeOK /\ ClockReads \subseteq Nat \ {0} /\ Nat \ {0} \subseteq Nat
    BY ClockReadsPositive DEF TreeInv, TypeOK
  <1>0. CASE UNCHANGED <<spaces, pages, archived>>
    BY <1>0, LevelledUnchanged DEF SameStructure, Kept, Exists
  <1>1. ASSUME NEW p \in Pages, PageStep(p)
        PROVE  Levelled'
    <2>1. ASSUME NEW s \in Spaces, NEW parent \in ParentIds, CreatePage(p, s, parent)
          PROVE  Levelled'
      <3>1. UNCHANGED spaces /\ SpaceLive(s) /\ (parent # NoPage => FitsDepth(parent, 0))
        BY <2>1 DEF CreatePage
      <3> QED
        BY <2>1, <3>1, CreatePageHangs, LevelledAlone
    <2>2. CASE EditPage(p)
      <3>1. TypeOK'
        BY <1>t, <1>1, PageStepType
      <3> QED
        BY <2>2, <3>1, EditPageInv, LevelledUnchanged DEF StaysPut
    <2>3. ASSUME NEW now \in ClockReads, DeletePage(p, now)
          PROVE  Levelled'
      BY <1>t, <2>3, LevelledPromote
    <2>4. ASSUME NEW now \in ClockReads, RestorePage(p, now)
          PROVE  Levelled'
      <3>1. PICK s \in Spaces, d \in ParentIds :
                d = RestoreParent(p) /\ SpaceLive(s) /\ Hung(p, s, d, {p})
        BY <1>t, <2>4, RestorePageHangs
      <3>2. UNCHANGED spaces /\ (d # NoPage => FitsDepth(d, 0))
        BY <2>4, <3>1 DEF RestorePage, RestoreParent
      <3> QED
        BY <3>1, <3>2, LevelledAlone
    <2> QED
      BY <1>1, <2>1, <2>2, <2>3, <2>4 DEF PageStep
  <1>2. ASSUME NEW p \in Pages, NEW s \in Spaces, NEW dest \in ParentIds, MoveStep(p, s, dest, Forced)
        PROVE  Levelled'
    <2>1. CASE MovePageAppend(p, s, dest, Forced)
      <3>1. UNCHANGED spaces /\ SpaceLive(s) /\ Live(p) /\ MayHang(p, dest, s)
        BY <2>1 DEF MovePageAppend, MayMove, LiveIn
      <3> QED
        BY <2>1, <3>1, MovePageAppendHangs, LevelledMove
    <2>2. CASE MovePageToIndex(p, s, dest, Forced)
      <3>1. UNCHANGED spaces /\ SpaceLive(s) /\ Live(p)
        BY <2>2 DEF MovePageToIndex, MayMove, LiveIn
      <3>2. \/ MayHang(p, dest, s) /\ Hung(p, s, dest, Subtree(p))
            \/ \A q \in Pages : SameStructure(q) /\ (Kept(q)' <=> Kept(q))
        BY <2>2, MovePageToIndexHangs
      <3> QED
        BY <3>1, <3>2, LevelledMove, LevelledUnchanged
    <2>3. ASSUME NEW t \in Spaces, MovePageToSpace(p, s, t, dest, Forced)
          PROVE  Levelled'
      <3>1. UNCHANGED spaces /\ SpaceLive(t) /\ Live(p) /\ MayHang(p, dest, t)
        BY <2>3 DEF MovePageToSpace, MayMove, LiveIn
      <3> QED
        BY <2>3, <3>1, MovePageToSpaceHangs, LevelledMove
    <2> QED
      BY <1>2, <2>1, <2>2, <2>3 DEF MoveStep
  <1>3. ASSUME NEW s \in Spaces, SpaceStep(s)
        PROVE  Levelled'
    <2>1. TypeOK'
      BY <1>t, <1>3, SpaceStepType
    <2>2. \A q \in Pages : StaysPut(q)
      BY <1>3, <1>t, <2>1, DeleteSpaceInv, RestoreSpaceInv DEF SpaceStep
    <2> QED
      BY <2>2, LevelledUnchanged DEF StaysPut
  <1> QED
    BY <1>0, <1>1, <1>2, <1>3 DEF Next, Tick, vars

LEMMA LevelledInit == Init => Levelled
  <1> SUFFICES ASSUME Init PROVE Levelled
    OBVIOUS
  <1> DEFINE lvl == [p \in Pages |-> 1]
  <1>1. lvl \in [Pages -> 1 .. MaxDepth]
    BY TreeParamsAssumption
  <1>2. Levels(lvl)
    BY DEF Init, Levels, Kept, Exists
  <1> QED
    BY <1>1, <1>2 DEF Levelled

-----------------------------------------------------------------------------

(* Positions are distinct and groups are within the cap, in every reachable state. *)
THEOREM OrderInvariant == Spec => [](TreeInv /\ Orderly)
  <1>1. Init => TreeInv /\ Orderly
    BY TreeInit, OrderlyInit
  <1>2. TreeInv /\ Orderly /\ [Next]_vars => (TreeInv /\ Orderly)'
    BY TreeStep, OrderlyStep
  <1> QED
    BY <1>1, <1>2, PTL DEF Spec

(* Two live siblings never share a position, whatever is promoted, renumbered, *)
(* moved or restored between them.                                              *)
THEOREM PositionsAreDistinct == Spec => []SiblingsOrdered
  BY OrderInvariant, InvSiblingsOrdered, PTL

(* In every reachable state a renumbering puts the page at the index asked for *)
(* and keeps the others in their order.                                         *)
THEOREM ReindexIsFaithful == Spec => []ReindexInsertsAtTheIndex
  BY OrderInvariant, InvReindexInserts, PTL

(* No step reorders two siblings without moving the token of one of them. *)
THEOREM NoSilentReordering == Spec => SilentSiblingsKeepOrder
  <1>1. TreeInv /\ Orderly /\ (TreeInv /\ Orderly)' /\ [Next]_vars => [Silent]_vars
    BY OrderlyStep, SilentStep
  <1>2. SilentSiblingsKeepOrder <=> [][Silent]_vars
    BY DEF SilentSiblingsKeepOrder, Silent
  <1> QED
    BY <1>1, <1>2, OrderInvariant, PTL DEF Spec

(* The children of a deleted page take its place, as a block and in their order. *)
THEOREM ChildrenSucceed == Spec => ChildrenTakeThePlace
  <1> DEFINE Succeed == \A p \in Pages : Deletes(p) => TakenOver(p)
  <1>1. TreeInv /\ Orderly /\ (TreeInv /\ Orderly)' /\ [Next]_vars => [Succeed]_vars
    BY OrderlyStep
  <1>2. ChildrenTakeThePlace <=> [][Succeed]_vars
    BY DEF ChildrenTakeThePlace, Deletes, TakenOver
  <1> QED
    BY <1>1, <1>2, OrderInvariant, PTL DEF Spec

(* Every page of a tree has a level within the cap on the depth, in every *)
(* reachable state.                                                        *)
THEOREM LevelInvariant == Spec => [](TreeInv /\ Levelled)
  <1>1. Init => TreeInv /\ Levelled
    BY TreeInit, LevelledInit
  <1>2. TreeInv /\ Levelled /\ [Next]_vars => (TreeInv /\ Levelled)'
    BY TreeStep, LevelledStep
  <1> QED
    BY <1>1, <1>2, PTL DEF Spec

(* No sequence of creates, deletes, moves and restores grows a group of siblings *)
(* or a branch past its cap.                                                      *)
THEOREM TreesAreCapped == Spec => []TreeCapped
  <1>1. TreeInv /\ Orderly /\ TreeInv /\ Levelled => TreeCapped
    BY InvSiblingsCapped, InvDepthCapped DEF TreeCapped
  <1> QED
    BY <1>1, OrderInvariant, LevelInvariant, PTL

-----------------------------------------------------------------------------
(* PageMoves: what the token of a client says of the place of a page *)

(* The row of a page only goes forward: a page that is there stays, its token *)
(* never falls, and it keeps its place while the token stands.                *)
Forward(x) ==
    Exists(x) =>
        /\ Exists(x)'
        /\ pages'[x].updateAt >= pages[x].updateAt
        /\ pages'[x].updateAt = pages[x].updateAt =>
               /\ pages'[x].spaceId = pages[x].spaceId
               /\ pages'[x].parentId = pages[x].parentId

(* A token that grows, or a place that stays, is all there is to check. *)
LEMMA ForwardIf ==
    ASSUME TypeOK, NEW x \in Pages,
           pages'[x].spaceId = pages[x].spaceId \/ pages'[x].spaceId \in Spaces,
           \/ pages'[x].updateAt \in Nat /\ pages'[x].updateAt > pages[x].updateAt
           \/ /\ pages'[x].updateAt = pages[x].updateAt
              /\ pages'[x].spaceId = pages[x].spaceId
              /\ pages'[x].parentId = pages[x].parentId
    PROVE  Forward(x)
  <1>1. pages[x].updateAt \in Nat
    BY DEF TypeOK, Row
  <1> QED
    BY <1>1, RootAssumption DEF Forward, Exists

LEMMA PageStepForward ==
    ASSUME TypeOK, NEW p \in Pages, PageStep(p), NEW x \in Pages
    PROVE  Forward(x)
  <1>r. /\ ClockReads \subseteq Nat /\ clock \in Nat /\ pages \in [Pages -> Row]
        /\ pages[x] \in Row /\ pages[p] \in Row
    BY ClockReadsPositive DEF TypeOK
  <1>1. CASE \E s \in Spaces, parent \in ParentIds : CreatePage(p, s, parent)
    <2>1. ~ Exists(p) /\ \A q \in Pages \ {p} : pages'[q] = pages[q]
      BY <1>1, <1>r DEF CreatePage
    <2>2. CASE x = p
      BY <2>1, <2>2 DEF Forward
    <2>3. CASE x # p
      BY <2>1, <2>3, ForwardIf
    <2> QED
      BY <2>2, <2>3
  <1>2. CASE EditPage(p)
    <2> DEFINE t == NextMonotonic(clock, pages[p].updateAt)
    <2>1. t \in Nat /\ t > pages[p].updateAt
      BY <1>r, NextMonotonicGrows DEF Row
    <2>2. pages' = [pages EXCEPT ![p] = [pages[p] EXCEPT !.updateAt = t]]
      BY <1>2, <1>r DEF EditPage
    <2> HIDE DEF t
    <2>3. /\ pages'[p].updateAt = t /\ pages'[p].spaceId = pages[p].spaceId
          /\ \A q \in Pages \ {p} : pages'[q] = pages[q]
      BY <2>2, <1>r DEF Row
    <2> QED
      BY <2>1, <2>3, ForwardIf
  <1>3. ASSUME NEW now \in ClockReads, DeletePage(p, now)
        PROVE  Forward(x)
    <2> DEFINE n == Cardinality(Children(p))
               tab == PagesAfterDelete(p, now)
    <2>1. pages' = tab /\ now \in Nat
      BY <1>3, <1>r DEF DeletePage
    <2>2. tab[x] \in Row
      BY <2>1, DeletedTable
    <2>3. CASE x = p
      <3>1. tab[x] = Stamped(p, now, now)
        BY <2>1, <2>3, DeletedTable
      <3>2. tab[x].updateAt > pages[x].updateAt /\ tab[x].spaceId = pages[x].spaceId
        BY <3>1, <2>1, <2>3, StampedRow
      <3> HIDE DEF tab
      <3> QED
        BY <2>1, <2>2, <3>2, ForwardIf DEF Row
    <2>4. CASE x # p
      <3>1. \/ x \in Children(p) /\ tab[x] = Promoted(x, p, now)
            \/ n > 1 /\ tab[x] = Shifted(x, n)
            \/ tab[x] = pages[x]
        BY <2>1, <2>4, DeletedTable
      <3>2. n \in Nat
        BY PagesFinite DEF Children
      <3>3. /\ Promoted(x, p, now).updateAt > pages[x].updateAt
            /\ Promoted(x, p, now).spaceId = pages[x].spaceId
        BY <2>1, PromotedRow
      <3>4. n > 1 => /\ Shifted(x, n).updateAt = pages[x].updateAt
                     /\ Shifted(x, n).spaceId = pages[x].spaceId
                     /\ Shifted(x, n).parentId = pages[x].parentId
        <4> HIDE DEF n
        <4> QED
          BY <3>2, ShiftedRow
      <3> HIDE DEF tab, n
      <3> QED
        BY <2>1, <2>2, <3>1, <3>3, <3>4, ForwardIf DEF Row
    <2> QED
      BY <2>3, <2>4
  <1>4. ASSUME NEW now \in ClockReads, RestorePage(p, now)
        PROVE  Forward(x)
    <2> DEFINE dest == RestoreParent(p)
               o == NextSortOrder(pages[p].spaceId, dest)
               st == Stamped(p, 0, now)
    <2>1. pages' = [pages EXCEPT ![p] = [st EXCEPT !.parentId = dest, !.sortOrder = o]]
      BY <1>4 DEF RestorePage
    <2>2. st \in Row /\ st.spaceId = pages[p].spaceId /\ st.updateAt > pages[p].updateAt
      BY <1>r, StampedRow
    <2> HIDE DEF dest, o, st
    <2>3. /\ pages'[p].updateAt = st.updateAt /\ pages'[p].spaceId = st.spaceId
          /\ \A q \in Pages \ {p} : pages'[q] = pages[q]
      BY <2>1, <2>2, <1>r DEF Row
    <2>4. st.updateAt \in Nat
      BY <2>2 DEF Row
    <2> QED
      BY <2>2, <2>3, <2>4, ForwardIf
  <1> QED
    BY <1>1, <1>2, <1>3, <1>4 DEF PageStep

LEMMA MoveStepForward ==
    ASSUME TypeOK, NEW p \in Pages, NEW s \in Spaces, NEW dest \in ParentIds, NEW base,
           MoveStep(p, s, dest, base), NEW x \in Pages
    PROVE  Forward(x)
  <1>r. clock \in Nat /\ pages \in [Pages -> Row] /\ pages[p] \in Row /\ pages[x] \in Row
    BY DEF TypeOK
  <1>t. pages' \in [Pages -> Row]
    BY MoveStepType DEF TypeOK
  <1>u. pages'[x].updateAt \in Nat
    BY <1>t DEF Row
  <1>1. CASE MovePageAppend(p, s, dest, base)
    <2> DEFINE o == NextSortOrder(s, dest)
               t == NextMonotonic(clock, pages[p].updateAt)
    <2>1. t \in Nat /\ t > pages[p].updateAt
      BY <1>r, NextMonotonicGrows DEF Row
    <2>2. pages' = [pages EXCEPT ![p] =
              [pages[p] EXCEPT !.parentId = dest, !.sortOrder = o, !.updateAt = t]]
      BY <1>1, <1>r DEF MovePageAppend
    <2> HIDE DEF o, t
    <2>3. /\ pages'[p].updateAt = t /\ pages'[p].spaceId = pages[p].spaceId
          /\ \A q \in Pages \ {p} : pages'[q] = pages[q]
      BY <2>2, <1>r DEF Row
    <2> QED
      BY <2>1, <2>3, ForwardIf
  <1>2. CASE MovePageToIndex(p, s, dest, base)
    <2>1. PICK index \in Indexes : pages' = PagesAfterReindex(p, s, dest, index)
      BY <1>2 DEF MovePageToIndex
    <2>2. index \in Int
      BY FiniteAssumption, FS_CardinalityType DEF Indexes
    <2>3. OnlyReparented(pages', p, dest) /\ \A q \in Pages \ {p} : OnlyReordered(pages', q)
      BY <2>1, <2>2, ReindexedTable
    <2> QED
      BY <2>3, <1>u, ForwardIf DEF OnlyReparented, OnlyReordered
  <1>3. ASSUME NEW t \in Spaces, MovePageToSpace(p, s, t, dest, base)
        PROVE  Forward(x)
    <2>1. /\ pages'[p].spaceId = t /\ pages'[p].updateAt > pages[p].updateAt
          /\ \A q \in Pages \ {p} :
                 /\ q \in Subtree(p) => pages'[q].spaceId = t /\ pages'[q].updateAt > pages[q].updateAt
                 /\ q \notin Subtree(p) => pages'[q] = pages[q]
      BY <1>3, RehomedTable
    <2> QED
      BY <2>1, <1>u, ForwardIf
  <1> QED
    BY <1>1, <1>2, <1>3 DEF MoveStep

LEMMA SpaceStepForward ==
    ASSUME TypeOK, NEW s \in Spaces, SpaceStep(s), NEW x \in Pages
    PROVE  Forward(x)
  <1>r. ClockReads \subseteq Nat /\ pages[x] \in Row
    BY ClockReadsPositive DEF TypeOK
  <1>1. ASSUME NEW d \in Nat, NEW now \in Nat, pages'[x] = Stamped(x, d, now) \/ pages'[x] = pages[x]
        PROVE  Forward(x)
    <2>1. /\ Stamped(x, d, now) \in Row
          /\ Stamped(x, d, now).spaceId = pages[x].spaceId
          /\ Stamped(x, d, now).updateAt > pages[x].updateAt
      BY StampedRow
    <2>2. Stamped(x, d, now).updateAt \in Nat
      BY <2>1 DEF Row
    <2> QED
      BY <1>1, <2>1, <2>2, ForwardIf
  <1>2. CASE DeleteSpace(s)
    <2>1. CascadeStamp(s) \in Nat
      BY CascadeStampIsLater
    <2>2. \/ pages'[x] = Stamped(x, CascadeStamp(s), CascadeStamp(s))
          \/ pages'[x] = pages[x]
      BY <1>2 DEF DeleteSpace
    <2> QED
      BY <1>1, <2>1, <2>2
  <1>3. ASSUME NEW now \in ClockReads, RestoreSpace(s, now)
        PROVE  Forward(x)
    <2>1. pages'[x] = Stamped(x, 0, now) \/ pages'[x] = pages[x]
      BY <1>3 DEF RestoreSpace
    <2> QED
      BY <1>1, <1>r, <2>1
  <1> QED
    BY <1>2, <1>3 DEF SpaceStep

-----------------------------------------------------------------------------
(* Clients                                                                 *)

(* What a client has loaded of a page is not ahead of the page, and is its place *)
(* if the token is current.                                                      *)
LoadedBehind ==
    \A c \in Clients : loaded[c] # NoLoad =>
        LET q == loaded[c] IN
        /\ Exists(q.page)
        /\ q.updateAt <= pages[q.page].updateAt
        /\ q.updateAt = pages[q.page].updateAt =>
               q.spaceId = pages[q.page].spaceId /\ q.parentId = pages[q.page].parentId

MovesInv == MovesTypeOK /\ LoadedBehind

(* The token of a load stays behind the page as long as the page goes forward. *)
LEMMA BehindKept ==
    ASSUME MovesInv, TypeOK', UNCHANGED loaded, \A x \in Pages : Forward(x)
    PROVE  MovesInv'
  <1>1. MovesTypeOK'
    BY DEF MovesInv, MovesTypeOK
  <1>2. ASSUME NEW c \in Clients, loaded[c] # NoLoad
        PROVE  /\ Exists(loaded[c].page)'
               /\ loaded[c].updateAt <= pages'[loaded[c].page].updateAt
               /\ loaded[c].updateAt = pages'[loaded[c].page].updateAt =>
                      /\ loaded[c].spaceId = pages'[loaded[c].page].spaceId
                      /\ loaded[c].parentId = pages'[loaded[c].page].parentId
    <2> DEFINE q == loaded[c]
    <2>1. q \in Load
      BY <1>2 DEF MovesInv, MovesTypeOK
    <2>2. q.page \in Pages /\ q.updateAt \in Nat
      BY <2>1 DEF Load
    <2>3. pages[q.page].updateAt \in Nat /\ pages'[q.page].updateAt \in Nat
      BY <2>2 DEF MovesInv, MovesTypeOK, TypeOK, Row
    <2>4. /\ Exists(q.page)
          /\ q.updateAt <= pages[q.page].updateAt
          /\ q.updateAt = pages[q.page].updateAt =>
                 q.spaceId = pages[q.page].spaceId /\ q.parentId = pages[q.page].parentId
      BY <1>2 DEF MovesInv, LoadedBehind
    <2>5. Forward(q.page)
      BY <2>2
    <2> HIDE DEF q
    <2>6. /\ Exists(q.page)'
          /\ pages'[q.page].updateAt >= pages[q.page].updateAt
          /\ pages'[q.page].updateAt = pages[q.page].updateAt =>
                 /\ pages'[q.page].spaceId = pages[q.page].spaceId
                 /\ pages'[q.page].parentId = pages[q.page].parentId
      BY <2>4, <2>5 DEF Forward
    <2>7. q.updateAt = pages'[q.page].updateAt =>
              /\ pages'[q.page].updateAt = pages[q.page].updateAt
              /\ q.updateAt = pages[q.page].updateAt
      BY <2>2, <2>3, <2>4, <2>6
    <2>8. q.updateAt <= pages'[q.page].updateAt
      BY <2>2, <2>3, <2>4, <2>6
    <2> QED
      BY <2>4, <2>6, <2>7, <2>8 DEF q
  <1>3. LoadedBehind'
    BY <1>2 DEF LoadedBehind, Exists
  <1> QED
    BY <1>1, <1>3 DEF MovesInv

(* A load that has just been read is current. *)
LEMMA LoadPageBehind ==
    ASSUME MovesInv, NEW c \in Clients, NEW p \in Pages, LoadPage(c, p)
    PROVE  MovesInv'
  <1> DEFINE load == [page |-> p, spaceId |-> pages[p].spaceId,
                      parentId |-> pages[p].parentId, updateAt |-> pages[p].updateAt]
  <1>1. pages[p] \in Row /\ Exists(p) /\ UNCHANGED vars
    BY DEF MovesInv, MovesTypeOK, TypeOK, LoadPage, Live
  <1>2. load \in Load
    BY <1>1 DEF Load, Row, Exists
  <1>3. /\ load.page = p /\ load.updateAt = pages[p].updateAt
        /\ load.spaceId = pages[p].spaceId /\ load.parentId = pages[p].parentId
    OBVIOUS
  <1>4. loaded' = [loaded EXCEPT ![c] = load] /\ loaded \in [Clients -> Load \cup {NoLoad}]
    BY DEF LoadPage, MovesInv, MovesTypeOK
  <1>5. pages' = pages /\ TypeOK'
    BY <1>1, StutterType DEF vars, MovesInv, MovesTypeOK
  <1> HIDE DEF load
  <1>6. MovesTypeOK'
    BY <1>2, <1>4, <1>5 DEF MovesTypeOK
  <1>7. pages[p].updateAt <= pages[p].updateAt
    BY <1>1 DEF Row
  <1>8. \A d \in Clients : loaded'[d] = IF d = c THEN load ELSE loaded[d]
    BY <1>4
  <1>9. LoadedBehind'
    BY <1>1, <1>3, <1>5, <1>7, <1>8 DEF LoadedBehind, MovesInv, Exists
  <1> QED
    BY <1>6, <1>9 DEF MovesInv

LEMMA MovesStep ==
    ASSUME MovesInv, [MNext]_mvars
    PROVE  MovesInv'
  <1>t. TypeOK /\ loaded \in [Clients -> Load \cup {NoLoad}]
    BY DEF MovesInv, MovesTypeOK
  <1>1. ASSUME NEW c \in Clients, NEW p \in Pages, LoadPage(c, p)
        PROVE  MovesInv'
    BY <1>1, LoadPageBehind
  <1>2. ASSUME NEW c \in Clients, NEW dest \in ParentIds, NEW force \in BOOLEAN,
               RequestMove(c, dest, force)
        PROVE  MovesInv'
    <2> DEFINE base == IF force THEN Forced ELSE loaded[c].updateAt
    <2>1. loaded[c].page \in Pages /\ loaded[c].spaceId \in Spaces
      BY <1>2, <1>t DEF RequestMove, Load
    <2>2. MoveStep(loaded[c].page, loaded[c].spaceId, dest, base) /\ UNCHANGED loaded
      BY <1>2 DEF RequestMove
    <2> HIDE DEF base
    <2>3. TypeOK'
      BY <1>t, <2>1, <2>2, MoveStepType
    <2>4. \A x \in Pages : Forward(x)
      BY <1>t, <2>1, <2>2, MoveStepForward
    <2> QED
      BY <2>2, <2>3, <2>4, BehindKept
  <1>3. ASSUME Tick, UNCHANGED loaded
        PROVE  MovesInv'
    <2>1. TypeOK'
      BY <1>3, <1>t, TickType
    <2>2. \A x \in Pages : Forward(x)
      BY <1>3, <1>t, ForwardIf DEF Tick
    <2> QED
      BY <1>3, <2>1, <2>2, BehindKept
  <1>4. ASSUME NEW p \in Pages, PageStep(p), UNCHANGED loaded
        PROVE  MovesInv'
    BY <1>4, <1>t, PageStepType, PageStepForward, BehindKept
  <1>5. ASSUME NEW s \in Spaces, SpaceStep(s), UNCHANGED loaded
        PROVE  MovesInv'
    BY <1>5, <1>t, SpaceStepType, SpaceStepForward, BehindKept
  <1>6. CASE UNCHANGED mvars
    <2>1. UNCHANGED vars /\ UNCHANGED loaded /\ pages' = pages
      BY <1>6 DEF mvars, vars
    <2>2. TypeOK'
      BY <2>1, <1>t, StutterType
    <2>3. \A x \in Pages : Forward(x)
      BY <2>1, <1>t, ForwardIf
    <2> QED
      BY <2>1, <2>2, <2>3, BehindKept
  <1> QED
    BY <1>1, <1>2, <1>3, <1>4, <1>5, <1>6 DEF MNext

(* The token of a client never gets ahead of the page it was read from. *)
THEOREM MovesInvariant == MSpec => []MovesInv
  <1>1. MInit => MovesInv
    <2> SUFFICES ASSUME MInit PROVE MovesInv
      OBVIOUS
    <2>1. TypeOK
      BY InitType DEF MInit
    <2>2. \A c \in Clients : loaded[c] = NoLoad
      BY DEF MInit
    <2> QED
      BY <2>1, <2>2 DEF MInit, MovesInv, MovesTypeOK, LoadedBehind
  <1> QED
    BY <1>1, MovesStep, PTL DEF MSpec

(* No client holds a token that is current and a place that is not: whatever is *)
(* edited, moved, deleted and restored after the load, an UpdateAt that still    *)
(* matches names the space and the parent the client saw.                        *)
THEOREM TokenNamesThePlace == MSpec => []TokenNamesOnePlace
  <1>1. MovesInv => TokenNamesOnePlace
    BY DEF MovesInv, LoadedBehind, TokenNamesOnePlace
  <1> QED
    BY <1>1, MovesInvariant, PTL

(* An unforced move takes a page from the place its caller saw. *)
THEOREM UnforcedMovesAreInformed == MSpec => UnforcedMoveLeavesItsSeenPlace
  <1> DEFINE Informed ==
          \A c \in Clients :
              loaded[c] # NoLoad /\ ~ SeenInPlace(loaded[c]) =>
                  \A dest \in ParentIds : ~ RequestMove(c, dest, FALSE)
  <1>1. MovesInv => Informed
    <2> SUFFICES ASSUME MovesInv, NEW c \in Clients, NEW dest \in ParentIds,
                        RequestMove(c, dest, FALSE)
                 PROVE  SeenInPlace(loaded[c])
      OBVIOUS
    <2> DEFINE q == loaded[c]
    <2>1. q # NoLoad /\ MoveStep(q.page, q.spaceId, dest, q.updateAt)
      BY DEF RequestMove
    <2>2. MayMove(q.page, q.spaceId, q.updateAt)
      BY <2>1 DEF MoveStep, MovePageAppend, MovePageToIndex, MovePageToSpace
    <2>3. q.updateAt \in Nat
      BY <2>1 DEF MovesInv, MovesTypeOK, Load
    <2>4. LiveIn(q.page, q.spaceId) /\ q.updateAt = pages[q.page].updateAt
      BY <2>2, <2>3, ForcedAssumption DEF MayMove
    <2> QED
      BY <2>1, <2>4 DEF MovesInv, LoadedBehind, SeenInPlace
  <1>2. UnforcedMoveLeavesItsSeenPlace <=> [][Informed]_mvars
    BY DEF UnforcedMoveLeavesItsSeenPlace
  <1> HIDE DEF Informed
  <1> QED
    BY <1>1, <1>2, MovesInvariant, PTL

=============================================================================
