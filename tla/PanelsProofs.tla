----------------------------- MODULE PanelsProofs -----------------------------
(***************************************************************************)
(* What the proofs about members, settings and widths say of the client's  *)
(* panels and dialogs as MCPanels composes them.                           *)
(***************************************************************************)
EXTENDS MCPanels, TLAPS

\* The theorems for the permissions tab, the modal whose store changes by its own
\* writes only, and the panel dragged without a slip.
TabTheorems == INSTANCE PanelPartsProofs WITH
  Users <- {me, u2, u3, u4}, Outsiders <- {u4}, CommitOnSelect <- FALSE,
  Overlaps <- FALSE, Reopens <- FALSE, Others <- FALSE, MaxCalls <- 4,
  Values <- {"", "a", "b"}, Blank <- "", Refreshes <- FALSE, Archives <- FALSE, MaxVersion <- 3,
  MinWidth <- 4, MaxWidth <- 12, DefaultWidth <- 8, SnapDistance <- 1, Step <- 2,
  Pointers <- 0..18, Edge <- 3, Side <- 1, Strays <- FALSE, Interrupts <- FALSE,
  Root <- 0, MaxDepth <- 1, Pages <- 1..3, MaxChanges <- 1,
  Gestures <- {"focus", "collapse", "keys", "leave"}

\* ... for the share modal, the modal that listings reach, and the panel with stray
\* releases.
ShareTheorems == INSTANCE PanelPartsProofs WITH
  Users <- {me, u2, u3, u4}, Outsiders <- {u4}, CommitOnSelect <- TRUE,
  Overlaps <- FALSE, Reopens <- FALSE, Others <- FALSE, MaxCalls <- 4,
  Values <- {"", "a"}, Blank <- "", Refreshes <- TRUE, Archives <- TRUE, MaxVersion <- 2,
  MinWidth <- 4, MaxWidth <- 12, DefaultWidth <- 8, SnapDistance <- 1, Step <- 2,
  Pointers <- 0..18, Edge <- 18, Side <- -1, Strays <- TRUE, Interrupts <- TRUE,
  Root <- 0, MaxDepth <- 2, Pages <- 1..4, MaxChanges <- 0, Gestures <- {"drag"}

\* ... and for the surface that the constants describe.
OwnTheorems == INSTANCE PanelPartsProofs WITH
  Values <- {"", "a", "b"}, Blank <- "", Refreshes <- FALSE, Archives <- FALSE, MaxVersion <- 3,
  MinWidth <- 4, MaxWidth <- 12, DefaultWidth <- 8, SnapDistance <- 1, Step <- 2,
  Pointers <- 0..18, Edge <- 3, Side <- 1, Strays <- FALSE, Interrupts <- FALSE,
  Root <- 0, MaxDepth <- 2, Pages <- 1..3, MaxChanges <- 0, Gestures <- {"collapse", "drag"}

-----------------------------------------------------------------------------
(* A behavior of the panels is one of its part: the parts' actions are those *)
(* that the theorems are about.                                              *)

LEMMA SameTab == Tab!Next => TabTheorems!Next
  <1>1. \A S : Tab!Cardinality(S) = TabTheorems!Cardinality(S)
    BY DEF Tab!Cardinality, TabTheorems!Cardinality
  <1> QED
    BY <1>1, ZenonT(120) DEF Tab!surface, TabTheorems!surface, Tab!vars, TabTheorems!vars, Tab!Call,
           TabTheorems!Call, Tab!Mine, TabTheorems!Mine, Tab!Moved, TabTheorems!Moved,
           Tab!ServerAdds, TabTheorems!ServerAdds, Tab!LockHeld, TabTheorems!LockHeld,
           Tab!ServerGuards, TabTheorems!ServerGuards, Tab!ServerRemoves,
           TabTheorems!ServerRemoves, Tab!ServerRefuses, TabTheorems!ServerRefuses,
           Tab!OtherRemoves, TabTheorems!OtherRemoves, Tab!OtherAnswered,
           TabTheorems!OtherAnswered, Tab!Quiet, TabTheorems!Quiet, Tab!Fetch, TabTheorems!Fetch,
           Tab!ReadMembers, TabTheorems!ReadMembers, Tab!ListingArrives,
           TabTheorems!ListingArrives, Tab!FetchFails, TabTheorems!FetchFails, Tab!Added,
           TabTheorems!Added, Tab!Removed, TabTheorems!Removed, Tab!Listed, TabTheorems!Listed,
           Tab!Mount, TabTheorems!Mount, Tab!Reset, TabTheorems!Reset, Tab!Unmount,
           TabTheorems!Unmount, Tab!Usable, TabTheorems!Usable, Tab!StartBatch,
           TabTheorems!StartBatch, Tab!NoBatch, TabTheorems!NoBatch, Tab!Select,
           TabTheorems!Select, Tab!Pick, TabTheorems!Pick, Tab!RemoveChip, TabTheorems!RemoveChip,
           Tab!Add, TabTheorems!Add, Tab!Ask, TabTheorems!Ask, Tab!Confirm, TabTheorems!Confirm,
           Tab!CancelConfirm, TabTheorems!CancelConfirm, Tab!Answered, TabTheorems!Answered,
           Tab!Kept, TabTheorems!Kept, Tab!Settled, TabTheorems!Settled, Tab!AddAnswered,
           TabTheorems!AddAnswered, Tab!RemoveAnswered, TabTheorems!RemoveAnswered,
           Tab!LeaveAnswered, TabTheorems!LeaveAnswered, Tab!Next, TabTheorems!Next

LEMMA SameShare == Share!Next => ShareTheorems!Next
  <1>1. \A S : Share!Cardinality(S) = ShareTheorems!Cardinality(S)
    BY DEF Share!Cardinality, ShareTheorems!Cardinality
  <1> QED
    BY <1>1, ZenonT(120) DEF Share!surface, ShareTheorems!surface, Share!vars, ShareTheorems!vars,
      Share!Call,
           ShareTheorems!Call, Share!Mine, ShareTheorems!Mine, Share!Moved, ShareTheorems!Moved,
           Share!ServerAdds, ShareTheorems!ServerAdds, Share!LockHeld, ShareTheorems!LockHeld,
           Share!ServerGuards, ShareTheorems!ServerGuards, Share!ServerRemoves,
           ShareTheorems!ServerRemoves, Share!ServerRefuses, ShareTheorems!ServerRefuses,
           Share!OtherRemoves, ShareTheorems!OtherRemoves, Share!OtherAnswered,
           ShareTheorems!OtherAnswered, Share!Quiet, ShareTheorems!Quiet, Share!Fetch,
           ShareTheorems!Fetch, Share!ReadMembers, ShareTheorems!ReadMembers,
           Share!ListingArrives, ShareTheorems!ListingArrives, Share!FetchFails,
           ShareTheorems!FetchFails, Share!Added, ShareTheorems!Added, Share!Removed,
           ShareTheorems!Removed, Share!Listed, ShareTheorems!Listed, Share!Mount,
           ShareTheorems!Mount, Share!Reset, ShareTheorems!Reset, Share!Unmount,
           ShareTheorems!Unmount, Share!Usable, ShareTheorems!Usable, Share!StartBatch,
           ShareTheorems!StartBatch, Share!NoBatch, ShareTheorems!NoBatch, Share!Select,
           ShareTheorems!Select, Share!Pick, ShareTheorems!Pick, Share!RemoveChip,
           ShareTheorems!RemoveChip, Share!Add, ShareTheorems!Add, Share!Ask, ShareTheorems!Ask,
           Share!Confirm, ShareTheorems!Confirm, Share!CancelConfirm, ShareTheorems!CancelConfirm,
           Share!Answered, ShareTheorems!Answered, Share!Kept, ShareTheorems!Kept, Share!Settled,
           ShareTheorems!Settled, Share!AddAnswered, ShareTheorems!AddAnswered,
           Share!RemoveAnswered, ShareTheorems!RemoveAnswered, Share!LeaveAnswered,
           ShareTheorems!LeaveAnswered, Share!Next, ShareTheorems!Next

LEMMA SameOwn == Next => OwnTheorems!Next
  <1>1. \A S : Cardinality(S) = OwnTheorems!Cardinality(S)
    BY DEF Cardinality, OwnTheorems!Cardinality
  <1> QED
    BY <1>1, ZenonT(120) DEF surface, OwnTheorems!surface, vars, OwnTheorems!vars, Call,
      OwnTheorems!Call, Mine,
           OwnTheorems!Mine, Moved, OwnTheorems!Moved, ServerAdds, OwnTheorems!ServerAdds,
           LockHeld, OwnTheorems!LockHeld, ServerGuards, OwnTheorems!ServerGuards, ServerRemoves,
           OwnTheorems!ServerRemoves, ServerRefuses, OwnTheorems!ServerRefuses, OtherRemoves,
           OwnTheorems!OtherRemoves, OtherAnswered, OwnTheorems!OtherAnswered, Quiet,
           OwnTheorems!Quiet, Fetch, OwnTheorems!Fetch, ReadMembers, OwnTheorems!ReadMembers,
           ListingArrives, OwnTheorems!ListingArrives, FetchFails, OwnTheorems!FetchFails, Added,
           OwnTheorems!Added, Removed, OwnTheorems!Removed, Listed, OwnTheorems!Listed, Mount,
           OwnTheorems!Mount, Reset, OwnTheorems!Reset, Unmount, OwnTheorems!Unmount, Usable,
           OwnTheorems!Usable, StartBatch, OwnTheorems!StartBatch, NoBatch, OwnTheorems!NoBatch,
           Select, OwnTheorems!Select, Pick, OwnTheorems!Pick, RemoveChip, OwnTheorems!RemoveChip,
           Add, OwnTheorems!Add, Ask, OwnTheorems!Ask, Confirm, OwnTheorems!Confirm,
           CancelConfirm, OwnTheorems!CancelConfirm, Answered, OwnTheorems!Answered, Kept,
           OwnTheorems!Kept, Settled, OwnTheorems!Settled, AddAnswered, OwnTheorems!AddAnswered,
           RemoveAnswered, OwnTheorems!RemoveAnswered, LeaveAnswered, OwnTheorems!LeaveAnswered,
           Next, OwnTheorems!Next

LEMMA SameSteady == Steady!Next => TabTheorems!Settings!Next
  BY ZenonT(120) DEF Steady!Managed, TabTheorems!Settings!Managed, Steady!server,
    TabTheorems!Settings!server,
         Steady!modal, TabTheorems!Settings!modal, Steady!vars, TabTheorems!Settings!vars,
         Steady!Shown, TabTheorems!Settings!Shown, Steady!Open, TabTheorems!Settings!Open,
         Steady!Edit, TabTheorems!Settings!Edit, Steady!Dirty, TabTheorems!Settings!Dirty,
         Steady!Reset, TabTheorems!Settings!Reset, Steady!Patch, TabTheorems!Settings!Patch,
         Steady!Expected, TabTheorems!Settings!Expected, Steady!Save, TabTheorems!Settings!Save,
         Steady!Dismiss, TabTheorems!Settings!Dismiss, Steady!CloseModal,
         TabTheorems!Settings!CloseModal, Steady!HandleClose, TabTheorems!Settings!HandleClose,
         Steady!ExitComplete, TabTheorems!Settings!ExitComplete, Steady!CanWrite,
         TabTheorems!Settings!CanWrite, Steady!ServerSaves, TabTheorems!Settings!ServerSaves,
         Steady!SaveAnswered, TabTheorems!Settings!SaveAnswered, Steady!SaveFails,
         TabTheorems!Settings!SaveFails, Steady!Archive, TabTheorems!Settings!Archive,
         Steady!ServerArchives, TabTheorems!Settings!ServerArchives, Steady!ArchiveAnswered,
         TabTheorems!Settings!ArchiveAnswered, Steady!ArchiveFails,
         TabTheorems!Settings!ArchiveFails, Steady!OtherSaves, TabTheorems!Settings!OtherSaves,
         Steady!ReadListing, TabTheorems!Settings!ReadListing, Steady!ListingArrives,
         TabTheorems!Settings!ListingArrives, Steady!Next, TabTheorems!Settings!Next

LEMMA SameRefreshed == Refreshed!Next => ShareTheorems!Settings!Next
  BY ZenonT(120) DEF Refreshed!Managed, ShareTheorems!Settings!Managed, Refreshed!server,
         ShareTheorems!Settings!server, Refreshed!modal, ShareTheorems!Settings!modal,
         Refreshed!vars, ShareTheorems!Settings!vars, Refreshed!Shown,
         ShareTheorems!Settings!Shown, Refreshed!Open, ShareTheorems!Settings!Open,
         Refreshed!Edit, ShareTheorems!Settings!Edit, Refreshed!Dirty,
         ShareTheorems!Settings!Dirty, Refreshed!Reset, ShareTheorems!Settings!Reset,
         Refreshed!Patch, ShareTheorems!Settings!Patch, Refreshed!Expected,
         ShareTheorems!Settings!Expected, Refreshed!Save, ShareTheorems!Settings!Save,
         Refreshed!Dismiss, ShareTheorems!Settings!Dismiss, Refreshed!CloseModal,
         ShareTheorems!Settings!CloseModal, Refreshed!HandleClose,
         ShareTheorems!Settings!HandleClose, Refreshed!ExitComplete,
         ShareTheorems!Settings!ExitComplete, Refreshed!CanWrite, ShareTheorems!Settings!CanWrite,
         Refreshed!ServerSaves, ShareTheorems!Settings!ServerSaves, Refreshed!SaveAnswered,
         ShareTheorems!Settings!SaveAnswered, Refreshed!SaveFails,
         ShareTheorems!Settings!SaveFails, Refreshed!Archive, ShareTheorems!Settings!Archive,
         Refreshed!ServerArchives, ShareTheorems!Settings!ServerArchives,
         Refreshed!ArchiveAnswered, ShareTheorems!Settings!ArchiveAnswered,
         Refreshed!ArchiveFails, ShareTheorems!Settings!ArchiveFails, Refreshed!OtherSaves,
         ShareTheorems!Settings!OtherSaves, Refreshed!ReadListing,
         ShareTheorems!Settings!ReadListing, Refreshed!ListingArrives,
         ShareTheorems!Settings!ListingArrives, Refreshed!Next, ShareTheorems!Settings!Next

LEMMA SameDragged == Dragged!Next => TabTheorems!Width!Next
  BY ZenonT(120) DEF Dragged!drag, TabTheorems!Width!drag, Dragged!vars, TabTheorems!Width!vars,
         Dragged!Widths, TabTheorems!Width!Widths, Dragged!Clamp, TabTheorems!Width!Clamp,
         Dragged!Near, TabTheorems!Width!Near, Dragged!Snap, TabTheorems!Width!Snap,
         Dragged!Handle, TabTheorems!Width!Handle, Dragged!WidthForSticky,
         TabTheorems!Width!WidthForSticky, Dragged!WidthFor, TabTheorems!Width!WidthFor,
         Dragged!Restored, TabTheorems!Width!Restored, Dragged!Refs, TabTheorems!Width!Refs,
         Dragged!Resize, TabTheorems!Width!Resize, Dragged!ResizeEnd, TabTheorems!Width!ResizeEnd,
         Dragged!PointerDown, TabTheorems!Width!PointerDown, Dragged!PointerMove,
         TabTheorems!Width!PointerMove, Dragged!PointerUp, TabTheorems!Width!PointerUp,
         Dragged!StrayUp, TabTheorems!Width!StrayUp, Dragged!PointerCancel,
         TabTheorems!Width!PointerCancel, Dragged!DoubleClick, TabTheorems!Width!DoubleClick,
         Dragged!Stepped, TabTheorems!Width!Stepped, Dragged!Key, TabTheorems!Width!Key,
         Dragged!Close, TabTheorems!Width!Close, Dragged!Reopen, TabTheorems!Width!Reopen,
         Dragged!Reload, TabTheorems!Width!Reload, Dragged!Next, TabTheorems!Width!Next

LEMMA SameSlipped == Slipped!Next => ShareTheorems!Width!Next
  BY ZenonT(120) DEF Slipped!drag, ShareTheorems!Width!drag, Slipped!vars, ShareTheorems!Width!vars,
         Slipped!Widths, ShareTheorems!Width!Widths, Slipped!Clamp, ShareTheorems!Width!Clamp,
         Slipped!Near, ShareTheorems!Width!Near, Slipped!Snap, ShareTheorems!Width!Snap,
         Slipped!Handle, ShareTheorems!Width!Handle, Slipped!WidthForSticky,
         ShareTheorems!Width!WidthForSticky, Slipped!WidthFor, ShareTheorems!Width!WidthFor,
         Slipped!Restored, ShareTheorems!Width!Restored, Slipped!Refs, ShareTheorems!Width!Refs,
         Slipped!Resize, ShareTheorems!Width!Resize, Slipped!ResizeEnd,
         ShareTheorems!Width!ResizeEnd, Slipped!PointerDown, ShareTheorems!Width!PointerDown,
         Slipped!PointerMove, ShareTheorems!Width!PointerMove, Slipped!PointerUp,
         ShareTheorems!Width!PointerUp, Slipped!StrayUp, ShareTheorems!Width!StrayUp,
         Slipped!PointerCancel, ShareTheorems!Width!PointerCancel, Slipped!DoubleClick,
         ShareTheorems!Width!DoubleClick, Slipped!Stepped, ShareTheorems!Width!Stepped,
         Slipped!Key, ShareTheorems!Width!Key, Slipped!Close, ShareTheorems!Width!Close,
         Slipped!Reopen, ShareTheorems!Width!Reopen, Slipped!Reload, ShareTheorems!Width!Reload,
         Slipped!Next, ShareTheorems!Width!Next

LEMMA SameFocus == Focus!Next => TabTheorems!Panel!Next
  <1>1. \A S : Focus!Cardinality(S) = TabTheorems!Panel!Cardinality(S)
    BY ZenonT(60)
    DEF Focus!Cardinality, TabTheorems!Panel!Cardinality
  <1>2. \A t : Focus!Ids(t) = TabTheorems!Panel!Ids(t)
    BY ZenonT(60)
    DEF Focus!Ids, TabTheorems!Panel!Ids
  <1>3. \A t, id : Focus!ShownParent(t, id) = TabTheorems!Panel!ShownParent(t, id)
    BY ZenonT(60)
    DEF Focus!ShownParent, TabTheorems!Panel!ShownParent
  <1>4. \A t, parent : Focus!Group(t, parent) = TabTheorems!Panel!Group(t, parent)
    BY ZenonT(60)
    DEF Focus!Group, TabTheorems!Panel!Group, Focus!Ids, TabTheorems!Panel!Ids,
        Focus!ShownParent, TabTheorems!Panel!ShownParent
  <1>5. \A t, shut : Focus!Visible(t, shut) = TabTheorems!Panel!Visible(t, shut)
    BY ZenonT(60)
    DEF Focus!Visible, TabTheorems!Panel!Visible, Focus!Ids, TabTheorems!Panel!Ids, Focus!Shows,
        TabTheorems!Panel!Shows, Focus!ShownParent, TabTheorems!Panel!ShownParent
  <1>6. \A t, shut :
         Focus!VisibleRows(t, shut) = TabTheorems!Panel!VisibleRows(t, shut)
    BY ZenonT(60)
    DEF Focus!VisibleRows, TabTheorems!Panel!VisibleRows, Focus!Visible,
        TabTheorems!Panel!Visible, Focus!Ids, TabTheorems!Panel!Ids, Focus!Shows,
        TabTheorems!Panel!Shows, Focus!ShownParent, TabTheorems!Panel!ShownParent,
        Focus!Cardinality, TabTheorems!Panel!Cardinality, Focus!Above, TabTheorems!Panel!Above,
        Focus!Before, TabTheorems!Panel!Before, Focus!Depth, TabTheorems!Panel!Depth
  <1>7. \A t, id : Focus!Depth(t, id) = TabTheorems!Panel!Depth(t, id)
    BY ZenonT(60)
    DEF Focus!Depth, TabTheorems!Panel!Depth, Focus!Ids, TabTheorems!Panel!Ids,
        Focus!ShownParent, TabTheorems!Panel!ShownParent
  <1>8. \A t, id, shut :
         Focus!Shows(t, id, shut) = TabTheorems!Panel!Shows(t, id, shut)
    BY ZenonT(60)
    DEF Focus!Shows, TabTheorems!Panel!Shows, Focus!Ids, TabTheorems!Panel!Ids,
        Focus!ShownParent, TabTheorems!Panel!ShownParent
  <1>9. \A t, id : Focus!Descendants(t, id) = TabTheorems!Panel!Descendants(t, id)
    BY ZenonT(60)
    DEF Focus!Descendants, TabTheorems!Panel!Descendants, Focus!Ids, TabTheorems!Panel!Ids,
        Focus!Group, TabTheorems!Panel!Group, Focus!ShownParent, TabTheorems!Panel!ShownParent
  <1>10. \A t, id, depth : Focus!FitsAt(t, id, depth) = TabTheorems!Panel!FitsAt(t, id, depth)
    BY ZenonT(60)
    DEF Focus!FitsAt, TabTheorems!Panel!FitsAt, Focus!Height, TabTheorems!Panel!Height,
        Focus!Ids, TabTheorems!Panel!Ids, Focus!Max, TabTheorems!Panel!Max, Focus!Group,
        TabTheorems!Panel!Group, Focus!ShownParent, TabTheorems!Panel!ShownParent
  <1>11. \A t, id : Focus!IndexOf(t, id) = TabTheorems!Panel!IndexOf(t, id)
    BY ZenonT(60)
    DEF Focus!IndexOf, TabTheorems!Panel!IndexOf, Focus!Cardinality,
        TabTheorems!Panel!Cardinality, Focus!Siblings, TabTheorems!Panel!Siblings, Focus!Group,
        TabTheorems!Panel!Group, Focus!Ids, TabTheorems!Panel!Ids, Focus!ShownParent,
        TabTheorems!Panel!ShownParent, Focus!Before, TabTheorems!Panel!Before
  <1>12. \A t, id, index :
         Focus!SiblingAt(t, id, index) = TabTheorems!Panel!SiblingAt(t, id, index)
    BY ZenonT(60)
    DEF Focus!SiblingAt, TabTheorems!Panel!SiblingAt, Focus!Siblings, TabTheorems!Panel!Siblings,
        Focus!Group, TabTheorems!Panel!Group, Focus!Ids, TabTheorems!Panel!Ids,
        Focus!ShownParent, TabTheorems!Panel!ShownParent, Focus!IndexOf,
        TabTheorems!Panel!IndexOf, Focus!Cardinality, TabTheorems!Panel!Cardinality,
        Focus!Before, TabTheorems!Panel!Before
  <1>13. \A t, parent : Focus!PublishedIn(t, parent) = TabTheorems!Panel!PublishedIn(t, parent)
    BY ZenonT(60)
    DEF Focus!PublishedIn, TabTheorems!Panel!PublishedIn, Focus!Group, TabTheorems!Panel!Group,
        Focus!Ids, TabTheorems!Panel!Ids, Focus!ShownParent, TabTheorems!Panel!ShownParent
  <1>14. \A t, parent : Focus!LastPageIn(t, parent) = TabTheorems!Panel!LastPageIn(t, parent)
    BY ZenonT(60)
    DEF Focus!LastPageIn, TabTheorems!Panel!LastPageIn, Focus!PublishedIn,
        TabTheorems!Panel!PublishedIn, Focus!Group, TabTheorems!Panel!Group, Focus!Ids,
        TabTheorems!Panel!Ids, Focus!ShownParent, TabTheorems!Panel!ShownParent, Focus!Before,
        TabTheorems!Panel!Before
  <1>15. \A seq, x : Focus!IndexIn(seq, x) = TabTheorems!Panel!IndexIn(seq, x)
    BY ZenonT(60)
    DEF Focus!IndexIn, TabTheorems!Panel!IndexIn
  <1>16. \A rows, id, index :
         Focus!RowIndex(rows, id, index) = TabTheorems!Panel!RowIndex(rows, id, index)
    BY ZenonT(60)
    DEF Focus!RowIndex, TabTheorems!Panel!RowIndex, Focus!Range, TabTheorems!Panel!Range,
        Focus!IndexIn, TabTheorems!Panel!IndexIn
  <1>17. \A rows, id, index :
         Focus!Heir(rows, id, index) = TabTheorems!Panel!Heir(rows, id, index)
    BY ZenonT(60)
    DEF Focus!Heir, TabTheorems!Panel!Heir, Focus!Range, TabTheorems!Panel!Range, Focus!Min,
        TabTheorems!Panel!Min
  <1>18. \A t, p, q : Focus!Before(t, p, q) = TabTheorems!Panel!Before(t, p, q)
    BY ZenonT(60)
    DEF Focus!Before, TabTheorems!Panel!Before
  <1>19. \A t, parent, source :
         Focus!Stored(t, parent, source) = TabTheorems!Panel!Stored(t, parent, source)
    BY ZenonT(60)
    DEF Focus!Stored, TabTheorems!Panel!Stored
  <1>20. \A t, target, source :
         Focus!StoredIndex(t, target, source) = TabTheorems!Panel!StoredIndex(t, target, source)
    BY ZenonT(60)
    DEF Focus!StoredIndex, TabTheorems!Panel!StoredIndex, Focus!Cardinality,
        TabTheorems!Panel!Cardinality, Focus!Stored, TabTheorems!Panel!Stored, Focus!Before,
        TabTheorems!Panel!Before
  <1>21. \A t, m : Focus!Inserted(t, m) = TabTheorems!Panel!Inserted(t, m)
    BY ZenonT(60)
    DEF Focus!Inserted, TabTheorems!Panel!Inserted, Focus!Stored, TabTheorems!Panel!Stored,
        Focus!Min, TabTheorems!Panel!Min, Focus!Cardinality, TabTheorems!Panel!Cardinality,
        Focus!Before, TabTheorems!Panel!Before
  <1>22. \A t, m : Focus!After(t, m) = TabTheorems!Panel!After(t, m)
    <2> TAKE t, m
    <2> DEFINE here ==
            [p \in DOMAIN t.pages |->
               CASE p \in DOMAIN Focus!Inserted(t, m) ->
                      [parent |-> m.parent, order |-> Focus!Inserted(t, m)[p]]
                 [] p \in Focus!Stored(t, t.pages[m.page].parent, m.page)
                          \ DOMAIN Focus!Inserted(t, m) ->
                      [t.pages[p] EXCEPT !.order =
                         Focus!Cardinality(
                           {q \in Focus!Stored(t, t.pages[m.page].parent, m.page) :
                              Focus!Before(t, q, p)}) + 1]
                 [] OTHER -> t.pages[p]]
               there ==
            [p \in DOMAIN t.pages |->
               CASE p \in DOMAIN TabTheorems!Panel!Inserted(t, m) ->
                      [parent |-> m.parent, order |-> TabTheorems!Panel!Inserted(t, m)[p]]
                 [] p \in TabTheorems!Panel!Stored(t, t.pages[m.page].parent, m.page)
                          \ DOMAIN TabTheorems!Panel!Inserted(t, m) ->
                      [t.pages[p] EXCEPT !.order =
                         TabTheorems!Panel!Cardinality(
                           {q \in TabTheorems!Panel!Stored(t, t.pages[m.page].parent, m.page) :
                              TabTheorems!Panel!Before(t, q, p)}) + 1]
                 [] OTHER -> t.pages[p]]
    <2>1. \A p \in DOMAIN t.pages : here[p] = there[p]
      BY <1>1, <1>19, <1>18, <1>21
    <2>2. here = there
      BY <2>1
    <2>3. /\ Focus!After(t, m) = [t EXCEPT !.pages = here]
          /\ TabTheorems!Panel!After(t, m) = [t EXCEPT !.pages = there]
      BY ZenonT(60) DEF Focus!After, TabTheorems!Panel!After
    <2> HIDE DEF here, there
    <2> QED
      BY <2>2, <2>3
  <1>23. \A t, id, index :
         Focus!ReorderUp(t, id, index) = TabTheorems!Panel!ReorderUp(t, id, index)
    BY <1>3, SMTT(60)
    DEF Focus!ReorderUp, TabTheorems!Panel!ReorderUp, Focus!Move, TabTheorems!Panel!Move,
        Focus!Blocked, TabTheorems!Panel!Blocked
  <1>24. \A t, id, index :
         Focus!ReorderDown(t, id, index) = TabTheorems!Panel!ReorderDown(t, id, index)
    BY <1>3, <1>1, <1>13, SMTT(60)
    DEF Focus!ReorderDown, TabTheorems!Panel!ReorderDown, Focus!LastPublished,
        TabTheorems!Panel!LastPublished, Focus!Move, TabTheorems!Panel!Move, Focus!Blocked,
        TabTheorems!Panel!Blocked
  <1>25. \A t, id, index :
         Focus!ReorderIndent(t, id, index) = TabTheorems!Panel!ReorderIndent(t, id, index)
    BY <1>7, <1>10, <1>12, <1>1, <1>13, SMTT(60)
    DEF Focus!ReorderIndent, TabTheorems!Panel!ReorderIndent, Focus!Move, TabTheorems!Panel!Move,
        Focus!Blocked, TabTheorems!Panel!Blocked
  <1>26. \A t, id : Focus!ReorderOutdent(t, id) = TabTheorems!Panel!ReorderOutdent(t, id)
    BY <1>11, <1>3, SMTT(60)
    DEF Focus!ReorderOutdent, TabTheorems!Panel!ReorderOutdent, Focus!Move,
        TabTheorems!Panel!Move, Focus!Blocked, TabTheorems!Panel!Blocked
  <1>27. \A t, id : \A intent \in Focus!Intents :
         Focus!resolveReorder(t, id, intent) = TabTheorems!Panel!resolveReorder(t, id, intent)
    <2> TAKE t, id
    <2>1. Focus!resolveReorder(t, id, "up") = TabTheorems!Panel!resolveReorder(t, id, "up")
      BY <1>11, <1>23, <1>24, <1>25, <1>26, SMTT(30)
      DEF Focus!resolveReorder, TabTheorems!Panel!resolveReorder, Focus!Blocked,
          TabTheorems!Panel!Blocked
    <2>2. Focus!resolveReorder(t, id, "down") = TabTheorems!Panel!resolveReorder(t, id, "down")
      BY <1>11, <1>23, <1>24, <1>25, <1>26, SMTT(30)
      DEF Focus!resolveReorder, TabTheorems!Panel!resolveReorder, Focus!Blocked,
          TabTheorems!Panel!Blocked
    <2>3. Focus!resolveReorder(t, id, "indent")
            = TabTheorems!Panel!resolveReorder(t, id, "indent")
      BY <1>11, <1>23, <1>24, <1>25, <1>26, SMTT(30)
      DEF Focus!resolveReorder, TabTheorems!Panel!resolveReorder, Focus!Blocked,
          TabTheorems!Panel!Blocked
    <2>4. Focus!resolveReorder(t, id, "outdent")
            = TabTheorems!Panel!resolveReorder(t, id, "outdent")
      BY <1>11, <1>23, <1>24, <1>25, <1>26, SMTT(30)
      DEF Focus!resolveReorder, TabTheorems!Panel!resolveReorder, Focus!Blocked,
          TabTheorems!Panel!Blocked
    <2> QED
      BY <2>1, <2>2, <2>3, <2>4 DEF Focus!Intents
  <1>28. \A t, source, target, drop, shut :
         Focus!MayDrop(t, source, target, drop, shut)
           = TabTheorems!Panel!MayDrop(t, source, target, drop, shut)
    BY <1>3, <1>4, <1>7, <1>8, <1>9, <1>10, <1>13, <1>14, SMTT(60)
    DEF Focus!MayDrop, TabTheorems!Panel!MayDrop, Focus!RowTakes, TabTheorems!Panel!RowTakes,
        Focus!StripTakes, TabTheorems!Panel!StripTakes, Focus!StripIn, TabTheorems!Panel!StripIn,
        Focus!Expanded, TabTheorems!Panel!Expanded
  <1>29. \A t, source, target, drop :
         Focus!resolveMove(t, source, target, drop)
           = TabTheorems!Panel!resolveMove(t, source, target, drop)
    BY <1>1, <1>19, <1>20, SMTT(60)
    DEF Focus!resolveMove, TabTheorems!Panel!resolveMove, Focus!EdgeIndex,
        TabTheorems!Panel!EdgeIndex, Focus!Move, TabTheorems!Panel!Move
  <1>30. Focus!Rerender => TabTheorems!Panel!Rerender
    BY <1>5, <1>6, <1>3, <1>15, <1>16, <1>17, SMTT(60)
    DEF Focus!Rerender, TabTheorems!Panel!Rerender, Focus!Effect, TabTheorems!Panel!Effect,
        Focus!Remounted, TabTheorems!Panel!Remounted, Focus!Rows, TabTheorems!Panel!Rows
  <1>31. \A id : Focus!Focus(id) => TabTheorems!Panel!Focus(id)
    BY <1>6, <1>15, SMTT(60)
    DEF Focus!Focus, TabTheorems!Panel!Focus, Focus!Rows, TabTheorems!Panel!Rows
  <1>32. \A ids, close : Focus!Collapse(ids, close) => TabTheorems!Panel!Collapse(ids, close)
    BY <1>30, SMTT(60)
    DEF Focus!Collapse, TabTheorems!Panel!Collapse
  <1>33. \A t : Focus!Changed(t) => TabTheorems!Panel!Changed(t)
    BY <1>30, SMTT(60)
    DEF Focus!Changed, TabTheorems!Panel!Changed
  <1>34. \A m : Focus!Moves(m) => TabTheorems!Panel!Moves(m)
    BY <1>30, <1>22, SMTT(60)
    DEF Focus!Moves, TabTheorems!Panel!Moves, Focus!IsMove, TabTheorems!Panel!IsMove
  <1>35. Focus!ClickRow => TabTheorems!Panel!ClickRow
    BY <1>31, <1>5, SMTT(60)
    DEF Focus!ClickRow, TabTheorems!Panel!ClickRow, Focus!Shown, TabTheorems!Panel!Shown
  <1>36. Focus!TabIn => TabTheorems!Panel!TabIn
    BY <1>31, <1>5, SMTT(60)
    DEF Focus!TabIn, TabTheorems!Panel!TabIn, Focus!TabStops, TabTheorems!Panel!TabStops,
        Focus!Shown, TabTheorems!Panel!Shown
  <1>37. Focus!FocusOutside => TabTheorems!Panel!FocusOutside
    BY SMTT(60)
    DEF Focus!FocusOutside, TabTheorems!Panel!FocusOutside
  <1>38. Focus!ClickAway => TabTheorems!Panel!ClickAway
    BY SMTT(60)
    DEF Focus!ClickAway, TabTheorems!Panel!ClickAway
  <1>39. Focus!KeyStep => TabTheorems!Panel!KeyStep
    BY <1>31, <1>5, <1>6, <1>15, <1>4, <1>3, SMTT(60)
    DEF Focus!KeyStep, TabTheorems!Panel!KeyStep, Focus!Key, TabTheorems!Panel!Key,
        Focus!StepTargets, TabTheorems!Panel!StepTargets, Focus!HasChildren,
        TabTheorems!Panel!HasChildren, Focus!Shown, TabTheorems!Panel!Shown, Focus!Rows,
        TabTheorems!Panel!Rows
  <1>40. Focus!KeyToggle => TabTheorems!Panel!KeyToggle
    BY <1>32, <1>5, <1>4, SMTT(60)
    DEF Focus!KeyToggle, TabTheorems!Panel!KeyToggle, Focus!Key, TabTheorems!Panel!Key,
        Focus!HasChildren, TabTheorems!Panel!HasChildren, Focus!Shown, TabTheorems!Panel!Shown
  <1>41. Focus!Chevron => TabTheorems!Panel!Chevron
    BY <1>32, <1>5, <1>4, <1>9
    DEF Focus!Chevron, TabTheorems!Panel!Chevron, Focus!HasChildren,
        TabTheorems!Panel!HasChildren, Focus!Shown, TabTheorems!Panel!Shown
  <1>42. Focus!KeyMove => TabTheorems!Panel!KeyMove
    BY <1>34, <1>5, <1>27, SMTT(60)
    DEF Focus!KeyMove, TabTheorems!Panel!KeyMove, Focus!Shown, TabTheorems!Panel!Shown,
        Focus!Intents, TabTheorems!Panel!Intents
  <1>43. Focus!DropPage => TabTheorems!Panel!DropPage
    BY <1>34, <1>5, <1>28, <1>29, SMTT(60)
    DEF Focus!DropPage, TabTheorems!Panel!DropPage, Focus!Shown, TabTheorems!Panel!Shown,
        Focus!Drops, TabTheorems!Panel!Drops
  <1>44. Focus!PageLeaves => TabTheorems!Panel!PageLeaves
    BY <1>33, <1>9, SMTT(60)
    DEF Focus!PageLeaves, TabTheorems!Panel!PageLeaves, Focus!Without, TabTheorems!Panel!Without
  <1>45. Focus!DraftLeaves => TabTheorems!Panel!DraftLeaves
    BY <1>33, SMTT(60)
    DEF Focus!DraftLeaves, TabTheorems!Panel!DraftLeaves, Focus!Without,
        TabTheorems!Panel!Without
  <1>46. Focus!DraftPublished => TabTheorems!Panel!DraftPublished
    BY <1>33, <1>3, <1>1
    DEF Focus!DraftPublished, TabTheorems!Panel!DraftPublished, Focus!Without,
        TabTheorems!Panel!Without
  <1>47. Focus!DraftArrives => TabTheorems!Panel!DraftArrives
    BY <1>33, <1>2, <1>7, SMTT(60)
    DEF Focus!DraftArrives, TabTheorems!Panel!DraftArrives
  <1>48. Focus!PageMoved => TabTheorems!Panel!PageMoved
    BY <1>33, <1>9, <1>10, <1>7, <1>22, SMTT(60)
    DEF Focus!PageMoved, TabTheorems!Panel!PageMoved, Focus!Move, TabTheorems!Panel!Move
  <1> QED
    BY <1>35, <1>36, <1>37, <1>38, <1>39, <1>40, <1>41, <1>42, <1>43, <1>44, <1>45, <1>46, <1>47, <1>48
    DEF Focus!Next, TabTheorems!Panel!Next

LEMMA PartStays ==
    ASSUME [PanelsNext]_panelVars
    PROVE  /\ part' = part
           /\ part = "share" => (Share!Next /\ MembersStep) \/ UNCHANGED panelVars
           /\ part = "tab" => (Tab!Next /\ MembersStep) \/ UNCHANGED panelVars
           /\ part = "members" => (Next /\ MembersStep) \/ UNCHANGED panelVars
           /\ part = "steady" => (Steady!Next /\ SettingsStep) \/ UNCHANGED panelVars
           /\ part = "refreshed" => (Refreshed!Next /\ SettingsStep) \/ UNCHANGED panelVars
           /\ part = "dragged" => (Dragged!Next /\ WidthStep) \/ UNCHANGED panelVars
           /\ part = "slipped" => (Slipped!Next /\ WidthStep) \/ UNCHANGED panelVars
           /\ part = "focus" => (Focus!Next /\ TreeStep) \/ UNCHANGED panelVars
           /\ part \notin {"share", "tab", "members"} => UNCHANGED vars
  BY DEF PanelsNext, MembersStep, SettingsStep, TreeStep, SidebarStep, WidthStep, panelVars

LEMMA TabOfPanels == PanelsSpec /\ part = "tab" => TabTheorems!Spec
  <1>1. Tab!Init => TabTheorems!Init
    BY DEF Tab!Init, TabTheorems!Init
  <1>2. PanelsInit /\ part = "tab" => TabTheorems!Init
    BY <1>1 DEF PanelsInit
  <1>3. part = "tab" /\ [PanelsNext]_panelVars => (part = "tab")'
          /\ [TabTheorems!Next]_(TabTheorems!vars)
    BY PartStays, SameTab
    DEF panelVars, vars, surface, TabTheorems!vars, TabTheorems!surface
  <1> QED
    BY <1>2, <1>3, PTL DEF PanelsSpec, TabTheorems!Spec

LEMMA ShareOfPanels == PanelsSpec /\ part = "share" => ShareTheorems!Spec
  <1>1. Share!Init => ShareTheorems!Init
    BY DEF Share!Init, ShareTheorems!Init
  <1>2. PanelsInit /\ part = "share" => ShareTheorems!Init
    BY <1>1 DEF PanelsInit
  <1>3. part = "share" /\ [PanelsNext]_panelVars => (part = "share")'
          /\ [ShareTheorems!Next]_(ShareTheorems!vars)
    BY PartStays, SameShare
    DEF panelVars, vars, surface, ShareTheorems!vars, ShareTheorems!surface
  <1> QED
    BY <1>2, <1>3, PTL DEF PanelsSpec, ShareTheorems!Spec

LEMMA OwnOfPanels == PanelsSpec /\ part = "members" => OwnTheorems!Spec
  <1>1. Init => OwnTheorems!Init
    BY DEF Init, OwnTheorems!Init
  <1>2. PanelsInit /\ part = "members" => OwnTheorems!Init
    BY <1>1 DEF PanelsInit
  <1>3. part = "members" /\ [PanelsNext]_panelVars => (part = "members")'
          /\ [OwnTheorems!Next]_(OwnTheorems!vars)
    BY PartStays, SameOwn
    DEF panelVars, vars, surface, OwnTheorems!vars, OwnTheorems!surface
  <1> QED
    BY <1>2, <1>3, PTL DEF PanelsSpec, OwnTheorems!Spec

LEMMA SteadyOfPanels == PanelsSpec /\ part = "steady" => TabTheorems!Settings!Spec
  <1>1. Steady!Init => TabTheorems!Settings!Init
    BY DEF Steady!Init, TabTheorems!Settings!Init, Steady!Managed, TabTheorems!Settings!Managed,
           Steady!Rows, TabTheorems!Settings!Rows
  <1>2. PanelsInit /\ part = "steady" => TabTheorems!Settings!Init
    BY <1>1 DEF PanelsInit
  <1>3. part = "steady" /\ [PanelsNext]_panelVars => (part = "steady")'
          /\ [TabTheorems!Settings!Next]_(TabTheorems!Settings!vars)
    BY PartStays, SameSteady
    DEF panelVars, settingsVars, TabTheorems!Settings!vars, TabTheorems!Settings!server,
      TabTheorems!Settings!modal
  <1> QED
    BY <1>2, <1>3, PTL DEF PanelsSpec, TabTheorems!Settings!Spec

LEMMA RefreshedOfPanels == PanelsSpec /\ part = "refreshed" => ShareTheorems!Settings!Spec
  <1>1. Refreshed!Init => ShareTheorems!Settings!Init
    BY DEF Refreshed!Init, ShareTheorems!Settings!Init, Refreshed!Managed,
           ShareTheorems!Settings!Managed, Refreshed!Rows, ShareTheorems!Settings!Rows
  <1>2. PanelsInit /\ part = "refreshed" => ShareTheorems!Settings!Init
    BY <1>1 DEF PanelsInit
  <1>3. part = "refreshed" /\ [PanelsNext]_panelVars => (part = "refreshed")'
          /\ [ShareTheorems!Settings!Next]_(ShareTheorems!Settings!vars)
    BY PartStays, SameRefreshed
    DEF panelVars, settingsVars, ShareTheorems!Settings!vars, ShareTheorems!Settings!server,
      ShareTheorems!Settings!modal
  <1> QED
    BY <1>2, <1>3, PTL DEF PanelsSpec, ShareTheorems!Settings!Spec

LEMMA DraggedOfPanels == PanelsSpec /\ part = "dragged" => TabTheorems!Width!Spec
  <1>1. Dragged!Init => TabTheorems!Width!Init
    BY DEF Dragged!Init, TabTheorems!Width!Init, Dragged!Restored, TabTheorems!Width!Restored,
           Dragged!Clamp, TabTheorems!Width!Clamp, Dragged!Widths, TabTheorems!Width!Widths
  <1>2. PanelsInit /\ part = "dragged" => TabTheorems!Width!Init
    BY <1>1 DEF PanelsInit
  <1>3. part = "dragged" /\ [PanelsNext]_panelVars => (part = "dragged")'
          /\ [TabTheorems!Width!Next]_(TabTheorems!Width!vars)
    BY PartStays, SameDragged
    DEF panelVars, widthVars, TabTheorems!Width!vars, TabTheorems!Width!drag
  <1> QED
    BY <1>2, <1>3, PTL DEF PanelsSpec, TabTheorems!Width!Spec

LEMMA SlippedOfPanels == PanelsSpec /\ part = "slipped" => ShareTheorems!Width!Spec
  <1>1. Slipped!Init => ShareTheorems!Width!Init
    BY DEF Slipped!Init, ShareTheorems!Width!Init, Slipped!Restored, ShareTheorems!Width!Restored,
           Slipped!Clamp, ShareTheorems!Width!Clamp, Slipped!Widths, ShareTheorems!Width!Widths
  <1>2. PanelsInit /\ part = "slipped" => ShareTheorems!Width!Init
    BY <1>1 DEF PanelsInit
  <1>3. part = "slipped" /\ [PanelsNext]_panelVars => (part = "slipped")'
          /\ [ShareTheorems!Width!Next]_(ShareTheorems!Width!vars)
    BY PartStays, SameSlipped
    DEF panelVars, widthVars, ShareTheorems!Width!vars, ShareTheorems!Width!drag
  <1> QED
    BY <1>2, <1>3, PTL DEF PanelsSpec, ShareTheorems!Width!Spec

LEMMA FocusOfPanels == PanelsSpec /\ part = "focus" => TabTheorems!Panel!Spec
  <1>1. Focus!Init => TabTheorems!Panel!Init
    <2>1. \A place, below : Focus!TreeOf(place, below) = TabTheorems!Panel!TreeOf(place, below)
      BY ZenonT(30) DEF Focus!TreeOf, TabTheorems!Panel!TreeOf, Focus!Cardinality,
                        TabTheorems!Panel!Cardinality
    <2>2. \A S : Focus!TreesOf(S) = TabTheorems!Panel!TreesOf(S)
      BY <2>1 DEF Focus!TreesOf, TabTheorems!Panel!TreesOf
    <2>3. \A t : Focus!WithinCap(t) = TabTheorems!Panel!WithinCap(t)
      BY ZenonT(30)
      DEF Focus!WithinCap, TabTheorems!Panel!WithinCap, Focus!Ids, TabTheorems!Panel!Ids,
          Focus!Depth, TabTheorems!Panel!Depth, Focus!ShownParent, TabTheorems!Panel!ShownParent
    <2>4. UNION {Focus!TreesOf(S) : S \in SUBSET (1..3)}
            = UNION {TabTheorems!Panel!TreesOf(S) : S \in SUBSET (1..3)}
      BY <2>2
    <2>5. Focus!Trees = TabTheorems!Panel!Trees
      BY <2>3, <2>4 DEF Focus!Trees, TabTheorems!Panel!Trees
    <2> QED
      BY <2>5 DEF Focus!Init, TabTheorems!Panel!Init
  <1>2. PanelsInit /\ part = "focus" => TabTheorems!Panel!Init
    BY <1>1 DEF PanelsInit
  <1>3. part = "focus" /\ [PanelsNext]_panelVars => (part = "focus")'
          /\ [TabTheorems!Panel!Next]_(TabTheorems!Panel!vars)
    BY PartStays, SameFocus
    DEF panelVars, treeVars, TabTheorems!Panel!vars, TabTheorems!Panel!focus
  <1> QED
    BY <1>2, <1>3, PTL DEF PanelsSpec, TabTheorems!Panel!Spec

-----------------------------------------------------------------------------
(* Members *)

LEMMA PartAssumptions ==
    /\ TabTheorems!MembersAssumption /\ ShareTheorems!MembersAssumption
    /\ OwnTheorems!MembersAssumption
    /\ TabTheorems!Settings!SettingsAssumption /\ ShareTheorems!Settings!SettingsAssumption
    /\ TabTheorems!Width!WidthAssumption /\ ShareTheorems!Width!WidthAssumption
  <1>1. TabTheorems!MembersAssumption
    BY PanelsAssumption
    DEF Tab!MembersAssumption, TabTheorems!MembersAssumption, Tab!IsFiniteSet,
        TabTheorems!IsFiniteSet
  <1>2. ShareTheorems!MembersAssumption
    BY PanelsAssumption
    DEF Share!MembersAssumption, ShareTheorems!MembersAssumption, Share!IsFiniteSet,
        ShareTheorems!IsFiniteSet
  <1>3. OwnTheorems!MembersAssumption
    BY PanelsAssumption
    DEF MembersAssumption, OwnTheorems!MembersAssumption, IsFiniteSet, OwnTheorems!IsFiniteSet
  <1>4. TabTheorems!Settings!SettingsAssumption
    BY PanelsAssumption
    DEF Steady!SettingsAssumption, TabTheorems!Settings!SettingsAssumption, Steady!Forms,
        TabTheorems!Settings!Forms, Steady!Rows, TabTheorems!Settings!Rows, Steady!Saves,
        TabTheorems!Settings!Saves, Steady!Patches, TabTheorems!Settings!Patches,
        Steady!Managed, TabTheorems!Settings!Managed
  <1>5. ShareTheorems!Settings!SettingsAssumption
    BY PanelsAssumption
    DEF Refreshed!SettingsAssumption, ShareTheorems!Settings!SettingsAssumption,
        Refreshed!Forms, ShareTheorems!Settings!Forms, Refreshed!Rows,
        ShareTheorems!Settings!Rows, Refreshed!Saves, ShareTheorems!Settings!Saves,
        Refreshed!Patches, ShareTheorems!Settings!Patches, Refreshed!Managed,
        ShareTheorems!Settings!Managed
  <1>6. TabTheorems!Width!WidthAssumption
    BY PanelsAssumption DEF Dragged!WidthAssumption, TabTheorems!Width!WidthAssumption
  <1>7. ShareTheorems!Width!WidthAssumption
    BY PanelsAssumption DEF Slipped!WidthAssumption, ShareTheorems!Width!WidthAssumption
  <1> QED
    BY <1>1, <1>2, <1>3, <1>4, <1>5, <1>6, <1>7

(* Someone is still a member, in the tab, the share modal and where others     *)
(* remove members too; the other panels remove nobody (server/app/space.go).   *)
THEOREM SomeoneStays == PanelsSpec => []SomeoneRemains
  <1>1. /\ PanelsSpec /\ part = "tab" => []SomeoneRemains
        /\ PanelsSpec /\ part = "share" => []SomeoneRemains
        /\ PanelsSpec /\ part = "members" => []SomeoneRemains
    <2>1. /\ TabTheorems!Spec => []TabTheorems!SomeoneRemains
          /\ ShareTheorems!Spec => []ShareTheorems!SomeoneRemains
          /\ OwnTheorems!Spec => []OwnTheorems!SomeoneRemains
      BY PartAssumptions, TabTheorems!TheLastMemberStays, ShareTheorems!TheLastMemberStays,
         OwnTheorems!TheLastMemberStays
    <2>2. /\ TabTheorems!SomeoneRemains => SomeoneRemains
          /\ ShareTheorems!SomeoneRemains => SomeoneRemains
          /\ OwnTheorems!SomeoneRemains => SomeoneRemains
      BY DEF TabTheorems!SomeoneRemains, ShareTheorems!SomeoneRemains,
             OwnTheorems!SomeoneRemains, SomeoneRemains
    <2> QED
      BY <2>1, <2>2, TabOfPanels, ShareOfPanels, OwnOfPanels, PTL
  <1>2. PanelsSpec /\ ~(part \in {"share", "tab", "members"}) => []SomeoneRemains
    <2>1. PanelsInit /\ ~(part \in {"share", "tab", "members"}) => SomeoneRemains
      BY DEF PanelsInit, MembersRest, SomeoneRemains
    <2>2. ~(part \in {"share", "tab", "members"}) /\ SomeoneRemains /\ [PanelsNext]_panelVars
            => (~(part \in {"share", "tab", "members"}) /\ SomeoneRemains)'
      BY PartStays DEF SomeoneRemains, vars
    <2> QED
      BY <2>1, <2>2, PTL DEF PanelsSpec
  <1>3. part \in {"share", "tab", "members"} => part = "share" \/ part = "tab" \/ part = "members"
    OBVIOUS
  <1> QED
    BY <1>1, <1>2, <1>3

(* The tab is off and its roster right where the surface promises them, and    *)
(* nobody picked in the share modal is lost (hooks/space_members.ts).          *)
THEOREM BatchesAreSettled == PanelsSpec => BatchesSettle
  <1>0. PanelsSpec => [][PanelsNext]_panelVars
    BY DEF PanelsSpec
  <1>1. PanelsSpec /\ part = "tab" => [](Tab!BusyWhileInFlight /\ Tab!RosterIsRight)
    <2>1. TabTheorems!Spec => [](TabTheorems!SurfaceInv /\ TabTheorems!BusyWhileInFlight)
      BY PartAssumptions, TabTheorems!BusyCoversEveryRequest
    <2>2. TabTheorems!Spec => []TabTheorems!RosterIsRight
      BY PartAssumptions, TabTheorems!TheRosterIsRight
    <2>3. TabTheorems!BusyWhileInFlight /\ TabTheorems!RosterIsRight
            => Tab!BusyWhileInFlight /\ Tab!RosterIsRight
      BY DEF TabTheorems!BusyWhileInFlight, Tab!BusyWhileInFlight, TabTheorems!Mine, Tab!Mine,
             TabTheorems!RosterIsRight, Tab!RosterIsRight
    <2> QED
      BY <2>1, <2>2, <2>3, TabOfPanels, PTL
  <1>2. PanelsSpec /\ part = "share" => [][Share!PicksKept]_vars
    <2>1. ShareTheorems!Spec => [][ShareTheorems!PicksKept]_(ShareTheorems!vars)
      BY PartAssumptions, ShareTheorems!NobodyPickedIsLost
    <2>2. [ShareTheorems!PicksKept]_(ShareTheorems!vars) => [Share!PicksKept]_vars
      BY DEF ShareTheorems!PicksKept, Share!PicksKept, ShareTheorems!vars,
             ShareTheorems!surface, vars, surface
    <2> QED
      BY <2>1, <2>2, ShareOfPanels, PTL
  <1>3. [Share!PicksKept]_vars => [part = "share" => Share!PicksKept]_panelVars
    BY DEF Share!PicksKept, vars, surface
  <1>4. /\ ~(part = "tab") /\ [PanelsNext]_panelVars => ~(part = "tab")'
        /\ ~(part = "share") /\ [PanelsNext]_panelVars => ~(part = "share")'
        /\ ~(part = "share") => [part = "share" => Share!PicksKept]_panelVars
    BY PartStays
  <1>5. PanelsSpec => [](part = "tab" => Tab!BusyWhileInFlight /\ Tab!RosterIsRight)
    <2>1. PanelsSpec /\ ~(part = "tab") => []~(part = "tab")
      BY <1>0, <1>4, PTL
    <2> QED
      BY <1>1, <2>1, PTL
  <1>6. PanelsSpec => [][part = "share" => Share!PicksKept]_panelVars
    <2>1. PanelsSpec /\ ~(part = "share") => [][part = "share" => Share!PicksKept]_panelVars
      BY <1>0, <1>4, PTL
    <2>2. PanelsSpec /\ part = "share" => [][part = "share" => Share!PicksKept]_panelVars
      BY <1>2, <1>3, PTL
    <2> QED
      BY <2>1, <2>2
  <1> QED
    BY <1>5, <1>6 DEF BatchesSettle

-----------------------------------------------------------------------------
(* Settings *)

(* Saves overwrite only what was shown, leave alone what the modal does not    *)
(* manage, and forms are dropped clean, in the two parts of the settings       *)
(* (space_settings_modal.tsx, store/actions.ts).                               *)
THEOREM SettingsAreSafe == PanelsSpec => SettingsSurvive
  <1>0. PanelsSpec => [][PanelsNext]_panelVars
    BY DEF PanelsSpec
  <1> DEFINE SteadySafe == Steady!OverwritesOnlyShown /\ Steady!LeavesTheRest
  <1>1. PanelsSpec /\ part = "steady" => [][SteadySafe]_settingsVars
    <2>1. TabTheorems!Settings!Spec
            => [][TabTheorems!Settings!OverwritesOnlyShown]_(TabTheorems!Settings!vars)
      BY PartAssumptions, TabTheorems!SavesOverwriteOnlyWhatWasShown
    <2>2. TabTheorems!Settings!Spec
            => [][TabTheorems!Settings!LeavesTheRest]_(TabTheorems!Settings!vars)
      BY PartAssumptions, TabTheorems!SavesLeaveTheRest
    <2>3. Steady!ServerSaves => TabTheorems!Settings!ServerSaves
      BY DEF Steady!ServerSaves, TabTheorems!Settings!ServerSaves, Steady!CanWrite,
             TabTheorems!Settings!CanWrite, Steady!modal, TabTheorems!Settings!modal
    <2>4. [TabTheorems!Settings!OverwritesOnlyShown]_(TabTheorems!Settings!vars)
            => [Steady!OverwritesOnlyShown]_settingsVars
      BY <2>3
      DEF Steady!OverwritesOnlyShown, TabTheorems!Settings!OverwritesOnlyShown, Steady!Managed,
          TabTheorems!Settings!Managed, settingsVars, TabTheorems!Settings!vars,
          TabTheorems!Settings!server, TabTheorems!Settings!modal
    <2>5. [TabTheorems!Settings!LeavesTheRest]_(TabTheorems!Settings!vars)
            => [Steady!LeavesTheRest]_settingsVars
      BY <2>3
      DEF Steady!LeavesTheRest, TabTheorems!Settings!LeavesTheRest, settingsVars,
          TabTheorems!Settings!vars, TabTheorems!Settings!server, TabTheorems!Settings!modal
    <2>6. [Steady!OverwritesOnlyShown]_settingsVars /\ [Steady!LeavesTheRest]_settingsVars
            => [SteadySafe]_settingsVars
      OBVIOUS
    <2> QED
      BY <2>1, <2>2, <2>4, <2>5, <2>6, SteadyOfPanels, PTL
  <1>2. PanelsSpec /\ part = "refreshed" => [][Refreshed!DropsClean]_settingsVars
    <2>1. ShareTheorems!Settings!Spec
            => [][ShareTheorems!Settings!DropsClean]_(ShareTheorems!Settings!vars)
      BY PartAssumptions, ShareTheorems!FormsAreDroppedClean
    <2>2. [ShareTheorems!Settings!DropsClean]_(ShareTheorems!Settings!vars)
            => [Refreshed!DropsClean]_settingsVars
      BY DEF Refreshed!DropsClean, ShareTheorems!Settings!DropsClean, Refreshed!Dirty,
             ShareTheorems!Settings!Dirty, Refreshed!Shown, ShareTheorems!Settings!Shown,
             Refreshed!Managed, ShareTheorems!Settings!Managed, settingsVars,
             ShareTheorems!Settings!vars, ShareTheorems!Settings!server,
             ShareTheorems!Settings!modal
    <2> QED
      BY <2>1, <2>2, RefreshedOfPanels, PTL
  <1>3. part = "steady" /\ [PanelsNext]_panelVars /\ [SteadySafe]_settingsVars
          => [part = "steady" => SteadySafe]_panelVars
    BY PartStays DEF SettingsStep, panelVars
  <1>4. part = "refreshed" /\ [PanelsNext]_panelVars /\ [Refreshed!DropsClean]_settingsVars
          => [part = "refreshed" => Refreshed!DropsClean]_panelVars
    BY PartStays DEF SettingsStep, panelVars
  <1>5. /\ ~(part = "steady") /\ [PanelsNext]_panelVars => ~(part = "steady")'
        /\ ~(part = "refreshed") /\ [PanelsNext]_panelVars => ~(part = "refreshed")'
        /\ part = "steady" /\ [PanelsNext]_panelVars => (part = "steady")'
        /\ part = "refreshed" /\ [PanelsNext]_panelVars => (part = "refreshed")'
        /\ ~(part = "steady") => [part = "steady" => SteadySafe]_panelVars
        /\ ~(part = "refreshed") => [part = "refreshed" => Refreshed!DropsClean]_panelVars
    BY PartStays
  <1> HIDE DEF SteadySafe
  <1>6. PanelsSpec => [][part = "steady" => SteadySafe]_panelVars
    <2>1. PanelsSpec /\ part = "steady" => [][part = "steady" => SteadySafe]_panelVars
      BY <1>0, <1>1, <1>3, <1>5, PTL
    <2>2. PanelsSpec /\ ~(part = "steady") => [][part = "steady" => SteadySafe]_panelVars
      BY <1>0, <1>5, PTL
    <2> QED
      BY <2>1, <2>2
  <1>7. PanelsSpec => [][part = "refreshed" => Refreshed!DropsClean]_panelVars
    <2>1. PanelsSpec /\ part = "refreshed" => [][part = "refreshed"
            => Refreshed!DropsClean]_panelVars
      BY <1>0, <1>2, <1>4, <1>5, PTL
    <2>2. PanelsSpec /\ ~(part = "refreshed")
            => [][part = "refreshed" => Refreshed!DropsClean]_panelVars
      BY <1>0, <1>5, PTL
    <2> QED
      BY <2>1, <2>2
  <1> QED
    BY <1>6, <1>7 DEF SettingsSurvive, SteadySafe

-----------------------------------------------------------------------------
(* Widths *)

(* The width on screen between gestures is the one a reload restores, and a    *)
(* drag brought back brings the width back (hooks/sidebar_width.ts).           *)
THEOREM WidthsAreKept == PanelsSpec => WidthIsKept
  <1>0. PanelsSpec => [][PanelsNext]_panelVars
    BY DEF PanelsSpec
  <1>1. PanelsSpec /\ part = "dragged" => []Dragged!AtRestIsSaved
    <2>1. TabTheorems!Width!Spec => []TabTheorems!Width!AtRestIsSaved
      BY PartAssumptions, TabTheorems!WidthIsSavedAtRest
    <2>2. TabTheorems!Width!AtRestIsSaved => Dragged!AtRestIsSaved
      BY DEF TabTheorems!Width!AtRestIsSaved, Dragged!AtRestIsSaved, Dragged!Restored,
             TabTheorems!Width!Restored, Dragged!Clamp, TabTheorems!Width!Clamp
    <2> QED
      BY <2>1, <2>2, DraggedOfPanels, PTL
  <1>2. PanelsSpec /\ part = "slipped" => [][Slipped!Reverses]_widthVars
    <2>1. ShareTheorems!Width!Spec => ShareTheorems!Width!DragReverses
      BY PartAssumptions, ShareTheorems!DragsReverse
    <2>2. [ShareTheorems!Width!Reverses]_(ShareTheorems!Width!vars) => [Slipped!Reverses]_widthVars
      BY DEF Slipped!Reverses, ShareTheorems!Width!Reverses, Slipped!drag,
             ShareTheorems!Width!drag, Slipped!Clamp, ShareTheorems!Width!Clamp, Slipped!Near,
             ShareTheorems!Width!Near, Slipped!Snap, ShareTheorems!Width!Snap, Slipped!WidthFor,
             ShareTheorems!Width!WidthFor, Slipped!Resize, ShareTheorems!Width!Resize,
             Slipped!PointerMove, ShareTheorems!Width!PointerMove, ShareTheorems!Width!vars,
             widthVars
    <2> QED
      BY <2>1, <2>2, SlippedOfPanels, PTL DEF ShareTheorems!Width!DragReverses
  <1>3. part = "slipped" /\ [PanelsNext]_panelVars /\ [Slipped!Reverses]_widthVars
          => [part = "slipped" => Slipped!Reverses]_panelVars
    BY PartStays DEF WidthStep, panelVars
  <1>4. /\ ~(part = "dragged") /\ [PanelsNext]_panelVars => ~(part = "dragged")'
        /\ ~(part = "slipped") /\ [PanelsNext]_panelVars => ~(part = "slipped")'
        /\ part = "slipped" /\ [PanelsNext]_panelVars => (part = "slipped")'
        /\ ~(part = "slipped") => [part = "slipped" => Slipped!Reverses]_panelVars
    BY PartStays
  <1>5. PanelsSpec => [](part = "dragged" => Dragged!AtRestIsSaved)
    <2>1. PanelsSpec /\ ~(part = "dragged") => []~(part = "dragged")
      BY <1>0, <1>4, PTL
    <2> QED
      BY <1>1, <2>1, PTL
  <1>6. PanelsSpec => [][part = "slipped" => Slipped!Reverses]_panelVars
    <2>1. PanelsSpec /\ part = "slipped" => [][part = "slipped" => Slipped!Reverses]_panelVars
      BY <1>0, <1>2, <1>3, <1>4, PTL
    <2>2. PanelsSpec /\ ~(part = "slipped") => [][part = "slipped" => Slipped!Reverses]_panelVars
      BY <1>0, <1>4, PTL
    <2> QED
      BY <2>1, <2>2
  <1> QED
    BY <1>5, <1>6 DEF WidthIsKept

-----------------------------------------------------------------------------
(* The page tree *)

(* No move, collapse, deletion or store change leaves the focus that the tree   *)
(* owns on the body while a row is left and the user did not drop it there     *)
(* (page_tree_panel.tsx).                                                      *)
THEOREM FocusStaysInTheTree == PanelsSpec => []FocusKept
  <1>1. TabTheorems!Panel!PanelAssumption
    BY PanelsAssumption
    DEF Focus!PanelAssumption, TabTheorems!Panel!PanelAssumption, Focus!RowsAssumption,
        TabTheorems!Panel!RowsAssumption, Focus!IsFiniteSet, TabTheorems!Panel!IsFiniteSet
  <1>2. TabTheorems!Panel!Spec => []TabTheorems!Panel!FocusKept
    BY <1>1, TabTheorems!PanelFocusKept
  <1>3. TabTheorems!Panel!FocusKept => FocusKept
    BY ZenonT(60)
    DEF FocusKept, Focus!FocusKept, TabTheorems!Panel!FocusKept, Focus!Rows, TabTheorems!Panel!Rows,
           Focus!VisibleRows, TabTheorems!Panel!VisibleRows, Focus!Visible,
           TabTheorems!Panel!Visible, Focus!Ids, TabTheorems!Panel!Ids, Focus!Shows,
           TabTheorems!Panel!Shows, Focus!ShownParent, TabTheorems!Panel!ShownParent,
           Focus!Cardinality, TabTheorems!Panel!Cardinality, Focus!Above,
           TabTheorems!Panel!Above, Focus!Before, TabTheorems!Panel!Before, Focus!Depth,
           TabTheorems!Panel!Depth
  <1>4. PanelsSpec /\ part = "focus" => []FocusKept
    BY <1>2, <1>3, FocusOfPanels, PTL
  <1>5. PanelsSpec /\ ~(part = "focus") => []FocusKept
    <2>1. ~(part = "focus") => FocusKept
      BY DEF FocusKept
    <2>2. ~(part = "focus") /\ [PanelsNext]_panelVars => ~(part = "focus")'
      BY PartStays
    <2> QED
      BY <2>1, <2>2, PTL DEF PanelsSpec
  <1> QED
    BY <1>4, <1>5, PTL

=============================================================================
