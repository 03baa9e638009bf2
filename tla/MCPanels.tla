------------------------------- MODULE MCPanels -------------------------------
(***************************************************************************)
(* Model checking of the client's panels and dialogs: the members, the     *)
(* settings, the tree of pages, the spaces in the sidebar and the widths   *)
(* of the panels.  A behavior exercises one part, which it names; the      *)
(* others rest in their first state, for the parts share no state.         *)
(***************************************************************************)
EXTENDS SpaceMembers

CONSTANTS me, u2, u3, u4, s1, s2, s3, s4, p1, Unset, Gone, Body, Away

ThreeUsers == {me, u2, u3}

VARIABLES
  part,
  row, archived, changed, store, pruned, settingsListing, dialog, form, since, discarding,
  saving, archiving,
  tree, collapsed, focusedId, focusIndex, owns, at, dropped, changes,
  favs, order, loaded, known, sectionClosed, drag, rowDropped,
  width, saved, panelOpen, dragging, startX, startWidth, lastWidth, resizing

settingsVars == <<row, archived, changed, store, pruned, settingsListing, dialog, form,
                  since, discarding, saving, archiving>>
treeVars == <<tree, collapsed, focusedId, focusIndex, owns, at, dropped, changes>>
sidebarVars == <<favs, order, loaded, known, sectionClosed, drag, rowDropped>>
widthVars == <<width, saved, panelOpen, dragging, startX, startWidth, lastWidth, resizing>>
panelVars == <<part, vars, settingsVars, treeVars, sidebarVars, widthVars>>

\* The share modal; a pick is committed at once.
Share == INSTANCE SpaceMembers WITH
  Users <- {me, u2, u3, u4}, Outsiders <- {u4}, CommitOnSelect <- TRUE,
  Overlaps <- FALSE, Reopens <- FALSE, Others <- FALSE, MaxCalls <- 4

\* The permissions tab, where picks are collected.
Tab == INSTANCE SpaceMembers WITH
  Users <- {me, u2, u3, u4}, Outsiders <- {u4}, CommitOnSelect <- FALSE,
  Overlaps <- FALSE, Reopens <- FALSE, Others <- FALSE, MaxCalls <- 4

\* The store's row changes by this client's own writes only.
Steady == INSTANCE SpaceSettings WITH
  listing <- settingsListing, Values <- {"", "a", "b"}, Blank <- "",
  Refreshes <- FALSE, Archives <- FALSE, MaxVersion <- 3

\* Listings arrive while the modal is open.
Refreshed == INSTANCE SpaceSettings WITH
  listing <- settingsListing, Values <- {"", "a"}, Blank <- "",
  Refreshes <- TRUE, Archives <- TRUE, MaxVersion <- 2

\* Three rows: focus, keys and collapsing while the store changes.
Focus == INSTANCE PageTreePanel WITH
  Root <- 0, MaxDepth <- 1, Pages <- 1..3, MaxChanges <- 1,
  Gestures <- {"focus", "collapse", "keys", "leave"}

\* Four pages under drag and drop.
Moves == INSTANCE PageTreePanel WITH
  Root <- 0, MaxDepth <- 2, Pages <- 1..4, MaxChanges <- 0, Gestures <- {"drag"}

\* Three rows, any of them collapsed, under drag and drop.
Closed == INSTANCE PageTreePanel WITH
  Root <- 0, MaxDepth <- 2, Pages <- 1..3, MaxChanges <- 0, Gestures <- {"collapse", "drag"}

\* Four spaces dragged between favorites and the rest.
Sorting == INSTANCE SidebarSpaces WITH
  collapsed <- sectionClosed, dropped <- rowDropped,
  Spaces <- {s1, s2, s3, s4}, Pages <- {}, SpaceOf <- <<>>, Natural <- <<s1, s2, s3, s4>>,
  Budget <- 9, PageFavorites <- FALSE, Loads <- FALSE, Singles <- FALSE, Meanwhile <- FALSE

\* Three spaces that load, come and go, a page among the favorites, and a stored
\* order too short for them.
Loading == INSTANCE SidebarSpaces WITH
  collapsed <- sectionClosed, dropped <- rowDropped,
  Spaces <- {s1, s2, s3}, Pages <- {p1}, SpaceOf <- [p \in {p1} |-> s1],
  Natural <- <<s1, s2, s3>>, Budget <- 2,
  PageFavorites <- TRUE, Loads <- TRUE, Singles <- FALSE, Meanwhile <- TRUE

\* A panel of four to twelve units, dragged from its right edge without a slip.
Dragged == INSTANCE SidebarWidth WITH
  open <- panelOpen, MinWidth <- 4, MaxWidth <- 12, DefaultWidth <- 8,
  SnapDistance <- 1, Step <- 2, Pointers <- 0..18, Edge <- 3, Side <- 1,
  Strays <- FALSE, Interrupts <- FALSE

\* The same from its left edge, with stray releases and a panel that closes.
Slipped == INSTANCE SidebarWidth WITH
  open <- panelOpen, MinWidth <- 4, MaxWidth <- 12, DefaultWidth <- 8,
  SnapDistance <- 1, Step <- 2, Pointers <- 0..18, Edge <- 18, Side <- -1,
  Strays <- TRUE, Interrupts <- TRUE

ASSUME PanelsAssumption ==
  /\ MembersAssumption /\ Share!MembersAssumption /\ Tab!MembersAssumption
  /\ Steady!SettingsAssumption /\ Refreshed!SettingsAssumption
  /\ Focus!PanelAssumption /\ Moves!PanelAssumption /\ Closed!PanelAssumption
  /\ Sorting!SidebarAssumption /\ Loading!SidebarAssumption
  /\ Dragged!WidthAssumption /\ Slipped!WidthAssumption

-----------------------------------------------------------------------------

MembersRest == Init /\ members = {me}
SettingsRest == Steady!Init /\ row.title = "a"
TreeRests == Focus!Init /\ tree.pages = <<>> /\ \A p \in 1..3 : tree.drafts[p] = 0
SidebarRests == Sorting!Init
WidthRests == Dragged!Init /\ saved = Unset

\* Rows that others change begin with one unpublished page.
OneDraft == Cardinality(DOMAIN tree.drafts) = 1

PanelsInit ==
  \/ /\ \/ part = "share" /\ Share!Init
        \/ part = "tab" /\ Tab!Init
        \/ part = "members" /\ Init
     /\ SettingsRest /\ TreeRests /\ SidebarRests /\ WidthRests
  \/ /\ \/ part = "steady" /\ Steady!Init
        \/ part = "refreshed" /\ Refreshed!Init
     /\ MembersRest /\ TreeRests /\ SidebarRests /\ WidthRests
  \/ /\ \/ part = "focus" /\ Focus!Init /\ OneDraft
        \/ part = "moves" /\ Moves!Init /\ tree.drafts = <<>>
        \/ part = "closed" /\ Closed!Init
     /\ MembersRest /\ SettingsRest /\ SidebarRests /\ WidthRests
  \/ /\ \/ part = "sorting" /\ Sorting!Init
        \/ part = "loading" /\ Loading!Init
     /\ MembersRest /\ SettingsRest /\ TreeRests /\ WidthRests
  \/ /\ \/ part = "dragged" /\ Dragged!Init
        \/ part = "slipped" /\ Slipped!Init
     /\ MembersRest /\ SettingsRest /\ TreeRests /\ SidebarRests

MembersStep == UNCHANGED <<part, settingsVars, treeVars, sidebarVars, widthVars>>
SettingsStep == UNCHANGED <<part, vars, treeVars, sidebarVars, widthVars>>
TreeStep == UNCHANGED <<part, vars, settingsVars, sidebarVars, widthVars>>
SidebarStep == UNCHANGED <<part, vars, settingsVars, treeVars, widthVars>>
WidthStep == UNCHANGED <<part, vars, settingsVars, treeVars, sidebarVars>>

PanelsNext ==
  \/ part = "share" /\ Share!Next /\ MembersStep
  \/ part = "tab" /\ Tab!Next /\ MembersStep
  \/ part = "members" /\ Next /\ MembersStep
  \/ part = "steady" /\ Steady!Next /\ SettingsStep
  \/ part = "refreshed" /\ Refreshed!Next /\ SettingsStep
  \/ part = "focus" /\ Focus!Next /\ TreeStep
  \/ part = "moves" /\ Moves!Next /\ TreeStep
  \/ part = "closed" /\ Closed!Next /\ TreeStep
  \/ part = "sorting" /\ Sorting!Next /\ SidebarStep
  \/ part = "loading" /\ Loading!Next /\ SidebarStep
  \/ part = "dragged" /\ Dragged!Next /\ WidthStep
  \/ part = "slipped" /\ Slipped!Next /\ WidthStep

PanelsSpec == PanelsInit /\ [][PanelsNext]_panelVars

-----------------------------------------------------------------------------
(* Properties *)

TypesOK ==
  /\ part \in {"share", "tab"} => Share!TypeOK
  /\ part = "members" => TypeOK
  /\ part \in {"steady", "refreshed"} => Steady!TypeOK
  /\ part \in {"dragged", "slipped"} => Slipped!TypeOK
  /\ part = "focus" => Focus!TypeOK
  /\ part = "moves" => Moves!TypeOK
  /\ part = "sorting" => Sorting!TypeOK
  /\ part = "loading" => Loading!TypeOK

\* Nobody picked in a batch is lost (each is a member or a chip again), write
\* affordances are off while a mutation is in flight, and with nothing under way
\* the roster is the server's, also after a batch that partly failed
\* (hooks/space_members.ts, store/actions.ts).
BatchesSettle ==
  /\ [](part = "tab" => Tab!BusyWhileInFlight /\ Tab!RosterIsRight)
  /\ [][part = "share" => Share!PicksKept]_panelVars

\* A save the server takes overwrites another member's change only from a form
\* that showed it, and leaves the properties this modal does not manage alone;
\* the form is dropped only clean, or with its space (space_settings_modal.tsx,
\* store/actions.ts).
SettingsSurvive ==
  /\ [][part = "steady" => Steady!OverwritesOnlyShown /\ Steady!LeavesTheRest]_panelVars
  /\ [][part = "refreshed" => Refreshed!DropsClean]_panelVars

\* While the tree has the focus, no move, collapse or deletion leaves it on the
\* body unless no row is left or the user dropped it (page_tree_panel.tsx).
FocusKept == part = "focus" => Focus!FocusKept

\* A page dropped lands where the line or the highlight was; a key moves it one
\* step, the opposite key back, and does nothing that no drop does; every page
\* keeps its row within the depth cap (keyboard.ts, use_pages_dnd.ts).
MovesLand ==
  /\ part = "moves" => /\ Moves!RowsComplete /\ Moves!KeysStep /\ Moves!KeysUndo
                       /\ Moves!DropsLand /\ Moves!KeysMatchDrops
  /\ part = "closed" => /\ Closed!RowsComplete /\ Closed!KeysStep /\ Closed!KeysUndo
                        /\ Closed!DropsLand /\ Closed!KeysMatchDrops

\* A space dropped lies beside the row it was dropped at, the others keep their
\* order, and every space of the team has one row, whatever the stored order and
\* the favorites name (use_sidebar_spaces.ts).
SpacesLand ==
  /\ part = "sorting" => Sorting!DropsLand /\ Sorting!OthersKeepTheirOrder
  /\ part = "loading" => Loading!EachSpaceOnce

\* Between gestures the width on screen is the one a reload restores, and a drag
\* brought back to where it began brings the width back, wherever it has been
\* (hooks/sidebar_width.ts, resizable_divider.tsx).
WidthIsKept ==
  /\ [](part = "dragged" => Dragged!AtRestIsSaved)
  /\ [][part = "slipped" => Slipped!Reverses]_panelVars

=============================================================================
