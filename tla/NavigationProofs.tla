---------------------------- MODULE NavigationProofs ----------------------------
(***************************************************************************)
(* What the proofs about pages, routes and spaces say of the client's      *)
(* stores and routes as MCNavigation composes them.                        *)
(***************************************************************************)
EXTENDS MCNavigation, TLAPS

(* A behavior is about one part: its steps are steps of that part.            *)
LEMMA PartStays ==
    ASSUME [NavigationNext]_navigationVars
    PROVE  /\ part' = part
           /\ part = "visit" => (Visit!Next /\ RouteStep) \/ UNCHANGED navigationVars
           /\ part = "lists" => (Lists!Next /\ RouteStep) \/ UNCHANGED navigationVars
           /\ part = "routed" => (Routed!Next /\ SpacesStep) \/ UNCHANGED navigationVars
           /\ part = "quiet" => (Quiet!Next /\ SpacesStep) \/ UNCHANGED navigationVars
           /\ part = "alone" => (Alone!Next /\ PagesStep) \/ UNCHANGED navigationVars
           /\ part = "overlap" => (Overlap!Next /\ PagesStep) \/ UNCHANGED navigationVars
           /\ part = "across" => (Across!Next /\ PagesStep) \/ UNCHANGED navigationVars
  BY DEF NavigationNext, PagesStep, RouteStep, SpacesStep, navigationVars

-----------------------------------------------------------------------------
(* The listed space, the spaces of one team, and one call at a time           *)

\* The theorems, for these.
VisitTheorems == INSTANCE NavigationPartsProofs WITH
  Ids <- {p1, d1, n1}, InitPages <- {p1}, InitDrafts <- {d1}, PageLinks <- {p1},
  DraftLinks <- {d1}, DefaultPage <- p1, Listed <- TRUE, Failures <- FALSE,
  Outside <- {"discard", "delete"}, MaxOutside <- 1, MaxVisits <- 2, MaxEntries <- 2,
  Spaces <- {s1, s2}, Teams <- {t1}, TeamOf <- [s \in {s1, s2} |-> t1],
  Overlaps <- TRUE, Fails <- FALSE, Grants <- FALSE, Revokes <- TRUE,
  MaxMoves <- 2, MaxCommands <- 1,
  StoreSpaces <- {s1}, Pages <- 1..3, NoPage <- 0, MaxDepth <- 3, MaxSiblings <- 3,
  LockWait <- 0, MaxClock <- 1, MaxStamp <- 9, Title <- Backwards,
  Opened <- {}, MaxInFlight <- 1, MaxCalls <- 3, MaxFailures <- 1, MaxOthers <- 0

(* The actions of these parts are those that the theorems are about.          *)
LEMMA SameVisit == Visit!Next => VisitTheorems!Next
  BY ZenonT(120) DEF Visit!server, VisitTheorems!server, Visit!vars, VisitTheorems!vars,
    Visit!HomeUrl,
         VisitTheorems!HomeUrl, Visit!Overview, VisitTheorems!Overview, Visit!Page,
         VisitTheorems!Page, Visit!DraftOf, VisitTheorems!DraftOf, Visit!Editing,
         VisitTheorems!Editing, Visit!Addresses, VisitTheorems!Addresses, Visit!Idle,
         VisitTheorems!Idle, Visit!NoCommand, VisitTheorems!NoCommand, Visit!Top,
         VisitTheorems!Top, Visit!Url, VisitTheorems!Url, Visit!Push, VisitTheorems!Push,
         Visit!Replace, VisitTheorems!Replace, Visit!Missing, VisitTheorems!Missing,
         Visit!Absent, VisitTheorems!Absent, Visit!AskPage, VisitTheorems!AskPage,
         Visit!AskDraft, VisitTheorems!AskDraft, Visit!Loaded, VisitTheorems!Loaded,
         Visit!Effects, VisitTheorems!Effects, Visit!DefaultTarget, VisitTheorems!DefaultTarget,
         Visit!DraftSettled, VisitTheorems!DraftSettled, Visit!PageResolved,
         VisitTheorems!PageResolved, Visit!Redirects, VisitTheorems!Redirects, Visit!Redirect,
         VisitTheorems!Redirect, Visit!Rendered, VisitTheorems!Rendered, Visit!Answers,
         VisitTheorems!Answers, Visit!ServerReads, VisitTheorems!ServerReads, Visit!WithDraft,
         VisitTheorems!WithDraft, Visit!WithoutDraft, VisitTheorems!WithoutDraft,
         Visit!DraftAnswered, VisitTheorems!DraftAnswered, Visit!DraftArrives,
         VisitTheorems!DraftArrives, Visit!PageArrives, VisitTheorems!PageArrives,
         Visit!PageArrivesLate, VisitTheorems!PageArrivesLate, Visit!ListArrives,
         VisitTheorems!ListArrives, Visit!Visit, VisitTheorems!Visit, Visit!Open,
         VisitTheorems!Open, Visit!ToggleEdit, VisitTheorems!ToggleEdit, Visit!Back,
         VisitTheorems!Back, Visit!Starts, VisitTheorems!Starts, Visit!Command,
         VisitTheorems!Command, Visit!Answer, VisitTheorems!Answer, Visit!Refuses,
         VisitTheorems!Refuses, Visit!IsNew, VisitTheorems!IsNew, Visit!ServerCommands,
         VisitTheorems!ServerCommands, Visit!Published, VisitTheorems!Published, Visit!Settles,
         VisitTheorems!Settles, Visit!CommandAnswered, VisitTheorems!CommandAnswered,
         Visit!SaveEdit, VisitTheorems!SaveEdit, Visit!Elsewhere, VisitTheorems!Elsewhere,
         Visit!Answering, VisitTheorems!Answering, Visit!Next, VisitTheorems!Next,
         Visit!Bounced, VisitTheorems!Bounced

LEMMA SameRouted == Routed!Next => VisitTheorems!Space!Next
  BY ZenonT(120) DEF Routed!server, VisitTheorems!Space!server, Routed!store,
    VisitTheorems!Space!store,
         Routed!net, VisitTheorems!Space!net, Routed!route, VisitTheorems!Space!route,
         Routed!bounds, VisitTheorems!Space!bounds, Routed!vars, VisitTheorems!Space!vars,
         Routed!InTeam, VisitTheorems!Space!InTeam, Routed!Listing, VisitTheorems!Space!Listing,
         Routed!Fetch, VisitTheorems!Space!Fetch, Routed!Scoped, VisitTheorems!Space!Scoped,
         Routed!Known, VisitTheorems!Space!Known, Routed!Merged, VisitTheorems!Space!Merged,
         Routed!Created, VisitTheorems!Space!Created, Routed!Deleted,
         VisitTheorems!Space!Deleted, Routed!Asking, VisitTheorems!Space!Asking, Routed!Stale,
         VisitTheorems!Space!Stale, Routed!Routed, VisitTheorems!Space!Routed, Routed!MayAsk,
         VisitTheorems!Space!MayAsk, Routed!Kept, VisitTheorems!Space!Kept, Routed!ReadListing,
         VisitTheorems!Space!ReadListing, Routed!ListingArrives,
         VisitTheorems!Space!ListingArrives, Routed!ListingFails,
         VisitTheorems!Space!ListingFails, Routed!SwitcherLists,
         VisitTheorems!Space!SwitcherLists, Routed!ReadSpace, VisitTheorems!Space!ReadSpace,
         Routed!SettledAny, VisitTheorems!Space!SettledAny, Routed!Settled,
         VisitTheorems!Space!Settled, Routed!SpaceAnswered, VisitTheorems!Space!SpaceAnswered,
         Routed!SpaceArrives, VisitTheorems!Space!SpaceArrives, Routed!SpaceFails,
         VisitTheorems!Space!SpaceFails, Routed!Redirect, VisitTheorems!Space!Redirect,
         Routed!GoTo, VisitTheorems!Space!GoTo, Routed!EnterTeam, VisitTheorems!Space!EnterTeam,
         Routed!MayCommand, VisitTheorems!Space!MayCommand, Routed!Create,
         VisitTheorems!Space!Create, Routed!Leave, VisitTheorems!Space!Leave,
         Routed!ServerCommand, VisitTheorems!Space!ServerCommand, Routed!CreateAnswered,
         VisitTheorems!Space!CreateAnswered, Routed!LeaveAnswered,
         VisitTheorems!Space!LeaveAnswered, Routed!CommandFails,
         VisitTheorems!Space!CommandFails, Routed!Change, VisitTheorems!Space!Change,
         Routed!Grant, VisitTheorems!Space!Grant, Routed!Revoke, VisitTheorems!Space!Revoke,
         Routed!Answers, VisitTheorems!Space!Answers, Routed!Next, VisitTheorems!Space!Next

LEMMA SameAlone == Alone!Next => VisitTheorems!Store!Next
  BY ZenonT(120) DEF Alone!client, VisitTheorems!Store!client, Alone!bounds,
         VisitTheorems!Store!bounds, Alone!vars, VisitTheorems!Store!vars, Alone!Entity,
         VisitTheorems!Store!Entity, Alone!Waiting, VisitTheorems!Store!Waiting, Alone!Failed,
         VisitTheorems!Store!Failed, Alone!Answer, VisitTheorems!Store!Answer, Alone!Before,
         VisitTheorems!Store!Before, Alone!Place, VisitTheorems!Store!Place, Alone!Listed,
         VisitTheorems!Store!Listed, Alone!ShownParent, VisitTheorems!Store!ShownParent,
         Alone!ShownGroup, VisitTheorems!Store!ShownGroup, Alone!Reached,
         VisitTheorems!Store!Reached, Alone!ReceivedListing,
         VisitTheorems!Store!ReceivedListing, Alone!ReceivedPage,
         VisitTheorems!Store!ReceivedPage, Alone!Reindexed, VisitTheorems!Store!Reindexed,
         Alone!DeletedPage, VisitTheorems!Store!DeletedPage, Alone!Subtree,
         VisitTheorems!Store!Subtree, Alone!Call, VisitTheorems!Store!Call, Alone!Reads,
         VisitTheorems!Store!Reads, Alone!Send, VisitTheorems!Store!Send, Alone!FetchPages,
         VisitTheorems!Store!FetchPages, Alone!FetchPage, VisitTheorems!Store!FetchPage,
         Alone!MayDropOn, VisitTheorems!Store!MayDropOn, Alone!MovePage,
         VisitTheorems!Store!MovePage, Alone!DeletePage, VisitTheorems!Store!DeletePage,
         Alone!Replied, VisitTheorems!Store!Replied, Alone!CanDelete,
         VisitTheorems!Store!CanDelete, Alone!CanMove, VisitTheorems!Store!CanMove,
         Alone!ServeRead, VisitTheorems!Store!ServeRead, Alone!ServeMove,
         VisitTheorems!Store!ServeMove, Alone!ServeDelete, VisitTheorems!Store!ServeDelete,
         Alone!Serve, VisitTheorems!Store!Serve, Alone!Fail, VisitTheorems!Store!Fail,
         Alone!Listing, VisitTheorems!Store!Listing, Alone!Merged, VisitTheorems!Store!Merged,
         Alone!Pruned, VisitTheorems!Store!Pruned, Alone!Refused, VisitTheorems!Store!Refused,
         Alone!Receive, VisitTheorems!Store!Receive, Alone!Other, VisitTheorems!Store!Other,
         Alone!OtherMoves, VisitTheorems!Store!OtherMoves, Alone!OtherRelocates,
         VisitTheorems!Store!OtherRelocates, Alone!OtherDeletes,
         VisitTheorems!Store!OtherDeletes, Alone!OtherEdits, VisitTheorems!Store!OtherEdits,
         Alone!Next, VisitTheorems!Store!Next, Alone!Cardinality,
         VisitTheorems!Store!Cardinality, Alone!Min, VisitTheorems!Store!Min, Alone!RemoveAt,
         VisitTheorems!Store!RemoveAt, Alone!Restrict, VisitTheorems!Store!Restrict,
         Alone!Server!SpaceLive, VisitTheorems!Store!Server!SpaceLive, Alone!Server!Exists,
         VisitTheorems!Store!Server!Exists, Alone!Server!Live, VisitTheorems!Store!Server!Live,
         Alone!Server!LiveIn, VisitTheorems!Store!Server!LiveIn, Alone!Server!Children,
         VisitTheorems!Store!Server!Children, Alone!Server!Group,
         VisitTheorems!Store!Server!Group, Alone!Server!Before,
         VisitTheorems!Store!Server!Before, Alone!Server!Place,
         VisitTheorems!Store!Server!Place, Alone!Server!NextSortOrder,
         VisitTheorems!Store!Server!NextSortOrder, Alone!Server!HasRoom,
         VisitTheorems!Store!Server!HasRoom, Alone!Server!ClosedBelow,
         VisitTheorems!Store!Server!ClosedBelow, Alone!Server!Subtree,
         VisitTheorems!Store!Server!Subtree, Alone!Server!Above,
         VisitTheorems!Store!Server!Above, Alone!Server!Depth, VisitTheorems!Store!Server!Depth,
         Alone!Server!Height, VisitTheorems!Store!Server!Height, Alone!Server!FitsDepth,
         VisitTheorems!Store!Server!FitsDepth, Alone!Server!MayHang,
         VisitTheorems!Store!Server!MayHang, Alone!Server!EditPage,
         VisitTheorems!Store!Server!EditPage, Alone!Server!Promoted,
         VisitTheorems!Store!Server!Promoted, Alone!Server!Shifted,
         VisitTheorems!Store!Server!Shifted, Alone!Server!Stamped,
         VisitTheorems!Store!Server!Stamped, Alone!Server!PagesAfterDelete,
         VisitTheorems!Store!Server!PagesAfterDelete, Alone!Server!DeletePage,
         VisitTheorems!Store!Server!DeletePage, Alone!Server!MayMove,
         VisitTheorems!Store!Server!MayMove, Alone!Server!Renumbered,
         VisitTheorems!Store!Server!Renumbered, Alone!Server!Indexes,
         VisitTheorems!Store!Server!Indexes, Alone!Server!Clamped,
         VisitTheorems!Store!Server!Clamped, Alone!Server!MovedToken,
         VisitTheorems!Store!Server!MovedToken, Alone!Server!PagesAfterReindex,
         VisitTheorems!Store!Server!PagesAfterReindex, Alone!Server!MovePageToIndex,
         VisitTheorems!Store!Server!MovePageToIndex, Alone!Server!Rehomed,
         VisitTheorems!Store!Server!Rehomed, Alone!Server!MovePageToSpace,
         VisitTheorems!Store!Server!MovePageToSpace, Alone!Server!Cardinality,
         VisitTheorems!Store!Server!Cardinality, Alone!Server!Max,
         VisitTheorems!Store!Server!Max, Alone!Server!Min, VisitTheorems!Store!Server!Min,
         Alone!Server!NextMonotonic, VisitTheorems!Store!Server!NextMonotonic

LEMMA VisitOfNavigation == NavigationSpec /\ part = "visit" => VisitTheorems!Spec
  <1>1. Visit!Init => VisitTheorems!Init
    BY DEF Visit!Init, VisitTheorems!Init, Visit!Addresses, VisitTheorems!Addresses,
           Visit!HomeUrl, VisitTheorems!HomeUrl, Visit!Overview, VisitTheorems!Overview,
           Visit!Page, VisitTheorems!Page, Visit!DraftOf, VisitTheorems!DraftOf, Visit!AskPage,
           VisitTheorems!AskPage, Visit!AskDraft, VisitTheorems!AskDraft, Visit!Missing,
           VisitTheorems!Missing, Visit!Absent, VisitTheorems!Absent, Visit!Idle,
           VisitTheorems!Idle, Visit!NoCommand, VisitTheorems!NoCommand, Visit!Url,
           VisitTheorems!Url, Visit!Top, VisitTheorems!Top
  <1>2. NavigationInit /\ part = "visit" => VisitTheorems!Init
    BY <1>1 DEF NavigationInit
  <1>3. part = "visit" /\ [NavigationNext]_navigationVars
          => (part = "visit")' /\ [VisitTheorems!Next]_(VisitTheorems!vars)
    BY PartStays, SameVisit
    DEF navigationVars, routeVars, VisitTheorems!vars, VisitTheorems!server
  <1> QED
    BY <1>2, <1>3, PTL DEF NavigationSpec, VisitTheorems!Spec

LEMMA RoutedOfNavigation == NavigationSpec /\ part = "routed" => VisitTheorems!Space!Spec
  <1>1. Routed!Init => VisitTheorems!Space!Init
    BY DEF Routed!Init, VisitTheorems!Space!Init, Routed!Listing, VisitTheorems!Space!Listing,
           Routed!Fetch, VisitTheorems!Space!Fetch
  <1>2. NavigationInit /\ part = "routed" => VisitTheorems!Space!Init
    BY <1>1 DEF NavigationInit
  <1>3. part = "routed" /\ [NavigationNext]_navigationVars
          => (part = "routed")' /\ [VisitTheorems!Space!Next]_(VisitTheorems!Space!vars)
    BY PartStays, SameRouted
    DEF navigationVars, spaceVars, VisitTheorems!Space!vars, VisitTheorems!Space!server,
      VisitTheorems!Space!store, VisitTheorems!Space!net, VisitTheorems!Space!route,
        VisitTheorems!Space!bounds
  <1> QED
    BY <1>2, <1>3, PTL DEF NavigationSpec, VisitTheorems!Space!Spec

LEMMA AloneOfNavigation == NavigationSpec /\ part = "alone" => VisitTheorems!Store!Spec
  <1>1. Alone!Init => VisitTheorems!Store!Init
    BY ZenonT(60) DEF Alone!Init, VisitTheorems!Store!Init, Alone!client,
         VisitTheorems!Store!client, Alone!vars, VisitTheorems!Store!vars, Alone!Entity,
         VisitTheorems!Store!Entity, Alone!Cardinality, VisitTheorems!Store!Cardinality,
         Alone!Server!TreeCapped, VisitTheorems!Store!Server!TreeCapped,
         Alone!Server!DepthCapped, VisitTheorems!Store!Server!DepthCapped,
         Alone!Server!SiblingsCapped, VisitTheorems!Store!Server!SiblingsCapped,
         Alone!Server!Depth, VisitTheorems!Store!Server!Depth, Alone!Server!Above,
         VisitTheorems!Store!Server!Above, Alone!Server!Live, VisitTheorems!Store!Server!Live,
         Alone!Server!LiveIn, VisitTheorems!Store!Server!LiveIn, Alone!Server!Exists,
         VisitTheorems!Store!Server!Exists, Alone!Server!Group,
         VisitTheorems!Store!Server!Group, Alone!Server!ParentIds,
         VisitTheorems!Store!Server!ParentIds, Alone!Server!Cardinality,
         VisitTheorems!Store!Server!Cardinality
  <1>2. NavigationInit /\ part = "alone" => VisitTheorems!Store!Init
    BY <1>1 DEF NavigationInit
  <1>3. part = "alone" /\ [NavigationNext]_navigationVars
          => (part = "alone")' /\ [VisitTheorems!Store!Next]_(VisitTheorems!Store!vars)
    BY PartStays, SameAlone DEF navigationVars, pageVars, VisitTheorems!Store!vars
  <1> QED
    BY <1>2, <1>3, PTL DEF NavigationSpec, VisitTheorems!Store!Spec

LEMMA VisitTypes == NavigationSpec /\ part = "visit" => []Visit!TypeOK
  <1>1. VisitTheorems!RouteAssumption
    BY NavigationAssumption DEF Visit!RouteAssumption, VisitTheorems!RouteAssumption
  <1>2. VisitTheorems!TypeOK => Visit!TypeOK
    BY ZenonT(60) DEF Visit!TypeOK, VisitTheorems!TypeOK, Visit!Addresses,
         VisitTheorems!Addresses, Visit!HomeUrl, VisitTheorems!HomeUrl, Visit!Overview,
         VisitTheorems!Overview, Visit!Page, VisitTheorems!Page, Visit!DraftOf,
         VisitTheorems!DraftOf, Visit!Editing, VisitTheorems!Editing, Visit!Missing,
         VisitTheorems!Missing, Visit!Absent, VisitTheorems!Absent, Visit!AskPage,
         VisitTheorems!AskPage, Visit!AskDraft, VisitTheorems!AskDraft, Visit!Idle,
         VisitTheorems!Idle, Visit!NoCommand, VisitTheorems!NoCommand, Visit!Url,
         VisitTheorems!Url, Visit!Top, VisitTheorems!Top
  <1>3. VisitTheorems!Spec => []VisitTheorems!TypeOK
    BY <1>1, VisitTheorems!RouteTypes
  <1> QED
    BY <1>2, <1>3, VisitOfNavigation, PTL

LEMMA RoutedTypes == NavigationSpec /\ part = "routed" => []Routed!TypeOK
  <1>1. VisitTheorems!Space!StoreAssumption
    BY NavigationAssumption
    DEF Routed!StoreAssumption, VisitTheorems!Space!StoreAssumption, Routed!Commands,
      VisitTheorems!Space!Commands
  <1>2. VisitTheorems!Space!TypeOK => Routed!TypeOK
    BY ZenonT(60) DEF Routed!TypeOK, VisitTheorems!Space!TypeOK, Routed!Listing,
         VisitTheorems!Space!Listing, Routed!Fetch, VisitTheorems!Space!Fetch, Routed!InTeam,
         VisitTheorems!Space!InTeam, Routed!Commands, VisitTheorems!Space!Commands
  <1>3. VisitTheorems!Space!Spec => []VisitTheorems!Space!TypeOK
    BY <1>1, VisitTheorems!SpaceTypes
  <1> QED
    BY <1>2, <1>3, RoutedOfNavigation, PTL

LEMMA VisitsEndIfGone == NavigationSpec /\ part = "visit" => [][Visit!Bounced => gone]_routeVars
  <1>1. VisitTheorems!RouteAssumption /\ VisitTheorems!Benign
    BY NavigationAssumption
    DEF Visit!RouteAssumption, VisitTheorems!RouteAssumption, VisitTheorems!Benign
  <1>2. VisitTheorems!Spec => VisitTheorems!BounceOnlyIfGone
    BY <1>1, VisitTheorems!PagesAreLeftIfGone
  <1>3. [VisitTheorems!Bounced => gone]_(VisitTheorems!vars) => [Visit!Bounced => gone]_routeVars
    BY DEF Visit!Bounced, VisitTheorems!Bounced, Visit!Url, VisitTheorems!Url, Visit!Top,
           VisitTheorems!Top, VisitTheorems!vars, VisitTheorems!server, routeVars
  <1> QED
    BY <1>2, <1>3, VisitOfNavigation, PTL DEF VisitTheorems!BounceOnlyIfGone

LEMMA SpacesEndIfGone ==
    NavigationSpec /\ part = "routed" => [][Routed!Redirect => spaceGone]_spaceVars
  <1>1. VisitTheorems!Space!StoreAssumption
    BY NavigationAssumption
    DEF Routed!StoreAssumption, VisitTheorems!Space!StoreAssumption, Routed!Commands,
        VisitTheorems!Space!Commands
  <1>2. VisitTheorems!Space!Spec => VisitTheorems!Space!BounceOnlyIfGone
    BY <1>1, VisitTheorems!SpacesAreCorrectedIfGone
  <1>3. Routed!Redirect => VisitTheorems!Space!Redirect
    BY DEF Routed!Redirect, VisitTheorems!Space!Redirect, Routed!server,
           VisitTheorems!Space!server, Routed!store, VisitTheorems!Space!store, Routed!bounds,
           VisitTheorems!Space!bounds, Routed!Routed, VisitTheorems!Space!Routed, Routed!Asking,
           VisitTheorems!Space!Asking, Routed!Stale, VisitTheorems!Space!Stale, Routed!Fetch,
           VisitTheorems!Space!Fetch, Routed!Kept, VisitTheorems!Space!Kept
  <1>4. [VisitTheorems!Space!Redirect => spaceGone]_(VisitTheorems!Space!vars)
          => [Routed!Redirect => spaceGone]_spaceVars
    BY <1>3
    DEF VisitTheorems!Space!vars, VisitTheorems!Space!server, VisitTheorems!Space!store,
        VisitTheorems!Space!net, VisitTheorems!Space!route, VisitTheorems!Space!bounds, spaceVars
  <1> QED
    BY <1>2, <1>4, RoutedOfNavigation, PTL DEF VisitTheorems!Space!BounceOnlyIfGone

LEMMA AloneFollows ==
    NavigationSpec /\ part = "alone"
      => [](Alone!TypeOK /\ Alone!TreeFollowsTheServer /\ Alone!OwnMovesDropNothing)
  <1>1. VisitTheorems!Store!StoreAssumption
    BY NavigationAssumption
    DEF Alone!StoreAssumption, VisitTheorems!Store!StoreAssumption, Alone!IsFiniteSet,
         VisitTheorems!Store!IsFiniteSet
  <1>2. VisitTheorems!Store!TypeOK => Alone!TypeOK
    BY ZenonT(60) DEF Alone!TypeOK, VisitTheorems!Store!TypeOK, Alone!EntityType,
         VisitTheorems!Store!EntityType, Alone!IsReply, VisitTheorems!Store!IsReply,
         Alone!IsCall, VisitTheorems!Store!IsCall, Alone!Range, VisitTheorems!Store!Range,
         Alone!Reads, VisitTheorems!Store!Reads, Alone!Reasons, VisitTheorems!Store!Reasons,
         Alone!Waiting, VisitTheorems!Store!Waiting, Alone!Failed, VisitTheorems!Store!Failed,
         Alone!Answer, VisitTheorems!Store!Answer, Alone!Server!Row,
         VisitTheorems!Store!Server!Row, Alone!Server!ParentIds,
         VisitTheorems!Store!Server!ParentIds
  <1>3. /\ VisitTheorems!Store!TreeFollowsTheServer => Alone!TreeFollowsTheServer
        /\ VisitTheorems!Store!OwnMovesDropNothing => Alone!OwnMovesDropNothing
    BY ZenonT(60) DEF Alone!TreeFollowsTheServer, VisitTheorems!Store!TreeFollowsTheServer,
         Alone!OwnMovesDropNothing, VisitTheorems!Store!OwnMovesDropNothing, Alone!Agrees,
         VisitTheorems!Store!Agrees, Alone!Reasons, VisitTheorems!Store!Reasons, Alone!InStep,
         VisitTheorems!Store!InStep, Alone!ShownRows, VisitTheorems!Store!ShownRows,
         Alone!TrueRows, VisitTheorems!Store!TrueRows, Alone!Reached,
         VisitTheorems!Store!Reached, Alone!Listed, VisitTheorems!Store!Listed,
         Alone!ShownParent, VisitTheorems!Store!ShownParent, Alone!ShownGroup,
         VisitTheorems!Store!ShownGroup, Alone!Place, VisitTheorems!Store!Place, Alone!Before,
         VisitTheorems!Store!Before, Alone!Cardinality, VisitTheorems!Store!Cardinality,
         Alone!Server!Place, VisitTheorems!Store!Server!Place, Alone!Server!Group,
         VisitTheorems!Store!Server!Group, Alone!Server!Live, VisitTheorems!Store!Server!Live,
         Alone!Server!LiveIn, VisitTheorems!Store!Server!LiveIn, Alone!Server!Exists,
         VisitTheorems!Store!Server!Exists, Alone!Server!Before,
         VisitTheorems!Store!Server!Before, Alone!Server!Cardinality,
         VisitTheorems!Store!Server!Cardinality
  <1>4. VisitTheorems!Store!Spec => [](VisitTheorems!Store!TypeOK
          /\ VisitTheorems!Store!TreeFollowsTheServer
                         /\ VisitTheorems!Store!OwnMovesDropNothing)
    BY <1>1, VisitTheorems!StoreFollows
  <1> QED
    BY <1>2, <1>3, <1>4, AloneOfNavigation, PTL

-----------------------------------------------------------------------------
(* The space whose listings are awaited, the spaces of two teams, and two      *)
(* calls under way                                                            *)

\* The theorems, for these.
ListsTheorems == INSTANCE NavigationPartsProofs WITH
  Ids <- {p1, d1}, InitPages <- {p1}, InitDrafts <- {d1}, PageLinks <- {p1},
  DraftLinks <- {d1}, DefaultPage <- p1, Listed <- FALSE, Failures <- FALSE,
  Outside <- {"discard", "delete"}, MaxOutside <- 1, MaxVisits <- 1, MaxEntries <- 2,
  Spaces <- {s1, s2}, Teams <- {t1, t2},
  TeamOf <- [s \in {s1, s2} |-> IF s = s1 THEN t1 ELSE t2],
  Overlaps <- FALSE, Fails <- TRUE, Grants <- FALSE, Revokes <- FALSE,
  MaxMoves <- 2, MaxCommands <- 2,
  StoreSpaces <- {s1}, Pages <- 1..3, NoPage <- 0, MaxDepth <- 3, MaxSiblings <- 3,
  LockWait <- 0, MaxClock <- 1, MaxStamp <- 9, Title <- Backwards,
  Opened <- {s1}, MaxInFlight <- 2, MaxCalls <- 2, MaxFailures <- 0, MaxOthers <- 0

LEMMA SameLists == Lists!Next => ListsTheorems!Next
  BY ZenonT(120) DEF Lists!server, ListsTheorems!server, Lists!vars, ListsTheorems!vars,
    Lists!HomeUrl,
         ListsTheorems!HomeUrl, Lists!Overview, ListsTheorems!Overview, Lists!Page,
         ListsTheorems!Page, Lists!DraftOf, ListsTheorems!DraftOf, Lists!Editing,
         ListsTheorems!Editing, Lists!Addresses, ListsTheorems!Addresses, Lists!Idle,
         ListsTheorems!Idle, Lists!NoCommand, ListsTheorems!NoCommand, Lists!Top,
         ListsTheorems!Top, Lists!Url, ListsTheorems!Url, Lists!Push, ListsTheorems!Push,
         Lists!Replace, ListsTheorems!Replace, Lists!Missing, ListsTheorems!Missing,
         Lists!Absent, ListsTheorems!Absent, Lists!AskPage, ListsTheorems!AskPage,
         Lists!AskDraft, ListsTheorems!AskDraft, Lists!Loaded, ListsTheorems!Loaded,
         Lists!Effects, ListsTheorems!Effects, Lists!DefaultTarget, ListsTheorems!DefaultTarget,
         Lists!DraftSettled, ListsTheorems!DraftSettled, Lists!PageResolved,
         ListsTheorems!PageResolved, Lists!Redirects, ListsTheorems!Redirects, Lists!Redirect,
         ListsTheorems!Redirect, Lists!Rendered, ListsTheorems!Rendered, Lists!Answers,
         ListsTheorems!Answers, Lists!ServerReads, ListsTheorems!ServerReads, Lists!WithDraft,
         ListsTheorems!WithDraft, Lists!WithoutDraft, ListsTheorems!WithoutDraft,
         Lists!DraftAnswered, ListsTheorems!DraftAnswered, Lists!DraftArrives,
         ListsTheorems!DraftArrives, Lists!PageArrives, ListsTheorems!PageArrives,
         Lists!PageArrivesLate, ListsTheorems!PageArrivesLate, Lists!ListArrives,
         ListsTheorems!ListArrives, Lists!Visit, ListsTheorems!Visit, Lists!Open,
         ListsTheorems!Open, Lists!ToggleEdit, ListsTheorems!ToggleEdit, Lists!Back,
         ListsTheorems!Back, Lists!Starts, ListsTheorems!Starts, Lists!Command,
         ListsTheorems!Command, Lists!Answer, ListsTheorems!Answer, Lists!Refuses,
         ListsTheorems!Refuses, Lists!IsNew, ListsTheorems!IsNew, Lists!ServerCommands,
         ListsTheorems!ServerCommands, Lists!Published, ListsTheorems!Published, Lists!Settles,
         ListsTheorems!Settles, Lists!CommandAnswered, ListsTheorems!CommandAnswered,
         Lists!SaveEdit, ListsTheorems!SaveEdit, Lists!Elsewhere, ListsTheorems!Elsewhere,
         Lists!Answering, ListsTheorems!Answering, Lists!Next, ListsTheorems!Next,
         Lists!Bounced, ListsTheorems!Bounced

LEMMA SameQuiet == Quiet!Next => ListsTheorems!Space!Next
  BY ZenonT(120) DEF Quiet!server, ListsTheorems!Space!server, Quiet!store,
         ListsTheorems!Space!store, Quiet!net, ListsTheorems!Space!net, Quiet!route,
         ListsTheorems!Space!route, Quiet!bounds, ListsTheorems!Space!bounds, Quiet!vars,
         ListsTheorems!Space!vars, Quiet!InTeam, ListsTheorems!Space!InTeam, Quiet!Listing,
         ListsTheorems!Space!Listing, Quiet!Fetch, ListsTheorems!Space!Fetch, Quiet!Scoped,
         ListsTheorems!Space!Scoped, Quiet!Known, ListsTheorems!Space!Known, Quiet!Merged,
         ListsTheorems!Space!Merged, Quiet!Created, ListsTheorems!Space!Created, Quiet!Deleted,
         ListsTheorems!Space!Deleted, Quiet!Asking, ListsTheorems!Space!Asking, Quiet!Stale,
         ListsTheorems!Space!Stale, Quiet!Routed, ListsTheorems!Space!Routed, Quiet!MayAsk,
         ListsTheorems!Space!MayAsk, Quiet!Kept, ListsTheorems!Space!Kept, Quiet!ReadListing,
         ListsTheorems!Space!ReadListing, Quiet!ListingArrives,
         ListsTheorems!Space!ListingArrives, Quiet!ListingFails,
         ListsTheorems!Space!ListingFails, Quiet!SwitcherLists,
         ListsTheorems!Space!SwitcherLists, Quiet!ReadSpace, ListsTheorems!Space!ReadSpace,
         Quiet!SettledAny, ListsTheorems!Space!SettledAny, Quiet!Settled,
         ListsTheorems!Space!Settled, Quiet!SpaceAnswered, ListsTheorems!Space!SpaceAnswered,
         Quiet!SpaceArrives, ListsTheorems!Space!SpaceArrives, Quiet!SpaceFails,
         ListsTheorems!Space!SpaceFails, Quiet!Redirect, ListsTheorems!Space!Redirect,
         Quiet!GoTo, ListsTheorems!Space!GoTo, Quiet!EnterTeam, ListsTheorems!Space!EnterTeam,
         Quiet!MayCommand, ListsTheorems!Space!MayCommand, Quiet!Create,
         ListsTheorems!Space!Create, Quiet!Leave, ListsTheorems!Space!Leave,
         Quiet!ServerCommand, ListsTheorems!Space!ServerCommand, Quiet!CreateAnswered,
         ListsTheorems!Space!CreateAnswered, Quiet!LeaveAnswered,
         ListsTheorems!Space!LeaveAnswered, Quiet!CommandFails,
         ListsTheorems!Space!CommandFails, Quiet!Change, ListsTheorems!Space!Change,
         Quiet!Grant, ListsTheorems!Space!Grant, Quiet!Revoke, ListsTheorems!Space!Revoke,
         Quiet!Answers, ListsTheorems!Space!Answers, Quiet!Next, ListsTheorems!Space!Next

LEMMA SameOverlap == Overlap!Next => ListsTheorems!Store!Next
  BY ZenonT(120) DEF Overlap!client, ListsTheorems!Store!client, Overlap!bounds,
         ListsTheorems!Store!bounds, Overlap!vars, ListsTheorems!Store!vars, Overlap!Entity,
         ListsTheorems!Store!Entity, Overlap!Waiting, ListsTheorems!Store!Waiting,
         Overlap!Failed, ListsTheorems!Store!Failed, Overlap!Answer, ListsTheorems!Store!Answer,
         Overlap!Before, ListsTheorems!Store!Before, Overlap!Place, ListsTheorems!Store!Place,
         Overlap!Listed, ListsTheorems!Store!Listed, Overlap!ShownParent,
         ListsTheorems!Store!ShownParent, Overlap!ShownGroup, ListsTheorems!Store!ShownGroup,
         Overlap!Reached, ListsTheorems!Store!Reached, Overlap!ReceivedListing,
         ListsTheorems!Store!ReceivedListing, Overlap!ReceivedPage,
         ListsTheorems!Store!ReceivedPage, Overlap!Reindexed, ListsTheorems!Store!Reindexed,
         Overlap!DeletedPage, ListsTheorems!Store!DeletedPage, Overlap!Subtree,
         ListsTheorems!Store!Subtree, Overlap!Call, ListsTheorems!Store!Call, Overlap!Reads,
         ListsTheorems!Store!Reads, Overlap!Send, ListsTheorems!Store!Send, Overlap!FetchPages,
         ListsTheorems!Store!FetchPages, Overlap!FetchPage, ListsTheorems!Store!FetchPage,
         Overlap!MayDropOn, ListsTheorems!Store!MayDropOn, Overlap!MovePage,
         ListsTheorems!Store!MovePage, Overlap!DeletePage, ListsTheorems!Store!DeletePage,
         Overlap!Replied, ListsTheorems!Store!Replied, Overlap!CanDelete,
         ListsTheorems!Store!CanDelete, Overlap!CanMove, ListsTheorems!Store!CanMove,
         Overlap!ServeRead, ListsTheorems!Store!ServeRead, Overlap!ServeMove,
         ListsTheorems!Store!ServeMove, Overlap!ServeDelete, ListsTheorems!Store!ServeDelete,
         Overlap!Serve, ListsTheorems!Store!Serve, Overlap!Fail, ListsTheorems!Store!Fail,
         Overlap!Listing, ListsTheorems!Store!Listing, Overlap!Merged,
         ListsTheorems!Store!Merged, Overlap!Pruned, ListsTheorems!Store!Pruned,
         Overlap!Refused, ListsTheorems!Store!Refused, Overlap!Receive,
         ListsTheorems!Store!Receive, Overlap!Other, ListsTheorems!Store!Other,
         Overlap!OtherMoves, ListsTheorems!Store!OtherMoves, Overlap!OtherRelocates,
         ListsTheorems!Store!OtherRelocates, Overlap!OtherDeletes,
         ListsTheorems!Store!OtherDeletes, Overlap!OtherEdits, ListsTheorems!Store!OtherEdits,
         Overlap!Next, ListsTheorems!Store!Next, Overlap!Cardinality,
         ListsTheorems!Store!Cardinality, Overlap!Min, ListsTheorems!Store!Min,
         Overlap!RemoveAt, ListsTheorems!Store!RemoveAt, Overlap!Restrict,
         ListsTheorems!Store!Restrict, Overlap!Server!SpaceLive,
         ListsTheorems!Store!Server!SpaceLive, Overlap!Server!Exists,
         ListsTheorems!Store!Server!Exists, Overlap!Server!Live,
         ListsTheorems!Store!Server!Live, Overlap!Server!LiveIn,
         ListsTheorems!Store!Server!LiveIn, Overlap!Server!Children,
         ListsTheorems!Store!Server!Children, Overlap!Server!Group,
         ListsTheorems!Store!Server!Group, Overlap!Server!Before,
         ListsTheorems!Store!Server!Before, Overlap!Server!Place,
         ListsTheorems!Store!Server!Place, Overlap!Server!NextSortOrder,
         ListsTheorems!Store!Server!NextSortOrder, Overlap!Server!HasRoom,
         ListsTheorems!Store!Server!HasRoom, Overlap!Server!ClosedBelow,
         ListsTheorems!Store!Server!ClosedBelow, Overlap!Server!Subtree,
         ListsTheorems!Store!Server!Subtree, Overlap!Server!Above,
         ListsTheorems!Store!Server!Above, Overlap!Server!Depth,
         ListsTheorems!Store!Server!Depth, Overlap!Server!Height,
         ListsTheorems!Store!Server!Height, Overlap!Server!FitsDepth,
         ListsTheorems!Store!Server!FitsDepth, Overlap!Server!MayHang,
         ListsTheorems!Store!Server!MayHang, Overlap!Server!EditPage,
         ListsTheorems!Store!Server!EditPage, Overlap!Server!Promoted,
         ListsTheorems!Store!Server!Promoted, Overlap!Server!Shifted,
         ListsTheorems!Store!Server!Shifted, Overlap!Server!Stamped,
         ListsTheorems!Store!Server!Stamped, Overlap!Server!PagesAfterDelete,
         ListsTheorems!Store!Server!PagesAfterDelete, Overlap!Server!DeletePage,
         ListsTheorems!Store!Server!DeletePage, Overlap!Server!MayMove,
         ListsTheorems!Store!Server!MayMove, Overlap!Server!Renumbered,
         ListsTheorems!Store!Server!Renumbered, Overlap!Server!Indexes,
         ListsTheorems!Store!Server!Indexes, Overlap!Server!Clamped,
         ListsTheorems!Store!Server!Clamped, Overlap!Server!MovedToken,
         ListsTheorems!Store!Server!MovedToken, Overlap!Server!PagesAfterReindex,
         ListsTheorems!Store!Server!PagesAfterReindex, Overlap!Server!MovePageToIndex,
         ListsTheorems!Store!Server!MovePageToIndex, Overlap!Server!Rehomed,
         ListsTheorems!Store!Server!Rehomed, Overlap!Server!MovePageToSpace,
         ListsTheorems!Store!Server!MovePageToSpace, Overlap!Server!Cardinality,
         ListsTheorems!Store!Server!Cardinality, Overlap!Server!Max,
         ListsTheorems!Store!Server!Max, Overlap!Server!Min, ListsTheorems!Store!Server!Min,
         Overlap!Server!NextMonotonic, ListsTheorems!Store!Server!NextMonotonic

LEMMA ListsOfNavigation == NavigationSpec /\ part = "lists" => ListsTheorems!Spec
  <1>1. Lists!Init => ListsTheorems!Init
    BY DEF Lists!Init, ListsTheorems!Init, Lists!Addresses, ListsTheorems!Addresses,
           Lists!HomeUrl, ListsTheorems!HomeUrl, Lists!Overview, ListsTheorems!Overview,
           Lists!Page, ListsTheorems!Page, Lists!DraftOf, ListsTheorems!DraftOf, Lists!AskPage,
           ListsTheorems!AskPage, Lists!AskDraft, ListsTheorems!AskDraft, Lists!Missing,
           ListsTheorems!Missing, Lists!Absent, ListsTheorems!Absent, Lists!Idle,
           ListsTheorems!Idle, Lists!NoCommand, ListsTheorems!NoCommand, Lists!Url,
           ListsTheorems!Url, Lists!Top, ListsTheorems!Top
  <1>2. NavigationInit /\ part = "lists" => ListsTheorems!Init
    BY <1>1 DEF NavigationInit
  <1>3. part = "lists" /\ [NavigationNext]_navigationVars
          => (part = "lists")' /\ [ListsTheorems!Next]_(ListsTheorems!vars)
    BY PartStays, SameLists
    DEF navigationVars, routeVars, ListsTheorems!vars, ListsTheorems!server
  <1> QED
    BY <1>2, <1>3, PTL DEF NavigationSpec, ListsTheorems!Spec

LEMMA QuietOfNavigation == NavigationSpec /\ part = "quiet" => ListsTheorems!Space!Spec
  <1>1. Quiet!Init => ListsTheorems!Space!Init
    BY DEF Quiet!Init, ListsTheorems!Space!Init, Quiet!Listing, ListsTheorems!Space!Listing,
         Quiet!Fetch, ListsTheorems!Space!Fetch
  <1>2. NavigationInit /\ part = "quiet" => ListsTheorems!Space!Init
    BY <1>1 DEF NavigationInit
  <1>3. part = "quiet" /\ [NavigationNext]_navigationVars
          => (part = "quiet")' /\ [ListsTheorems!Space!Next]_(ListsTheorems!Space!vars)
    BY PartStays, SameQuiet
    DEF navigationVars, spaceVars, ListsTheorems!Space!vars, ListsTheorems!Space!server,
      ListsTheorems!Space!store, ListsTheorems!Space!net, ListsTheorems!Space!route,
        ListsTheorems!Space!bounds
  <1> QED
    BY <1>2, <1>3, PTL DEF NavigationSpec, ListsTheorems!Space!Spec

LEMMA OverlapOfNavigation == NavigationSpec /\ part = "overlap" => ListsTheorems!Store!Spec
  <1>1. Overlap!Init => ListsTheorems!Store!Init
    BY ZenonT(60) DEF Overlap!Init, ListsTheorems!Store!Init, Overlap!client,
         ListsTheorems!Store!client, Overlap!vars, ListsTheorems!Store!vars, Overlap!Entity,
         ListsTheorems!Store!Entity, Overlap!Cardinality, ListsTheorems!Store!Cardinality,
         Overlap!Server!TreeCapped, ListsTheorems!Store!Server!TreeCapped,
         Overlap!Server!DepthCapped, ListsTheorems!Store!Server!DepthCapped,
         Overlap!Server!SiblingsCapped, ListsTheorems!Store!Server!SiblingsCapped,
         Overlap!Server!Depth, ListsTheorems!Store!Server!Depth, Overlap!Server!Above,
         ListsTheorems!Store!Server!Above, Overlap!Server!Live, ListsTheorems!Store!Server!Live,
         Overlap!Server!LiveIn, ListsTheorems!Store!Server!LiveIn, Overlap!Server!Exists,
         ListsTheorems!Store!Server!Exists, Overlap!Server!Group,
         ListsTheorems!Store!Server!Group, Overlap!Server!ParentIds,
         ListsTheorems!Store!Server!ParentIds, Overlap!Server!Cardinality,
         ListsTheorems!Store!Server!Cardinality
  <1>2. NavigationInit /\ part = "overlap" => ListsTheorems!Store!Init
    BY <1>1 DEF NavigationInit
  <1>3. part = "overlap" /\ [NavigationNext]_navigationVars
          => (part = "overlap")' /\ [ListsTheorems!Store!Next]_(ListsTheorems!Store!vars)
    BY PartStays, SameOverlap DEF navigationVars, pageVars, ListsTheorems!Store!vars
  <1> QED
    BY <1>2, <1>3, PTL DEF NavigationSpec, ListsTheorems!Store!Spec

LEMMA ListsTypes == NavigationSpec /\ part = "lists" => []Lists!TypeOK
  <1>1. ListsTheorems!RouteAssumption
    BY NavigationAssumption DEF Lists!RouteAssumption, ListsTheorems!RouteAssumption
  <1>2. ListsTheorems!TypeOK => Lists!TypeOK
    BY ZenonT(60) DEF Lists!TypeOK, ListsTheorems!TypeOK, Lists!Addresses,
         ListsTheorems!Addresses, Lists!HomeUrl, ListsTheorems!HomeUrl, Lists!Overview,
         ListsTheorems!Overview, Lists!Page, ListsTheorems!Page, Lists!DraftOf,
         ListsTheorems!DraftOf, Lists!Editing, ListsTheorems!Editing, Lists!Missing,
         ListsTheorems!Missing, Lists!Absent, ListsTheorems!Absent, Lists!AskPage,
         ListsTheorems!AskPage, Lists!AskDraft, ListsTheorems!AskDraft, Lists!Idle,
         ListsTheorems!Idle, Lists!NoCommand, ListsTheorems!NoCommand, Lists!Url,
         ListsTheorems!Url, Lists!Top, ListsTheorems!Top
  <1>3. ListsTheorems!Spec => []ListsTheorems!TypeOK
    BY <1>1, ListsTheorems!RouteTypes
  <1> QED
    BY <1>2, <1>3, ListsOfNavigation, PTL

LEMMA QuietTypes == NavigationSpec /\ part = "quiet" => []Quiet!TypeOK
  <1>1. ListsTheorems!Space!StoreAssumption
    BY NavigationAssumption
    DEF Quiet!StoreAssumption, ListsTheorems!Space!StoreAssumption, Quiet!Commands,
      ListsTheorems!Space!Commands
  <1>2. ListsTheorems!Space!TypeOK => Quiet!TypeOK
    BY ZenonT(60) DEF Quiet!TypeOK, ListsTheorems!Space!TypeOK, Quiet!Listing,
         ListsTheorems!Space!Listing, Quiet!Fetch, ListsTheorems!Space!Fetch, Quiet!InTeam,
         ListsTheorems!Space!InTeam, Quiet!Commands, ListsTheorems!Space!Commands
  <1>3. ListsTheorems!Space!Spec => []ListsTheorems!Space!TypeOK
    BY <1>1, ListsTheorems!SpaceTypes
  <1> QED
    BY <1>2, <1>3, QuietOfNavigation, PTL

LEMMA ListsEndIfGone == NavigationSpec /\ part = "lists" => [][Visit!Bounced => gone]_routeVars
  <1>1. ListsTheorems!RouteAssumption /\ ListsTheorems!Benign
    BY NavigationAssumption
    DEF Lists!RouteAssumption, ListsTheorems!RouteAssumption, ListsTheorems!Benign
  <1>2. ListsTheorems!Spec => ListsTheorems!BounceOnlyIfGone
    BY <1>1, ListsTheorems!PagesAreLeftIfGone
  <1>3. [ListsTheorems!Bounced => gone]_(ListsTheorems!vars) => [Visit!Bounced => gone]_routeVars
    BY DEF Visit!Bounced, ListsTheorems!Bounced, Visit!Url, ListsTheorems!Url, Visit!Top,
           ListsTheorems!Top, ListsTheorems!vars, ListsTheorems!server, routeVars
  <1> QED
    BY <1>2, <1>3, ListsOfNavigation, PTL DEF ListsTheorems!BounceOnlyIfGone

LEMMA QuietIsRight == NavigationSpec /\ part = "quiet" => []Quiet!SidebarIsRight
  <1>1. ListsTheorems!Space!StoreAssumption
    BY NavigationAssumption
    DEF Quiet!StoreAssumption, ListsTheorems!Space!StoreAssumption, Quiet!Commands,
        ListsTheorems!Space!Commands
  <1>2. ListsTheorems!Space!SidebarIsRight => Quiet!SidebarIsRight
    BY DEF Quiet!SidebarIsRight, ListsTheorems!Space!SidebarIsRight, Quiet!InTeam,
           ListsTheorems!Space!InTeam
  <1>3. ListsTheorems!Space!Spec => []ListsTheorems!Space!SidebarIsRight
    BY <1>1, ListsTheorems!TheSidebarIsRight
  <1> QED
    BY <1>2, <1>3, QuietOfNavigation, PTL

LEMMA OverlapFollows ==
    NavigationSpec /\ part = "overlap"
      => [](Overlap!TypeOK /\ Overlap!TreeFollowsTheServer /\ Overlap!OwnMovesDropNothing)
  <1>1. ListsTheorems!Store!StoreAssumption
    BY NavigationAssumption
    DEF Overlap!StoreAssumption, ListsTheorems!Store!StoreAssumption, Overlap!IsFiniteSet,
         ListsTheorems!Store!IsFiniteSet
  <1>2. ListsTheorems!Store!TypeOK => Overlap!TypeOK
    BY ZenonT(60) DEF Overlap!TypeOK, ListsTheorems!Store!TypeOK, Overlap!EntityType,
         ListsTheorems!Store!EntityType, Overlap!IsReply, ListsTheorems!Store!IsReply,
         Overlap!IsCall, ListsTheorems!Store!IsCall, Overlap!Range, ListsTheorems!Store!Range,
         Overlap!Reads, ListsTheorems!Store!Reads, Overlap!Reasons, ListsTheorems!Store!Reasons,
         Overlap!Waiting, ListsTheorems!Store!Waiting, Overlap!Failed,
         ListsTheorems!Store!Failed, Overlap!Answer, ListsTheorems!Store!Answer,
         Overlap!Server!Row, ListsTheorems!Store!Server!Row, Overlap!Server!ParentIds,
         ListsTheorems!Store!Server!ParentIds
  <1>3. /\ ListsTheorems!Store!TreeFollowsTheServer => Overlap!TreeFollowsTheServer
        /\ ListsTheorems!Store!OwnMovesDropNothing => Overlap!OwnMovesDropNothing
    BY ZenonT(60) DEF Overlap!TreeFollowsTheServer, ListsTheorems!Store!TreeFollowsTheServer,
         Overlap!OwnMovesDropNothing, ListsTheorems!Store!OwnMovesDropNothing, Overlap!Agrees,
         ListsTheorems!Store!Agrees, Overlap!Reasons, ListsTheorems!Store!Reasons,
         Overlap!InStep, ListsTheorems!Store!InStep, Overlap!ShownRows,
         ListsTheorems!Store!ShownRows, Overlap!TrueRows, ListsTheorems!Store!TrueRows,
         Overlap!Reached, ListsTheorems!Store!Reached, Overlap!Listed,
         ListsTheorems!Store!Listed, Overlap!ShownParent, ListsTheorems!Store!ShownParent,
         Overlap!ShownGroup, ListsTheorems!Store!ShownGroup, Overlap!Place,
         ListsTheorems!Store!Place, Overlap!Before, ListsTheorems!Store!Before,
         Overlap!Cardinality, ListsTheorems!Store!Cardinality, Overlap!Server!Place,
         ListsTheorems!Store!Server!Place, Overlap!Server!Group,
         ListsTheorems!Store!Server!Group, Overlap!Server!Live, ListsTheorems!Store!Server!Live,
         Overlap!Server!LiveIn, ListsTheorems!Store!Server!LiveIn, Overlap!Server!Exists,
         ListsTheorems!Store!Server!Exists, Overlap!Server!Before,
         ListsTheorems!Store!Server!Before, Overlap!Server!Cardinality,
         ListsTheorems!Store!Server!Cardinality
  <1>4. ListsTheorems!Store!Spec => [](ListsTheorems!Store!TypeOK
          /\ ListsTheorems!Store!TreeFollowsTheServer
                         /\ ListsTheorems!Store!OwnMovesDropNothing)
    BY <1>1, ListsTheorems!StoreFollows
  <1> QED
    BY <1>2, <1>3, <1>4, OverlapOfNavigation, PTL

-----------------------------------------------------------------------------
(* Nobody is sent away from what is there                                     *)

(* Nobody is sent to the front door from a page, draft or space that was there *)
(* all through the visit, "correcting it earlier would turn a slow response     *)
(* into a bounce out of a draft that is really there" (space_view.tsx,          *)
(* docs_main_content.tsx), in the three parts that are routed.                  *)
THEOREM NobodyIsSentAway == NavigationSpec => BounceOnlyIfGone
  <1>1. NavigationSpec => [][NavigationNext]_navigationVars
    BY DEF NavigationSpec
  <1>2. /\ part = "visit" /\ [NavigationNext]_navigationVars => (part = "visit")'
        /\ part = "lists" /\ [NavigationNext]_navigationVars => (part = "lists")'
        /\ part = "routed" /\ [NavigationNext]_navigationVars => (part = "routed")'
        /\ ~InSpace /\ [NavigationNext]_navigationVars => ~InSpace'
        /\ ~(part = "routed") /\ [NavigationNext]_navigationVars => ~(part = "routed")'
    BY PartStays DEF InSpace
  <1>3. InSpace => part = "visit" \/ part = "lists"
    BY DEF InSpace
  <1>4. part = "visit" \/ part = "lists"
          => ([NavigationNext]_navigationVars /\ [Visit!Bounced => gone]_routeVars
                => [InSpace => (Visit!Bounced => gone)]_navigationVars)
    BY PartStays DEF RouteStep, navigationVars
  <1>5. part = "routed"
          => ([NavigationNext]_navigationVars /\ [Routed!Redirect => spaceGone]_spaceVars
                => [part = "routed" => (Routed!Redirect => spaceGone)]_navigationVars)
    BY PartStays DEF SpacesStep, navigationVars
  <1>6. /\ ~InSpace => [InSpace => (Visit!Bounced => gone)]_navigationVars
        /\ ~(part = "routed") => [part = "routed" => (Routed!Redirect => spaceGone)]_navigationVars
    OBVIOUS
  <1>7. NavigationSpec => [][InSpace => (Visit!Bounced => gone)]_navigationVars
    <2>1. NavigationSpec /\ part = "visit" => [][InSpace => (Visit!Bounced => gone)]_navigationVars
      BY <1>1, <1>2, <1>4, VisitsEndIfGone, PTL
    <2>2. NavigationSpec /\ part = "lists" => [][InSpace => (Visit!Bounced => gone)]_navigationVars
      BY <1>1, <1>2, <1>4, ListsEndIfGone, PTL
    <2>3. NavigationSpec /\ ~InSpace => [][InSpace => (Visit!Bounced => gone)]_navigationVars
      BY <1>1, <1>2, <1>6, PTL
    <2> QED
      BY <1>3, <2>1, <2>2, <2>3
  <1>8. NavigationSpec
          => [][part = "routed" => (Routed!Redirect => spaceGone)]_navigationVars
    <2>1. NavigationSpec /\ part = "routed"
            => [][part = "routed" => (Routed!Redirect => spaceGone)]_navigationVars
      BY <1>1, <1>2, <1>5, SpacesEndIfGone, PTL
    <2>2. NavigationSpec /\ ~(part = "routed")
            => [][part = "routed" => (Routed!Redirect => spaceGone)]_navigationVars
      BY <1>1, <1>2, <1>6, PTL
    <2> QED
      BY <2>1, <2>2
  <1> QED
    BY <1>7, <1>8 DEF BounceOnlyIfGone

-----------------------------------------------------------------------------
(* The two spaces between which another user moves pages                      *)

\* The theorems, for these; the routes are those of the first instance.
AcrossTheorems == INSTANCE NavigationPartsProofs WITH
  Ids <- {p1, d1, n1}, InitPages <- {p1}, InitDrafts <- {d1}, PageLinks <- {p1},
  DraftLinks <- {d1}, DefaultPage <- p1, Listed <- TRUE, Failures <- FALSE,
  Outside <- {"discard", "delete"}, MaxOutside <- 1, MaxVisits <- 2, MaxEntries <- 2,
  Spaces <- {s1, s2}, Teams <- {t1}, TeamOf <- [s \in {s1, s2} |-> t1],
  Overlaps <- TRUE, Fails <- FALSE, Grants <- FALSE, Revokes <- TRUE,
  MaxMoves <- 2, MaxCommands <- 1,
  StoreSpaces <- {s1, s2}, Pages <- 1..2, NoPage <- 0, MaxDepth <- 3, MaxSiblings <- 3,
  LockWait <- 0, MaxClock <- 1, MaxStamp <- 9, Title <- [p \in 1..2 |-> 10 - p],
  Opened <- {s1}, MaxInFlight <- 1, MaxCalls <- 2, MaxFailures <- 0, MaxOthers <- 1

LEMMA SameAcross == Across!Next => AcrossTheorems!Store!Next
  BY ZenonT(120) DEF Across!client, AcrossTheorems!Store!client, Across!bounds,
         AcrossTheorems!Store!bounds, Across!vars, AcrossTheorems!Store!vars, Across!Entity,
         AcrossTheorems!Store!Entity, Across!Waiting, AcrossTheorems!Store!Waiting,
         Across!Failed, AcrossTheorems!Store!Failed, Across!Answer, AcrossTheorems!Store!Answer,
         Across!Before, AcrossTheorems!Store!Before, Across!Place, AcrossTheorems!Store!Place,
         Across!Listed, AcrossTheorems!Store!Listed, Across!ShownParent,
         AcrossTheorems!Store!ShownParent, Across!ShownGroup, AcrossTheorems!Store!ShownGroup,
         Across!Reached, AcrossTheorems!Store!Reached, Across!ReceivedListing,
         AcrossTheorems!Store!ReceivedListing, Across!ReceivedPage,
         AcrossTheorems!Store!ReceivedPage, Across!Reindexed, AcrossTheorems!Store!Reindexed,
         Across!DeletedPage, AcrossTheorems!Store!DeletedPage, Across!Subtree,
         AcrossTheorems!Store!Subtree, Across!Call, AcrossTheorems!Store!Call, Across!Reads,
         AcrossTheorems!Store!Reads, Across!Send, AcrossTheorems!Store!Send, Across!FetchPages,
         AcrossTheorems!Store!FetchPages, Across!FetchPage, AcrossTheorems!Store!FetchPage,
         Across!MayDropOn, AcrossTheorems!Store!MayDropOn, Across!MovePage,
         AcrossTheorems!Store!MovePage, Across!DeletePage, AcrossTheorems!Store!DeletePage,
         Across!Replied, AcrossTheorems!Store!Replied, Across!CanDelete,
         AcrossTheorems!Store!CanDelete, Across!CanMove, AcrossTheorems!Store!CanMove,
         Across!ServeRead, AcrossTheorems!Store!ServeRead, Across!ServeMove,
         AcrossTheorems!Store!ServeMove, Across!ServeDelete, AcrossTheorems!Store!ServeDelete,
         Across!Serve, AcrossTheorems!Store!Serve, Across!Fail, AcrossTheorems!Store!Fail,
         Across!Listing, AcrossTheorems!Store!Listing, Across!Merged,
         AcrossTheorems!Store!Merged, Across!Pruned, AcrossTheorems!Store!Pruned,
         Across!Refused, AcrossTheorems!Store!Refused, Across!Receive,
         AcrossTheorems!Store!Receive, Across!Other, AcrossTheorems!Store!Other,
         Across!OtherMoves, AcrossTheorems!Store!OtherMoves, Across!OtherRelocates,
         AcrossTheorems!Store!OtherRelocates, Across!OtherDeletes,
         AcrossTheorems!Store!OtherDeletes, Across!OtherEdits, AcrossTheorems!Store!OtherEdits,
         Across!Next, AcrossTheorems!Store!Next, Across!Cardinality,
         AcrossTheorems!Store!Cardinality, Across!Min, AcrossTheorems!Store!Min,
         Across!RemoveAt, AcrossTheorems!Store!RemoveAt, Across!Restrict,
         AcrossTheorems!Store!Restrict, Across!Server!SpaceLive,
         AcrossTheorems!Store!Server!SpaceLive, Across!Server!Exists,
         AcrossTheorems!Store!Server!Exists, Across!Server!Live,
         AcrossTheorems!Store!Server!Live, Across!Server!LiveIn,
         AcrossTheorems!Store!Server!LiveIn, Across!Server!Children,
         AcrossTheorems!Store!Server!Children, Across!Server!Group,
         AcrossTheorems!Store!Server!Group, Across!Server!Before,
         AcrossTheorems!Store!Server!Before, Across!Server!Place,
         AcrossTheorems!Store!Server!Place, Across!Server!NextSortOrder,
         AcrossTheorems!Store!Server!NextSortOrder, Across!Server!HasRoom,
         AcrossTheorems!Store!Server!HasRoom, Across!Server!ClosedBelow,
         AcrossTheorems!Store!Server!ClosedBelow, Across!Server!Subtree,
         AcrossTheorems!Store!Server!Subtree, Across!Server!Above,
         AcrossTheorems!Store!Server!Above, Across!Server!Depth,
         AcrossTheorems!Store!Server!Depth, Across!Server!Height,
         AcrossTheorems!Store!Server!Height, Across!Server!FitsDepth,
         AcrossTheorems!Store!Server!FitsDepth, Across!Server!MayHang,
         AcrossTheorems!Store!Server!MayHang, Across!Server!EditPage,
         AcrossTheorems!Store!Server!EditPage, Across!Server!Promoted,
         AcrossTheorems!Store!Server!Promoted, Across!Server!Shifted,
         AcrossTheorems!Store!Server!Shifted, Across!Server!Stamped,
         AcrossTheorems!Store!Server!Stamped, Across!Server!PagesAfterDelete,
         AcrossTheorems!Store!Server!PagesAfterDelete, Across!Server!DeletePage,
         AcrossTheorems!Store!Server!DeletePage, Across!Server!MayMove,
         AcrossTheorems!Store!Server!MayMove, Across!Server!Renumbered,
         AcrossTheorems!Store!Server!Renumbered, Across!Server!Indexes,
         AcrossTheorems!Store!Server!Indexes, Across!Server!Clamped,
         AcrossTheorems!Store!Server!Clamped, Across!Server!MovedToken,
         AcrossTheorems!Store!Server!MovedToken, Across!Server!PagesAfterReindex,
         AcrossTheorems!Store!Server!PagesAfterReindex, Across!Server!MovePageToIndex,
         AcrossTheorems!Store!Server!MovePageToIndex, Across!Server!Rehomed,
         AcrossTheorems!Store!Server!Rehomed, Across!Server!MovePageToSpace,
         AcrossTheorems!Store!Server!MovePageToSpace, Across!Server!Cardinality,
         AcrossTheorems!Store!Server!Cardinality, Across!Server!Max,
         AcrossTheorems!Store!Server!Max, Across!Server!Min, AcrossTheorems!Store!Server!Min,
         Across!Server!NextMonotonic, AcrossTheorems!Store!Server!NextMonotonic

LEMMA AcrossOfNavigation == NavigationSpec /\ part = "across" => AcrossTheorems!Store!Spec
  <1>1. Across!Init => AcrossTheorems!Store!Init
    BY ZenonT(60) DEF Across!Init, AcrossTheorems!Store!Init, Across!client,
         AcrossTheorems!Store!client, Across!vars, AcrossTheorems!Store!vars, Across!Entity,
         AcrossTheorems!Store!Entity, Across!Cardinality, AcrossTheorems!Store!Cardinality,
         Across!Server!TreeCapped, AcrossTheorems!Store!Server!TreeCapped,
         Across!Server!DepthCapped, AcrossTheorems!Store!Server!DepthCapped,
         Across!Server!SiblingsCapped, AcrossTheorems!Store!Server!SiblingsCapped,
         Across!Server!Depth, AcrossTheorems!Store!Server!Depth, Across!Server!Above,
         AcrossTheorems!Store!Server!Above, Across!Server!Live,
         AcrossTheorems!Store!Server!Live, Across!Server!LiveIn,
         AcrossTheorems!Store!Server!LiveIn, Across!Server!Exists,
         AcrossTheorems!Store!Server!Exists, Across!Server!Group,
         AcrossTheorems!Store!Server!Group, Across!Server!ParentIds,
         AcrossTheorems!Store!Server!ParentIds, Across!Server!Cardinality,
         AcrossTheorems!Store!Server!Cardinality
  <1>2. NavigationInit /\ part = "across" => AcrossTheorems!Store!Init
    BY <1>1 DEF NavigationInit
  <1>3. part = "across" /\ [NavigationNext]_navigationVars
          => (part = "across")' /\ [AcrossTheorems!Store!Next]_(AcrossTheorems!Store!vars)
    BY PartStays, SameAcross DEF navigationVars, pageVars, AcrossTheorems!Store!vars
  <1> QED
    BY <1>2, <1>3, PTL DEF NavigationSpec, AcrossTheorems!Store!Spec

LEMMA AcrossFollows ==
    NavigationSpec /\ part = "across"
      => [](Across!TypeOK /\ Across!TreeFollowsTheServer /\ Across!OwnMovesDropNothing)
  <1>1. AcrossTheorems!Store!StoreAssumption
    BY NavigationAssumption
    DEF Across!StoreAssumption, AcrossTheorems!Store!StoreAssumption, Across!IsFiniteSet,
         AcrossTheorems!Store!IsFiniteSet
  <1>2. AcrossTheorems!Store!TypeOK => Across!TypeOK
    BY ZenonT(60) DEF Across!TypeOK, AcrossTheorems!Store!TypeOK, Across!EntityType,
         AcrossTheorems!Store!EntityType, Across!IsReply, AcrossTheorems!Store!IsReply,
         Across!IsCall, AcrossTheorems!Store!IsCall, Across!Range, AcrossTheorems!Store!Range,
         Across!Reads, AcrossTheorems!Store!Reads, Across!Reasons, AcrossTheorems!Store!Reasons,
         Across!Waiting, AcrossTheorems!Store!Waiting, Across!Failed,
         AcrossTheorems!Store!Failed, Across!Answer, AcrossTheorems!Store!Answer,
         Across!Server!Row, AcrossTheorems!Store!Server!Row, Across!Server!ParentIds,
         AcrossTheorems!Store!Server!ParentIds
  <1>3. /\ AcrossTheorems!Store!TreeFollowsTheServer => Across!TreeFollowsTheServer
        /\ AcrossTheorems!Store!OwnMovesDropNothing => Across!OwnMovesDropNothing
    BY ZenonT(60) DEF Across!TreeFollowsTheServer, AcrossTheorems!Store!TreeFollowsTheServer,
         Across!OwnMovesDropNothing, AcrossTheorems!Store!OwnMovesDropNothing, Across!Agrees,
         AcrossTheorems!Store!Agrees, Across!Reasons, AcrossTheorems!Store!Reasons,
         Across!InStep, AcrossTheorems!Store!InStep, Across!ShownRows,
         AcrossTheorems!Store!ShownRows, Across!TrueRows, AcrossTheorems!Store!TrueRows,
         Across!Reached, AcrossTheorems!Store!Reached, Across!Listed,
         AcrossTheorems!Store!Listed, Across!ShownParent, AcrossTheorems!Store!ShownParent,
         Across!ShownGroup, AcrossTheorems!Store!ShownGroup, Across!Place,
         AcrossTheorems!Store!Place, Across!Before, AcrossTheorems!Store!Before,
         Across!Cardinality, AcrossTheorems!Store!Cardinality, Across!Server!Place,
         AcrossTheorems!Store!Server!Place, Across!Server!Group,
         AcrossTheorems!Store!Server!Group, Across!Server!Live,
         AcrossTheorems!Store!Server!Live, Across!Server!LiveIn,
         AcrossTheorems!Store!Server!LiveIn, Across!Server!Exists,
         AcrossTheorems!Store!Server!Exists, Across!Server!Before,
         AcrossTheorems!Store!Server!Before, Across!Server!Cardinality,
         AcrossTheorems!Store!Server!Cardinality
  <1>4. AcrossTheorems!Store!Spec => [](AcrossTheorems!Store!TypeOK
          /\ AcrossTheorems!Store!TreeFollowsTheServer
                         /\ AcrossTheorems!Store!OwnMovesDropNothing)
    BY <1>1, AcrossTheorems!StoreFollows
  <1> QED
    BY <1>2, <1>3, <1>4, AcrossOfNavigation, PTL

-----------------------------------------------------------------------------
(* The trees and the indices follow the server, and every part its types     *)

(* A behavior is about one part from its first state to its last.             *)
LEMMA OnePart ==
    ASSUME [NavigationNext]_navigationVars
    PROVE  /\ (part = "alone")' <=> part = "alone"
           /\ (part = "overlap")' <=> part = "overlap"
           /\ (part = "across")' <=> part = "across"
           /\ (part = "visit")' <=> part = "visit"
           /\ (part = "lists")' <=> part = "lists"
           /\ (part = "quiet")' <=> part = "quiet"
           /\ (part = "routed")' <=> part = "routed"
  BY PartStays

(* With nothing under way the tree of a space is the server's, whatever the user *)
(* moved, deleted and fetched there, in the three ways the pages are exercised   *)
(* (entities.ts, page_tree.ts); and a team's index is what the user belongs to   *)
(* there, whatever was created, left and fetched since (bootstrap.ts).           *)
THEOREM StoresFollowTheServer == NavigationSpec => []StoreFollowsTheServer
  BY OnePart, AloneFollows, OverlapFollows, AcrossFollows, QuietIsRight, PTL
  DEF NavigationSpec, StoreFollowsTheServer

(* Every part stays within its types: the rows, the store and the calls of the   *)
(* pages, the history and the loads of a visit, the indices and the requests of  *)
(* the spaces (entities.ts, hooks/pages.ts, hooks/spaces.ts).                    *)
THEOREM NavigationTypes == NavigationSpec => []TypesOK
  BY OnePart, AloneFollows, OverlapFollows, AcrossFollows, VisitTypes, ListsTypes, QuietTypes,
     RoutedTypes, PTL
  DEF NavigationSpec, TypesOK

=============================================================================
