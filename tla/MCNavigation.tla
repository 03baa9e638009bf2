----------------------------- MODULE MCNavigation -----------------------------
(***************************************************************************)
(* Model checking of the client's stores and of the routes that read them: *)
(* the pages of the spaces, the address inside a space, the spaces and the *)
(* address of a space.  A behavior exercises one part, which it names; the *)
(* others rest in their first state, for the parts share no state.         *)
(***************************************************************************)
EXTENDS Naturals

CONSTANTS s1, s2, t1, t2, p1, d1, n1, NoSpace, Forced, NoId, Home, None

VARIABLES
  part,
  rows, known, listed, calls, drift, sent, failures, others,
  pages, drafts, store, entries, load, late, lists, busy, gone, hops, outside, visits,
  visible, spaceRows, index, listings, fetches, checked, team, at, viewed, command,
  moves, commands, teamsListed, spaceGone

pageVars == <<rows, known, listed, calls, drift, sent, failures, others>>
routeVars == <<pages, drafts, store, entries, load, late, lists, busy, gone, hops,
               outside, visits>>
spaceVars == <<visible, spaceRows, index, listings, fetches, checked, team, at, viewed,
               command, moves, commands, teamsListed, spaceGone>>
navigationVars == <<part, pageVars, routeVars, spaceVars>>

\* Titles sort against the ids.
Backwards == [p \in 1..3 |-> 10 - p]

\* One space, one call at a time, one failure.
Alone == INSTANCE PageStore WITH
  Spaces <- {s1}, Pages <- 1..3, NoPage <- 0, MaxDepth <- 3, MaxSiblings <- 3,
  LockWait <- 0, MaxClock <- 1, MaxStamp <- 9, Title <- Backwards,
  Opened <- {}, MaxInFlight <- 1, MaxCalls <- 3, MaxFailures <- 1, MaxOthers <- 0

\* Two calls under way, no other user.
Overlap == INSTANCE PageStore WITH
  Spaces <- {s1}, Pages <- 1..3, NoPage <- 0, MaxDepth <- 3, MaxSiblings <- 3,
  LockWait <- 0, MaxClock <- 1, MaxStamp <- 9, Title <- Backwards,
  Opened <- {s1}, MaxInFlight <- 2, MaxCalls <- 2, MaxFailures <- 0, MaxOthers <- 0

\* Two spaces; another user writes, too, and may move a page between them.
Across == INSTANCE PageStore WITH
  Spaces <- {s1, s2}, Pages <- 1..2, NoPage <- 0, MaxDepth <- 3, MaxSiblings <- 3,
  LockWait <- 0, MaxClock <- 1, MaxStamp <- 9, Title <- [p \in 1..2 |-> 10 - p],
  Opened <- {s1}, MaxInFlight <- 1, MaxCalls <- 2, MaxFailures <- 0, MaxOthers <- 1

\* A listed space: a page, a draft and a new draft; others discard and delete.
Visit == INSTANCE PageRoute WITH
  Ids <- {p1, d1, n1}, InitPages <- {p1}, InitDrafts <- {d1}, PageLinks <- {p1},
  DraftLinks <- {d1}, DefaultPage <- p1, Listed <- TRUE, Failures <- FALSE,
  Outside <- {"discard", "delete"}, MaxOutside <- 1, MaxVisits <- 2, MaxEntries <- 2

\* The listings of the space race with what the address loads.
Lists == INSTANCE PageRoute WITH
  Ids <- {p1, d1}, InitPages <- {p1}, InitDrafts <- {d1}, PageLinks <- {p1},
  DraftLinks <- {d1}, DefaultPage <- p1, Listed <- FALSE, Failures <- FALSE,
  Outside <- {"discard", "delete"}, MaxOutside <- 1, MaxVisits <- 1, MaxEntries <- 2

\* A space in each of two teams, requests that fail, nobody else.
Quiet == INSTANCE SpaceStore WITH
  rows <- spaceRows, visits <- moves, listed <- teamsListed, gone <- spaceGone,
  Spaces <- {s1, s2}, Teams <- {t1, t2}, TeamOf <- [s \in {s1, s2} |-> IF s = s1 THEN t1 ELSE t2],
  Overlaps <- FALSE, Fails <- TRUE, Grants <- FALSE, Revokes <- FALSE,
  MaxVisits <- 2, MaxCommands <- 2

\* Two spaces of one team, listings that overlap with commands, access revoked.
Routed == INSTANCE SpaceStore WITH
  rows <- spaceRows, visits <- moves, listed <- teamsListed, gone <- spaceGone,
  Spaces <- {s1, s2}, Teams <- {t1}, TeamOf <- [s \in {s1, s2} |-> t1],
  Overlaps <- TRUE, Fails <- FALSE, Grants <- FALSE, Revokes <- TRUE,
  MaxVisits <- 2, MaxCommands <- 1

ASSUME NavigationAssumption ==
  /\ Alone!StoreAssumption /\ Overlap!StoreAssumption /\ Across!StoreAssumption
  /\ Visit!RouteAssumption /\ Lists!RouteAssumption
  /\ Quiet!StoreAssumption /\ Routed!StoreAssumption

-----------------------------------------------------------------------------

PagesRest == Alone!Init /\ \A p \in 1..3 : rows[p].parentId = 0
RouteRests == Visit!Init /\ Visit!Url.at = "overview"
SpacesRest == Quiet!Init /\ at = Home /\ visible = {} /\ team = t1

NavigationInit ==
  \/ /\ \/ part = "alone" /\ Alone!Init
        \/ part = "overlap" /\ Overlap!Init
        \/ part = "across" /\ Across!Init
     /\ RouteRests /\ SpacesRest
  \/ /\ \/ part = "visit" /\ Visit!Init
        \/ part = "lists" /\ Lists!Init
     /\ PagesRest /\ SpacesRest
  \/ /\ \/ part = "quiet" /\ Quiet!Init
        \/ part = "routed" /\ Routed!Init
     /\ PagesRest /\ RouteRests

PagesStep == UNCHANGED <<part, routeVars, spaceVars>>
RouteStep == UNCHANGED <<part, pageVars, spaceVars>>
SpacesStep == UNCHANGED <<part, pageVars, routeVars>>

NavigationNext ==
  \/ part = "alone" /\ Alone!Next /\ PagesStep
  \/ part = "overlap" /\ Overlap!Next /\ PagesStep
  \/ part = "across" /\ Across!Next /\ PagesStep
  \/ part = "visit" /\ Visit!Next /\ RouteStep
  \/ part = "lists" /\ Lists!Next /\ RouteStep
  \/ part = "quiet" /\ Quiet!Next /\ SpacesStep
  \/ part = "routed" /\ Routed!Next /\ SpacesStep

\* The fairness of PageRoute and SpaceStore, each while its part is exercised.
NavigationFairness ==
  /\ WF_routeVars(part = "visit" /\ Visit!Answering)
  /\ WF_routeVars(part = "visit" /\ Visit!Redirect)
  /\ WF_routeVars(part = "lists" /\ Lists!Answering)
  /\ WF_routeVars(part = "lists" /\ Lists!Redirect)
  /\ WF_spaceVars(part = "routed" /\ Routed!Redirect)
  /\ \A s \in {s1, s2} : WF_spaceVars(part = "routed" /\ Routed!Answering(s))

NavigationSpec ==
  /\ NavigationInit /\ [][NavigationNext]_navigationVars /\ NavigationFairness

-----------------------------------------------------------------------------
(* Properties *)

InSpace == part \in {"visit", "lists"}

TypesOK ==
  /\ part = "alone" => Alone!TypeOK
  /\ part = "overlap" => Overlap!TypeOK
  /\ part = "across" => Across!TypeOK
  /\ part = "visit" => Visit!TypeOK
  /\ part = "lists" => Lists!TypeOK
  /\ part = "quiet" => Quiet!TypeOK
  /\ part = "routed" => Routed!TypeOK

\* With nothing under way the client's tree is the server's, unless since the last
\* listing another user wrote, calls overlapped, one other than a move failed, a
\* delete promoted subpages (the client prunes them) or a page strayed in from
\* another space: the optimistic renumbering, the merge of a move's answer, its
\* refetch and the pruning of deletes leave what the server has, and no page of
\* the list loses its row (entities.ts, page_tree.ts).  A listed team's index is
\* what the user belongs to there, whatever was created, left and fetched since
\* (bootstrap.ts).
StoreFollowsTheServer ==
  /\ part = "alone" => Alone!TreeFollowsTheServer /\ Alone!OwnMovesDropNothing
  /\ part = "overlap" => Overlap!TreeFollowsTheServer
  /\ part = "across" => Across!TreeFollowsTheServer
  /\ part = "quiet" => Quiet!SidebarIsRight

\* Nobody is sent away from a page, draft or space that was there all through
\* the visit: "correcting it earlier would turn a slow response into a bounce out
\* of a draft that is really there" (space_view.tsx, docs_main_content.tsx).
BounceOnlyIfGone ==
  /\ [][InSpace => (Visit!Bounced => gone)]_navigationVars
  /\ [][part = "routed" => (Routed!Redirect => spaceGone)]_navigationVars

\* Every address is shown in the end or corrected, and no correction leads to
\* another: a routed page, draft or space arrives, or the user is taken where
\* something is (space_view.tsx, hooks/spaces.ts).
RouteSettles ==
  /\ [](InSpace => Visit!RedirectsSettle)
  /\ part = "visit" => Visit!RouteSettles
  /\ part = "lists" => Lists!RouteSettles
  /\ part = "routed" => Routed!RouteSettles

=============================================================================
