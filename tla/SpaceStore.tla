----------------------------- MODULE SpaceStore -----------------------------
(***************************************************************************)
(* The spaces the client knows and the space its URL names.  Rows and one  *)
(* index per team are filled by the listing of the team the product was    *)
(* mounted in, by the switcher's listing of every team, by single fetches  *)
(* of a routed space and by creating, leaving and archiving; an index      *)
(* entry doubles as "this team's list is loaded".                          *)
(***************************************************************************)
EXTENDS Naturals, FiniteSets

CONSTANTS
  Spaces, Teams, TeamOf,
  Home,        \* the product's front page
  None,        \* nothing asked, no index, no answer
  Overlaps,    \* a listing may be under way while a space is created or left
  Fails,       \* requests may fail
  Grants,      \* somebody else may add the user to a space
  Revokes,     \* ... or take the space away
  MaxVisits,   \* bound on the user's navigations
  MaxCommands  \* bound on creations, departures and changes by others

\* A creation, departure or archiving; seen is where the user was who left.
Commands ==
  [op : {"create", "leave"}, space : Spaces, seen : Spaces \cup {Home, None}, done : BOOLEAN]

StoreAssumption ==
  /\ TeamOf \in [Spaces -> Teams] /\ Home \notin Spaces
  /\ None \notin Spaces \cup BOOLEAN \cup Commands
  /\ \A known \in SUBSET Spaces : None # known
  /\ {Overlaps, Fails, Grants, Revokes} \subseteq BOOLEAN
  /\ MaxVisits \in Nat /\ MaxCommands \in Nat

VARIABLES
  visible,   \* server: the live spaces the user is a member of
  rows,      \* entities.spaces
  index,     \* entities.spacesInTeam: a set per team, or None
  listings,  \* listings under way: [team, read], read None before it is answered
  fetches,   \* single fetches under way: [space, found, live]; found is None
             \* before the answer, live while the view that asked waits for it
  checked,   \* useRoutedSpace's checkedId
  team, at,  \* the URL: a team, and a space or Home
  viewed,    \* recent_spaces: the spaces viewed
  command,   \* a creation, departure or archiving under way, or None
  visits, commands,
  listed,    \* history: the teams whose listing arrived
  gone       \* history: the routed space was not visible since it was routed

server == visible
store == <<rows, index>>
net == <<listings, fetches>>
route == <<checked, team, at, viewed, gone>>
bounds == <<visits, commands>>
vars == <<server, store, net, route, command, bounds, listed>>

InTeam(t) == {s \in Spaces : TeamOf[s] = t}
Listing(t) == [team |-> t, read |-> None]
Fetch(s) == [space |-> s, found |-> None, live |-> TRUE]

\* useBootstrapDocs: the product mounts in a team and lists it.
Init ==
  /\ visible \in SUBSET Spaces
  /\ rows = {} /\ index = [t \in Teams |-> None]
  /\ team \in Teams /\ at \in Spaces \cup {Home}
  /\ listings = {Listing(team)}
  /\ fetches = {Fetch(s) : s \in {at} \ {Home}}
  /\ checked = None
  /\ viewed = {at} \ {Home}
  /\ gone = (at # Home /\ at \notin visible)
  /\ command = None
  /\ visits = 0 /\ commands = 0
  /\ listed = {}

-----------------------------------------------------------------------------
(* The reducers *)

\* RECEIVED_SPACES of one team's listing replaces that team's index.
Scoped(t, ss) == [index EXCEPT ![t] = ss \cap InTeam(t)]

Known(t) == IF index[t] = None THEN {} ELSE index[t]

\* ... and without a team it is merged, seeding the indices it touches.
Merged(ss) ==
  [t \in Teams |-> IF ss \cap InTeam(t) = {} THEN index[t] ELSE Known(t) \cup (ss \cap InTeam(t))]

\* CREATED_SPACE adds only to an index that is there.
Created(s) == [index EXCEPT ![TeamOf[s]] = IF @ = None THEN None ELSE @ \cup {s}]

Deleted(s) == [t \in Teams |-> IF index[t] = None THEN None ELSE index[t] \ {s}]

\* useRoutedSpace's effect on [spaceId, missing].
Asking(x, rs) ==
  /\ x # Home /\ x \notin rs
  /\ x # at \/ at \in rows

\* The effect's cleanup: nobody waits for the earlier answers any more.
Stale == {[f EXCEPT !.live = FALSE] : f \in fetches}

\* The routed view after a navigation to x and with rows rs: leaving for Home
\* unmounts it, a new question replaces the old one.
Routed(x, rs) ==
  /\ at' = x
  /\ fetches' = IF Asking(x, rs) THEN Stale \cup {Fetch(x)}
                ELSE IF x = Home \/ x \in rs THEN Stale ELSE fetches
  /\ viewed' = viewed \cup ({x} \ {Home})
  /\ gone' = IF x = Home THEN FALSE ELSE (x = at /\ gone) \/ x \notin visible'

\* Nothing is asked while a space is created or left, unless Overlaps.
MayAsk == command # None => Overlaps

Kept(x) == checked' = IF x = Home THEN None ELSE checked

-----------------------------------------------------------------------------
(* Listings *)

ReadListing(l) ==
  /\ l.read = None
  /\ listings' = (listings \ {l}) \cup {[l EXCEPT !.read = visible \cap InTeam(l.team)]}
  /\ UNCHANGED <<server, store, fetches, route, command, bounds, listed>>

ListingArrives(l) ==
  /\ l.read # None
  /\ listings' = listings \ {l}
  /\ rows' = rows \cup l.read
  /\ index' = Scoped(l.team, l.read)
  /\ listed' = listed \cup {l.team}
  /\ UNCHANGED server
  /\ Routed(at, rows') /\ Kept(at)
  /\ UNCHANGED <<team, command, bounds>>

ListingFails(l) ==
  /\ Fails
  /\ listings' = listings \ {l}
  /\ UNCHANGED <<server, store, fetches, route, command, bounds, listed>>

\* The switcher's fetchAllSpaces; each team's listing may fail by itself.  Its
\* answers are taken as read when they are merged.
SwitcherLists ==
  /\ MayAsk /\ visits < MaxVisits
  /\ visits' = visits + 1
  /\ \E ts \in (IF Fails THEN SUBSET Teams ELSE {Teams}) :
       /\ LET ss == {s \in visible : TeamOf[s] \in ts}
          IN rows' = rows \cup ss /\ index' = Merged(ss)
  /\ UNCHANGED server
  /\ Routed(at, rows') /\ Kept(at)
  /\ UNCHANGED <<listings, team, command, commands, listed>>

-----------------------------------------------------------------------------
(* The routed space *)

ReadSpace(f) ==
  /\ f.found = None
  /\ fetches' = (fetches \ {f}) \cup {[f EXCEPT !.found = f.space \in visible]}
  /\ UNCHANGED <<server, store, listings, route, command, bounds, listed>>

\* Mutant of Settled: any answer settles the space the URL names by now.
SettledAny(f, found) == at

\* The effect that asked notes the id, unless it has ended: the view asks for
\* another space by now, or the space that was found is in the store.
Settled(f, found) == IF f.live /\ ~ found THEN f.space ELSE checked

\* fetchSpace settles: the space, or an answer that it is not there.
SpaceAnswered(f, found) ==
  /\ rows' = IF found THEN rows \cup {f.space} ELSE rows
  /\ index' = IF found THEN Merged({f.space}) ELSE index
  /\ checked' = Settled(f, found)
  /\ fetches' = fetches \ {f}
  /\ UNCHANGED <<server, listings, team, at, viewed, gone, command, bounds, listed>>

SpaceArrives(f) == f.found # None /\ SpaceAnswered(f, f.found)
SpaceFails(f) == Fails /\ SpaceAnswered(f, FALSE)

\* RoutedSpaceView: an answered id with no space corrects the URL.
Redirect ==
  /\ at # Home /\ at \notin rows /\ checked = at
  /\ UNCHANGED <<server, store>>
  /\ Routed(Home, rows) /\ Kept(Home)
  /\ UNCHANGED <<listings, team, command, bounds, listed>>

-----------------------------------------------------------------------------
(* The user *)

\* A link in the product, the browser's Back, a card on the home page.  The id
\* of a space being created is nobody's yet.
GoTo(x) ==
  /\ MayAsk /\ visits < MaxVisits /\ x # at
  /\ command # None => ~(command.op = "create" /\ command.space = x)
  /\ visits' = visits + 1
  /\ UNCHANGED <<server, store>>
  /\ Routed(x, rows) /\ Kept(x)
  /\ UNCHANGED <<listings, team, command, commands, listed>>

\* Another team: the host mounts the product again, the store stays.
EnterTeam(t) ==
  /\ MayAsk /\ visits < MaxVisits /\ t # team /\ Listing(t) \notin listings
  /\ visits' = visits + 1
  /\ team' = t
  /\ listings' = listings \cup {Listing(t)}
  /\ UNCHANGED <<server, store>>
  /\ Routed(Home, rows) /\ Kept(Home)
  /\ UNCHANGED <<command, commands, listed>>

MayCommand == command = None /\ commands < MaxCommands /\ (Overlaps \/ (listings = {} /\ fetches = {}))

\* createSpace in the current team.
Create(s) ==
  /\ MayCommand /\ TeamOf[s] = team /\ s \notin visible /\ s \notin rows /\ s \notin viewed
  /\ command' = [op |-> "create", space |-> s, seen |-> None, done |-> FALSE]
  /\ commands' = commands + 1
  /\ UNCHANGED <<server, store, net, route, visits, listed>>

\* useLeaveSpace: the URL is the one of this moment.  Archiving prunes the same.
Leave(s) ==
  /\ MayCommand /\ s \in rows
  /\ command' = [op |-> "leave", space |-> s, seen |-> at, done |-> FALSE]
  /\ commands' = commands + 1
  /\ UNCHANGED <<server, store, net, route, visits, listed>>

ServerCommand ==
  /\ command # None /\ ~command.done
  /\ command.op = "leave" => command.space \in visible
  /\ visible' = IF command.op = "create" THEN visible \cup {command.space} ELSE visible \ {command.space}
  /\ command' = [command EXCEPT !.done = TRUE]
  /\ gone' = (gone \/ (at # Home /\ at \notin visible'))
  /\ UNCHANGED <<store, net, checked, team, at, viewed, bounds, listed>>

\* onCreated goes to the new space.
CreateAnswered ==
  /\ command # None /\ command.op = "create" /\ command.done
  /\ rows' = rows \cup {command.space}
  /\ index' = Created(command.space)
  /\ command' = None
  /\ UNCHANGED server
  /\ Routed(command.space, rows') /\ Kept(command.space)
  /\ UNCHANGED <<listings, team, bounds, listed>>

\* DELETED_SPACE, and home if the space left was the one in view.
LeaveAnswered ==
  /\ command # None /\ command.op = "leave" /\ command.done
  /\ rows' = rows \ {command.space}
  /\ index' = Deleted(command.space)
  /\ command' = None
  /\ UNCHANGED server
  /\ LET x == IF command.seen = command.space THEN Home ELSE at
     IN Routed(x, rows') /\ Kept(x)
  /\ UNCHANGED <<listings, team, bounds, listed>>

\* Refused, as for a space's last member, or not one any more.
CommandFails ==
  /\ command # None /\ ~command.done
  /\ command' = None
  /\ UNCHANGED <<server, store, net, route, bounds, listed>>

Change(v) ==
  /\ commands < MaxCommands
  /\ visible' = v
  /\ commands' = commands + 1
  /\ gone' = (gone \/ (at # Home /\ at \notin v))
  /\ UNCHANGED <<store, net, checked, team, at, viewed, command, visits, listed>>

Grant(s) == Grants /\ s \notin visible /\ (command # None => command.space # s) /\ Change(visible \cup {s})
Revoke(s) == Revokes /\ s \in visible /\ Change(visible \ {s})

Answers ==
  \/ \E l \in listings : ReadListing(l) \/ ListingArrives(l)
  \/ \E f \in fetches : ReadSpace(f) \/ SpaceArrives(f)

Next ==
  \/ Answers
  \/ \E l \in listings : ListingFails(l)
  \/ \E f \in fetches : SpaceFails(f)
  \/ Redirect \/ SwitcherLists
  \/ \E x \in Spaces \cup {Home} : GoTo(x)
  \/ \E t \in Teams : EnterTeam(t)
  \/ \E s \in Spaces : Create(s) \/ Leave(s) \/ Grant(s) \/ Revoke(s)
  \/ ServerCommand \/ CreateAnswered \/ LeaveAnswered \/ CommandFails

Spec == Init /\ [][Next]_vars

\* Requests are answered and redirects render.
Answering(s) == \E f \in fetches : f.space = s /\ (ReadSpace(f) \/ SpaceArrives(f))

\* Requests are answered and redirects render.
Fairness ==
  /\ WF_vars(Redirect)
  /\ \A s \in Spaces : WF_vars(Answering(s))

-----------------------------------------------------------------------------
(* Properties *)

TypeOK ==
  /\ visible \subseteq Spaces /\ rows \subseteq Spaces
  /\ \A t \in Teams : index[t] = None \/ index[t] \subseteq InTeam(t) \cap rows
  /\ \A l \in listings : l.team \in Teams /\ (l.read = None \/ l.read \subseteq InTeam(l.team))
  /\ \A f \in fetches : f.space \in Spaces /\ f.found \in BOOLEAN \cup {None} /\ f.live \in BOOLEAN
  /\ checked \in Spaces \cup {None}
  /\ team \in Teams /\ at \in Spaces \cup {Home} /\ viewed \subseteq Spaces
  /\ command \in Commands \cup {None}
  /\ visits \in 0..MaxVisits /\ commands \in 0..MaxCommands
  /\ listed \subseteq Teams /\ gone \in BOOLEAN

\* "Once the id has an answer and there's no space, it names one the user can't
\* see or one that's gone" (docs_main_content.tsx): the URL is corrected only
\* for a space that was out of reach since it was routed.
BounceOnlyIfGone == [][Redirect => gone]_vars

\* "Returns the current team's spaces the caller belongs to" (bootstrap.ts):
\* once a team was listed, and with nothing under way, its index is what the
\* user belongs to there, whatever was created, left and fetched since.
SidebarIsRight ==
  command = None /\ listings = {} /\ fetches = {}
    => \A t \in listed : index[t] = visible \cap InTeam(t)

\* "So a stale entry can't hide a space, and a newly created one still appears"
\* (use_sidebar_spaces.ts): the space that was created and is being shown is
\* listed once its team is.
\* Not kept: a listing asked for before the creation arrives after it.
CreatedAppears ==
  at # Home /\ at \in rows \cap visible /\ TeamOf[at] \in listed => at \in Known(TeamOf[at])

\* "Only an empty list that's actually settled means no spaces"
\* (docs_home.tsx): the welcome hero greets nobody before the team is listed.
Hero == at = Home /\ index[team] # None /\ viewed \cap index[team] = {}
\* Not kept: the index that one fetched space seeded counts as the list.
HeroOnlyIfListed == Hero => team \in listed

\* "navigating home if the space being viewed is the one left"
\* (hooks/leave_space.ts).
\* Not kept: the user has gone to another space before the answer.
LeavingOneStaysInOther ==
  [][LeaveAnswered /\ at # Home /\ at' = Home => at = command.space]_vars

\* "False until the id has an answer" (hooks/spaces.ts): every routed space is
\* shown or corrected in the end.
RouteSettles == []<>(at = Home \/ at \in rows)
=============================================================================
