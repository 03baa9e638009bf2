------------------------- MODULE NavigationPartsProofs -------------------------
(***************************************************************************)
(* Proofs about the parts of MCNavigation, PageRoute, SpaceStore and       *)
(* PageStore: their types, for any pages, drafts, spaces and teams and any *)
(* number of visits, commands and changes by others; that a visit ends at  *)
(* the overview, or at the home page, only when what it was for is gone    *)
(* from the server; that a team's index is what the user belongs to once   *)
(* nothing is under way; and that the client's tree of a space is then the *)
(* server's.                                                               *)
(***************************************************************************)
EXTENDS PageRoute, FiniteSetsExt, SequencesExt, Functions, FiniteSetTheorems, TLAPS

CONSTANTS Spaces, Teams, TeamOf, Home, None, Overlaps, Fails, Grants, Revokes, MaxMoves,
          MaxCommands

CONSTANTS StoreSpaces, Pages, NoPage, NoSpace, Forced, MaxDepth, MaxSiblings, LockWait,
          MaxClock, MaxStamp, Opened, Title, MaxInFlight, MaxCalls, MaxFailures, MaxOthers

VARIABLES visible, spaceRows, index, listings, fetches, checked, team, at, viewed, command,
          moves, commands, teamsListed, spaceGone

VARIABLES rows, known, listed, calls, drift, sent, failures, others

Space == INSTANCE SpaceStore WITH
  rows <- spaceRows, visits <- moves, listed <- teamsListed, gone <- spaceGone,
  MaxVisits <- MaxMoves

-----------------------------------------------------------------------------
(* The history of the browser *)

Held(es) == {es[i] : i \in DOMAIN es}

LEMMA TopHeld ==
    ASSUME NEW S, NEW es \in Seq(S), es # <<>>
    PROVE  /\ Len(es) \in Nat \ {0} /\ Top(es) \in Held(es) /\ Top(es) \in S /\ Held(es) \subseteq S
  <1>1. Len(es) \in Nat \ {0} /\ DOMAIN es = 1..Len(es)
    OBVIOUS
  <1>2. Len(es) \in DOMAIN es
    BY <1>1
  <1>3. \A i \in DOMAIN es : es[i] \in S
    OBVIOUS
  <1> QED
    BY <1>1, <1>2, <1>3 DEF Top, Held

LEMMA Pushed ==
    ASSUME NEW S, NEW es \in Seq(S), NEW u \in S
    PROVE  /\ Append(es, u) \in Seq(S) /\ Append(es, u) # <<>>
           /\ Len(Append(es, u)) = Len(es) + 1 /\ Top(Append(es, u)) = u
           /\ Held(Append(es, u)) = Held(es) \cup {u}
  <1> DEFINE new == Append(es, u)
  <1>1. new \in Seq(S) /\ Len(new) = Len(es) + 1 /\ Len(es) \in Nat
    OBVIOUS
  <1>2. /\ DOMAIN new = 1..(Len(es) + 1) /\ DOMAIN es = 1..Len(es)
        /\ \A i \in 1..Len(es) : new[i] = es[i]
        /\ new[Len(es) + 1] = u
    OBVIOUS
  <1> HIDE DEF new
  <1>3. Held(new) = Held(es) \cup {u}
    <2>1. \A i \in DOMAIN new : i \in DOMAIN es \/ i = Len(es) + 1
      BY <1>1, <1>2
    <2>2. DOMAIN es \subseteq DOMAIN new /\ Len(es) + 1 \in DOMAIN new
      BY <1>1, <1>2
    <2> QED
      BY <1>2, <2>1, <2>2 DEF Held
  <1>4. new # <<>>
    BY <1>1
  <1> QED
    BY <1>1, <1>2, <1>3, <1>4 DEF Top, new

Topped(es, u) == [es EXCEPT ![Len(es)] = u]

LEMMA Replaced ==
    ASSUME NEW S, NEW es \in Seq(S), es # <<>>, NEW u \in S, NEW new, new = Topped(es, u)
    PROVE  /\ new \in Seq(S) /\ new # <<>> /\ Len(new) = Len(es) /\ Top(new) = u
           /\ Held(new) \subseteq Held(es) \cup {u}
  <1>1. Len(es) \in Nat \ {0} /\ DOMAIN es = 1..Len(es) /\ Len(es) \in DOMAIN es
    <2>1. Len(es) \in Nat \ {0} /\ DOMAIN es = 1..Len(es)
      OBVIOUS
    <2> QED
      BY <2>1
  <1>2. new \in Seq(S) /\ Len(new) = Len(es) /\ DOMAIN new = DOMAIN es
    BY <1>1 DEF Topped
  <1>3. \A i \in DOMAIN es : new[i] = IF i = Len(es) THEN u ELSE es[i]
    BY <1>1 DEF Topped
  <1>4. Top(new) = u
    BY <1>1, <1>2, <1>3 DEF Top
  <1>5. Held(new) \subseteq Held(es) \cup {u}
    BY <1>2, <1>3 DEF Held
  <1>6. new # <<>>
    BY <1>1, <1>2
  <1> QED
    BY <1>2, <1>4, <1>5, <1>6

LEMMA Shortened ==
    ASSUME NEW S, NEW es \in Seq(S), Len(es) > 1, NEW new, new = SubSeq(es, 1, Len(es) - 1)
    PROVE  /\ new \in Seq(S) /\ new # <<>> /\ Len(new) = Len(es) - 1
           /\ Held(new) \subseteq Held(es)
  <1>1. Len(es) \in Nat /\ DOMAIN es = 1..Len(es)
    OBVIOUS
  <1>2. Len(new) = Len(es) - 1 /\ DOMAIN new = 1..(Len(es) - 1)
          /\ \A i \in 1..(Len(es) - 1) : new[i] = es[i]
    BY <1>1
  <1>3. \A i \in 1..(Len(es) - 1) : i \in DOMAIN es
    BY <1>1
  <1>4. new \in Seq(S)
    BY <1>1
  <1>5. new # <<>>
    <2>1. Len(new) # 0
      BY <1>1, <1>2
    <2> QED
      BY <1>4, <2>1, Zenon
  <1>6. Held(new) \subseteq Held(es)
    BY <1>2, <1>3 DEF Held
  <1> QED
    BY <1>2, <1>4, <1>5, <1>6

-----------------------------------------------------------------------------
(* Types *)

\* What the history, the load, the client's store and a command are made of.
Address ==
  {url \in [at : {"home", "overview", "page", "draft"}, id : Ids \cup {NoId}, edit : BOOLEAN] :
     /\ url.at \in {"home", "overview"} <=> url.id = NoId
     /\ url.edit => url.id # NoId}
Request == {"idle", "sent", "found", "absent", "failed"}
Loads == [loaded : Ids \cup {NoId}, draft : Request, checked : Ids \cup {NoId}, page : Request]
Listing == [phase : {"idle", "sent", "read"}, ids : SUBSET Ids]
Stores == [pages : SUBSET Ids, listed : SUBSET Ids, draft : [Ids -> {"none", "summary", "full"}]]
Commands ==
  {c \in [op : {"none", "create", "publish", "discard", "delete"}, id : Ids \cup {NoId},
          viewing : BOOLEAN, phase : {"idle", "sent", "ok", "failed"}] :
     /\ c.op = "none" <=> c.phase = "idle"
     /\ c.op \in {"publish", "discard", "delete"} => c.id \in Ids
     /\ c.op = "create" /\ c.phase = "ok" => c.id \in Ids}

\* A load is for the address that is routed, and a page is asked for only while
\* the client does not have it.
LoadFits ==
  /\ load.loaded \in {NoId, Url.id}
  /\ load.draft # "idle" => Url.id # NoId
  /\ load.page # "idle" => Url.at = "page" /\ Url.id \notin store.pages

Types ==
  /\ pages \subseteq Ids /\ drafts \subseteq Ids
  /\ store \in Stores
  /\ entries \in Seq(Address) /\ entries # <<>>
  /\ load \in Loads /\ LoadFits
  /\ late \subseteq Ids
  /\ lists \in [pages : Listing, drafts : Listing]
  /\ busy \in Commands
  /\ gone \in BOOLEAN /\ hops \in Nat
  /\ visits \in Nat /\ visits <= MaxVisits

LEMMA AddressFacts ==
    ASSUME RouteAssumption
    PROVE  /\ NoId \notin Ids
           /\ HomeUrl \in Address /\ Overview \in Address
           /\ \A id \in Ids : Page(id) \in Address /\ DraftOf(id) \in Address
                              /\ Editing(DraftOf(id)) \in Address
           /\ \A url \in Address : url.at \in {"page", "draft"} <=> url.id \in Ids
           /\ \A url \in Address : url.id # NoId => [url EXCEPT !.edit = ~@] \in Address
  BY Zenon DEF RouteAssumption, Address, HomeUrl, Overview, Page, DraftOf, Editing

LEMMA UrlFacts ==
    ASSUME RouteAssumption, Types
    PROVE  /\ Url \in Address /\ Url \in Held(entries) /\ Held(entries) \subseteq Address
           /\ Url.at \in {"page", "draft"} <=> Url.id \in Ids
           /\ Url.at \in {"home", "overview"} <=> Url.id = NoId
           /\ Url.edit => Url.id \in Ids
  <1>1. Url \in Address /\ Url \in Held(entries) /\ Held(entries) \subseteq Address
    BY TopHeld DEF Types, Url
  <1> QED
    BY <1>1, AddressFacts DEF Address

(* What the effects of a render make of the loads. *)
LEMMA EffectsFacts ==
    ASSUME RouteAssumption, Types, store' \in Stores, entries' \in Seq(Address), entries' # <<>>,
           NEW now \in Loads, now.page \in {load.page, "idle"}, now.loaded \in {NoId, Url.id},
           now.draft \in {load.draft, "idle"},
           Effects(now)
    PROVE  /\ load' \in Loads /\ LoadFits' /\ late' \subseteq Ids /\ gone' \in BOOLEAN
           /\ load'.loaded = IF Url.id = Url'.id THEN now.loaded ELSE NoId
           /\ load'.draft = IF Url.id = Url'.id THEN now.draft ELSE AskDraft(Url')
           /\ load'.checked = now.checked
           /\ load'.page \in {"idle", "sent"} \/ (load'.page = now.page /\ Url'.id = Url.id)
           /\ gone' = (\/ Absent(Url', pages', drafts')
                       \/ gone /\ Url'.at = Url.at /\ Url'.id = Url.id)
  <1> DEFINE next == Top(entries')
             asked(url, st) == <<url.id, Missing(url, st), url.at = "draft">>
             again == asked(Url, store) # asked(next, store')
  <1>1. Url' = next /\ next \in Address
    BY TopHeld DEF Url
  <1>2. /\ load' = [loaded |-> Loaded(Url, next, now.loaded),
                    draft |-> IF Url.id = next.id THEN now.draft ELSE AskDraft(next),
                    checked |-> now.checked,
                    page |-> IF again THEN AskPage(next, store') ELSE now.page]
        /\ late' = IF again /\ now.page \notin {"idle"} THEN late \cup {Url.id} ELSE late
        /\ gone' = (Absent(next, pages', drafts') \/ (gone /\ next.at = Url.at /\ next.id = Url.id))
    BY DEF Effects
  <1>3. Url \in Address /\ (Url.at \in {"page", "draft"} <=> Url.id \in Ids)
    BY UrlFacts
  <1>4. AskDraft(next) \in Request /\ AskPage(next, store') \in {"idle", "sent"}
    BY DEF AskDraft, AskPage, Request
  <1>5. now.page # "idle" => Url.at = "page" /\ Url.id \notin store.pages
    BY DEF Types, LoadFits
  <1>6. late' \subseteq Ids
    BY <1>2, <1>3, <1>5 DEF Types
  <1>7. /\ load'.loaded = IF Url.id = next.id THEN now.loaded ELSE NoId
        /\ load'.draft = IF Url.id = next.id THEN now.draft ELSE AskDraft(next)
        /\ load'.checked = now.checked
        /\ load'.page = IF again THEN AskPage(next, store') ELSE now.page
    BY <1>2 DEF Loaded
  <1>8. ~again => /\ next.id = Url.id /\ Missing(next, store') = Missing(Url, store)
                  /\ (next.at = "draft") = (Url.at = "draft")
    OBVIOUS
  <1> HIDE DEF again
  <1>9. load' \in Loads
    <2>1. Loaded(Url, next, now.loaded) \in Ids \cup {NoId}
      BY <1>3 DEF Loaded, Loads
    <2>2. (IF Url.id = next.id THEN now.draft ELSE AskDraft(next)) \in Request
      BY <1>4 DEF Loads
    <2>3. (IF again THEN AskPage(next, store') ELSE now.page) \in Request
      BY <1>4 DEF Loads, Request
    <2>4. now.checked \in Ids \cup {NoId}
      BY DEF Loads
    <2> QED
      BY <1>2, <2>1, <2>2, <2>3, <2>4 DEF Loads
  <1>10. load'.loaded \in {NoId, next.id}
    BY <1>7
  <1>11. load'.page # "idle" => next.at = "page" /\ next.id \notin store'.pages
    <2>1. CASE again
      BY <1>7, <2>1 DEF AskPage, Missing
    <2>2. CASE ~again /\ now.page # "idle"
      <3>1. Missing(Url, store) /\ ~(Url.at = "draft")
        BY <1>5, <2>2 DEF Missing
      <3>2. Missing(next, store') /\ ~(next.at = "draft")
        BY <1>8, <2>2, <3>1
      <3> QED
        BY <3>2 DEF Missing
    <2>3. CASE ~again /\ now.page = "idle"
      BY <1>7, <2>3
    <2> QED
      BY <2>1, <2>2, <2>3
  <1>d. load'.draft # "idle" => next.id # NoId
    BY <1>7 DEF Types, LoadFits, AskDraft
  <1>12. LoadFits'
    BY <1>1, <1>10, <1>11, <1>d DEF LoadFits
  <1>13. gone' \in BOOLEAN
    BY <1>2 DEF Absent
  <1>14. load'.page \in {"idle", "sent"} \/ (load'.page = now.page /\ next.id = Url.id)
    BY <1>4, <1>7, <1>8
  <1> QED
    BY <1>1, <1>2, <1>6, <1>7, <1>9, <1>12, <1>13, <1>14, Zenon

LEMMA TypesAfterEffects ==
    ASSUME RouteAssumption, Types, pages' \subseteq Ids, drafts' \subseteq Ids,
           store' \in Stores, entries' \in Seq(Address), entries' # <<>>,
           NEW now \in Loads, now.page \in {load.page, "idle"}, now.loaded \in {NoId, Url.id},
           now.draft \in {load.draft, "idle"},
           Effects(now),
           lists' \in [pages : Listing, drafts : Listing], busy' \in Commands,
           hops' \in Nat, visits' \in Nat, visits' <= MaxVisits
    PROVE  Types'
  <1>1. load' \in Loads /\ LoadFits' /\ late' \subseteq Ids /\ gone' \in BOOLEAN
    BY EffectsFacts, Zenon
  <1> QED
    BY <1>1 DEF Types

LEMMA TypesInit ==
    ASSUME RouteAssumption, Init
    PROVE  Types
  <1>1. pages \subseteq Ids /\ drafts \subseteq Ids /\ late = {} /\ visits = 0 /\ hops = 0
    BY DEF Init, RouteAssumption
  <1>2. store \in Stores
    <2>1. [id \in Ids |-> IF id \in drafts THEN "summary" ELSE "none"]
            \in [Ids -> {"none", "summary", "full"}]
      OBVIOUS
    <2>2. [id \in Ids |-> "none"] \in [Ids -> {"none", "summary", "full"}]
      OBVIOUS
    <2> QED
      BY <1>1, <2>1, <2>2 DEF Init, Stores
  <1>3. PICK url \in Addresses(PageLinks, DraftLinks) : entries = <<url>>
    BY DEF Init
  <1>4. url \in Address
    BY AddressFacts DEF Addresses, RouteAssumption
  <1>5. entries \in Seq(Address) /\ entries # <<>> /\ Url = url
    BY <1>3, <1>4 DEF Url, Top
  <1>6. load \in Loads /\ LoadFits
    <2>1. load = [loaded |-> NoId, draft |-> AskDraft(Url), checked |-> NoId,
                  page |-> AskPage(Url, store)]
      BY DEF Init
    <2>2. AskDraft(Url) \in Request /\ AskPage(Url, store) \in Request
      BY DEF AskDraft, AskPage, Request
    <2>3. load \in Loads
      BY <2>1, <2>2 DEF Loads
    <2>4. /\ AskPage(Url, store) # "idle" => Url.at = "page" /\ Url.id \notin store.pages
          /\ AskDraft(Url) # "idle" => Url.id # NoId
      BY DEF AskPage, AskDraft, Missing
    <2> QED
      BY <2>1, <2>3, <2>4 DEF LoadFits
  <1>7. lists \in [pages : Listing, drafts : Listing]
    BY DEF Init, Idle, Listing
  <1>8. busy \in Commands
    BY DEF Init, NoCommand, Commands
  <1>9. gone \in BOOLEAN
    BY DEF Init, Absent
  <1>10. MaxVisits \in Nat
    BY DEF RouteAssumption
  <1> QED
    BY <1>1, <1>2, <1>5, <1>6, <1>7, <1>8, <1>9, <1>10 DEF Types

LEMMA StoreFacts ==
    ASSUME NEW st \in Stores, NEW id \in Ids
    PROVE  /\ WithDraft(st, id) \in Stores /\ WithoutDraft(st, id) \in Stores
           /\ WithDraft(st, id).pages = st.pages /\ WithoutDraft(st, id).pages = st.pages
           /\ \A d \in Ids : WithDraft(st, id).draft[d] = IF d = id THEN "full" ELSE st.draft[d]
           /\ \A d \in Ids : WithoutDraft(st, id).draft[d] = IF d = id THEN "none" ELSE st.draft[d]
           /\ WithDraft(st, id).listed = st.listed \cup {id}
           /\ WithoutDraft(st, id).listed = st.listed \ {id}
  BY Zenon DEF WithDraft, WithoutDraft, Stores

LEMMA StorePages ==
    ASSUME NEW st \in Stores, NEW ps \in SUBSET Ids, NEW new, new = [st EXCEPT !.pages = ps]
    PROVE  new \in Stores /\ new.pages = ps /\ new.draft = st.draft /\ new.listed = st.listed
  BY DEF Stores

(* What happens to the request of the routed page or draft. *)
LEMMA LoadFacts ==
    ASSUME NEW l \in Loads, NEW a \in Request, NEW id \in Ids \cup {NoId}
    PROVE  /\ [l EXCEPT !.draft = a] \in Loads /\ [l EXCEPT !.page = a] \in Loads
           /\ [l EXCEPT !.draft = "idle", !.loaded = id] \in Loads
           /\ [l EXCEPT !.page = "idle", !.checked = id] \in Loads
  BY Zenon DEF Loads, Request

-----------------------------------------------------------------------------
(* What each action does, in terms of the state *)

LEMMA AddedPages ==
    ASSUME Types, NEW id \in Ids
    PROVE  /\ [store EXCEPT !.pages = @ \cup {id}] \in Stores
           /\ [store EXCEPT !.pages = @ \cup {id}].pages = store.pages \cup {id}
           /\ [store EXCEPT !.pages = @ \cup {id}].draft = store.draft
           /\ [store EXCEPT !.pages = @ \ {id}] \in Stores
           /\ [store EXCEPT !.pages = @ \ {id}].pages = store.pages \ {id}
           /\ [store EXCEPT !.pages = @ \ {id}].draft = store.draft
  BY DEF Types, Stores

Renders(now) ==
  /\ load'.loaded = IF Url.id = Url'.id THEN now.loaded ELSE NoId
  /\ load'.draft = IF Url.id = Url'.id THEN now.draft ELSE AskDraft(Url')
  /\ load'.checked = now.checked
  /\ load'.page \in {"idle", "sent"} \/ (load'.page = now.page /\ Url'.id = Url.id)
  /\ gone' = (Absent(Url', pages', drafts') \/ (gone /\ Url'.at = Url.at /\ Url'.id = Url.id))

LEMMA RedirectFacts ==
    ASSUME RouteAssumption, Types, Redirect
    PROVE  /\ Types' /\ Renders(load)
           /\ UNCHANGED <<pages, drafts, store, lists, busy, visits>>
           /\ Held(entries') \subseteq Held(entries) \cup {Url'} /\ Url' \in Redirects
           /\ Url'.edit = FALSE
           /\ \/ Url'.at = "page" /\ Url'.id \in store.pages /\ (Url.id = Url'.id \/ Url.id = NoId)
              \/ Url'.at = "overview" /\ Url'.id = NoId
  <1>1. PICK url \in Redirects : entries' = Replace(url) /\ Effects(load) /\ hops' = hops + 1
                                 /\ UNCHANGED <<server, store, lists, busy, outside, visits>>
    BY DEF Redirect
  <1>2. \/ url = Page(DefaultPage) /\ Url.at = "home" /\ DefaultPage \in store.pages
        \/ url = Page(Url.id) /\ Url.id \in store.pages
        \/ url = Overview
    BY AddressFacts DEF Redirects, DefaultTarget, Types, Stores
  <1>3. url \in Address /\ store.pages \subseteq Ids
    BY <1>2, AddressFacts DEF Types, Stores
  <1>4. /\ entries' \in Seq(Address) /\ entries' # <<>> /\ Top(entries') = url
        /\ Held(entries') \subseteq Held(entries) \cup {url}
    <2>1. /\ entries \in Seq(Address) /\ entries # <<>>
          /\ entries' = Topped(entries, url)
      BY <1>1 DEF Replace, Topped, Types
    <2> QED
      BY <1>3, <2>1, Replaced
  <1>5. /\ pages' \subseteq Ids /\ drafts' \subseteq Ids /\ store' \in Stores
        /\ load \in Loads /\ load.loaded \in {NoId, Url.id} /\ busy' \in Commands
        /\ lists' \in [pages : Listing, drafts : Listing]
        /\ hops' \in Nat /\ visits' \in Nat /\ visits' <= MaxVisits
    BY <1>1 DEF Types, LoadFits, server
  <1>6. Types' /\ Renders(load)
    BY <1>1, <1>4, <1>5, TypesAfterEffects, EffectsFacts, Zenon DEF Renders
  <1>7. Url' = url
    BY <1>4 DEF Url
  <1>8. Url.at = "home" => Url.id = NoId
    BY UrlFacts
  <1> QED
    BY <1>1, <1>2, <1>4, <1>6, <1>7, <1>8 DEF server, Page, Overview

LEMMA ServerReadsFacts ==
    ASSUME RouteAssumption, Types, ServerReads
    PROVE  /\ Types'
           /\ UNCHANGED <<pages, drafts, store, entries, busy, visits, gone>>
           /\ load'.loaded = load.loaded /\ load'.checked = load.checked
           /\ \/ load'.draft = load.draft
              \/ load'.draft = "found"
              \/ load'.draft = "absent" /\ (~Failures => Url.id \notin drafts)
              \/ load'.draft = "failed" /\ Failures
           /\ \/ load'.page = load.page
              \/ load'.page = "found" /\ Url.at = "page"
              \/ load'.page = "absent" /\ Url.at = "page" /\ (~Failures => Url.id \notin pages)
              \/ load'.page = "failed" /\ Failures
           /\ lists'.pages.ids \in {lists.pages.ids, pages}
           /\ lists = [pages |-> Idle, drafts |-> Idle] => lists' = lists
  <1>0. /\ hops' = 0 /\ load \in Loads /\ lists \in [pages : Listing, drafts : Listing]
        /\ UNCHANGED <<pages, drafts, store, entries, late, busy, gone, outside, visits>>
    BY DEF ServerReads, Rendered, server, Types
  <1>1. CASE /\ load.draft = "sent" /\ lists' = lists
             /\ \E a \in Answers(Url.id \in drafts) : load' = [load EXCEPT !.draft = a]
    <2>1. PICK a \in Answers(Url.id \in drafts) : load' = [load EXCEPT !.draft = a]
      BY <1>1
    <2>2. \/ a = "found"
          \/ a = "absent" /\ Url.id \notin drafts
          \/ a = "failed" /\ Failures
      BY DEF Answers
    <2>3. /\ load' \in Loads /\ load'.draft = a /\ load'.loaded = load.loaded
          /\ load'.checked = load.checked /\ load'.page = load.page
      BY <1>0, <2>1, <2>2 DEF Loads, Request
    <2>4. Types'
      BY <1>0, <1>1, <2>3 DEF Types, LoadFits, Url
    <2> QED
      BY <1>0, <1>1, <2>2, <2>3, <2>4
  <1>2. CASE /\ load.page = "sent" /\ lists' = lists
             /\ \E a \in Answers(Url.id \in pages) : load' = [load EXCEPT !.page = a]
    <2>1. PICK a \in Answers(Url.id \in pages) : load' = [load EXCEPT !.page = a]
      BY <1>2
    <2>2. \/ a = "found"
          \/ a = "absent" /\ Url.id \notin pages
          \/ a = "failed" /\ Failures
      BY DEF Answers
    <2>3. /\ load' \in Loads /\ load'.page = a /\ load'.loaded = load.loaded
          /\ load'.checked = load.checked /\ load'.draft = load.draft
      BY <1>0, <2>1, <2>2 DEF Loads, Request
    <2>4. Url.at = "page" /\ Url.id \notin store.pages
      BY <1>2 DEF Types, LoadFits
    <2>5. Types'
      BY <1>0, <1>2, <2>3, <2>4 DEF Types, LoadFits, Url
    <2> QED
      BY <1>0, <1>2, <2>2, <2>3, <2>4, <2>5
  <1>3. CASE /\ lists.pages.phase = "sent" /\ load' = load
             /\ lists' = [lists EXCEPT !.pages = [phase |-> "read", ids |-> pages]]
    <2>1. /\ lists' \in [pages : Listing, drafts : Listing] /\ lists'.pages.ids = pages
      BY <1>0, <1>3 DEF Types, Listing
    <2>2. lists # [pages |-> Idle, drafts |-> Idle]
      BY <1>3 DEF Idle
    <2>3. Types'
      BY <1>0, <1>3, <2>1 DEF Types, LoadFits, Url
    <2> QED
      BY <1>0, <1>3, <2>1, <2>2, <2>3
  <1>4. CASE /\ lists.drafts.phase = "sent" /\ load' = load
             /\ lists' = [lists EXCEPT !.drafts = [phase |-> "read", ids |-> drafts]]
    <2>1. /\ lists' \in [pages : Listing, drafts : Listing] /\ lists'.pages.ids = lists.pages.ids
      BY <1>0, <1>4 DEF Types, Listing
    <2>2. lists # [pages |-> Idle, drafts |-> Idle]
      BY <1>4 DEF Idle
    <2>3. Types'
      BY <1>0, <1>4, <2>1 DEF Types, LoadFits, Url
    <2> QED
      BY <1>0, <1>4, <2>1, <2>2, <2>3
  <1> QED
    BY <1>1, <1>2, <1>3, <1>4 DEF ServerReads

LEMMA DraftArrivesFacts ==
    ASSUME RouteAssumption, Types, DraftArrives
    PROVE  /\ Types' /\ \E now : /\ Renders(now) /\ now.loaded = Url.id /\ now.draft = "idle"
                                 /\ now.checked = load.checked /\ now.page = load.page
           /\ UNCHANGED <<pages, drafts, entries, lists, busy, visits>>
           /\ store'.pages = store.pages
           /\ \/ /\ load.draft = "found"
                 /\ \A d \in Ids : store'.draft[d] = IF d = Url.id THEN "full" ELSE store.draft[d]
              \/ load.draft \in {"absent", "failed"} /\ store' = store
  <1> DEFINE now == DraftAnswered(load.draft)
  <1>0. /\ hops' = 0 /\ Effects(now) /\ load.draft \in {"found", "absent", "failed"}
        /\ store' = IF load.draft = "found" THEN WithDraft(store, Url.id) ELSE store
        /\ UNCHANGED <<pages, drafts, entries, lists, busy, outside, visits>>
    BY DEF DraftArrives, Rendered, server
  <1>1. /\ load \in Loads /\ store \in Stores /\ Url.id \in Ids \cup {NoId}
        /\ load.loaded \in {NoId, Url.id}
    BY UrlFacts DEF Types, LoadFits, Address
  <1>2. now = [load EXCEPT !.draft = "idle", !.loaded = Url.id]
    BY DEF DraftAnswered
  <1>3. /\ now \in Loads /\ now.loaded = Url.id /\ now.draft = "idle"
        /\ now.checked = load.checked /\ now.page = load.page
    BY <1>1, <1>2, Zenon DEF Loads, Request
  <1> HIDE DEF now
  <1>4. load.draft = "found" => Url.id \in Ids
    BY <1>1 DEF Types, LoadFits
  <1>5. /\ store' \in Stores /\ store'.pages = store.pages
        /\ load.draft = "found" =>
             \A d \in Ids : store'.draft[d] = IF d = Url.id THEN "full" ELSE store.draft[d]
    <2>1. CASE load.draft = "found"
      <3>1. Url.id \in Ids /\ store \in Stores /\ store' = WithDraft(store, Url.id)
        BY <1>0, <1>1, <1>4, <2>1
      <3>2. WithDraft(store, Url.id) \in Stores
        BY <3>1, StoreFacts
      <3>3. WithDraft(store, Url.id).pages = store.pages
        BY <3>1, StoreFacts
      <3>4. \A d \in Ids : WithDraft(store, Url.id).draft[d] =
              IF d = Url.id THEN "full" ELSE store.draft[d]
        BY <3>1, StoreFacts, Zenon
      <3> QED
        BY <3>1, <3>2, <3>3, <3>4
    <2>2. CASE load.draft # "found"
      BY <1>0, <1>1, <2>2
    <2> QED
      BY <2>1, <2>2
  <1>6. /\ pages' \subseteq Ids /\ drafts' \subseteq Ids
        /\ entries' \in Seq(Address) /\ entries' # <<>> /\ busy' \in Commands
        /\ lists' \in [pages : Listing, drafts : Listing]
        /\ hops' \in Nat /\ visits' \in Nat /\ visits' <= MaxVisits
    BY <1>0 DEF Types
  <1>7. Types' /\ Renders(now)
    BY <1>0, <1>1, <1>3, <1>5, <1>6, TypesAfterEffects, EffectsFacts, Zenon DEF Renders
  <1> QED
    BY <1>0, <1>3, <1>5, <1>7

LEMMA PageArrivesFacts ==
    ASSUME RouteAssumption, Types, PageArrives
    PROVE  /\ Types'
           /\ \E now : /\ Renders(now) /\ now.loaded = load.loaded /\ now.draft = load.draft
                       /\ now.checked = (IF load.page = "found" THEN load.checked ELSE Url.id)
                                 /\ now.page = "idle"
           /\ Url.at = "page"
           /\ UNCHANGED <<pages, drafts, entries, lists, busy, visits>>
           /\ store'.pages = IF load.page = "found" THEN store.pages \cup {Url.id} ELSE store.pages
           /\ store'.draft = store.draft
  <1> DEFINE now == [load EXCEPT !.page = "idle",
                                 !.checked = IF load.page = "found" THEN @ ELSE Url.id]
  <1>0. /\ hops' = 0 /\ Effects(now) /\ load.page \in {"found", "absent", "failed"}
        /\ store' = IF load.page = "found" THEN [store EXCEPT !.pages = @ \cup {Url.id}] ELSE store
        /\ UNCHANGED <<pages, drafts, entries, lists, busy, outside, visits>>
    BY DEF PageArrives, Rendered, server
  <1>1. /\ load \in Loads /\ store \in Stores /\ Url.at = "page" /\ Url.id \in Ids
        /\ load.loaded \in {NoId, Url.id} /\ load.page # "idle"
    BY <1>0, UrlFacts DEF Types, LoadFits
  <1>3. /\ now \in Loads /\ now.loaded = load.loaded /\ now.draft = load.draft
        /\ now.checked = (IF load.page = "found" THEN load.checked ELSE Url.id)
        /\ now.page = "idle"
    BY <1>1, Zenon DEF Loads, Request
  <1> HIDE DEF now
  <1>4. /\ store' \in Stores
        /\ store'.pages = IF load.page = "found" THEN store.pages \cup {Url.id} ELSE store.pages
        /\ store'.draft = store.draft
    BY <1>0, <1>1, AddedPages, Zenon
  <1>5. /\ pages' \subseteq Ids /\ drafts' \subseteq Ids
        /\ entries' \in Seq(Address) /\ entries' # <<>> /\ busy' \in Commands
        /\ lists' \in [pages : Listing, drafts : Listing]
        /\ hops' \in Nat /\ visits' \in Nat /\ visits' <= MaxVisits
    BY <1>0 DEF Types
  <1>6. Types' /\ Renders(now)
    BY <1>0, <1>1, <1>3, <1>4, <1>5, TypesAfterEffects, EffectsFacts, Zenon DEF Renders
  <1> QED
    BY <1>0, <1>1, <1>3, <1>4, <1>6

LEMMA PageArrivesLateFacts ==
    ASSUME RouteAssumption, Types, PageArrivesLate
    PROVE  /\ Types'
           /\ UNCHANGED <<pages, drafts, entries, lists, busy, visits, gone>>
           /\ load'.loaded = load.loaded /\ load'.draft = load.draft /\ load'.checked = load.checked
           /\ load'.page \in {load.page, "idle", "sent"}
           /\ store'.draft = store.draft
           /\ store' = store \/ \E id \in pages : store'.pages = store.pages \cup {id}
  <1>0. PICK id \in late \cup (IF Url.edit THEN {Url.id} ELSE {}) :
          /\ store' = IF id \in pages THEN [store EXCEPT !.pages = @ \cup {id}] ELSE store
          /\ UNCHANGED <<server, entries, lists, busy, outside, visits>>
          /\ LET next == Top(entries')
                 asked(st) == Missing(next, st)
             IN /\ load' = IF asked(store) # asked(store')
                           THEN [load EXCEPT !.page = AskPage(next, store')] ELSE load
                /\ late' = late \ {id}
                /\ UNCHANGED gone
    BY Zenon DEF PageArrivesLate
  <1>1. /\ UNCHANGED <<pages, drafts, entries, lists, busy, visits, gone>> /\ hops' = 0
        /\ late' \subseteq late /\ Top(entries') = Url /\ Url' = Url
        /\ load' = IF Missing(Url, store) # Missing(Url, store')
                   THEN [load EXCEPT !.page = AskPage(Url, store')] ELSE load
    BY <1>0 DEF server, Url, PageArrivesLate, Rendered
  <1>2. id \in Ids
    BY UrlFacts DEF Types
  <1>3. /\ store' \in Stores /\ store'.draft = store.draft
        /\ store'.pages = IF id \in pages THEN store.pages \cup {id} ELSE store.pages
    BY <1>0, <1>2, AddedPages, Zenon DEF Types
  <1>4. AskPage(Url, store') \in {"idle", "sent"}
        /\ (AskPage(Url, store') # "idle" => Url.at = "page" /\ Url.id \notin store'.pages)
    BY DEF AskPage, Missing
  <1>5. load \in Loads /\ LoadFits
    BY DEF Types
  <1>6. /\ load' \in Loads /\ load'.loaded = load.loaded /\ load'.draft = load.draft
        /\ load'.checked = load.checked /\ load'.page \in {load.page, "idle", "sent"}
    BY <1>1, <1>4, <1>5 DEF Loads, Request
  <1>7. load'.page # "idle" => Url.at = "page" /\ Url.id \notin store'.pages
    <2>1. CASE Missing(Url, store) # Missing(Url, store')
      BY <1>1, <1>4, <1>5, <2>1 DEF Loads
    <2>2. CASE Missing(Url, store) = Missing(Url, store')
      BY <1>1, <1>5, <2>2 DEF LoadFits, Missing
    <2> QED
      BY <2>1, <2>2
  <1>8. Types'
    BY <1>1, <1>3, <1>5, <1>6, <1>7 DEF Types, LoadFits
  <1> QED
    BY <1>0, <1>1, <1>3, <1>6, <1>8

LEMMA ListArrivesFacts ==
    ASSUME RouteAssumption, Types, ListArrives
    PROVE  /\ Types' /\ Renders(load)
           /\ UNCHANGED <<pages, drafts, entries, busy, visits>>
           /\ \A d \in Ids : store'.draft[d] = "full" <=> store.draft[d] = "full"
           /\ store'.pages \in {store.pages, lists.pages.ids}
           /\ lists'.pages.ids \subseteq lists.pages.ids
           /\ lists # [pages |-> Idle, drafts |-> Idle]
  <1>0. /\ hops' = 0 /\ Effects(load)
        /\ UNCHANGED <<pages, drafts, entries, busy, visits>>
        /\ store \in Stores /\ lists \in [pages : Listing, drafts : Listing] /\ load \in Loads
        /\ load.loaded \in {NoId, Url.id}
    BY DEF ListArrives, Rendered, server, Types, LoadFits
  <1>3. /\ store' \in Stores /\ lists' \in [pages : Listing, drafts : Listing]
        /\ \A d \in Ids : store'.draft[d] = "full" <=> store.draft[d] = "full"
        /\ store'.pages \in {store.pages, lists.pages.ids}
        /\ lists'.pages.ids \subseteq lists.pages.ids
        /\ lists # [pages |-> Idle, drafts |-> Idle]
    <2>1. CASE /\ lists.pages.phase = "read"
               /\ store' = [store EXCEPT !.pages = lists.pages.ids]
               /\ lists' = [lists EXCEPT !.pages = Idle]
      <3>1. /\ store' \in Stores /\ store'.pages = lists.pages.ids /\ store'.draft = store.draft
        BY <1>0, <2>1 DEF Stores, Listing
      <3>2. /\ lists' \in [pages : Listing, drafts : Listing] /\ lists'.pages.ids = {}
        BY <1>0, <2>1 DEF Idle, Listing
      <3>3. lists # [pages |-> Idle, drafts |-> Idle]
        BY <2>1 DEF Idle
      <3> QED
        BY <3>1, <3>2, <3>3
    <2>2. CASE /\ lists.drafts.phase = "read"
               /\ store' = [store EXCEPT
                    !.listed = lists.drafts.ids,
                    !.draft = [id \in Ids |->
                      IF id \in lists.drafts.ids /\ @[id] = "none" THEN "summary" ELSE @[id]]]
               /\ lists' = [lists EXCEPT !.drafts = Idle]
      <3>1. /\ store' \in Stores /\ store'.pages = store.pages
            /\ \A d \in Ids : store'.draft[d] = "full" <=> store.draft[d] = "full"
        BY <1>0, <2>2 DEF Stores, Listing
      <3>2. /\ lists' \in [pages : Listing, drafts : Listing] /\ lists'.pages = lists.pages
        BY <1>0, <2>2 DEF Idle, Listing
      <3>3. lists # [pages |-> Idle, drafts |-> Idle]
        BY <2>2 DEF Idle
      <3> QED
        BY <3>1, <3>2, <3>3
    <2> QED
      BY <2>1, <2>2 DEF ListArrives
  <1>5. /\ pages' \subseteq Ids /\ drafts' \subseteq Ids
        /\ entries' \in Seq(Address) /\ entries' # <<>> /\ busy' \in Commands
        /\ hops' \in Nat /\ visits' \in Nat /\ visits' <= MaxVisits
    BY <1>0 DEF Types
  <1>6. Types' /\ Renders(load)
    BY <1>0, <1>3, <1>5, TypesAfterEffects, EffectsFacts, Zenon DEF Renders
  <1> QED
    BY <1>0, <1>3, <1>6

LEMMA VisitFacts ==
    ASSUME RouteAssumption, Types, NEW es \in Seq(Address), es # <<>>, Visit(es)
    PROVE  /\ Types' /\ Renders(load)
           /\ UNCHANGED <<pages, drafts, store, lists, busy>>
           /\ entries' = es /\ visits < MaxVisits /\ visits' = visits + 1
  <1>0. /\ hops' = 0 /\ Effects(load) /\ entries' = es /\ visits < MaxVisits /\ visits' = visits + 1
        /\ UNCHANGED <<pages, drafts, store, lists, busy>>
    BY DEF Visit, Rendered, server
  <1>1. /\ load \in Loads /\ load.loaded \in {NoId, Url.id}
    BY DEF Types, LoadFits
  <1>2. visits' \in Nat /\ visits' <= MaxVisits
    BY <1>0 DEF Types, RouteAssumption
  <1>3. /\ pages' \subseteq Ids /\ drafts' \subseteq Ids /\ store' \in Stores
        /\ entries' \in Seq(Address) /\ entries' # <<>> /\ busy' \in Commands
        /\ lists' \in [pages : Listing, drafts : Listing] /\ hops' \in Nat
    BY <1>0 DEF Types
  <1>4. Types' /\ Renders(load)
    BY <1>0, <1>1, <1>2, <1>3, TypesAfterEffects, EffectsFacts, Zenon DEF Renders
  <1> QED
    BY <1>0, <1>4

WentSomewhere == Open \/ ToggleEdit \/ Back

LEMMA WentFacts ==
    ASSUME RouteAssumption, Types, WentSomewhere
    PROVE  /\ Types' /\ Renders(load)
           /\ UNCHANGED <<pages, drafts, store, lists, busy>>
           /\ visits < MaxVisits /\ visits' = visits + 1
           /\ Len(entries') # Len(entries)
           /\ \A e \in Held(entries') : e.at = "page" =>
                \/ e.id \in PageLinks \cup store.pages
                \/ \E d \in Held(entries) : d.at = "page" /\ d.id = e.id
  <1>0. entries \in Seq(Address) /\ entries # <<>> /\ Len(entries) \in Nat
    BY DEF Types
  <1>1. CASE Open
    <2>1. PICK url \in Addresses(PageLinks \cup store.pages,
                                 DraftLinks \cup (store.listed \ store.pages)) \ {Url} :
                 Visit(Push(url))
      BY <1>1 DEF Open
    <2>2. PageLinks \subseteq Ids /\ DraftLinks \subseteq Ids /\ store.pages \subseteq Ids
          /\ store.listed \subseteq Ids
      BY DEF RouteAssumption, Types, Stores
    <2>3. url \in Address /\ (url.at = "page" => url.id \in PageLinks \cup store.pages)
      <3>1. url \in {HomeUrl, Overview} => url \in Address /\ url.at # "page"
        BY AddressFacts, Zenon DEF HomeUrl, Overview
      <3>2. \A id \in Ids : url = Page(id) => url \in Address /\ url.id = id
        BY AddressFacts DEF Page
      <3>3. \A id \in Ids : url = DraftOf(id) => url \in Address /\ url.at # "page"
        BY AddressFacts DEF DraftOf
      <3>4. \/ url \in {HomeUrl, Overview}
            \/ \E id \in PageLinks \cup store.pages : url = Page(id)
            \/ \E id \in DraftLinks \cup (store.listed \ store.pages) : url = DraftOf(id)
        BY DEF Addresses
      <3> QED
        BY <2>2, <3>1, <3>2, <3>3, <3>4
    <2>4. /\ Push(url) \in Seq(Address) /\ Push(url) # <<>> /\ Len(Push(url)) = Len(entries) + 1
          /\ Held(Push(url)) = Held(entries) \cup {url}
      BY <1>0, <2>3, Pushed DEF Push
    <2>5. /\ Types' /\ Renders(load)
          /\ UNCHANGED <<pages, drafts, store, lists, busy>>
          /\ entries' = Push(url) /\ visits < MaxVisits /\ visits' = visits + 1
      BY <2>1, <2>4, VisitFacts
    <2>6. Len(entries') # Len(entries)
      BY <1>0, <2>4, <2>5
    <2> QED
      BY <2>3, <2>4, <2>5, <2>6
  <1>2. CASE ToggleEdit
    <2> DEFINE url == [Url EXCEPT !.edit = ~@]
    <2>1. Url.id # NoId /\ Visit(Push(url))
      BY <1>2 DEF ToggleEdit
    <2>3. url \in Address /\ url.at = Url.at /\ url.id = Url.id /\ Url \in Held(entries)
      BY <2>1, UrlFacts, AddressFacts DEF Address
    <2> HIDE DEF url
    <2>4. /\ Push(url) \in Seq(Address) /\ Push(url) # <<>> /\ Len(Push(url)) = Len(entries) + 1
          /\ Held(Push(url)) = Held(entries) \cup {url}
      BY <1>0, <2>3, Pushed DEF Push
    <2>5. /\ Types' /\ Renders(load)
          /\ UNCHANGED <<pages, drafts, store, lists, busy>>
          /\ entries' = Push(url) /\ visits < MaxVisits /\ visits' = visits + 1
      BY <2>1, <2>4, VisitFacts
    <2>6. Len(entries') # Len(entries)
      BY <1>0, <2>4, <2>5
    <2> QED
      BY <2>3, <2>4, <2>5, <2>6
  <1>3. CASE Back
    <2> DEFINE es == SubSeq(entries, 1, Len(entries) - 1)
    <2>1. Len(entries) > 1 /\ Visit(es)
      BY <1>3 DEF Back
    <2>4. /\ es \in Seq(Address) /\ es # <<>> /\ Len(es) = Len(entries) - 1
          /\ Held(es) \subseteq Held(entries)
      BY <1>0, <2>1, Shortened, Zenon
    <2> HIDE DEF es
    <2>5. /\ Types' /\ Renders(load)
          /\ UNCHANGED <<pages, drafts, store, lists, busy>>
          /\ entries' = es /\ visits < MaxVisits /\ visits' = visits + 1
      BY <2>1, <2>4, VisitFacts
    <2>6. Len(entries') # Len(entries)
      BY <1>0, <2>4, <2>5
    <2> QED
      BY <2>4, <2>5, <2>6
  <1> QED
    BY <1>1, <1>2, <1>3 DEF WentSomewhere

LEMMA CommandFacts ==
    ASSUME RouteAssumption, Types, Command
    PROVE  /\ Types'
           /\ UNCHANGED <<pages, drafts, store, entries, load, late, lists, gone>>
           /\ busy = NoCommand /\ busy'.phase = "sent"
           /\ visits' = visits + (IF busy'.op = "create" THEN 1 ELSE 0)
           /\ busy'.op = "publish" => Url.edit
  <1>1. ASSUME NEW op \in {"create", "publish", "discard", "delete"}, NEW id \in Ids \cup {NoId},
               op # "create" => id \in Ids,
               NEW viewing \in BOOLEAN, Starts(op, id, viewing)
        PROVE  /\ Types'
               /\ UNCHANGED <<pages, drafts, store, entries, load, late, lists, gone>>
               /\ busy = NoCommand /\ busy'.phase = "sent" /\ busy'.op = op
               /\ visits' = visits + (IF op = "create" THEN 1 ELSE 0)
    <2>1. /\ hops' = 0 /\ busy = NoCommand
          /\ busy' = [op |-> op, id |-> id, viewing |-> viewing, phase |-> "sent"]
          /\ visits' = visits + (IF op = "create" THEN 1 ELSE 0)
          /\ op = "create" => visits < MaxVisits
          /\ UNCHANGED <<pages, drafts, store, entries, load, late, lists, gone>>
      BY <1>1 DEF Starts, Rendered, server
    <2>2. busy' \in Commands /\ busy'.phase = "sent" /\ busy'.op = op
      BY <1>1, <2>1 DEF Commands
    <2>3. visits' \in Nat /\ visits' <= MaxVisits
      BY <2>1 DEF Types, RouteAssumption
    <2>4. Types'
      BY <2>1, <2>2, <2>3 DEF Types, LoadFits, Url
    <2> QED
      BY <2>1, <2>2, <2>4
  <1>2. store.pages \subseteq Ids /\ store.listed \subseteq Ids /\ visits \in Nat
    BY DEF Types, Stores
  <1>3. CASE Starts("create", NoId, FALSE)
    BY <1>1, <1>3, Zenon
  <1>4. CASE Url.edit /\ store.draft[Url.id] = "full" /\ Starts("publish", Url.id, FALSE)
    <2>1. Url.id \in Ids
      BY <1>4, UrlFacts
    <2> QED
      BY <1>1, <1>2, <1>4, <2>1, Zenon
  <1>5. ASSUME NEW id \in store.listed \ store.pages,
               Starts("discard", id, Url.at = "draft" /\ Url.id = id)
        PROVE  /\ Types'
               /\ UNCHANGED <<pages, drafts, store, entries, load, late, lists, gone>>
               /\ busy = NoCommand /\ busy'.phase = "sent" /\ busy'.op = "discard"
               /\ visits' = visits
    <2> DEFINE viewing == Url.at = "draft" /\ Url.id = id
    <2>1. viewing \in BOOLEAN
      OBVIOUS
    <2>2. Starts("discard", id, viewing)
      BY <1>5
    <2>3. id \in Ids
      BY <1>2
    <2> HIDE DEF viewing
    <2>4. visits + 0 = visits
      BY <1>2
    <2> QED
      BY <1>1, <2>1, <2>2, <2>3, <2>4
  <1>6. ASSUME NEW id \in store.pages, Starts("delete", id, Url.id = id)
        PROVE  /\ Types'
               /\ UNCHANGED <<pages, drafts, store, entries, load, late, lists, gone>>
               /\ busy = NoCommand /\ busy'.phase = "sent" /\ busy'.op = "delete"
               /\ visits' = visits
    <2> DEFINE viewing == Url.id = id
    <2>1. viewing \in BOOLEAN
      OBVIOUS
    <2>2. Starts("delete", id, viewing)
      BY <1>6
    <2>3. id \in Ids
      BY <1>2
    <2> HIDE DEF viewing
    <2>4. visits + 0 = visits
      BY <1>2
    <2> QED
      BY <1>1, <2>1, <2>2, <2>3, <2>4
  <1>7. visits + 0 = visits
    BY <1>2
  <1> QED
    BY <1>3, <1>4, <1>5, <1>6, <1>7, Zenon DEF Command

LEMMA ServerCommandsFacts ==
    ASSUME RouteAssumption, Types, ServerCommands
    PROVE  /\ Types'
           /\ UNCHANGED <<store, entries, load, lists, visits>>
           /\ busy.phase = "sent" /\ busy'.op = busy.op /\ busy'.phase \in {"ok", "failed"}
           /\ gone' = (gone \/ Absent(Url, pages', drafts'))
           /\ \/ /\ busy.op = "create" /\ busy'.id \in Ids /\ IsNew(busy'.id)
                 /\ pages' = pages /\ drafts' = drafts \cup {busy'.id}
              \/ busy'.phase = "failed" /\ pages' = pages /\ drafts' = drafts
              \/ /\ busy.op = "publish" /\ busy'.phase = "ok"
                 /\ busy'.id = busy.id /\ busy.id \in drafts
                 /\ pages' = pages \cup {busy.id} /\ drafts' = drafts \ {busy.id}
              \/ /\ busy.op = "discard" /\ busy'.id = busy.id
                 /\ pages' = pages /\ drafts' = drafts \ {busy.id}
              \/ /\ busy.op = "delete" /\ busy'.id = busy.id
                 /\ pages' = pages \ {busy.id} /\ drafts' = drafts \ {busy.id}
  <1>0. /\ hops' = 0 /\ busy.phase = "sent" /\ gone' = (gone \/ Absent(Url, pages', drafts'))
        /\ UNCHANGED <<store, entries, load, late, lists, visits>>
    BY DEF ServerCommands, Rendered
  <1>1. busy \in Commands /\ pages \subseteq Ids /\ drafts \subseteq Ids
    BY DEF Types
  <1>2. \A ps, ds, id : Answer(ps, ds, TRUE, id) =>
          pages' = ps /\ drafts' = ds /\ busy' = [busy EXCEPT !.phase = "ok", !.id = id]
    BY DEF Answer
  <1>3. Refuses => /\ pages' = pages /\ drafts' = drafts
                   /\ busy' = [busy EXCEPT !.phase = "failed", !.id = busy.id]
    BY DEF Refuses, Answer
  <1>4. \/ /\ busy.op = "create"
           /\ \E id \in Ids : IsNew(id) /\ Answer(pages, drafts \cup {id}, TRUE, id)
        \/ Refuses
        \/ /\ busy.op = "publish" /\ busy.id \in drafts
           /\ Answer(pages \cup {busy.id}, drafts \ {busy.id}, TRUE, busy.id)
        \/ /\ busy.op = "discard" /\ busy.id \in drafts
           /\ Answer(pages, drafts \ {busy.id}, TRUE, busy.id)
        \/ /\ busy.op = "delete" /\ busy.id \in pages
           /\ Answer(pages \ {busy.id}, drafts \ {busy.id}, TRUE, busy.id)
    BY Zenon DEF ServerCommands
  <1>6. LET b == [busy EXCEPT !.phase = "failed", !.id = busy.id]
        IN b \in Commands /\ b.op = busy.op /\ b.phase = "failed"
    BY <1>0, <1>1, Zenon DEF Commands
  <1>7. busy.op \in {"publish", "discard", "delete"} => busy.id \in Ids
    BY <1>1 DEF Commands
  <1>8. /\ busy' \in Commands /\ busy'.op = busy.op /\ busy'.phase \in {"ok", "failed"}
        /\ \/ /\ busy.op = "create" /\ busy'.id \in Ids /\ IsNew(busy'.id)
              /\ pages' = pages /\ drafts' = drafts \cup {busy'.id}
           \/ busy'.phase = "failed" /\ pages' = pages /\ drafts' = drafts
           \/ /\ busy.op = "publish" /\ busy'.phase = "ok"
              /\ busy'.id = busy.id /\ busy.id \in drafts
              /\ pages' = pages \cup {busy.id} /\ drafts' = drafts \ {busy.id}
           \/ /\ busy.op = "discard" /\ busy'.id = busy.id
              /\ pages' = pages /\ drafts' = drafts \ {busy.id}
           \/ /\ busy.op = "delete" /\ busy'.id = busy.id
              /\ pages' = pages \ {busy.id} /\ drafts' = drafts \ {busy.id}
    <2> DEFINE Done(id) == /\ busy' \in Commands /\ busy'.op = busy.op
                           /\ busy'.phase = "ok" /\ busy'.id = id
    <2>0. \A ps, ds : \A id \in Ids : Answer(ps, ds, TRUE, id) => pages' = ps /\ drafts' = ds
            /\ Done(id)
      <3> SUFFICES ASSUME NEW ps, NEW ds, NEW id \in Ids, Answer(ps, ds, TRUE, id)
                   PROVE  pages' = ps /\ drafts' = ds /\ Done(id)
        BY Zenon
      <3>1. pages' = ps /\ drafts' = ds /\ busy' = [busy EXCEPT !.phase = "ok", !.id = id]
        BY <1>2
      <3>2. Done(id)
        BY <1>0, <1>1, <3>1, Zenon DEF Commands
      <3> QED
        BY <3>1, <3>2
    <2> HIDE DEF Done
    <2>d. \A id : Done(id) => busy' \in Commands /\ busy'.op = busy.op
                              /\ busy'.phase = "ok" /\ busy'.id = id
      BY DEF Done
    <2>1. CASE /\ busy.op = "create"
               /\ \E id \in Ids : IsNew(id) /\ Answer(pages, drafts \cup {id}, TRUE, id)
      <3>1. PICK id \in Ids : IsNew(id) /\ Answer(pages, drafts \cup {id}, TRUE, id)
        BY <2>1, Zenon
      <3>2. pages' = pages /\ drafts' = drafts \cup {id} /\ Done(id)
        BY <2>0, <3>1, Zenon
      <3>3. IsNew(busy'.id) /\ busy'.id = id
        BY <2>d, <3>1, <3>2
      <3> QED
        BY <2>1, <2>d, <3>2, <3>3
    <2>2. CASE Refuses
      BY <1>3, <1>6, <2>2, Zenon
    <2>3. CASE /\ busy.op = "publish" /\ busy.id \in drafts
               /\ Answer(pages \cup {busy.id}, drafts \ {busy.id}, TRUE, busy.id)
      <3>1. pages' = pages \cup {busy.id} /\ drafts' = drafts \ {busy.id} /\ Done(busy.id)
        BY <1>7, <2>0, <2>3, Zenon
      <3> QED
        BY <2>3, <2>d, <3>1
    <2>4. CASE /\ busy.op = "discard" /\ Answer(pages, drafts \ {busy.id}, TRUE, busy.id)
      <3>1. pages' = pages /\ drafts' = drafts \ {busy.id} /\ Done(busy.id)
        BY <1>7, <2>0, <2>4, Zenon
      <3> QED
        BY <2>4, <2>d, <3>1
    <2>5. CASE /\ busy.op = "delete"
               /\ Answer(pages \ {busy.id}, drafts \ {busy.id}, TRUE, busy.id)
      <3>1. pages' = pages \ {busy.id} /\ drafts' = drafts \ {busy.id} /\ Done(busy.id)
        BY <1>7, <2>0, <2>5, Zenon
      <3> QED
        BY <2>5, <2>d, <3>1
    <2> QED
      BY <1>4, <2>1, <2>2, <2>3, <2>4, <2>5, Zenon
  <1>9. pages' \subseteq Ids /\ drafts' \subseteq Ids
    BY <1>1, <1>8
  <1>10. gone' \in BOOLEAN
    BY <1>0 DEF Absent
  <1>11. Types'
    BY <1>0, <1>8, <1>9, <1>10 DEF Types, LoadFits, Url
  <1> QED
    BY <1>0, <1>8, <1>11

LEMMA ElsewhereFacts ==
    ASSUME RouteAssumption, Types, Elsewhere
    PROVE  /\ Types'
           /\ UNCHANGED <<store, entries, load, lists, busy, visits>>
           /\ gone' = (gone \/ Absent(Url, pages', drafts'))
           /\ Outside \subseteq {"discard", "delete"} =>
                \E id \in Ids : drafts' = drafts \ {id} /\ pages' \in {pages, pages \ {id}}
  <1>0. /\ hops' = 0 /\ gone' = (gone \/ Absent(Url, pages', drafts'))
        /\ UNCHANGED <<store, entries, load, late, lists, busy, visits>>
        /\ pages \subseteq Ids /\ drafts \subseteq Ids
    BY DEF Elsewhere, Rendered, Types
  <1>1. /\ pages' \subseteq Ids /\ drafts' \subseteq Ids
        /\ Outside \subseteq {"discard", "delete"} =>
             \E id \in Ids : drafts' = drafts \ {id} /\ pages' \in {pages, pages \ {id}}
    <2>1. CASE \E id \in drafts : pages' = pages \cup {id} /\ drafts' = drafts \ {id}
                 /\ "publish" \in Outside
      BY <1>0, <2>1
    <2>2. CASE \E id \in drafts : drafts' = drafts \ {id} /\ UNCHANGED pages
      BY <1>0, <2>2
    <2>3. CASE \E id \in pages : pages' = pages \ {id} /\ drafts' = drafts \ {id}
      BY <1>0, <2>3
    <2>4. CASE "arrive" \in Outside /\ \E id \in PageLinks \ pages : pages' = pages \cup {id}
                 /\ UNCHANGED drafts
      BY <1>0, <2>4 DEF RouteAssumption
    <2> QED
      BY <2>1, <2>2, <2>3, <2>4 DEF Elsewhere
  <1>2. gone' \in BOOLEAN
    BY <1>0 DEF Absent
  <1>3. Types'
    BY <1>0, <1>1, <1>2 DEF Types, LoadFits, Url
  <1> QED
    BY <1>0, <1>1, <1>3

LEMMA SaveEditFacts ==
    ASSUME RouteAssumption, Types, SaveEdit
    PROVE  /\ Types' /\ Renders(load)
           /\ UNCHANGED <<pages, entries, lists, busy, visits>>
           /\ Url.edit /\ Url.id \in Ids /\ Url.id \in pages \cup drafts
           /\ drafts' = drafts \cup {Url.id} /\ store'.pages = store.pages
           /\ \A d \in Ids : store'.draft[d] = IF d = Url.id THEN "full" ELSE store.draft[d]
  <1>0. /\ hops' = 0 /\ Effects(load)
        /\ UNCHANGED <<pages, entries, lists, busy, visits>>
        /\ Url.edit /\ Url.id \in pages \cup drafts
        /\ drafts' = drafts \cup {Url.id} /\ store' = WithDraft(store, Url.id)
    BY DEF SaveEdit, Rendered
  <1>1. /\ Url.id \in Ids /\ store \in Stores /\ load \in Loads /\ load.loaded \in {NoId, Url.id}
    BY <1>0 DEF Types, LoadFits
  <1>2. WithDraft(store, Url.id) \in Stores
    BY <1>1, StoreFacts
  <1>3. WithDraft(store, Url.id).pages = store.pages
    BY <1>1, StoreFacts
  <1>4. \A d \in Ids : WithDraft(store, Url.id).draft[d] =
          IF d = Url.id THEN "full" ELSE store.draft[d]
    BY <1>1, StoreFacts, Zenon
  <1>5. /\ pages' \subseteq Ids /\ drafts' \subseteq Ids /\ store' \in Stores
        /\ entries' \in Seq(Address) /\ entries' # <<>> /\ busy' \in Commands
        /\ lists' \in [pages : Listing, drafts : Listing]
        /\ hops' \in Nat /\ visits' \in Nat /\ visits' <= MaxVisits
    BY <1>0, <1>1, <1>2 DEF Types
  <1>6. Types' /\ Renders(load)
    BY <1>0, <1>1, <1>5, TypesAfterEffects, EffectsFacts, Zenon DEF Renders
  <1> QED
    BY <1>0, <1>1, <1>3, <1>4, <1>6

LEMMA SettlesFacts ==
    ASSUME RouteAssumption, Types, Rendered, NEW st \in Stores, NEW es \in Seq(Address), es # <<>>,
           Settles(st, es)
    PROVE  /\ Types' /\ Renders(load)
           /\ UNCHANGED <<pages, drafts, lists, visits>>
           /\ busy' = NoCommand /\ store' = st /\ entries' = es
  <1>0. /\ hops' = 0 /\ Effects(load) /\ busy' = NoCommand /\ store' = st /\ entries' = es
        /\ UNCHANGED <<pages, drafts, lists, visits>>
    BY DEF Settles, Rendered, server
  <1>1. /\ load \in Loads /\ load.loaded \in {NoId, Url.id}
    BY DEF Types, LoadFits
  <1>2. NoCommand \in Commands
    BY DEF NoCommand, Commands
  <1>3. /\ pages' \subseteq Ids /\ drafts' \subseteq Ids /\ store' \in Stores
        /\ entries' \in Seq(Address) /\ entries' # <<>> /\ busy' \in Commands
        /\ lists' \in [pages : Listing, drafts : Listing]
        /\ hops' \in Nat /\ visits' \in Nat /\ visits' <= MaxVisits
    BY <1>0, <1>2 DEF Types
  <1>4. Types' /\ Renders(load)
    BY <1>0, <1>1, <1>3, TypesAfterEffects, EffectsFacts, Zenon DEF Renders
  <1> QED
    BY <1>0, <1>4

(* The draft of id is gone from the client's store, or is its own. *)
Lost(id) == \A d \in Ids : store'.draft[d] = IF d = id THEN "none" ELSE store.draft[d]

LEMMA CommandAnsweredFacts ==
    ASSUME RouteAssumption, Types, CommandAnswered
    PROVE  /\ Types' /\ Renders(load)
           /\ UNCHANGED <<pages, drafts, lists, visits>>
           /\ busy' = NoCommand
           /\ \/ busy.phase = "failed" /\ store' = store /\ entries' = entries
              \/ /\ busy.phase = "ok" /\ busy.op = "create" /\ busy.id \in Ids
                 /\ Held(entries') = Held(entries) \cup {Url'}
                 /\ Url'.at = "draft" /\ Url'.id = busy.id
                 /\ store'.pages = store.pages
                 /\ \A d \in Ids : store'.draft[d] = IF d = busy.id THEN "full" ELSE store.draft[d]
              \/ /\ busy.phase = "ok" /\ busy.op = "publish" /\ busy.id \in Ids
                 /\ Held(entries') \subseteq Held(entries) \cup {Url'}
                 /\ Url'.at = "page" /\ Url'.id = busy.id /\ Url'.edit = FALSE
                 /\ store'.pages = store.pages \cup {busy.id}
                 /\ Lost(busy.id)
              \/ /\ busy.phase = "ok" /\ busy.op \in {"discard", "delete"} /\ busy.id \in Ids
                 /\ Held(entries') \subseteq Held(entries) \cup {Url'}
                 /\ Url' = Url \/ Url' = HomeUrl
                 /\ store'.pages = IF busy.op = "delete" THEN store.pages \ {busy.id}
                      ELSE store.pages
                 /\ Lost(busy.id)
  <1>0. /\ Rendered /\ store \in Stores /\ entries \in Seq(Address) /\ entries # <<>>
        /\ busy \in Commands
    BY DEF CommandAnswered, Types
  <1>1. CASE busy.phase = "failed" /\ Settles(store, entries)
    BY <1>0, <1>1, SettlesFacts
  <1>2. CASE /\ busy.phase = "ok" /\ busy.op = "create"
             /\ Settles(WithDraft(store, busy.id), Push(Editing(DraftOf(busy.id))))
    <2> DEFINE st == WithDraft(store, busy.id)
               url == Editing(DraftOf(busy.id))
    <2>1. busy.id \in Ids
      BY <1>0, <1>2 DEF Commands
    <2>2. url \in Address /\ url.at = "draft" /\ url.id = busy.id
      BY <2>1, AddressFacts DEF Editing, DraftOf
    <2>3. st \in Stores
      BY <1>0, <2>1, StoreFacts
    <2>4. st.pages = store.pages
      BY <1>0, <2>1, StoreFacts
    <2>5. \A d \in Ids : st.draft[d] = IF d = busy.id THEN "full" ELSE store.draft[d]
      BY <1>0, <2>1, StoreFacts, Zenon
    <2> HIDE DEF st, url
    <2>6. /\ Push(url) \in Seq(Address) /\ Push(url) # <<>> /\ Top(Push(url)) = url
          /\ Held(Push(url)) = Held(entries) \cup {url}
      BY <1>0, <2>2, Pushed DEF Push
    <2>7. Settles(st, Push(url))
      BY <1>2 DEF st, url
    <2>8. /\ Types' /\ Renders(load)
          /\ UNCHANGED <<pages, drafts, lists, visits>>
          /\ busy' = NoCommand /\ store' = st /\ entries' = Push(url)
      BY <1>0, <2>3, <2>6, <2>7, SettlesFacts
    <2>9. Url' = url
      BY <2>6, <2>8 DEF Url
    <2> QED
      BY <1>2, <2>1, <2>2, <2>4, <2>5, <2>6, <2>8, <2>9
  <1>3. CASE /\ busy.phase = "ok" /\ busy.op = "publish"
             /\ Settles(Published(busy.id), Replace(Page(busy.id)))
    <2> DEFINE with == [store EXCEPT !.pages = @ \cup {busy.id}]
               st == WithoutDraft(with, busy.id)
               url == Page(busy.id)
    <2>1. busy.id \in Ids
      BY <1>0, <1>3 DEF Commands
    <2>2. url \in Address /\ url.at = "page" /\ url.id = busy.id /\ url.edit = FALSE
      BY <2>1, AddressFacts DEF Page
    <2>w. with \in Stores /\ with.pages = store.pages \cup {busy.id} /\ with.draft = store.draft
      BY <2>1, AddedPages, Zenon
    <2> HIDE DEF with
    <2>3. st \in Stores
      BY <2>1, <2>w, StoreFacts
    <2>4. st.pages = store.pages \cup {busy.id}
      BY <2>1, <2>w, StoreFacts
    <2>5. \A d \in Ids : st.draft[d] = IF d = busy.id THEN "none" ELSE with.draft[d]
      BY <2>1, <2>w, StoreFacts, Zenon
    <2> HIDE DEF st, url
    <2>6. /\ Topped(entries, url) \in Seq(Address) /\ Topped(entries, url) # <<>>
          /\ Top(Topped(entries, url)) = url
          /\ Held(Topped(entries, url)) \subseteq Held(entries) \cup {url}
      BY <1>0, <2>2, Replaced
    <2>7. Settles(st, Topped(entries, url))
      BY <1>3 DEF st, url, with, Published, Replace, Topped
    <2>8. /\ Types' /\ Renders(load)
          /\ UNCHANGED <<pages, drafts, lists, visits>>
          /\ busy' = NoCommand /\ store' = st /\ entries' = Topped(entries, url)
      BY <1>0, <2>3, <2>6, <2>7, SettlesFacts
    <2>9. Url' = url
      BY <2>6, <2>8 DEF Url
    <2>10. Lost(busy.id)
      BY <2>5, <2>8, <2>w DEF Lost
    <2> QED
      BY <1>3, <2>1, <2>2, <2>4, <2>6, <2>8, <2>9, <2>10
  <1>4. ASSUME NEW es, es = (IF busy.viewing THEN Replace(HomeUrl) ELSE entries)
        PROVE  /\ es \in Seq(Address) /\ es # <<>>
               /\ Top(es) = HomeUrl \/ Top(es) = Url
               /\ Held(es) \subseteq Held(entries) \cup {Top(es)}
    <2>1. CASE busy.viewing
      <3>1. es = Topped(entries, HomeUrl)
        BY <1>4, <2>1 DEF Replace, Topped
      <3> QED
        BY <1>0, <3>1, Replaced, AddressFacts
    <2>2. CASE ~busy.viewing
      BY <1>0, <1>4, <2>2 DEF Url
    <2> QED
      BY <2>1, <2>2
  <1>5. CASE /\ busy.phase = "ok" /\ busy.op = "discard"
             /\ Settles(WithoutDraft(store, busy.id),
                        IF busy.viewing THEN Replace(HomeUrl) ELSE entries)
    <2> DEFINE st == WithoutDraft(store, busy.id)
               es == IF busy.viewing THEN Replace(HomeUrl) ELSE entries
    <2>1. busy.id \in Ids
      BY <1>0, <1>5 DEF Commands
    <2>3. st \in Stores
      BY <1>0, <2>1, StoreFacts
    <2>4. st.pages = store.pages
      BY <1>0, <2>1, StoreFacts
    <2>5. \A d \in Ids : st.draft[d] = IF d = busy.id THEN "none" ELSE store.draft[d]
      BY <1>0, <2>1, StoreFacts, Zenon
    <2>6. /\ es \in Seq(Address) /\ es # <<>> /\ (Top(es) = HomeUrl \/ Top(es) = Url)
          /\ Held(es) \subseteq Held(entries) \cup {Top(es)}
      BY <1>4
    <2>7. Settles(st, es)
      BY <1>5
    <2> HIDE DEF st, es
    <2>8. /\ Types' /\ Renders(load)
          /\ UNCHANGED <<pages, drafts, lists, visits>>
          /\ busy' = NoCommand /\ store' = st /\ entries' = es
      BY <1>0, <2>3, <2>6, <2>7, SettlesFacts
    <2>9. Url' = Top(es)
      BY <2>8 DEF Url
    <2>10. Lost(busy.id)
      BY <2>5, <2>8 DEF Lost
    <2> QED
      BY <1>5, <2>1, <2>4, <2>6, <2>8, <2>9, <2>10
  <1>6. CASE /\ busy.phase = "ok" /\ busy.op = "delete"
             /\ Settles(WithoutDraft([store EXCEPT !.pages = @ \ {busy.id}], busy.id),
                        IF busy.viewing THEN Replace(HomeUrl) ELSE entries)
    <2> DEFINE with == [store EXCEPT !.pages = @ \ {busy.id}]
               st == WithoutDraft(with, busy.id)
               es == IF busy.viewing THEN Replace(HomeUrl) ELSE entries
    <2>1. busy.id \in Ids
      BY <1>0, <1>6 DEF Commands
    <2>w. with \in Stores /\ with.pages = store.pages \ {busy.id} /\ with.draft = store.draft
      BY <2>1, AddedPages, Zenon
    <2>7. Settles(st, es)
      BY <1>6
    <2> HIDE DEF with
    <2>3. st \in Stores
      BY <2>1, <2>w, StoreFacts
    <2>4. st.pages = store.pages \ {busy.id}
      BY <2>1, <2>w, StoreFacts
    <2>5. \A d \in Ids : st.draft[d] = IF d = busy.id THEN "none" ELSE with.draft[d]
      BY <2>1, <2>w, StoreFacts, Zenon
    <2>6. /\ es \in Seq(Address) /\ es # <<>> /\ (Top(es) = HomeUrl \/ Top(es) = Url)
          /\ Held(es) \subseteq Held(entries) \cup {Top(es)}
      BY <1>4
    <2> HIDE DEF st, es
    <2>8. /\ Types' /\ Renders(load)
          /\ UNCHANGED <<pages, drafts, lists, visits>>
          /\ busy' = NoCommand /\ store' = st /\ entries' = es
      BY <1>0, <2>3, <2>6, <2>7, SettlesFacts
    <2>9. Url' = Top(es)
      BY <2>8 DEF Url
    <2>10. Lost(busy.id)
      BY <2>5, <2>8, <2>w DEF Lost
    <2> QED
      BY <1>6, <2>1, <2>4, <2>6, <2>8, <2>9, <2>10
  <1> QED
    BY <1>1, <1>2, <1>3, <1>5, <1>6, Zenon DEF CommandAnswered

LEMMA TypesStep ==
    ASSUME RouteAssumption, Types, [Next]_vars
    PROVE  Types'
  <1>1. CASE UNCHANGED vars
    BY <1>1 DEF vars, server, Types, LoadFits, Url
  <1> QED
    BY <1>1, RedirectFacts, ServerReadsFacts, DraftArrivesFacts, PageArrivesFacts,
      ListArrivesFacts,
       PageArrivesLateFacts, WentFacts, CommandFacts, ServerCommandsFacts, CommandAnsweredFacts,
       SaveEditFacts, ElsewhereFacts
    DEF Next, Answering, WentSomewhere

LEMMA StaysTyped ==
    ASSUME RouteAssumption
    PROVE  Spec => []Types
  BY TypesInit, TypesStep, PTL DEF Spec

(* The history, the loads of the routed visit, the client's store and the   *)
(* server's rows stay what PageRoute's TypeOK says, whoever answers whom in *)
(* which order (hooks/pages.ts, hooks/drafts.ts, space_view.tsx).           *)
THEOREM RouteTypes ==
    ASSUME RouteAssumption
    PROVE  Spec => []TypeOK
  <1>1. Types => TypeOK
    <2> SUFFICES ASSUME Types PROVE TypeOK
      OBVIOUS
    <2> DEFINE all == Addresses(Ids, Ids)
    <2>1. ASSUME NEW url \in Address
          PROVE  url \in all \cup {Editing(u) : u \in all \ {HomeUrl, Overview}}
      <3>1. /\ url.at \in {"home", "overview", "page", "draft"} /\ url.edit \in BOOLEAN
            /\ url = [at |-> url.at, id |-> url.id, edit |-> url.edit]
            /\ url.at \in {"home", "overview"} => url.id = NoId /\ url.edit = FALSE
            /\ url.at \in {"page", "draft"} => url.id \in Ids
        BY DEF Address
      <3>2. CASE url.at = "home"
        BY <3>1, <3>2 DEF Addresses, HomeUrl
      <3>3. CASE url.at = "overview"
        BY <3>1, <3>3 DEF Addresses, Overview
      <3>4. CASE url.at = "page"
        <4>1. Page(url.id) \in all
          BY <3>1, <3>4 DEF Addresses
        <4>2. Page(url.id) \notin {HomeUrl, Overview}
          BY DEF Page, HomeUrl, Overview
        <4>3. url = Page(url.id) \/ url = Editing(Page(url.id))
          BY <3>1, <3>4 DEF Page, Editing
        <4> QED
          BY <4>1, <4>2, <4>3
      <3>5. CASE url.at = "draft"
        <4>1. DraftOf(url.id) \in all
          BY <3>1, <3>5 DEF Addresses
        <4>2. DraftOf(url.id) \notin {HomeUrl, Overview}
          BY DEF DraftOf, HomeUrl, Overview
        <4>3. url = DraftOf(url.id) \/ url = Editing(DraftOf(url.id))
          BY <3>1, <3>5 DEF DraftOf, Editing
        <4> QED
          BY <4>1, <4>2, <4>3
      <3> QED
        BY <3>1, <3>2, <3>3, <3>4, <3>5
    <2>2. \A i \in DOMAIN entries : entries[i] \in Address
      BY DEF Types
    <2> QED
      BY <2>1, <2>2 DEF Types, TypeOK, LoadFits, Loads, Stores, Request
  <1> QED
    BY <1>1, StaysTyped, PTL

-----------------------------------------------------------------------------
(* Nobody is sent away from what is there *)

(* What the theorem asks of its instance: no request fails, others only     *)
(* discard and delete, links lead to pages that were there, and the listings *)
(* are in, or one visit at most is made while they are not.                  *)
Benign ==
  /\ ~Failures /\ Outside \subseteq {"discard", "delete"} /\ PageLinks \subseteq InitPages
  /\ Listed \/ MaxVisits <= 1

\* A publish, discard or delete that the server has done and the client has not
\* heard of.
Going == busy.phase = "ok" /\ busy.op # "create"

\* id is a page somewhere: at first, in the client's store, in an answer on its
\* way, in the history, or as what a publish has made.
WasPage(id) ==
  \/ id \in InitPages \cup store.pages \cup lists.pages.ids
  \/ \E e \in Held(entries) : e.at = "page" /\ e.id = id
  \/ Going /\ busy.op = "publish" /\ busy.id = id

\* The history variable is no weaker than the server's rows of this moment.
AbsentIsGone == Absent(Url, pages, drafts) => gone

\* Creating, publishing and editing each take one of the visits.
EditIsAVisit ==
  /\ \A e \in Held(entries) : e.edit => visits # 0
  /\ busy.op \in {"create", "publish"} => visits # 0

\* A space that is listed at first asks for no listing again.
ListingsAreIn == Listed => lists = [pages |-> Idle, drafts |-> Idle]

\* ... and its client knows every page but the one a publish is making.
PagesAreKnown ==
  Listed => \A id \in pages : id \in store.pages \/ (Going /\ busy.op = "publish" /\ busy.id = id)

\* A draft of what is a page for anybody is a draft of a live page: deleting
\* takes the drafts along, and nobody publishes or restores from outside.
DraftsOfPages == \A id \in drafts : WasPage(id) => id \in pages

\* A page was settled as not there only when neither it nor a draft was.
CheckedIsGone ==
  /\ load.checked \notin pages \cup drafts
  /\ load.page = "absent" => Url.id \notin pages \cup drafts
  /\ load.page # "failed" /\ load.draft # "failed"

(* The draft of id need not be what the client has: the page is there, or    *)
(* the one visit has been made and this is not the draft's address, or it is  *)
(* the address of a draft that was gone.                                      *)
Justified(id) ==
  /\ Listed => id \in store.pages
  /\ ~Listed => visits = MaxVisits
  /\ (~Listed /\ Url.at = "draft" /\ Url.id = id) => (gone \/ id \in store.pages)

\* The routed draft counts as loaded, is on the server and yet has no body in the
\* client's store only where that sends nobody away.
LoadedIsThere ==
  ((load.loaded = Url.id \/ load.draft = "absent")
     /\ Url.id \in drafts /\ store.draft[Url.id] # "full") => Justified(Url.id)

\* What the client is about to forget is gone, unless forgetting sends nobody
\* away: a publish leaves the page, and the draft's address moves to it.
RemovedIsGone ==
  /\ Going /\ busy.op = "delete" => busy.id \notin pages \cup drafts
  /\ Going /\ busy.id \in drafts => (Listed /\ busy.op = "publish") \/ Justified(busy.id)

\* The inductive invariant.
RouteInv ==
  /\ AbsentIsGone /\ EditIsAVisit /\ ListingsAreIn /\ PagesAreKnown /\ DraftsOfPages
  /\ CheckedIsGone /\ LoadedIsThere /\ RemovedIsGone

LEMMA VisitCounts ==
    ASSUME RouteAssumption, Benign, Types
    PROVE  /\ ~Listed /\ visits # 0 => visits = MaxVisits
           /\ visits < MaxVisits => visits # MaxVisits
           /\ visits' = visits + 1 => visits' # 0
  BY DEF RouteAssumption, Benign, Types

LEMMA NothingMissed ==
    ASSUME RouteAssumption, Types, Rendered
    PROVE  /\ Url.at = "draft" => Url.id \notin store.pages
  BY DEF Rendered, Redirects

LEMMA RouteInvInit ==
    ASSUME RouteAssumption, Benign, Init
    PROVE  RouteInv
  <1>1. PICK url \in Addresses(PageLinks, DraftLinks) : entries = <<url>>
    BY DEF Init
  <1>2. Url = url /\ Held(entries) = {url}
    BY <1>1 DEF Url, Top, Held
  <1>3. url.edit = FALSE /\ (url.at = "page" => url.id \in PageLinks)
    BY DEF Addresses, Page, DraftOf, HomeUrl, Overview
  <1>4. /\ load.loaded = NoId /\ load.checked = NoId /\ load.draft \in {"idle", "sent"}
        /\ load.page \in {"idle", "sent"}
        /\ busy.op = "none" /\ busy.phase = "idle" /\ lists.pages.ids = {}
    BY DEF Init, AskDraft, AskPage, NoCommand, Idle
  <1>5. AbsentIsGone /\ ListingsAreIn
    BY DEF Init, AbsentIsGone, ListingsAreIn
  <1>6. EditIsAVisit
    BY <1>2, <1>3, <1>4 DEF EditIsAVisit
  <1>7. PagesAreKnown
    BY DEF Init, PagesAreKnown
  <1>8. DraftsOfPages
    BY <1>2, <1>3, <1>4 DEF Init, DraftsOfPages, WasPage, Going, Benign
  <1>9. CheckedIsGone
    BY <1>4 DEF Init, CheckedIsGone, RouteAssumption
  <1>10. LoadedIsThere
    <2>1. drafts \subseteq Ids /\ NoId \notin Ids
      BY DEF Init, RouteAssumption
    <2> QED
      BY <1>4, <2>1 DEF LoadedIsThere
  <1>11. RemovedIsGone
    BY <1>4 DEF RemovedIsGone, Going
  <1> QED
    BY <1>5, <1>6, <1>7, <1>8, <1>9, <1>10, <1>11 DEF RouteInv

LEMMA RouteInvRedirect ==
    ASSUME RouteAssumption, Benign, Types, RouteInv, Redirect
    PROVE  RouteInv'
  <1>1. /\ Renders(load) /\ UNCHANGED <<pages, drafts, store, lists, busy, visits>>
        /\ Held(entries') \subseteq Held(entries) \cup {Url'}
        /\ Url'.edit = FALSE
        /\ \/ Url'.at = "page" /\ Url'.id \in store.pages /\ (Url.id = Url'.id \/ Url.id = NoId)
           \/ Url'.at = "overview" /\ Url'.id = NoId
    BY RedirectFacts, Zenon
  <1>2. NoId \notin Ids /\ drafts \subseteq Ids
    BY DEF RouteAssumption, Types
  <1>3. AbsentIsGone'
    BY <1>1, Zenon DEF Renders, AbsentIsGone
  <1>4. EditIsAVisit' /\ ListingsAreIn' /\ PagesAreKnown'
    BY <1>1 DEF RouteInv, EditIsAVisit, ListingsAreIn, PagesAreKnown, Going
  <1>5. DraftsOfPages'
    BY <1>1 DEF RouteInv, DraftsOfPages, WasPage, Going
  <1>6. CheckedIsGone'
    BY <1>1 DEF RouteInv, CheckedIsGone, Renders, AskDraft
  <1>7. LoadedIsThere'
    BY <1>1, <1>2 DEF RouteInv, LoadedIsThere, Justified, Renders, AskDraft
  <1>8. RemovedIsGone'
    BY <1>1, <1>2 DEF RouteInv, RemovedIsGone, Justified, Going
  <1> QED
    BY <1>3, <1>4, <1>5, <1>6, <1>7, <1>8 DEF RouteInv

LEMMA RouteInvReads ==
    ASSUME RouteAssumption, Benign, Types, RouteInv, ServerReads
    PROVE  RouteInv'
  <1>1. /\ UNCHANGED <<pages, drafts, store, entries, busy, visits, gone>>
        /\ load'.loaded = load.loaded /\ load'.checked = load.checked
        /\ \/ load'.draft = load.draft
           \/ load'.draft = "found"
           \/ load'.draft = "absent" /\ Url.id \notin drafts
        /\ \/ load'.page = load.page
           \/ load'.page = "found" /\ Url.at = "page"
           \/ load'.page = "absent" /\ Url.at = "page" /\ Url.id \notin pages
        /\ lists'.pages.ids \in {lists.pages.ids, pages}
        /\ lists = [pages |-> Idle, drafts |-> Idle] => lists' = lists
    BY ServerReadsFacts DEF Benign
  <1>2. Url' = Url
    BY <1>1 DEF Url
  <1>3. Url \in Held(entries)
    BY UrlFacts
  <1>4. AbsentIsGone' /\ EditIsAVisit' /\ ListingsAreIn' /\ PagesAreKnown'
    BY <1>1, <1>2 DEF RouteInv, AbsentIsGone, EditIsAVisit, ListingsAreIn, PagesAreKnown, Going
  <1>5. DraftsOfPages'
    BY <1>1 DEF RouteInv, DraftsOfPages, WasPage, Going
  <1>6. Url.at = "page" /\ Url.id \notin pages => Url.id \notin drafts
    BY <1>3 DEF RouteInv, DraftsOfPages, WasPage
  <1>7. CheckedIsGone'
    BY <1>1, <1>2, <1>6 DEF RouteInv, CheckedIsGone
  <1>8. LoadedIsThere'
    BY <1>1, <1>2 DEF RouteInv, LoadedIsThere, Justified
  <1>9. RemovedIsGone'
    BY <1>1, <1>2 DEF RouteInv, RemovedIsGone, Justified, Going
  <1> QED
    BY <1>4, <1>5, <1>7, <1>8, <1>9 DEF RouteInv

LEMMA RouteInvDraftArrives ==
    ASSUME RouteAssumption, Benign, Types, RouteInv, DraftArrives
    PROVE  RouteInv'
  <1>1. PICK now : /\ Renders(now) /\ now.loaded = Url.id /\ now.draft = "idle"
                   /\ now.checked = load.checked /\ now.page = load.page
    BY DraftArrivesFacts
  <1>2. /\ UNCHANGED <<pages, drafts, entries, lists, busy, visits>>
        /\ store'.pages = store.pages
        /\ \/ /\ load.draft = "found"
              /\ \A d \in Ids : store'.draft[d] = IF d = Url.id THEN "full" ELSE store.draft[d]
           \/ load.draft \in {"absent", "failed"} /\ store' = store
    BY DraftArrivesFacts
  <1>3. Url' = Url /\ drafts \subseteq Ids
    BY <1>2 DEF Url, Types
  <1>4. /\ gone => gone'
        /\ load'.loaded = Url.id /\ load'.draft = "idle" /\ load'.checked = load.checked
        /\ load'.page \in {"idle", "sent", load.page}
    BY <1>1, <1>3, Zenon DEF Renders
  <1>5. AbsentIsGone'
    BY <1>1, Zenon DEF Renders, AbsentIsGone
  <1>6. EditIsAVisit' /\ ListingsAreIn' /\ PagesAreKnown'
    BY <1>2 DEF RouteInv, EditIsAVisit, ListingsAreIn, PagesAreKnown, Going
  <1>7. DraftsOfPages'
    BY <1>2 DEF RouteInv, DraftsOfPages, WasPage, Going
  <1>8. CheckedIsGone'
    BY <1>2, <1>3, <1>4 DEF RouteInv, CheckedIsGone
  <1>9. LoadedIsThere'
    BY <1>2, <1>3, <1>4 DEF RouteInv, LoadedIsThere, Justified, CheckedIsGone
  <1>10. RemovedIsGone'
    BY <1>2, <1>3, <1>4 DEF RouteInv, RemovedIsGone, Justified, Going
  <1> QED
    BY <1>5, <1>6, <1>7, <1>8, <1>9, <1>10 DEF RouteInv

LEMMA RouteInvPageArrives ==
    ASSUME RouteAssumption, Benign, Types, RouteInv, PageArrives
    PROVE  RouteInv'
  <1>1. PICK now : /\ Renders(now) /\ now.loaded = load.loaded /\ now.draft = load.draft
                   /\ now.checked = (IF load.page = "found" THEN load.checked ELSE Url.id)
                   /\ now.page = "idle"
    BY PageArrivesFacts
  <1>2. /\ UNCHANGED <<pages, drafts, entries, lists, busy, visits>>
        /\ store'.pages = IF load.page = "found" THEN store.pages \cup {Url.id} ELSE store.pages
        /\ store'.draft = store.draft /\ Url.at = "page"
        /\ load.page \in {"found", "absent", "failed"}
    BY PageArrivesFacts DEF PageArrives
  <1>3. Url' = Url /\ drafts \subseteq Ids /\ Url \in Held(entries)
    BY <1>2, UrlFacts DEF Url, Types
  <1>4. /\ gone => gone'
        /\ load'.loaded = load.loaded /\ load'.draft = load.draft
        /\ load'.checked = (IF load.page = "found" THEN load.checked ELSE Url.id)
        /\ load'.page \in {"idle", "sent"}
    BY <1>1, <1>3, Zenon DEF Renders
  <1>5. AbsentIsGone'
    BY <1>1, Zenon DEF Renders, AbsentIsGone
  <1>6. EditIsAVisit' /\ ListingsAreIn' /\ PagesAreKnown'
    BY <1>2 DEF RouteInv, EditIsAVisit, ListingsAreIn, PagesAreKnown, Going
  <1>7. DraftsOfPages'
    BY <1>2, <1>3 DEF RouteInv, DraftsOfPages, WasPage, Going
  <1>8. CheckedIsGone'
    BY <1>2, <1>3, <1>4 DEF RouteInv, CheckedIsGone
  <1>9. LoadedIsThere'
    BY <1>2, <1>3, <1>4 DEF RouteInv, LoadedIsThere, Justified
  <1>10. RemovedIsGone'
    BY <1>2, <1>3, <1>4 DEF RouteInv, RemovedIsGone, Justified, Going
  <1> QED
    BY <1>5, <1>6, <1>7, <1>8, <1>9, <1>10 DEF RouteInv

LEMMA RouteInvArrivesLate ==
    ASSUME RouteAssumption, Benign, Types, RouteInv, PageArrivesLate
    PROVE  RouteInv'
  <1>1. /\ UNCHANGED <<pages, drafts, entries, lists, busy, visits, gone>>
        /\ load'.loaded = load.loaded /\ load'.draft = load.draft /\ load'.checked = load.checked
        /\ load'.page \in {load.page, "idle", "sent"}
        /\ store'.draft = store.draft
        /\ store' = store \/ \E id \in pages : store'.pages = store.pages \cup {id}
    BY PageArrivesLateFacts
  <1>2. Url' = Url
    BY <1>1 DEF Url
  <1>4. AbsentIsGone' /\ EditIsAVisit' /\ ListingsAreIn' /\ PagesAreKnown'
    BY <1>1, <1>2 DEF RouteInv, AbsentIsGone, EditIsAVisit, ListingsAreIn, PagesAreKnown, Going
  <1>5. DraftsOfPages'
    BY <1>1 DEF RouteInv, DraftsOfPages, WasPage, Going
  <1>7. CheckedIsGone'
    BY <1>1, <1>2 DEF RouteInv, CheckedIsGone
  <1>8. LoadedIsThere'
    BY <1>1, <1>2 DEF RouteInv, LoadedIsThere, Justified
  <1>9. RemovedIsGone'
    BY <1>1, <1>2 DEF RouteInv, RemovedIsGone, Justified, Going
  <1> QED
    BY <1>4, <1>5, <1>7, <1>8, <1>9 DEF RouteInv

LEMMA RouteInvListArrives ==
    ASSUME RouteAssumption, Benign, Types, RouteInv, ListArrives
    PROVE  RouteInv'
  <1>1. /\ Renders(load) /\ UNCHANGED <<pages, drafts, entries, busy, visits>>
        /\ \A d \in Ids : store'.draft[d] = "full" <=> store.draft[d] = "full"
        /\ store'.pages \in {store.pages, lists.pages.ids}
        /\ lists'.pages.ids \subseteq lists.pages.ids
        /\ ~Listed
    BY ListArrivesFacts DEF RouteInv, ListingsAreIn
  <1>2. Url' = Url /\ drafts \subseteq Ids
    BY <1>1 DEF Url, Types
  <1>3. Url.at = "draft" => Url.id \notin store.pages
    BY NothingMissed DEF ListArrives
  <1>4. /\ gone => gone'
        /\ load'.loaded = load.loaded /\ load'.draft = load.draft /\ load'.checked = load.checked
        /\ load'.page \in {load.page, "idle", "sent"}
    BY <1>1, <1>2, Zenon DEF Renders
  <1>5. AbsentIsGone'
    BY <1>1, Zenon DEF Renders, AbsentIsGone
  <1>6. EditIsAVisit' /\ ListingsAreIn' /\ PagesAreKnown'
    BY <1>1 DEF RouteInv, EditIsAVisit, ListingsAreIn, PagesAreKnown
  <1>7. DraftsOfPages'
    BY <1>1 DEF RouteInv, DraftsOfPages, WasPage, Going
  <1>8. CheckedIsGone'
    BY <1>1, <1>2, <1>4 DEF RouteInv, CheckedIsGone
  <1>9. LoadedIsThere'
    BY <1>1, <1>2, <1>3, <1>4 DEF RouteInv, LoadedIsThere, Justified
  <1>10. RemovedIsGone'
    BY <1>1, <1>2, <1>3, <1>4 DEF RouteInv, RemovedIsGone, Justified, Going
  <1> QED
    BY <1>5, <1>6, <1>7, <1>8, <1>9, <1>10 DEF RouteInv

LEMMA RouteInvWent ==
    ASSUME RouteAssumption, Benign, Types, RouteInv, WentSomewhere
    PROVE  RouteInv'
  <1>1. /\ Renders(load) /\ UNCHANGED <<pages, drafts, store, lists, busy>>
        /\ visits < MaxVisits /\ visits' = visits + 1
        /\ \A e \in Held(entries') : e.at = "page" =>
             \/ e.id \in PageLinks \cup store.pages
             \/ \E d \in Held(entries) : d.at = "page" /\ d.id = e.id
    BY WentFacts
  <1>2. NoId \notin Ids /\ drafts \subseteq Ids
    BY DEF RouteAssumption, Types
  <1>3. visits # MaxVisits /\ visits' # 0
    BY <1>1, VisitCounts
  <1>4. AbsentIsGone'
    BY <1>1, Zenon DEF Renders, AbsentIsGone
  <1>5. EditIsAVisit'
    BY <1>3 DEF EditIsAVisit
  <1>6. ListingsAreIn' /\ PagesAreKnown'
    BY <1>1 DEF RouteInv, ListingsAreIn, PagesAreKnown, Going
  <1>7. DraftsOfPages'
    <2>1. \A id : WasPage(id)' => WasPage(id)
      BY <1>1 DEF WasPage, Going, Benign
    <2> QED
      BY <1>1, <2>1 DEF RouteInv, DraftsOfPages
  <1>8. CheckedIsGone'
    BY <1>1 DEF RouteInv, CheckedIsGone, Renders, AskDraft
  <1>9. LoadedIsThere'
    BY <1>1, <1>2, <1>3 DEF RouteInv, LoadedIsThere, Justified, Renders, AskDraft
  <1>10. RemovedIsGone'
    BY <1>1, <1>3 DEF RouteInv, RemovedIsGone, Justified, Going
  <1> QED
    BY <1>4, <1>5, <1>6, <1>7, <1>8, <1>9, <1>10 DEF RouteInv

LEMMA RouteInvCommand ==
    ASSUME RouteAssumption, Benign, Types, RouteInv, Command
    PROVE  RouteInv'
  <1>1. /\ UNCHANGED <<pages, drafts, store, entries, load, lists, gone>>
        /\ busy = NoCommand /\ busy'.phase = "sent"
        /\ visits' = visits + (IF busy'.op = "create" THEN 1 ELSE 0)
        /\ busy'.op = "publish" => Url.edit
        /\ visits \in Nat
    BY CommandFacts DEF Types
  <1>2. Url' = Url /\ Url \in Held(entries)
    BY <1>1, UrlFacts DEF Url
  <1>3. /\ visits # 0 => visits' # 0
        /\ busy'.op = "create" => visits' # 0
        /\ visits = MaxVisits => visits' = MaxVisits
    BY <1>1, CommandFacts DEF Types, RouteAssumption
  <1>4. ~Going /\ ~Going'
    BY <1>1 DEF Going, NoCommand
  <1>5. AbsentIsGone' /\ ListingsAreIn' /\ CheckedIsGone'
    BY <1>1, <1>2 DEF RouteInv, AbsentIsGone, ListingsAreIn, CheckedIsGone
  <1>6. EditIsAVisit'
    BY <1>1, <1>2, <1>3 DEF RouteInv, EditIsAVisit
  <1>7. PagesAreKnown'
    BY <1>1, <1>4 DEF RouteInv, PagesAreKnown
  <1>8. DraftsOfPages'
    BY <1>1, <1>4 DEF RouteInv, DraftsOfPages, WasPage
  <1>9. LoadedIsThere'
    BY <1>1, <1>2, <1>3 DEF RouteInv, LoadedIsThere, Justified
  <1>10. RemovedIsGone'
    BY <1>4 DEF RemovedIsGone
  <1> QED
    BY <1>5, <1>6, <1>7, <1>8, <1>9, <1>10 DEF RouteInv

LEMMA RouteInvServerCommands ==
    ASSUME RouteAssumption, Benign, Types, RouteInv, ServerCommands
    PROVE  RouteInv'
  <1>1. /\ UNCHANGED <<store, entries, load, lists, visits>>
        /\ busy.phase = "sent" /\ busy'.op = busy.op
        /\ gone' = (gone \/ Absent(Url, pages', drafts'))
    BY ServerCommandsFacts
  <1>2. \/ /\ busy.op = "create" /\ IsNew(busy'.id)
           /\ pages' = pages /\ drafts' = drafts \cup {busy'.id}
        \/ busy'.phase = "failed" /\ pages' = pages /\ drafts' = drafts
        \/ /\ busy.op = "publish" /\ busy'.phase = "ok" /\ busy'.id = busy.id /\ busy.id \in drafts
           /\ pages' = pages \cup {busy.id} /\ drafts' = drafts \ {busy.id}
        \/ /\ busy.op = "discard" /\ busy'.id = busy.id
           /\ pages' = pages /\ drafts' = drafts \ {busy.id}
        \/ /\ busy.op = "delete" /\ busy'.id = busy.id
           /\ pages' = pages \ {busy.id} /\ drafts' = drafts \ {busy.id}
    BY ServerCommandsFacts
  <1>3. Url' = Url /\ Url \in Held(entries)
    BY <1>1, UrlFacts DEF Url
  <1>4. ~Going
    BY <1>1 DEF Going
  <1>5. AbsentIsGone' /\ EditIsAVisit' /\ ListingsAreIn'
    BY <1>1, <1>3, Zenon DEF RouteInv, AbsentIsGone, EditIsAVisit, ListingsAreIn
  <1>6. PagesAreKnown'
    BY <1>1, <1>2, <1>4 DEF RouteInv, PagesAreKnown, Going
  <1>7. CASE busy.op = "create" /\ IsNew(busy'.id)
             /\ pages' = pages /\ drafts' = drafts \cup {busy'.id}
    <2> DEFINE new == busy'.id
    <2>1. /\ new \notin pages \cup drafts \cup InitPages \cup store.pages \cup lists.pages.ids
          /\ new # load.checked
      BY <1>7 DEF IsNew
    <2>2. \A e \in Held(entries) : e.id # new
      BY <1>7 DEF IsNew, Held
    <2>3. ~Going' /\ new # Url.id
      BY <1>1, <1>3, <1>7, <2>2 DEF Going
    <2> HIDE DEF new
    <2>4. pages' = pages /\ drafts' = drafts \cup {new}
      BY <1>7 DEF new
    <2>5. DraftsOfPages'
      <3>1. \A id : WasPage(id)' => WasPage(id) /\ id # new
        BY <1>1, <2>1, <2>2, <2>3 DEF WasPage
      <3> QED
        BY <2>4, <3>1 DEF RouteInv, DraftsOfPages
    <2>6. CheckedIsGone'
      BY <1>1, <1>3, <2>1, <2>3, <2>4 DEF RouteInv, CheckedIsGone
    <2>7. LoadedIsThere'
      BY <1>1, <1>3, <2>3, <2>4, Zenon DEF RouteInv, LoadedIsThere, Justified
    <2>8. RemovedIsGone'
      BY <2>3 DEF RemovedIsGone
    <2> QED
      BY <1>5, <1>6, <2>5, <2>6, <2>7, <2>8 DEF RouteInv
  <1>8. CASE /\ pages' \cup drafts' \subseteq pages \cup drafts /\ drafts' \subseteq drafts
             /\ drafts' \cap pages \subseteq pages'
             /\ ~Going' \/ busy'.id \notin drafts'
             /\ Going' /\ busy'.op = "delete" => busy'.id \notin pages'
    <2>1. DraftsOfPages'
      <3>1. \A id \in drafts' : WasPage(id)' => WasPage(id)
        BY <1>1, <1>8 DEF WasPage
      <3> QED
        BY <1>8, <3>1 DEF RouteInv, DraftsOfPages
    <2>2. CheckedIsGone'
      BY <1>1, <1>3, <1>8 DEF RouteInv, CheckedIsGone
    <2>3. LoadedIsThere'
      BY <1>1, <1>3, <1>8, Zenon DEF RouteInv, LoadedIsThere, Justified
    <2>4. RemovedIsGone'
      BY <1>8 DEF RemovedIsGone
    <2> QED
      BY <1>5, <1>6, <2>1, <2>2, <2>3, <2>4 DEF RouteInv
  <1>10. CASE busy'.phase = "failed" /\ pages' = pages /\ drafts' = drafts
    BY <1>8, <1>10 DEF Going
  <1>11. CASE /\ busy.op = "publish" /\ busy'.id = busy.id /\ busy.id \in drafts
              /\ pages' = pages \cup {busy.id} /\ drafts' = drafts \ {busy.id}
    BY <1>1, <1>8, <1>11
  <1>12. CASE /\ busy.op = "discard" /\ busy'.id = busy.id
              /\ pages' = pages /\ drafts' = drafts \ {busy.id}
    BY <1>1, <1>8, <1>12
  <1>13. CASE /\ busy.op = "delete" /\ busy'.id = busy.id
              /\ pages' = pages \ {busy.id} /\ drafts' = drafts \ {busy.id}
    BY <1>1, <1>8, <1>13
  <1> QED
    BY <1>2, <1>7, <1>10, <1>11, <1>12, <1>13

LEMMA RouteInvElsewhere ==
    ASSUME RouteAssumption, Benign, Types, RouteInv, Elsewhere
    PROVE  RouteInv'
  <1>1. /\ UNCHANGED <<store, entries, load, lists, busy, visits>>
        /\ gone' = (gone \/ Absent(Url, pages', drafts'))
        /\ \E id \in Ids : drafts' = drafts \ {id} /\ pages' \in {pages, pages \ {id}}
    BY ElsewhereFacts DEF Benign
  <1>2. Url' = Url
    BY <1>1 DEF Url
  <1>3. /\ pages' \subseteq pages /\ drafts' \subseteq drafts /\ drafts' \cap pages \subseteq pages'
    BY <1>1
  <1>4. AbsentIsGone' /\ EditIsAVisit' /\ ListingsAreIn' /\ PagesAreKnown'
    BY <1>1, <1>2, <1>3, Zenon
       DEF RouteInv, AbsentIsGone, EditIsAVisit, ListingsAreIn, PagesAreKnown, Going
  <1>5. DraftsOfPages'
    BY <1>1, <1>3 DEF RouteInv, DraftsOfPages, WasPage, Going
  <1>6. CheckedIsGone'
    BY <1>1, <1>2, <1>3 DEF RouteInv, CheckedIsGone
  <1>7. LoadedIsThere'
    BY <1>1, <1>2, <1>3, Zenon DEF RouteInv, LoadedIsThere, Justified
  <1>8. RemovedIsGone'
    BY <1>1, <1>2, <1>3, Zenon DEF RouteInv, RemovedIsGone, Justified, Going
  <1> QED
    BY <1>4, <1>5, <1>6, <1>7, <1>8 DEF RouteInv

LEMMA RouteInvSaveEdit ==
    ASSUME RouteAssumption, Benign, Types, RouteInv, SaveEdit
    PROVE  RouteInv'
  <1>1. /\ Renders(load) /\ UNCHANGED <<pages, entries, lists, busy, visits>>
        /\ Url.edit /\ Url.id \in Ids /\ Url.id \in pages \cup drafts
        /\ drafts' = drafts \cup {Url.id} /\ store'.pages = store.pages
        /\ \A d \in Ids : store'.draft[d] = IF d = Url.id THEN "full" ELSE store.draft[d]
    BY SaveEditFacts
  <1>2. Url' = Url /\ Url \in Held(entries)
    BY <1>1, UrlFacts DEF Url
  <1>3. /\ gone => gone'
        /\ load'.loaded = load.loaded /\ load'.draft = load.draft /\ load'.checked = load.checked
        /\ load'.page \in {load.page, "idle", "sent"}
    BY <1>1, <1>2, Zenon DEF Renders
  <1>4. ~Listed => visits = MaxVisits
    BY <1>1, <1>2, VisitCounts DEF RouteInv, EditIsAVisit
  <1>5. AbsentIsGone'
    BY <1>1, Zenon DEF Renders, AbsentIsGone
  <1>6. EditIsAVisit' /\ ListingsAreIn' /\ PagesAreKnown'
    BY <1>1 DEF RouteInv, EditIsAVisit, ListingsAreIn, PagesAreKnown, Going
  <1>7. DraftsOfPages'
    <2>1. \A id : WasPage(id)' => WasPage(id)
      BY <1>1 DEF WasPage, Going
    <2> QED
      BY <1>1, <2>1 DEF RouteInv, DraftsOfPages
  <1>8. CheckedIsGone'
    BY <1>1, <1>2, <1>3 DEF RouteInv, CheckedIsGone
  <1>9. LoadedIsThere'
    BY <1>1, <1>2 DEF LoadedIsThere
  <1>10. RemovedIsGone'
    <2>1. Going /\ busy.op = "delete" => busy.id \notin pages \cup drafts
      BY DEF RouteInv, RemovedIsGone
    <2>2. ASSUME Going, busy.id \in drafts
          PROVE  (Listed /\ busy.op = "publish") \/ Justified(busy.id)'
      BY <1>1, <1>2, <1>3, <2>2 DEF RouteInv, RemovedIsGone, Justified
    <2>3. ASSUME Going, busy.id = Url.id, busy.id \notin drafts
          PROVE  (Listed /\ busy.op = "publish") \/ Justified(busy.id)'
      <3>1. Url.at = "draft" => gone'
        BY <1>1, <1>2, <1>3, <2>3 DEF RouteInv, AbsentIsGone, Absent
      <3>2. Listed => busy.op = "publish" \/ busy.id \in store.pages
        BY <1>1, <2>3 DEF RouteInv, PagesAreKnown
      <3> QED
        BY <1>1, <1>2, <1>4, <3>1, <3>2 DEF Justified
    <2> QED
      BY <1>1, <2>1, <2>2, <2>3 DEF RemovedIsGone, Going
  <1> QED
    BY <1>5, <1>6, <1>7, <1>8, <1>9, <1>10 DEF RouteInv

LEMMA RouteInvCommandAnswered ==
    ASSUME RouteAssumption, Benign, Types, RouteInv, CommandAnswered
    PROVE  RouteInv'
  <1>1. /\ Renders(load) /\ UNCHANGED <<pages, drafts, lists, visits>>
        /\ busy' = NoCommand
    BY CommandAnsweredFacts
  <1>2. /\ NoId \notin Ids /\ drafts \subseteq Ids /\ Url \in Held(entries)
    BY UrlFacts DEF RouteAssumption, Types
  <1>3. ~Going' /\ busy'.op = "none"
    BY <1>1 DEF Going, NoCommand
  <1>4. AbsentIsGone' /\ ListingsAreIn' /\ RemovedIsGone'
    BY <1>1, <1>3, Zenon DEF RouteInv, Renders, AbsentIsGone, ListingsAreIn, RemovedIsGone
  <1>5. CheckedIsGone'
    BY <1>1 DEF RouteInv, CheckedIsGone, Renders, AskDraft
  <1>6. CASE busy.phase = "failed" /\ store' = store /\ entries' = entries
    <2>1. Url' = Url /\ ~Going
      BY <1>6 DEF Url, Going
    <2>2. EditIsAVisit' /\ PagesAreKnown'
      BY <1>1, <1>3, <1>6, <2>1 DEF RouteInv, EditIsAVisit, PagesAreKnown
    <2>3. DraftsOfPages'
      BY <1>1, <1>3, <1>6, <2>1 DEF RouteInv, DraftsOfPages, WasPage
    <2>4. LoadedIsThere'
      BY <1>1, <1>6, <2>1, Zenon DEF RouteInv, LoadedIsThere, Justified, Renders
    <2> QED
      BY <1>4, <1>5, <2>2, <2>3, <2>4 DEF RouteInv
  <1>7. CASE /\ busy.phase = "ok" /\ busy.op = "create" /\ busy.id \in Ids
             /\ Held(entries') = Held(entries) \cup {Url'}
             /\ Url'.at = "draft" /\ Url'.id = busy.id
             /\ store'.pages = store.pages
             /\ \A d \in Ids : store'.draft[d] = IF d = busy.id THEN "full" ELSE store.draft[d]
    <2>1. ~Going
      BY <1>7 DEF Going
    <2>2. EditIsAVisit' /\ PagesAreKnown'
      BY <1>1, <1>3, <1>7, <2>1 DEF RouteInv, EditIsAVisit, PagesAreKnown
    <2>3. DraftsOfPages'
      BY <1>1, <1>3, <1>7, <2>1 DEF RouteInv, DraftsOfPages, WasPage
    <2>4. LoadedIsThere'
      BY <1>7 DEF LoadedIsThere
    <2> QED
      BY <1>4, <1>5, <2>2, <2>3, <2>4 DEF RouteInv
  <1>8. CASE /\ busy.phase = "ok" /\ busy.op = "publish" /\ busy.id \in Ids
             /\ Held(entries') \subseteq Held(entries) \cup {Url'}
             /\ Url'.at = "page" /\ Url'.id = busy.id /\ Url'.edit = FALSE
             /\ store'.pages = store.pages \cup {busy.id}
             /\ Lost(busy.id)
    <2>1. Going
      BY <1>8 DEF Going
    <2>2. EditIsAVisit' /\ PagesAreKnown'
      BY <1>1, <1>3, <1>8, <2>1 DEF RouteInv, EditIsAVisit, PagesAreKnown
    <2>3. DraftsOfPages'
      <3>1. \A id : WasPage(id)' => WasPage(id)
        BY <1>1, <1>3, <1>8, <2>1 DEF WasPage
      <3> QED
        BY <1>1, <3>1 DEF RouteInv, DraftsOfPages
    <2>4. ~Listed => visits = MaxVisits
      BY <1>8, VisitCounts DEF RouteInv, EditIsAVisit
    <2>5. LoadedIsThere'
      BY <1>1, <1>8, <2>4 DEF LoadedIsThere, Justified
    <2> QED
      BY <1>4, <1>5, <2>2, <2>3, <2>5 DEF RouteInv
  <1>9. CASE /\ busy.phase = "ok" /\ busy.op \in {"discard", "delete"} /\ busy.id \in Ids
             /\ Held(entries') \subseteq Held(entries) \cup {Url'}
             /\ Url' = Url \/ Url' = HomeUrl
             /\ store'.pages = IF busy.op = "delete" THEN store.pages \ {busy.id} ELSE store.pages
             /\ Lost(busy.id)
    <2>1. Going /\ ~(busy.op = "publish")
      BY <1>9 DEF Going
    <2>2. busy.op = "delete" => busy.id \notin pages \cup drafts
      BY <2>1 DEF RouteInv, RemovedIsGone
    <2>3. \A e \in Held(entries') : e \in Held(entries) \/ e = HomeUrl
      BY <1>2, <1>9
    <2>4. HomeUrl.edit = FALSE /\ HomeUrl.at = "home" /\ HomeUrl.id = NoId
      BY DEF HomeUrl
    <2>5. EditIsAVisit'
      BY <1>1, <1>3, <2>3, <2>4 DEF RouteInv, EditIsAVisit
    <2>6. PagesAreKnown'
      BY <1>1, <1>9, <2>1, <2>2 DEF RouteInv, PagesAreKnown
    <2>7. DraftsOfPages'
      <3>1. \A id : WasPage(id)' => WasPage(id)
        BY <1>1, <1>3, <1>9, <2>3, <2>4 DEF WasPage
      <3> QED
        BY <1>1, <3>1 DEF RouteInv, DraftsOfPages
    <2>8. LoadedIsThere'
      <3>1. CASE Url' = HomeUrl
        BY <1>1, <1>2, <2>4, <3>1 DEF LoadedIsThere
      <3>2. CASE Url' = Url /\ Url.id = busy.id
        <4>1. Url.id \in drafts => Justified(Url.id) /\ store'.pages = store.pages
          BY <1>9, <2>1, <2>2, <3>2 DEF RouteInv, RemovedIsGone
        <4> QED
          BY <1>1, <3>2, <4>1, Zenon DEF LoadedIsThere, Justified, Renders
      <3>3. CASE Url' = Url /\ Url.id # busy.id
        <4>1. Url.id \in drafts => store'.draft[Url.id] = store.draft[Url.id]
          BY <1>2, <1>9, <3>3 DEF Lost
        <4>2. Url.id \in store'.pages <=> Url.id \in store.pages
          BY <1>9, <3>3
        <4> QED
          BY <1>1, <3>3, <4>1, <4>2, Zenon DEF RouteInv, LoadedIsThere, Justified, Renders
      <3> QED
        BY <1>9, <3>1, <3>2, <3>3
    <2> QED
      BY <1>4, <1>5, <2>5, <2>6, <2>7, <2>8 DEF RouteInv
  <1> QED
    BY <1>6, <1>7, <1>8, <1>9, CommandAnsweredFacts, Zenon

LEMMA RouteInvStep ==
    ASSUME RouteAssumption, Benign, Types, RouteInv, [Next]_vars
    PROVE  RouteInv'
  <1>1. CASE UNCHANGED vars
    BY <1>1 DEF vars, server, RouteInv, AbsentIsGone, EditIsAVisit, ListingsAreIn, PagesAreKnown,
       DraftsOfPages, WasPage, CheckedIsGone, LoadedIsThere, RemovedIsGone, Justified, Going, Url
  <1> QED
    BY <1>1, RouteInvRedirect, RouteInvReads, RouteInvDraftArrives, RouteInvPageArrives,
       RouteInvListArrives, RouteInvArrivesLate, RouteInvWent, RouteInvCommand,
       RouteInvServerCommands, RouteInvCommandAnswered, RouteInvSaveEdit, RouteInvElsewhere
    DEF Next, Answering, WentSomewhere

(* Only a redirect takes a page or draft to the front door. *)
LEMMA RedirectsBounce ==
    ASSUME RouteAssumption, Types, Next, Bounced
    PROVE  Redirect
  <1>0. Url'.at = "overview" /\ Len(entries') = Len(entries) /\ Url.id # NoId
    BY DEF Bounced, Url
  <1>1. entries' # entries
    BY <1>0, UrlFacts DEF Url
  <1>2. Url' # Url /\ Url' # HomeUrl
    BY <1>0, UrlFacts DEF HomeUrl
  <1>3. ~(Answering \/ PageArrivesLate \/ SaveEdit \/ Elsewhere \/ ServerCommands \/ Command)
    <2>1. ~Answering
      BY <1>1 DEF Answering, ServerReads, DraftArrives, PageArrives, ListArrives
    <2>2. ~PageArrivesLate
      BY <1>1 DEF PageArrivesLate
    <2>3. ~SaveEdit /\ ~Elsewhere /\ ~ServerCommands
      BY <1>1, Zenon DEF SaveEdit, Elsewhere, ServerCommands
    <2>4. ~Command
      BY <1>1, CommandFacts
    <2> QED
      BY <2>1, <2>2, <2>3, <2>4
  <1>4. ~WentSomewhere
    BY <1>0, WentFacts
  <1>5. ~CommandAnswered
    BY <1>0, <1>1, <1>2, CommandAnsweredFacts
  <1> QED
    BY <1>3, <1>4, <1>5 DEF Next, WentSomewhere

LEMMA BouncedFromWhatIsGone ==
    ASSUME RouteAssumption, Benign, Types, RouteInv, Next, Bounced
    PROVE  gone
  <1>1. Redirect
    BY RedirectsBounce
  <1>2. Url' \in Redirects /\ Url'.at = "overview"
    BY <1>1, RedirectFacts DEF Bounced, Url
  <1>3. Url.at = "draft" => Url.id \notin store.pages
    BY <1>2 DEF Redirects, Page
  <1>4. \/ Url.at = "draft" /\ load.loaded = Url.id /\ store.draft[Url.id] # "full"
        \/ Url.at = "page" /\ load.checked = Url.id
    BY <1>2 DEF Redirects, Page, DraftSettled, PageResolved
  <1>5. CASE Url.at = "draft" /\ load.loaded = Url.id /\ store.draft[Url.id] # "full"
    <2>1. CASE Url.id \in drafts
      <3>1. Justified(Url.id)
        BY <1>5, <2>1 DEF RouteInv, LoadedIsThere
      <3> QED
        BY <1>3, <1>5, <3>1 DEF Justified
    <2> QED
      BY <1>5, <2>1 DEF RouteInv, AbsentIsGone, Absent
  <1>6. CASE Url.at = "page" /\ load.checked = Url.id
    BY <1>6 DEF RouteInv, AbsentIsGone, Absent, CheckedIsGone
  <1> QED
    BY <1>4, <1>5, <1>6

(* "Correcting it earlier would turn a slow response into a bounce out of a  *)
(* draft that is really there" (space_view.tsx): the redirect from a page or *)
(* a draft to the overview is taken only when the server did not have it at  *)
(* some moment of the visit, although the draft's load, the page's load, the *)
(* two listings and the answer to a command reach the client in any order.   *)
THEOREM PagesAreLeftIfGone ==
    ASSUME RouteAssumption, Benign
    PROVE  Spec => BounceOnlyIfGone
  <1>1. Init => Types /\ RouteInv
    BY TypesInit, RouteInvInit
  <1>2. Types /\ RouteInv /\ [Next]_vars => Types' /\ RouteInv'
    BY TypesStep, RouteInvStep
  <1>3. Types /\ RouteInv /\ [Next]_vars => [Bounced => gone]_vars
    BY BouncedFromWhatIsGone
  <1> QED
    BY <1>1, <1>2, <1>3, PTL DEF Spec, BounceOnlyIfGone

-----------------------------------------------------------------------------
(* The spaces *)

\* The requests that may be under way.
AllListings == [team : Teams, read : {None} \cup SUBSET Spaces]
AllFetches == [space : Spaces, found : BOOLEAN \cup {None}, live : BOOLEAN]

\* TypeOK, with index and the requests as sets of functions and records.
SpaceTyped ==
  /\ visible \subseteq Spaces /\ spaceRows \subseteq Spaces
  /\ listings \subseteq AllListings
  /\ \A l \in listings : l.read # None => l.read \subseteq Space!InTeam(l.team)
  /\ fetches \subseteq AllFetches
  /\ checked \in Spaces \cup {None}
  /\ team \in Teams /\ at \in Spaces \cup {Home} /\ viewed \subseteq Spaces
  /\ command \in Space!Commands \cup {None}
  /\ spaceGone \in BOOLEAN
  /\ index \in [Teams -> {None} \cup SUBSET Spaces]
  /\ \A t \in Teams : index[t] # None => index[t] \subseteq Space!InTeam(t) \cap spaceRows
  /\ teamsListed \subseteq Teams
  /\ moves \in 0..MaxMoves /\ commands \in 0..MaxCommands

LEMMA MembershipIsBoolean == \A x, S : \E b \in BOOLEAN : b = (x \in S)
  <1> TAKE x, S
  <1>1. CASE x \in S
    <2>1. TRUE = (x \in S)
      BY <1>1
    <2> WITNESS TRUE \in BOOLEAN
    <2> QED
      BY <2>1, Zenon
  <1>2. CASE x \notin S
    <2>1. FALSE = (x \in S)
      BY <1>2
    <2> WITNESS FALSE \in BOOLEAN
    <2> QED
      BY <2>1, Zenon
  <1> QED
    BY <1>1, <1>2

(* What a navigation makes of the Space!route. *)
LEMMA RoutedTypes ==
    ASSUME SpaceTyped, visible' \subseteq Spaces, NEW x \in Spaces \cup {Home}, NEW rs,
           Space!Routed(x, rs)
    PROVE  /\ at' = x /\ viewed' = viewed \cup ({x} \ {Home})
           /\ spaceGone' = IF x = Home THEN FALSE ELSE (x = at /\ spaceGone) \/ x \notin visible'
           /\ at' \in Spaces \cup {Home} /\ viewed' \subseteq Spaces /\ spaceGone' \in BOOLEAN
           /\ fetches' \subseteq AllFetches
           /\ \A f \in fetches' : \/ \E g \in fetches : f.space = g.space /\ f.found = g.found
                                  \/ x # Home /\ f.space = x /\ f.found = None
           /\ fetches = {} /\ x = Home => fetches' = {}
  <1>1. \A f \in Space!Stale : /\ f \in AllFetches
                         /\ \E g \in fetches : f.space = g.space /\ f.found = g.found
    BY Zenon DEF Space!Stale, SpaceTyped, AllFetches
  <1>2. x # Home => /\ Space!Fetch(x) \in AllFetches
                    /\ Space!Fetch(x).space = x /\ Space!Fetch(x).found = None
    BY DEF Space!Fetch, AllFetches
  <1>3. \/ fetches' \subseteq Space!Stale \cup {Space!Fetch(x)} /\ x # Home
        \/ fetches' = Space!Stale \/ fetches' = fetches
    BY DEF Space!Routed, Space!Asking
  <1>4. fetches' \subseteq AllFetches
    BY <1>1, <1>2, <1>3 DEF SpaceTyped
  <1>5. \A f \in fetches' : \/ \E g \in fetches : f.space = g.space /\ f.found = g.found
                            \/ x # Home /\ f.space = x /\ f.found = None
    BY <1>1, <1>2, <1>3
  <1>6. /\ at' = x /\ viewed' = viewed \cup ({x} \ {Home})
        /\ spaceGone' = IF x = Home THEN FALSE ELSE (x = at /\ spaceGone) \/ x \notin visible'
    BY DEF Space!Routed
  <1>7. at' \in Spaces \cup {Home} /\ viewed' \subseteq Spaces /\ spaceGone' \in BOOLEAN
    BY <1>6, Zenon DEF SpaceTyped
  <1>8. fetches = {} /\ x = Home => fetches' = {}
    BY DEF Space!Routed, Space!Asking, Space!Stale
  <1> QED
    BY <1>4, <1>5, <1>6, <1>7, <1>8, Zenon

LEMMA KeptTypes ==
    ASSUME SpaceTyped, NEW x, Space!Kept(x)
    PROVE  checked' \in Spaces \cup {None} /\ checked' \in {checked, None}
  BY DEF SpaceTyped, Space!Kept

LEMMA MergedTypes ==
    ASSUME SpaceTyped, NEW ss, ss \subseteq Spaces
    PROVE  /\ Space!Merged(ss) \in [Teams -> {None} \cup SUBSET Spaces]
           /\ \A t \in Teams : Space!Merged(ss)[t] # None =>
                Space!Merged(ss)[t] \subseteq Space!InTeam(t) \cap (spaceRows \cup ss)
  BY DEF SpaceTyped, Space!Merged, Space!Known, Space!InTeam

LEMMA SpaceInitTyped ==
    ASSUME Space!StoreAssumption, Space!Init
    PROVE  SpaceTyped
  <1>1. Space!Listing(team) \in AllListings /\ Space!Listing(team).read = None
    BY DEF Space!Init, Space!Listing, AllListings
  <1>2. \A s \in Spaces : Space!Fetch(s) \in AllFetches
    BY DEF Space!Fetch, AllFetches
  <1>3. listings \subseteq AllListings /\ fetches \subseteq AllFetches
    BY <1>1, <1>2 DEF Space!Init
  <1>4. 0 \in 0..MaxMoves /\ 0 \in 0..MaxCommands
    BY DEF Space!StoreAssumption
  <1> QED
    BY <1>1, <1>3, <1>4 DEF Space!Init, SpaceTyped

LEMMA SpaceStepTyped ==
    ASSUME Space!StoreAssumption, SpaceTyped, [Space!Next]_(Space!vars)
    PROVE  SpaceTyped'
  <1> USE DEF Space!server, Space!store, Space!net, Space!route, Space!bounds
  <1>0. MaxMoves \in Nat /\ MaxCommands \in Nat
    BY DEF Space!StoreAssumption
  <1>v. \A v \in 0..MaxMoves : v < MaxMoves => v + 1 \in 0..MaxMoves
    BY <1>0
  <1>c. \A v \in 0..MaxCommands : v < MaxCommands => v + 1 \in 0..MaxCommands
    BY <1>0
  <1>1. ASSUME NEW l \in listings, Space!ReadListing(l) PROVE SpaceTyped'
    <2> DEFINE m == [l EXCEPT !.read = visible \cap Space!InTeam(l.team)]
    <2>1. /\ m \in AllListings
          /\ m.read \subseteq Space!InTeam(m.team)
      BY DEF SpaceTyped, AllListings
    <2>2. listings' = (listings \ {l}) \cup {m}
      BY <1>1 DEF Space!ReadListing
    <2>3. listings' \subseteq AllListings /\ \A k \in listings' : k.read # None
            => k.read \subseteq Space!InTeam(k.team)
      BY <2>1, <2>2, Zenon DEF SpaceTyped
    <2> QED
      BY <1>1, <2>3 DEF Space!ReadListing, SpaceTyped, Space!InTeam
  <1>2. ASSUME NEW l \in listings, Space!ListingArrives(l) PROVE SpaceTyped'
    <2>1. l \in AllListings /\ l.read # None /\ l.team \in Teams
            /\ l.read \subseteq Space!InTeam(l.team)
      BY <1>2 DEF Space!ListingArrives, SpaceTyped, AllListings
    <2>2. /\ index' \in [Teams -> {None} \cup SUBSET Spaces]
          /\ \A t \in Teams : index'[t] # None
               => index'[t] \subseteq Space!InTeam(t) \cap spaceRows'
      BY <1>2, <2>1 DEF Space!ListingArrives, SpaceTyped, Space!Scoped, Space!InTeam
    <2>3. spaceRows' \subseteq Spaces /\ teamsListed' \subseteq Teams
            /\ listings' \subseteq listings
      BY <1>2, <2>1 DEF Space!ListingArrives, SpaceTyped, Space!InTeam
    <2>4. SpaceTyped /\ visible' \subseteq Spaces /\ at \in Spaces \cup {Home}
            /\ Space!Routed(at, spaceRows') /\ Space!Kept(at)
      BY <1>2 DEF Space!ListingArrives, SpaceTyped
    <2>r. at' \in Spaces \cup {Home} /\ viewed' \subseteq Spaces /\ spaceGone' \in BOOLEAN
          /\ fetches' \subseteq AllFetches
      BY <2>4, RoutedTypes, Zenon
    <2>k. checked' \in Spaces \cup {None}
      BY <2>4, KeptTypes
    <2> QED
      BY <1>2, <2>2, <2>3, <2>r, <2>k DEF Space!ListingArrives, SpaceTyped, Space!InTeam
  <1>3. ASSUME NEW l \in listings, Space!ListingFails(l) PROVE SpaceTyped'
    BY <1>3 DEF Space!ListingFails, SpaceTyped, Space!InTeam
  <1>4. CASE Space!SwitcherLists
    <2>1. PICK ts \in (IF Fails THEN SUBSET Teams ELSE {Teams}) :
            LET ss == {s \in visible : TeamOf[s] \in ts}
            IN spaceRows' = spaceRows \cup ss /\ index' = Space!Merged(ss)
      BY <1>4, Zenon DEF Space!SwitcherLists
    <2> DEFINE ss == {s \in visible : TeamOf[s] \in ts}
    <2>2. ss \subseteq Spaces /\ spaceRows' = spaceRows \cup ss /\ index' = Space!Merged(ss)
      BY <2>1 DEF SpaceTyped
    <2> HIDE DEF ss
    <2>3. /\ index' \in [Teams -> {None} \cup SUBSET Spaces]
          /\ \A t \in Teams : index'[t] # None
               => index'[t] \subseteq Space!InTeam(t) \cap spaceRows'
      BY <2>2, MergedTypes
    <2>4. SpaceTyped /\ visible' \subseteq Spaces /\ at \in Spaces \cup {Home}
            /\ Space!Routed(at, spaceRows') /\ Space!Kept(at)
      BY <1>4 DEF Space!SwitcherLists, SpaceTyped
    <2>r. at' \in Spaces \cup {Home} /\ viewed' \subseteq Spaces /\ spaceGone' \in BOOLEAN
          /\ fetches' \subseteq AllFetches
      BY <2>4, RoutedTypes, Zenon
    <2>k. checked' \in Spaces \cup {None}
      BY <2>4, KeptTypes
    <2>5. moves' \in 0..MaxMoves
      BY <1>4, <1>v DEF Space!SwitcherLists, SpaceTyped
    <2> QED
      BY <1>4, <2>2, <2>3, <2>5, <2>r, <2>k DEF Space!SwitcherLists, SpaceTyped, Space!InTeam
  <1>5. ASSUME NEW f \in fetches, Space!ReadSpace(f) PROVE SpaceTyped'
    <2>1. \A b \in BOOLEAN : [f EXCEPT !.found = b] \in AllFetches
      BY DEF SpaceTyped, AllFetches
    <2>2. PICK b \in BOOLEAN : b = (f.space \in visible)
      BY MembershipIsBoolean
    <2>3. fetches' \subseteq AllFetches
      BY <1>5, <2>1, <2>2, Zenon DEF Space!ReadSpace, SpaceTyped
    <2> QED
      BY <1>5, <2>3 DEF Space!ReadSpace, SpaceTyped, Space!InTeam
  <1>6. ASSUME NEW f \in fetches, NEW found \in BOOLEAN, Space!SpaceAnswered(f, found)
        PROVE  SpaceTyped'
    <2>1. f.space \in Spaces /\ {f.space} \subseteq Spaces
      BY DEF SpaceTyped, AllFetches
    <2>2. /\ Space!Merged({f.space}) \in [Teams -> {None} \cup SUBSET Spaces]
          /\ \A t \in Teams : Space!Merged({f.space})[t] # None =>
               Space!Merged({f.space})[t] \subseteq Space!InTeam(t) \cap (spaceRows \cup {f.space})
      BY <2>1, MergedTypes, Zenon
    <2>3. /\ index' \in [Teams -> {None} \cup SUBSET Spaces]
          /\ \A t \in Teams : index'[t] # None
               => index'[t] \subseteq Space!InTeam(t) \cap spaceRows'
      BY <1>6, <2>2, Zenon DEF Space!SpaceAnswered, SpaceTyped
    <2> QED
      BY <1>6, <2>1, <2>3, Zenon DEF Space!SpaceAnswered, Space!Settled, SpaceTyped, Space!InTeam
  <1>7. CASE Space!Redirect
    <2>4. SpaceTyped /\ visible' \subseteq Spaces /\ Home \in Spaces \cup {Home}
            /\ Space!Routed(Home, spaceRows) /\ Space!Kept(Home)
      BY <1>7 DEF Space!Redirect, SpaceTyped
    <2>r. at' \in Spaces \cup {Home} /\ viewed' \subseteq Spaces /\ spaceGone' \in BOOLEAN
          /\ fetches' \subseteq AllFetches
      BY <2>4, RoutedTypes, Zenon
    <2>k. checked' \in Spaces \cup {None}
      BY <2>4, KeptTypes
    <2> QED
      BY <1>7, <2>r, <2>k DEF Space!Redirect, SpaceTyped, Space!InTeam
  <1>8. ASSUME NEW x \in Spaces \cup {Home}, Space!GoTo(x) PROVE SpaceTyped'
    <2>4. SpaceTyped /\ visible' \subseteq Spaces /\ Space!Routed(x, spaceRows) /\ Space!Kept(x)
      BY <1>8 DEF Space!GoTo, SpaceTyped
    <2>r. at' \in Spaces \cup {Home} /\ viewed' \subseteq Spaces /\ spaceGone' \in BOOLEAN
          /\ fetches' \subseteq AllFetches
      BY <2>4, RoutedTypes, Zenon
    <2>k. checked' \in Spaces \cup {None}
      BY <2>4, KeptTypes
    <2>5. moves' \in 0..MaxMoves
      BY <1>8, <1>v DEF Space!GoTo, SpaceTyped
    <2> QED
      BY <1>8, <2>5, <2>r, <2>k DEF Space!GoTo, SpaceTyped, Space!InTeam
  <1>9. ASSUME NEW t \in Teams, Space!EnterTeam(t) PROVE SpaceTyped'
    <2>1. Space!Listing(t) \in AllListings /\ Space!Listing(t).read = None
      BY DEF Space!Listing, AllListings
    <2>2. /\ listings' \subseteq AllListings
          /\ \A l \in listings' : l.read # None => l.read \subseteq Space!InTeam(l.team)
      BY <1>9, <2>1 DEF Space!EnterTeam, SpaceTyped
    <2>4. SpaceTyped /\ visible' \subseteq Spaces /\ Home \in Spaces \cup {Home}
            /\ Space!Routed(Home, spaceRows) /\ Space!Kept(Home)
      BY <1>9 DEF Space!EnterTeam, SpaceTyped
    <2>r. at' \in Spaces \cup {Home} /\ viewed' \subseteq Spaces /\ spaceGone' \in BOOLEAN
          /\ fetches' \subseteq AllFetches
      BY <2>4, RoutedTypes, Zenon
    <2>k. checked' \in Spaces \cup {None}
      BY <2>4, KeptTypes
    <2>5. moves' \in 0..MaxMoves
      BY <1>9, <1>v DEF Space!EnterTeam, SpaceTyped
    <2> QED
      BY <1>9, <2>2, <2>5, <2>r, <2>k DEF Space!EnterTeam, SpaceTyped, Space!InTeam
  <1>10. ASSUME NEW s \in Spaces, Space!Create(s) \/ Space!Leave(s) PROVE SpaceTyped'
    <2>1. command' \in Space!Commands
      <3>1. CASE Space!Create(s)
        BY <3>1 DEF Space!Create, Space!Commands
      <3>2. CASE Space!Leave(s)
        BY <3>2 DEF Space!Leave, SpaceTyped, Space!Commands
      <3> QED
        BY <1>10, <3>1, <3>2
    <2>2. commands' \in 0..MaxCommands
      BY <1>10, <1>c DEF Space!Create, Space!Leave, Space!MayCommand, SpaceTyped
    <2> QED
      BY <1>10, <2>1, <2>2 DEF Space!Create, Space!Leave, SpaceTyped, Space!InTeam
  <1>11. ASSUME NEW v, v \subseteq Spaces, Space!Change(v) PROVE SpaceTyped'
    <2>2. commands' \in 0..MaxCommands
      BY <1>11, <1>c DEF Space!Change, SpaceTyped
    <2> QED
      BY <1>11, <2>2 DEF Space!Change, SpaceTyped, Space!InTeam
  <1>12. CASE Space!ServerCommand
    <2>1. command \in Space!Commands /\ command.space \in Spaces
      BY <1>12 DEF Space!ServerCommand, SpaceTyped, Space!Commands
    <2>2. command' \in Space!Commands
      BY <1>12, <2>1, Zenon DEF Space!ServerCommand, Space!Commands
    <2>3. visible' \subseteq Spaces /\ spaceGone' \in BOOLEAN
      BY <1>12, <2>1 DEF Space!ServerCommand, SpaceTyped
    <2> QED
      BY <1>12, <2>2, <2>3 DEF Space!ServerCommand, SpaceTyped, Space!InTeam
  <1>13. CASE Space!CreateAnswered
    <2>1. command \in Space!Commands /\ command.space \in Spaces
      BY <1>13 DEF Space!CreateAnswered, SpaceTyped, Space!Commands
    <2>2. /\ index' \in [Teams -> {None} \cup SUBSET Spaces]
          /\ \A t \in Teams : index'[t] # None
               => index'[t] \subseteq Space!InTeam(t) \cap spaceRows'
      <3>1. index' = Space!Created(command.space) /\ spaceRows' = spaceRows \cup {command.space}
        BY <1>13 DEF Space!CreateAnswered
      <3>2. TeamOf[command.space] \in Teams
        BY <2>1 DEF Space!StoreAssumption
      <3> QED
        BY <2>1, <3>1, <3>2 DEF Space!Created, SpaceTyped, Space!InTeam
    <2>4. SpaceTyped /\ visible' \subseteq Spaces /\ Space!Routed(command.space, spaceRows')
            /\ Space!Kept(command.space)
      BY <1>13 DEF Space!CreateAnswered, SpaceTyped
    <2>r. at' \in Spaces \cup {Home} /\ viewed' \subseteq Spaces /\ spaceGone' \in BOOLEAN
          /\ fetches' \subseteq AllFetches
      BY <2>1, <2>4, RoutedTypes, Zenon
    <2>k. checked' \in Spaces \cup {None}
      BY <2>4, KeptTypes
    <2> QED
      BY <1>13, <2>1, <2>2, <2>r, <2>k DEF Space!CreateAnswered, SpaceTyped, Space!InTeam
  <1>14. CASE Space!LeaveAnswered
    <2>1. command \in Space!Commands /\ command.space \in Spaces
      BY <1>14 DEF Space!LeaveAnswered, SpaceTyped, Space!Commands
    <2>2. /\ index' \in [Teams -> {None} \cup SUBSET Spaces]
          /\ \A t \in Teams : index'[t] # None
               => index'[t] \subseteq Space!InTeam(t) \cap spaceRows'
      BY <1>14, <2>1 DEF Space!LeaveAnswered, Space!Deleted, SpaceTyped, Space!InTeam
    <2> DEFINE x == IF command.seen = command.space THEN Home ELSE at
    <2>3. x \in Spaces \cup {Home}
      BY DEF SpaceTyped
    <2>4. SpaceTyped /\ visible' \subseteq Spaces /\ Space!Routed(x, spaceRows') /\ Space!Kept(x)
      BY <1>14 DEF Space!LeaveAnswered, SpaceTyped
    <2> HIDE DEF x
    <2>r. at' \in Spaces \cup {Home} /\ viewed' \subseteq Spaces /\ spaceGone' \in BOOLEAN
          /\ fetches' \subseteq AllFetches
      BY <2>3, <2>4, RoutedTypes, Zenon
    <2>k. checked' \in Spaces \cup {None}
      BY <2>4, KeptTypes
    <2> QED
      BY <1>14, <2>1, <2>2, <2>r, <2>k DEF Space!LeaveAnswered, SpaceTyped, Space!InTeam
  <1>15. CASE Space!CommandFails
    BY <1>15 DEF Space!CommandFails, SpaceTyped, Space!InTeam
  <1>16. CASE UNCHANGED Space!vars
    BY <1>16 DEF Space!vars, SpaceTyped, Space!InTeam
  <1>17. ASSUME NEW f \in fetches, Space!SpaceArrives(f) PROVE SpaceTyped'
    <2>1. f.found \in BOOLEAN
      BY <1>17 DEF Space!SpaceArrives, SpaceTyped, AllFetches
    <2> QED
      BY <1>6, <1>17, <2>1 DEF Space!SpaceArrives
  <1>18. ASSUME NEW f \in fetches, Space!SpaceFails(f) PROVE SpaceTyped'
    BY <1>6, <1>18, Zenon DEF Space!SpaceFails
  <1>19. ASSUME NEW s \in Spaces, Space!Grant(s) \/ Space!Revoke(s) PROVE SpaceTyped'
    <2>1. PICK v \in SUBSET Spaces : Space!Change(v)
      BY <1>19 DEF Space!Grant, Space!Revoke, SpaceTyped
    <2> QED
      BY <1>11, <2>1
  <1> QED
    BY <1>1, <1>2, <1>3, <1>4, <1>5, <1>7, <1>8, <1>9, <1>10, <1>12, <1>13, <1>14, <1>15, <1>16,
       <1>17, <1>18, <1>19
    DEF Space!Next, Space!Answers

LEMMA SpacesStayTyped ==
    ASSUME Space!StoreAssumption
    PROVE  Space!Spec => []SpaceTyped
  BY SpaceInitTyped, SpaceStepTyped, PTL DEF Space!Spec

(* The rows, the teams' indices, the requests and the command stay what      *)
(* SpaceStore's TypeOK says; an index holds only spaces of its team that     *)
(* have a row (store/entities.ts).                                           *)
THEOREM SpaceTypes ==
    ASSUME Space!StoreAssumption
    PROVE  Space!Spec => []Space!TypeOK
  <1>1. SpaceTyped => Space!TypeOK
    BY DEF SpaceTyped, Space!TypeOK, AllListings, AllFetches
  <1> QED
    BY <1>1, SpacesStayTyped, PTL

-----------------------------------------------------------------------------
(* No space is left that is there *)

\* The routed space was viewed, and is out of reach only if the visit has seen so.
RoutedIsViewed == at \in Spaces => at \in viewed /\ (at \notin visible => spaceGone)
\* Only spaces that were routed are asked for one by one.
AskedIsViewed == checked \in viewed \cup {None} /\ \A f \in fetches : f.space \in viewed
\* Nobody has routed a space that is still being created.
NewIsUnseen == command # None /\ command.op = "create" => command.space \notin viewed
\* A space that the server has left is out of reach, before the client hears.
LeftIsGone == command # None /\ command.op = "leave" /\ command.done => command.space \notin visible
\* What a fetch did not find is still out of reach: nobody else grants it.
MissingIsGone == \A f \in fetches : f.found = FALSE => f.space \notin visible
\* ... and so is what was settled as not there.
SpaceCheckedIsGone == checked # None /\ checked \notin spaceRows => checked \notin visible

\* The inductive invariant.
RoutedInv ==
  /\ RoutedIsViewed /\ AskedIsViewed /\ NewIsUnseen /\ LeftIsGone /\ MissingIsGone
       /\ SpaceCheckedIsGone

LEMMA RoutedInvInit ==
    ASSUME Space!StoreAssumption, Space!Init
    PROVE  RoutedInv
  <1>1. \A f \in fetches : f.space \in viewed /\ f.found = None
    BY DEF Space!Init, Space!Fetch
  <1>2. AskedIsViewed /\ MissingIsGone
    BY <1>1, Zenon DEF Space!Init, Space!StoreAssumption, AskedIsViewed, MissingIsGone
  <1> QED
    BY <1>2, Zenon
    DEF Space!Init, Space!StoreAssumption, RoutedInv, RoutedIsViewed, NewIsUnseen, LeftIsGone,
        SpaceCheckedIsGone

LEMMA NavigationKeeps ==
    ASSUME Space!StoreAssumption, SpaceTyped, RoutedInv, NEW x \in Spaces \cup {Home},
           Space!Routed(x, spaceRows'), Space!Kept(x), spaceRows \subseteq spaceRows',
           visible' = visible,
           command' \in {command, None},
           x # Home /\ command' # None => ~(command.op = "create" /\ command.space = x)
    PROVE  RoutedInv'
  <1>1. SpaceTyped /\ visible' \subseteq Spaces
    BY DEF SpaceTyped
  <1>2. /\ at' = x /\ viewed' = viewed \cup ({x} \ {Home})
        /\ spaceGone' = IF x = Home THEN FALSE ELSE (x = at /\ spaceGone) \/ x \notin visible'
        /\ \A f \in fetches' : \/ \E g \in fetches : f.space = g.space /\ f.found = g.found
                               \/ x # Home /\ f.space = x /\ f.found = None
    BY <1>1, RoutedTypes, Zenon
  <1>3. Home \notin Spaces /\ None \notin Spaces /\ None \notin BOOLEAN
    BY DEF Space!StoreAssumption
  <1>4. RoutedIsViewed'
    BY <1>2, <1>3, Zenon DEF RoutedInv, RoutedIsViewed
  <1>5. AskedIsViewed' /\ SpaceCheckedIsGone'
    BY <1>2, <1>3, KeptTypes DEF RoutedInv, AskedIsViewed, SpaceCheckedIsGone
  <1>6. NewIsUnseen'
    BY <1>2 DEF RoutedInv, NewIsUnseen
  <1>7. MissingIsGone'
    BY <1>2, <1>3, Zenon DEF RoutedInv, MissingIsGone
  <1>8. LeftIsGone'
    BY DEF RoutedInv, LeftIsGone
  <1> QED
    BY <1>4, <1>5, <1>6, <1>7, <1>8 DEF RoutedInv

LEMMA RoutedInvStep ==
    ASSUME Space!StoreAssumption, ~Fails, ~Grants, SpaceTyped, RoutedInv, [Space!Next]_(Space!vars)
    PROVE  RoutedInv'
  <1> USE DEF Space!server, Space!store, Space!net, Space!route, Space!bounds
  <1>0. Home \notin Spaces /\ None \notin Spaces /\ None \notin BOOLEAN
    BY DEF Space!StoreAssumption
  <1>1. ASSUME NEW l \in listings, Space!ReadListing(l) PROVE RoutedInv'
    BY <1>1
    DEF Space!ReadListing, RoutedInv, RoutedIsViewed, AskedIsViewed, NewIsUnseen, LeftIsGone,
        MissingIsGone, SpaceCheckedIsGone
  <1>2. ASSUME NEW l \in listings, Space!ListingArrives(l) PROVE RoutedInv'
    <2>1. /\ at \in Spaces \cup {Home} /\ Space!Routed(at, spaceRows') /\ Space!Kept(at)
               /\ spaceRows \subseteq spaceRows'
          /\ visible' = visible /\ command' = command
      BY <1>2 DEF Space!ListingArrives, SpaceTyped
    <2>2. at # Home /\ command' # None => ~(command.op = "create" /\ command.space = at)
      BY <2>1 DEF RoutedInv, NewIsUnseen, RoutedIsViewed
    <2> QED
      BY <2>1, <2>2, NavigationKeeps
  <1>4. CASE Space!SwitcherLists
    <2>1. /\ at \in Spaces \cup {Home} /\ Space!Routed(at, spaceRows') /\ Space!Kept(at)
               /\ spaceRows \subseteq spaceRows'
          /\ visible' = visible /\ command' = command
      BY <1>4 DEF Space!SwitcherLists, SpaceTyped
    <2>2. at # Home /\ command' # None => ~(command.op = "create" /\ command.space = at)
      BY <2>1 DEF RoutedInv, NewIsUnseen, RoutedIsViewed
    <2> QED
      BY <2>1, <2>2, NavigationKeeps
  <1>5. ASSUME NEW f \in fetches, Space!ReadSpace(f) PROVE RoutedInv'
    <2>1. /\ fetches' = (fetches \ {f}) \cup {[f EXCEPT !.found = f.space \in visible]}
          /\ UNCHANGED <<visible, spaceRows, checked, at, viewed, spaceGone, command>>
      BY <1>5 DEF Space!ReadSpace
    <2>2. PICK b \in BOOLEAN : b = (f.space \in visible)
      BY MembershipIsBoolean
    <2>3. [f EXCEPT !.found = b].space = f.space /\ [f EXCEPT !.found = b].found = b
      BY DEF SpaceTyped, AllFetches
    <2>4. \A g \in fetches' :
            g \in fetches \/ (g.space = f.space /\ (g.found = FALSE => f.space \notin visible))
      <3>1. fetches' = (fetches \ {f}) \cup {[f EXCEPT !.found = b]}
        BY <2>1, <2>2
      <3>2. b = FALSE => f.space \notin visible
        BY <2>2, Zenon
      <3> QED
        BY <3>1, <3>2, <2>3, Zenon
    <2>5. AskedIsViewed' /\ MissingIsGone'
      BY <2>1, <2>4 DEF RoutedInv, AskedIsViewed, MissingIsGone
    <2> QED
      BY <2>1, <2>5 DEF RoutedInv, RoutedIsViewed, NewIsUnseen, LeftIsGone, SpaceCheckedIsGone
  <1>6. ASSUME NEW f \in fetches, Space!SpaceArrives(f) PROVE RoutedInv'
    <2>1. /\ f.found \in BOOLEAN /\ fetches' = fetches \ {f} /\ checked' = Space!Settled(f, f.found)
          /\ spaceRows' = IF f.found THEN spaceRows \cup {f.space} ELSE spaceRows
          /\ UNCHANGED <<visible, at, viewed, spaceGone, command>>
      BY <1>6 DEF Space!SpaceArrives, Space!SpaceAnswered, SpaceTyped, AllFetches
    <2>2. AskedIsViewed' /\ MissingIsGone' /\ SpaceCheckedIsGone'
      BY <2>1 DEF Space!Settled, RoutedInv, AskedIsViewed, MissingIsGone, SpaceCheckedIsGone
    <2> QED
      BY <2>1, <2>2 DEF RoutedInv, RoutedIsViewed, NewIsUnseen, LeftIsGone
  <1>7. CASE Space!Redirect
    BY <1>7, NavigationKeeps DEF Space!Redirect
  <1>8. ASSUME NEW x \in Spaces \cup {Home}, Space!GoTo(x) PROVE RoutedInv'
    BY <1>8, NavigationKeeps DEF Space!GoTo
  <1>9. ASSUME NEW t \in Teams, Space!EnterTeam(t) PROVE RoutedInv'
    BY <1>9, NavigationKeeps DEF Space!EnterTeam
  <1>10. ASSUME NEW s \in Spaces, Space!Create(s) PROVE RoutedInv'
    BY <1>10 DEF Space!Create, RoutedInv, RoutedIsViewed, AskedIsViewed, NewIsUnseen, LeftIsGone,
                MissingIsGone, SpaceCheckedIsGone
  <1>11. ASSUME NEW s \in Spaces, Space!Leave(s) PROVE RoutedInv'
    BY <1>11 DEF Space!Leave, RoutedInv, RoutedIsViewed, AskedIsViewed, NewIsUnseen, LeftIsGone,
                MissingIsGone, SpaceCheckedIsGone
  <1>12. CASE Space!ServerCommand
    <2>1. command \in Space!Commands /\ command # None
      BY <1>12 DEF Space!ServerCommand, SpaceTyped
    <2>2. /\ command'.op = command.op /\ command'.space = command.space
          /\ visible' = IF command.op = "create" THEN visible \cup {command.space}
                        ELSE visible \ {command.space}
          /\ spaceGone' = (spaceGone \/ (at # Home /\ at \notin visible'))
          /\ UNCHANGED <<spaceRows, fetches, checked, at, viewed>>
      BY <1>12, <2>1 DEF Space!ServerCommand, Space!Commands
    <2>3. command.op = "create" => command.space \notin viewed
      BY <2>1 DEF RoutedInv, NewIsUnseen
    <2>4. RoutedIsViewed'
      BY <2>2, <1>0, Zenon DEF RoutedInv, RoutedIsViewed
    <2>5. AskedIsViewed' /\ MissingIsGone' /\ SpaceCheckedIsGone'
      BY <2>2, <2>3 DEF RoutedInv, AskedIsViewed, MissingIsGone, SpaceCheckedIsGone
    <2>6. NewIsUnseen' /\ LeftIsGone'
      BY <2>1, <2>2, <2>3 DEF NewIsUnseen, LeftIsGone
    <2> QED
      BY <2>4, <2>5, <2>6 DEF RoutedInv
  <1>13. CASE Space!CreateAnswered
    <2>1. /\ Space!Routed(command.space, spaceRows') /\ Space!Kept(command.space)
               /\ spaceRows \subseteq spaceRows'
          /\ visible' = visible /\ command' = None /\ command \in Space!Commands
      BY <1>13 DEF Space!CreateAnswered, SpaceTyped
    <2>2. command.space \in Spaces \cup {Home}
      BY <2>1 DEF Space!Commands
    <2> QED
      BY <2>1, <2>2, NavigationKeeps
  <1>14. CASE Space!LeaveAnswered
    <2> DEFINE x == IF command.seen = command.space THEN Home ELSE at
    <2>1. /\ Space!Routed(x, spaceRows') /\ Space!Kept(x)
               /\ spaceRows' = spaceRows \ {command.space}
          /\ visible' = visible /\ command' = None /\ command \in Space!Commands /\ command # None
          /\ command.op = "leave" /\ command.done
      BY <1>14 DEF Space!LeaveAnswered, SpaceTyped
    <2>2. x \in Spaces \cup {Home} /\ x \in {at, Home} /\ command.space \notin visible
      BY <2>1 DEF SpaceTyped, RoutedInv, LeftIsGone
    <2> HIDE DEF x
    <2>3. SpaceTyped /\ visible' \subseteq Spaces
      BY <2>1 DEF SpaceTyped
    <2>4. /\ at' = x /\ viewed' = viewed \cup ({x} \ {Home})
          /\ spaceGone' = IF x = Home THEN FALSE ELSE (x = at /\ spaceGone) \/ x \notin visible'
          /\ \A f \in fetches' : \/ \E g \in fetches : f.space = g.space /\ f.found = g.found
                                 \/ x # Home /\ f.space = x /\ f.found = None
      BY <2>1, <2>2, <2>3, RoutedTypes, Zenon
    <2>5. RoutedIsViewed' /\ NewIsUnseen' /\ LeftIsGone'
      BY <1>0, <2>1, <2>4, Zenon DEF RoutedInv, RoutedIsViewed, NewIsUnseen, LeftIsGone
    <2>6. MissingIsGone'
      BY <1>0, <2>1, <2>4, Zenon DEF RoutedInv, MissingIsGone
    <2>7. AskedIsViewed' /\ SpaceCheckedIsGone'
      BY <2>1, <2>2, <2>4, KeptTypes DEF RoutedInv, AskedIsViewed, SpaceCheckedIsGone
    <2> QED
      BY <2>5, <2>6, <2>7 DEF RoutedInv
  <1>15. CASE Space!CommandFails
    BY <1>15
    DEF Space!CommandFails, RoutedInv, RoutedIsViewed, AskedIsViewed, NewIsUnseen, LeftIsGone,
        MissingIsGone, SpaceCheckedIsGone
  <1>16. CASE UNCHANGED Space!vars
    BY <1>16 DEF Space!vars, RoutedInv, RoutedIsViewed, AskedIsViewed, NewIsUnseen, LeftIsGone,
                 MissingIsGone, SpaceCheckedIsGone
  <1>17. ASSUME NEW s \in Spaces, Space!Revoke(s) PROVE RoutedInv'
    <2>1. /\ visible' = visible \ {s}
          /\ spaceGone' = (spaceGone \/ (at # Home /\ at \notin visible'))
          /\ UNCHANGED <<spaceRows, fetches, checked, at, viewed, command>>
      BY <1>17 DEF Space!Revoke, Space!Change
    <2>2. RoutedIsViewed'
      BY <1>0, <2>1, Zenon DEF RoutedInv, RoutedIsViewed
    <2> QED
      BY <2>1, <2>2
      DEF RoutedInv, AskedIsViewed, NewIsUnseen, LeftIsGone, MissingIsGone, SpaceCheckedIsGone
  <1> QED
    BY <1>1, <1>2, <1>4, <1>5, <1>6, <1>7, <1>8, <1>9, <1>10, <1>11, <1>12, <1>13, <1>14, <1>15,
       <1>16, <1>17
    DEF Space!Next, Space!Answers, Space!ListingFails, Space!SpaceFails, Space!Grant

(* "Once the id has an answer and there's no space, it names one the user    *)
(* can't see or one that's gone" (docs_main_content.tsx): with no failed     *)
(* request and nobody adding the user to a space, the URL is corrected to    *)
(* the home page only for a space that was out of reach since it was         *)
(* routed, also when creations, departures and listings overlap.             *)
THEOREM SpacesAreCorrectedIfGone ==
    ASSUME Space!StoreAssumption, ~Fails, ~Grants
    PROVE  Space!Spec => Space!BounceOnlyIfGone
  <1>1. SpaceTyped /\ RoutedInv /\ [Space!Next]_(Space!vars) => RoutedInv'
    BY RoutedInvStep
  <1>2. SpaceTyped /\ RoutedInv /\ [Space!Next]_(Space!vars)
          => [Space!Redirect => spaceGone]_(Space!vars)
    BY DEF Space!StoreAssumption, Space!Redirect, SpaceTyped, RoutedInv, RoutedIsViewed,
           SpaceCheckedIsGone
  <1>3. Space!Init => RoutedInv
    BY RoutedInvInit
  <1> QED
    BY <1>1, <1>2, <1>3, SpacesStayTyped, PTL DEF Space!Spec, Space!BounceOnlyIfGone

-----------------------------------------------------------------------------
(* The sidebar's index *)

\* Nothing is asked while a command is under way.
NothingAsked == command # None => listings = {} /\ fetches = {}

\* What was read and has not arrived is still so.
AnswersAreRight ==
  command = None =>
    /\ \A l \in listings : l.read # None => l.read = visible \cap Space!InTeam(l.team)
    /\ \A f \in fetches : f.found = TRUE => f.space \in visible

\* The space to be created is nobody's before the server has made it.
NewIsNoMembers == command # None /\ ~command.done /\ command.op = "create"
  => command.space \notin visible

\* The server has done the command and the client has not heard of it.
Pending(op) == command # None /\ command.op = op /\ command.done

\* The index of a listed team is what the user belongs to, but for the command
\* that is pending.
IndexFollows ==
  \A t \in teamsListed :
    /\ index[t] # None
    /\ Pending("create") => /\ command.space \in visible
                            /\ index[t] = (visible \ {command.space}) \cap Space!InTeam(t)
    /\ Pending("leave") => index[t] \ {command.space} = visible \cap Space!InTeam(t)
    /\ command = None \/ ~command.done => index[t] = visible \cap Space!InTeam(t)

\* The inductive invariant.
IndexInv == NothingAsked /\ AnswersAreRight /\ NewIsNoMembers /\ IndexFollows

LEMMA IndexInvInit ==
    ASSUME Space!StoreAssumption, Space!Init
    PROVE  IndexInv
  <1>1. /\ \A f \in fetches : f.found = None
        /\ \A l \in listings : l.read = None
    BY DEF Space!Init, Space!Fetch, Space!Listing
  <1>2. AnswersAreRight
    BY <1>1, Zenon DEF AnswersAreRight, Space!StoreAssumption
  <1> QED
    BY <1>2 DEF Space!Init, IndexInv, NothingAsked, NewIsNoMembers, IndexFollows

LEMMA MergedKeeps ==
    ASSUME SpaceTyped, IndexInv, command = None, NEW ss, ss \subseteq visible,
           index' = Space!Merged(ss),
           UNCHANGED <<visible, command, teamsListed>>
    PROVE  IndexFollows'
  <1>1. \A t \in teamsListed : t \in Teams /\ index[t] # None
          /\ index[t] = visible \cap Space!InTeam(t)
    BY DEF SpaceTyped, IndexInv, IndexFollows
  <1>2. \A t \in teamsListed : index'[t] = visible \cap Space!InTeam(t) /\ index'[t] # None
    BY <1>1, Zenon DEF Space!Merged, Space!Known
  <1>3. command' = None
    OBVIOUS
  <1> QED
    BY <1>2, <1>3 DEF IndexFollows, Pending, Space!InTeam

LEMMA IndexInvStep ==
    ASSUME Space!StoreAssumption, ~Overlaps, ~Grants, ~Revokes, SpaceTyped, IndexInv,
           [Space!Next]_(Space!vars)
    PROVE  IndexInv'
  <1> USE DEF Space!server, Space!store, Space!net, Space!route, Space!bounds
  <1>0. None \notin BOOLEAN /\ None \notin SUBSET Spaces /\ None \notin Space!Commands
    BY DEF Space!StoreAssumption
  <1>1. ASSUME NEW l \in listings, Space!ReadListing(l) PROVE IndexInv'
    <2> DEFINE m == [l EXCEPT !.read = visible \cap Space!InTeam(l.team)]
    <2>1. m.read = visible \cap Space!InTeam(m.team)
      BY DEF SpaceTyped, AllListings
    <2>2. /\ listings' = (listings \ {l}) \cup {m} /\ listings # {}
          /\ UNCHANGED <<visible, index, fetches, command, teamsListed>>
      BY <1>1 DEF Space!ReadListing
    <2> HIDE DEF m
    <2>3. command = None
      BY <2>2 DEF IndexInv, NothingAsked
    <2>4. AnswersAreRight'
      BY <2>1, <2>2, <2>3 DEF IndexInv, AnswersAreRight, Space!InTeam
    <2> QED
      BY <2>2, <2>3, <2>4
      DEF IndexInv, NothingAsked, NewIsNoMembers, IndexFollows, Pending, Space!InTeam
  <1>2. ASSUME NEW l \in listings, Space!ListingArrives(l) PROVE IndexInv'
    <2>1. /\ command = None /\ command' = None /\ visible' = visible /\ visible \subseteq Spaces
          /\ l.team \in Teams /\ l.read = visible \cap Space!InTeam(l.team)
          /\ listings' \subseteq listings /\ teamsListed' = teamsListed \cup {l.team}
               /\ teamsListed \subseteq Teams
          /\ index' = Space!Scoped(l.team, l.read)
      BY <1>2
      DEF Space!ListingArrives, IndexInv, NothingAsked, AnswersAreRight, SpaceTyped, AllListings
    <2>2. \A t \in teamsListed : index[t] # None /\ index[t] = visible \cap Space!InTeam(t)
      BY <2>1 DEF IndexInv, IndexFollows
    <2>3. \A t \in teamsListed' : index'[t] = visible \cap Space!InTeam(t) /\ index'[t] # None
      BY <1>0, <2>1, <2>2 DEF Space!Scoped, SpaceTyped
    <2>4. SpaceTyped /\ visible' \subseteq Spaces /\ at \in Spaces \cup {Home}
            /\ Space!Routed(at, spaceRows')
      BY <1>2 DEF Space!ListingArrives, SpaceTyped
    <2>5. \A f \in fetches' : \/ \E g \in fetches : f.space = g.space /\ f.found = g.found
                              \/ at # Home /\ f.space = at /\ f.found = None
      BY <2>4, RoutedTypes, Zenon
    <2>6. AnswersAreRight'
      BY <1>0, <2>1, <2>5, Zenon DEF IndexInv, AnswersAreRight, Space!InTeam
    <2> QED
      BY <2>1, <2>3, <2>6
      DEF IndexInv, NothingAsked, NewIsNoMembers, IndexFollows, Pending, Space!InTeam
  <1>3. ASSUME NEW l \in listings, Space!ListingFails(l) PROVE IndexInv'
    BY <1>3
    DEF Space!ListingFails, IndexInv, NothingAsked, AnswersAreRight, NewIsNoMembers, IndexFollows,
        Pending, Space!InTeam
  <1>4. CASE Space!SwitcherLists
    <2>1. PICK ts \in (IF Fails THEN SUBSET Teams ELSE {Teams}) :
            index' = Space!Merged({s \in visible : TeamOf[s] \in ts})
      BY <1>4, Zenon DEF Space!SwitcherLists
    <2>2. /\ command = None /\ command' = None
          /\ UNCHANGED <<visible, command, teamsListed, listings>>
      BY <1>4 DEF Space!SwitcherLists, Space!MayAsk
    <2>3. IndexFollows'
      BY <2>1, <2>2, MergedKeeps
    <2>4. SpaceTyped /\ visible' \subseteq Spaces /\ at \in Spaces \cup {Home}
            /\ Space!Routed(at, spaceRows')
      BY <1>4 DEF Space!SwitcherLists, SpaceTyped
    <2>5. \A f \in fetches' : \/ \E g \in fetches : f.space = g.space /\ f.found = g.found
                              \/ at # Home /\ f.space = at /\ f.found = None
      BY <2>4, RoutedTypes, Zenon
    <2>6. AnswersAreRight'
      BY <1>0, <2>2, <2>5, Zenon DEF IndexInv, AnswersAreRight, Space!InTeam
    <2> QED
      BY <2>2, <2>3, <2>6 DEF IndexInv, NothingAsked, NewIsNoMembers
  <1>5. ASSUME NEW f \in fetches, Space!ReadSpace(f) PROVE IndexInv'
    <2>1. /\ fetches' = (fetches \ {f}) \cup {[f EXCEPT !.found = f.space \in visible]}
          /\ UNCHANGED <<visible, index, listings, command, teamsListed>>
      BY <1>5 DEF Space!ReadSpace
    <2>2. PICK b \in BOOLEAN : b = (f.space \in visible)
      BY MembershipIsBoolean
    <2>3. [f EXCEPT !.found = b].space = f.space /\ [f EXCEPT !.found = b].found = b
      BY DEF SpaceTyped, AllFetches
    <2>4. \A g \in fetches' : g \in fetches \/ (g.found = TRUE => g.space \in visible)
      <3>1. fetches' = (fetches \ {f}) \cup {[f EXCEPT !.found = b]}
        BY <2>1, <2>2
      <3>2. b = TRUE => f.space \in visible
        BY <2>2, Zenon
      <3> QED
        BY <3>1, <3>2, <2>3, Zenon
    <2>5. command = None
      BY DEF IndexInv, NothingAsked
    <2>6. AnswersAreRight'
      BY <2>1, <2>4, <2>5 DEF IndexInv, AnswersAreRight, Space!InTeam
    <2> QED
      BY <2>1, <2>5, <2>6
      DEF IndexInv, NothingAsked, NewIsNoMembers, IndexFollows, Pending, Space!InTeam
  <1>6. ASSUME NEW f \in fetches, NEW found \in BOOLEAN, found => f.found = TRUE,
               Space!SpaceAnswered(f, found)
        PROVE  IndexInv'
    <2>1. /\ command = None /\ UNCHANGED <<visible, command, teamsListed, listings>>
          /\ fetches' \subseteq fetches
          /\ index' = IF found THEN Space!Merged({f.space}) ELSE index
      BY <1>6 DEF Space!SpaceAnswered, IndexInv, NothingAsked
    <2>2. found => {f.space} \subseteq visible
      BY <1>6, <2>1 DEF IndexInv, AnswersAreRight
    <2>3. IndexFollows'
      <3>1. CASE found
        BY <2>1, <2>2, <3>1, MergedKeeps
      <3>2. CASE ~found
        BY <2>1, <3>2 DEF IndexInv, IndexFollows, Pending, Space!InTeam
      <3> QED
        BY <3>1, <3>2
    <2> QED
      BY <2>1, <2>3 DEF IndexInv, NothingAsked, NewIsNoMembers, AnswersAreRight, Space!InTeam
  <1>7. CASE Space!Redirect
    <2>1. /\ SpaceTyped /\ visible' \subseteq Spaces /\ Space!Routed(Home, spaceRows)
          /\ UNCHANGED <<visible, index, listings, command, teamsListed>>
      BY <1>7 DEF Space!Redirect, SpaceTyped
    <2>2. /\ \A f \in fetches' : \E g \in fetches : f.space = g.space /\ f.found = g.found
          /\ fetches = {} => fetches' = {}
      BY <2>1, RoutedTypes, Zenon
    <2> QED
      BY <2>1, <2>2 DEF IndexInv, NothingAsked, NewIsNoMembers, AnswersAreRight, IndexFollows,
                        Pending, Space!InTeam
  <1>8. ASSUME NEW x \in Spaces \cup {Home}, Space!GoTo(x) PROVE IndexInv'
    <2>1. /\ SpaceTyped /\ visible' \subseteq Spaces /\ Space!Routed(x, spaceRows) /\ command = None
          /\ UNCHANGED <<visible, index, listings, command, teamsListed>>
      BY <1>8 DEF Space!GoTo, Space!MayAsk, SpaceTyped
    <2>2. \A f \in fetches' : \/ \E g \in fetches : f.space = g.space /\ f.found = g.found
                              \/ x # Home /\ f.space = x /\ f.found = None
      BY <2>1, RoutedTypes, Zenon
    <2> QED
      BY <1>0, <2>1, <2>2, Zenon DEF IndexInv, NothingAsked, NewIsNoMembers, AnswersAreRight,
        IndexFollows,
                        Pending, Space!InTeam
  <1>9. ASSUME NEW t \in Teams, Space!EnterTeam(t) PROVE IndexInv'
    <2>1. /\ SpaceTyped /\ visible' \subseteq Spaces /\ Space!Routed(Home, spaceRows)
               /\ command = None
          /\ UNCHANGED <<visible, index, command, teamsListed>>
          /\ listings' = listings \cup {Space!Listing(t)} /\ Space!Listing(t).read = None
      BY <1>9 DEF Space!EnterTeam, Space!MayAsk, SpaceTyped, Space!Listing
    <2>2. \A f \in fetches' : \E g \in fetches : f.space = g.space /\ f.found = g.found
      BY <2>1, RoutedTypes, Zenon
    <2>3. AnswersAreRight'
      BY <2>1, <2>2 DEF IndexInv, AnswersAreRight, Space!InTeam
    <2> QED
      BY <2>1, <2>3 DEF IndexInv, NothingAsked, NewIsNoMembers, IndexFollows, Pending, Space!InTeam
  <1>10. ASSUME NEW s \in Spaces, Space!Create(s) PROVE IndexInv'
    <2>1. /\ command = None /\ listings = {} /\ fetches = {} /\ s \notin visible
          /\ command' = [op |-> "create", space |-> s, seen |-> None, done |-> FALSE]
          /\ UNCHANGED <<visible, index, listings, fetches, teamsListed>>
      BY <1>10 DEF Space!Create, Space!MayCommand
    <2>2. command'.space = s /\ ~command'.done
      BY <2>1
    <2>3. NewIsNoMembers' /\ NothingAsked' /\ AnswersAreRight'
      BY <2>1, <2>2 DEF NewIsNoMembers, NothingAsked, AnswersAreRight
    <2> QED
      BY <2>1, <2>2, <2>3 DEF IndexInv, IndexFollows, Pending, Space!InTeam
  <1>11. ASSUME NEW s \in Spaces, Space!Leave(s) PROVE IndexInv'
    <2>1. /\ command = None /\ listings = {} /\ fetches = {}
          /\ command' = [op |-> "leave", space |-> s, seen |-> at, done |-> FALSE]
          /\ UNCHANGED <<visible, index, listings, fetches, teamsListed>>
      BY <1>11 DEF Space!Leave, Space!MayCommand
    <2>2. command'.op = "leave" /\ ~command'.done
      BY <2>1
    <2>3. NewIsNoMembers' /\ NothingAsked' /\ AnswersAreRight'
      BY <2>1, <2>2 DEF NewIsNoMembers, NothingAsked, AnswersAreRight
    <2> QED
      BY <2>1, <2>2, <2>3 DEF IndexInv, IndexFollows, Pending, Space!InTeam
  <1>12. CASE Space!ServerCommand
    <2>1. command \in Space!Commands /\ command # None /\ ~command.done
      BY <1>12 DEF Space!ServerCommand, SpaceTyped
    <2>2. /\ command'.op = command.op /\ command'.space = command.space /\ command'.done
          /\ visible' = IF command.op = "create" THEN visible \cup {command.space}
                        ELSE visible \ {command.space}
          /\ UNCHANGED <<index, listings, fetches, teamsListed>>
      BY <1>12, <2>1 DEF Space!ServerCommand, Space!Commands
    <2>3. listings = {} /\ fetches = {} /\ (command.op = "create" => command.space \notin visible)
          /\ \A t \in teamsListed : index[t] # None /\ index[t] = visible \cap Space!InTeam(t)
      BY <2>1 DEF IndexInv, NothingAsked, NewIsNoMembers, IndexFollows
    <2>4. \A t \in teamsListed' :
            /\ index'[t] # None
            /\ command.op = "create"
                 => index'[t] = (visible' \ {command.space}) \cap Space!InTeam(t)
            /\ command.op = "leave" => index'[t] \ {command.space} = visible' \cap Space!InTeam(t)
      BY <2>2, <2>3
    <2>5. IndexFollows'
      <3>1. command' \in Space!Commands
        BY <1>12, <2>1, Zenon DEF Space!ServerCommand, Space!Commands
      <3>2. command' # None /\ command'.done
        BY <1>0, <2>2, <3>1
      <3>3. command.op = "create" => command.space \in visible'
        BY <2>2
      <3>4. ASSUME NEW t \in teamsListed'
            PROVE  /\ index'[t] # None
                   /\ Pending("create")' => /\ command'.space \in visible'
                                            /\ index'[t] =
                                                 (visible' \ {command'.space})
                                                   \cap Space!InTeam(t)
                   /\ Pending("leave")'
                        => index'[t] \ {command'.space} = visible' \cap Space!InTeam(t)
                   /\ command' # None /\ command'.done
        <4>1. index'[t] # None
          BY <2>4
        <4>2. Pending("create")' => /\ command'.space \in visible'
                                    /\ index'[t]
                                         = (visible' \ {command'.space}) \cap Space!InTeam(t)
          BY <2>2, <2>4, <3>3 DEF Pending
        <4>3. Pending("leave")' => index'[t] \ {command'.space} = visible' \cap Space!InTeam(t)
          BY <2>2, <2>4 DEF Pending
        <4> QED
          BY <3>2, <4>1, <4>2, <4>3
      <3> QED
        BY <3>4 DEF IndexFollows, Space!InTeam
    <2> QED
      BY <2>2, <2>3, <2>5 DEF IndexInv, NothingAsked, NewIsNoMembers, AnswersAreRight
  <1>13. CASE Space!CreateAnswered
    <2>1. /\ command # None /\ command.op = "create" /\ command.done /\ command \in Space!Commands
          /\ index' = Space!Created(command.space) /\ command' = None
               /\ Space!Routed(command.space, spaceRows')
          /\ UNCHANGED <<visible, listings, teamsListed>>
      BY <1>13 DEF Space!CreateAnswered, SpaceTyped
    <2>2. command.space \in Spaces
      BY <2>1 DEF Space!Commands
    <2>3. \A t \in teamsListed : index[t] # None
            /\ index[t] = (visible \ {command.space}) \cap Space!InTeam(t)
      BY <2>1 DEF IndexInv, IndexFollows, Pending
    <2>4. \A t \in teamsListed' : index'[t] # None /\ index'[t] = visible' \cap Space!InTeam(t)
      <3> SUFFICES ASSUME NEW t \in teamsListed
                   PROVE  index'[t] # None /\ index'[t] = visible \cap Space!InTeam(t)
        BY <2>1
      <3>1. t \in Teams /\ index[t] # None
              /\ index[t] = (visible \ {command.space}) \cap Space!InTeam(t)
            /\ command.space \in visible
        BY <2>1 DEF SpaceTyped, IndexInv, IndexFollows, Pending
      <3>2. CASE t = TeamOf[command.space]
        <4>1. command.space \in Space!InTeam(t)
          BY <2>2, <3>2 DEF Space!InTeam
        <4>2. index'[t] = index[t] \cup {command.space}
          BY <2>1, <3>1, <3>2 DEF Space!Created, SpaceTyped
        <4>3. index'[t] = visible \cap Space!InTeam(t)
          BY <3>1, <4>1, <4>2
        <4>4. index'[t] \in SUBSET Spaces
          BY <4>3 DEF Space!InTeam
        <4> QED
          BY <1>0, <4>3, <4>4
      <3>3. CASE t # TeamOf[command.space]
        <4>1. command.space \notin Space!InTeam(t)
          BY <3>3 DEF Space!InTeam
        <4>2. index'[t] = index[t]
          BY <2>1, <3>1, <3>3 DEF Space!Created, SpaceTyped
        <4> QED
          BY <3>1, <4>1, <4>2
      <3> QED
        BY <3>2, <3>3
    <2>5. listings = {} /\ fetches = {}
      BY <2>1 DEF IndexInv, NothingAsked
    <2>6. SpaceTyped /\ visible' \subseteq Spaces /\ command.space \in Spaces \cup {Home}
      BY <2>1, <2>2 DEF SpaceTyped
    <2>7. \A f \in fetches' : f.found = None
      BY <2>1, <2>5, <2>6, RoutedTypes, Zenon
    <2>8. AnswersAreRight' /\ NothingAsked' /\ NewIsNoMembers'
      BY <1>0, <2>1, <2>5, <2>7, Zenon DEF AnswersAreRight, NothingAsked, NewIsNoMembers
    <2> QED
      BY <2>1, <2>4, <2>8 DEF IndexInv, IndexFollows, Pending, Space!InTeam
  <1>14. CASE Space!LeaveAnswered
    <2> DEFINE x == IF command.seen = command.space THEN Home ELSE at
    <2>1. /\ command # None /\ command.op = "leave" /\ command.done /\ command \in Space!Commands
          /\ index' = Space!Deleted(command.space) /\ command' = None /\ Space!Routed(x, spaceRows')
          /\ UNCHANGED <<visible, listings, teamsListed>>
      BY <1>14 DEF Space!LeaveAnswered, SpaceTyped
    <2>2. x \in Spaces \cup {Home}
      BY DEF SpaceTyped
    <2> HIDE DEF x
    <2>3. \A t \in teamsListed : t \in Teams /\ index[t] # None
                            /\ index[t] \ {command.space} = visible \cap Space!InTeam(t)
      BY <2>1 DEF SpaceTyped, IndexInv, IndexFollows, Pending
    <2>4. \A t \in teamsListed' : index'[t] # None /\ index'[t] = visible' \cap Space!InTeam(t)
      <3>1. \A t \in teamsListed' : index'[t] = visible' \cap Space!InTeam(t)
        BY <2>1, <2>3 DEF Space!Deleted
      <3>2. \A t \in teamsListed' : visible' \cap Space!InTeam(t) \in SUBSET Spaces
        BY DEF Space!InTeam
      <3> QED
        BY <1>0, <3>1, <3>2
    <2>5. listings = {} /\ fetches = {}
      BY <2>1 DEF IndexInv, NothingAsked
    <2>6. SpaceTyped /\ visible' \subseteq Spaces
      BY <2>1 DEF SpaceTyped
    <2>7. \A f \in fetches' : f.found = None
      BY <2>1, <2>2, <2>5, <2>6, RoutedTypes, Zenon
    <2>8. AnswersAreRight' /\ NothingAsked' /\ NewIsNoMembers'
      BY <1>0, <2>1, <2>5, <2>7, Zenon DEF AnswersAreRight, NothingAsked, NewIsNoMembers
    <2> QED
      BY <2>1, <2>4, <2>8 DEF IndexInv, IndexFollows, Pending, Space!InTeam
  <1>15. CASE Space!CommandFails
    <2>1. /\ command # None /\ ~command.done /\ command' = None /\ listings = {} /\ fetches = {}
          /\ UNCHANGED <<visible, index, listings, fetches, teamsListed>>
      BY <1>15 DEF Space!CommandFails, IndexInv, NothingAsked
    <2> QED
      BY <2>1
      DEF IndexInv, NothingAsked, NewIsNoMembers, AnswersAreRight, IndexFollows, Pending,
          Space!InTeam
  <1>16. CASE UNCHANGED Space!vars
    BY <1>16 DEF Space!vars, IndexInv, NothingAsked, NewIsNoMembers, AnswersAreRight, IndexFollows,
                 Pending, Space!InTeam
  <1>17. ASSUME NEW f \in fetches, Space!SpaceArrives(f) PROVE IndexInv'
    <2>1. f.found \in BOOLEAN
      BY <1>17 DEF Space!SpaceArrives, SpaceTyped, AllFetches
    <2> QED
      BY <1>6, <1>17, <2>1, Zenon DEF Space!SpaceArrives
  <1>18. ASSUME NEW f \in fetches, Space!SpaceFails(f) PROVE IndexInv'
    BY <1>6, <1>18, Zenon DEF Space!SpaceFails
  <1> QED
    BY <1>1, <1>2, <1>3, <1>4, <1>5, <1>7, <1>8, <1>9, <1>10, <1>11, <1>12, <1>13, <1>14, <1>15,
       <1>16, <1>17, <1>18
    DEF Space!Next, Space!Answers, Space!Grant, Space!Revoke

(* "Returns the current team's spaces the caller belongs to" (bootstrap.ts): *)
(* when no listing overlaps a command and membership changes by the user's   *)
(* own commands only, a listed team's index is what the user belongs to      *)
(* whenever nothing is under way, whatever was created, left, archived and   *)
(* fetched in between, in whatever order, and whichever requests failed.     *)
THEOREM TheSidebarIsRight ==
    ASSUME Space!StoreAssumption, ~Overlaps, ~Grants, ~Revokes
    PROVE  Space!Spec => []Space!SidebarIsRight
  <1>1. SpaceTyped /\ IndexInv /\ [Space!Next]_(Space!vars) => IndexInv'
    BY IndexInvStep
  <1>2. IndexInv => Space!SidebarIsRight
    BY DEF IndexInv, IndexFollows, Space!SidebarIsRight
  <1>3. Space!Init => IndexInv
    BY IndexInvInit
  <1> QED
    BY <1>1, <1>2, <1>3, SpacesStayTyped, PTL DEF Space!Spec


-----------------------------------------------------------------------------
(* The store of pages, and the server's tree under it                      *)

\* The pages of the spaces, and what is proved of the tree the server keeps of them.
Store == INSTANCE PageStore WITH Spaces <- StoreSpaces

Tree == INSTANCE PageTreeProofs WITH
  Spaces <- StoreSpaces, clock <- 1, spaces <- [s \in StoreSpaces |-> 0], pages <- rows,
  archived <- [s \in StoreSpaces |-> {}], Clients <- {}, NoLoad <- [none |-> 0], loaded <- <<>>

(* A set in a larger finite one has fewer elements. *)
LEMMA StrictSubset ==
    ASSUME NEW S, NEW T, IsFiniteSet(T), S \subseteq T, S # T
    PROVE  Cardinality(S) < Cardinality(T)
  <1>1. Cardinality(S) <= Cardinality(T) /\ Cardinality(S) # Cardinality(T) /\ IsFiniteSet(S)
    BY FS_Subset
  <1>2. Cardinality(S) \in Nat /\ Cardinality(T) \in Nat
    BY <1>1, FS_CardinalityType
  <1> QED
    BY <1>1, <1>2

ServerInv == Tree!TreeInv /\ Tree!Orderly

\* The live pages of a space, and a step that leaves them alone.
Here(s) == {p \in Pages : Store!Server!LiveIn(p, s)}
Steady(s) == Here(s)' = Here(s) /\ \A p \in Here(s) : rows'[p] = rows[p]

LEMMA ServerAssumptions ==
    ASSUME Store!StoreAssumption
    PROVE  /\ Tree!TreeParamsAssumption /\ Tree!FiniteAssumption /\ Tree!RootAssumption
           /\ Tree!ForcedAssumption /\ Tree!NoLoadAssumption
  <1>1. Tree!FiniteAssumption
    BY DEF Store!StoreAssumption, Tree!FiniteAssumption, Store!IsFiniteSet, Tree!IsFiniteSet
  <1>2. Tree!NoLoadAssumption
    BY DEF Tree!NoLoadAssumption, Tree!Load
  <1>3. Tree!RootAssumption
    BY DEF Store!StoreAssumption, Tree!RootAssumption
  <1> QED
    BY <1>1, <1>2, <1>3 DEF Store!StoreAssumption, Tree!TreeParamsAssumption, Tree!ForcedAssumption

(* The operators of the server in the store are those of the tree's proofs. *)
LEMMA SameServer ==
    /\ \A p : Store!Server!Live(p) <=> Tree!Live(p)
    /\ \A p, s : Store!Server!LiveIn(p, s) <=> Tree!LiveIn(p, s)
    /\ \A s, u : Store!Server!Group(s, u) = Tree!Group(s, u)
    /\ \A p : Store!Server!Children(p) = Tree!Children(p)
    /\ \A p, q : Store!Server!Before(p, q) <=> Tree!Before(p, q)
    /\ \A s : Store!Server!SpaceLive(s) <=> Tree!SpaceLive(s)
  BY DEF Store!Server!Live, Tree!Live, Store!Server!LiveIn, Tree!LiveIn, Store!Server!Exists,
         Tree!Exists, Store!Server!Group, Tree!Group, Store!Server!Children, Tree!Children,
         Store!Server!Before, Tree!Before, Store!Server!SpaceLive, Tree!SpaceLive

LEMMA SameNumbers ==
    /\ \A S : Store!Server!Cardinality(S) = Tree!Cardinality(S)
    /\ \A S : Store!Server!Max(S) = Tree!Max(S)
    /\ \A S : Store!Server!Min(S) = Tree!Min(S)
    /\ \A m, n : Store!Server!NextMonotonic(m, n) = Tree!NextMonotonic(m, n)
    /\ \A S : Store!Cardinality(S) = Tree!Cardinality(S)
    /\ \A S : Store!Min(S) = Tree!Min(S)
    /\ \A S : Cardinality(S) = Tree!Cardinality(S)
  BY Zenon, Zenon DEF Store!Server!Cardinality, Tree!Cardinality, Store!Server!Max, Tree!Max,
    Store!Server!Min,
         Tree!Min, Store!Server!NextMonotonic, Tree!NextMonotonic, Store!Cardinality, Cardinality,
           Store!Min

LEMMA SamePlace == \A p, g : Store!Server!Place(p, g) = Tree!Place(p, g)
  BY SameServer, SameNumbers DEF Store!Server!Place, Tree!Place

LEMMA SameMayHang ==
    \A p, d, s : Store!Server!MayHang(p, d, s) <=> Tree!MayHang(p, d, s)
  <1>1. \A p : Store!Server!Subtree(p) = Tree!Subtree(p)
    BY SameServer, Zenon, Zenon DEF Store!Server!Subtree, Tree!Subtree, Store!Server!ClosedBelow,
      Tree!ClosedBelow
  <1>2. \A p : Store!Server!Above(p) = Tree!Above(p)
    BY SameServer, Zenon, Zenon DEF Store!Server!Above, Tree!Above
  <1>3. \A p : Store!Server!Depth(p) = Tree!Depth(p)
    BY <1>2, SameNumbers, ZenonT(60), Zenon DEF Store!Server!Depth, Tree!Depth
  <1>4. \A p : Store!Server!Height(p) = Tree!Height(p)
    BY <1>1, <1>3, SameNumbers, Zenon, Zenon DEF Store!Server!Height, Tree!Height
  <1> QED
    BY <1>1, <1>3, <1>4, SameServer, Zenon, Zenon
    DEF Store!Server!MayHang, Tree!MayHang, Store!Server!FitsDepth, Tree!FitsDepth

LEMMA SameTables ==
    /\ \A p, s, d, i : Store!Server!PagesAfterReindex(p, s, d, i)
         = Tree!PagesAfterReindex(p, s, d, i)
    /\ \A p, n : Store!Server!PagesAfterDelete(p, n) = Tree!PagesAfterDelete(p, n)
  <1>1. \A i, g : Store!Server!Clamped(i, g) = Tree!Clamped(i, g)
    BY SameNumbers, Zenon, Zenon DEF Store!Server!Clamped, Tree!Clamped
  <1>2. \A p, g, i : Store!Server!Renumbered(p, g, i) = Tree!Renumbered(p, g, i)
    BY SamePlace, Zenon, Zenon DEF Store!Server!Renumbered, Tree!Renumbered
  <1>3. \A p, r : Store!Server!MovedToken(p, r) = Tree!MovedToken(p, r)
    BY SameNumbers, Zenon, Zenon DEF Store!Server!MovedToken, Tree!MovedToken
  <1>4. \A p, s, d, i : Store!Server!PagesAfterReindex(p, s, d, i)
          = Tree!PagesAfterReindex(p, s, d, i)
    <2> TAKE p, s, d, i
    <2>1. \A g : Store!Server!Renumbered(p, g, Store!Server!Clamped(i, g))
            = Tree!Renumbered(p, g, Tree!Clamped(i, g))
      BY <1>1, <1>2
    <2>2. Store!Server!Group(s, d) = Tree!Group(s, d)
      BY SameServer
    <2>3. Store!Server!MovedToken(p, d # rows[p].parentId)
            = Tree!MovedToken(p, d # rows[p].parentId)
      BY <1>3
    <2> QED
      BY <2>1, <2>2, <2>3, Zenon, Zenon DEF Store!Server!PagesAfterReindex, Tree!PagesAfterReindex
  <1>5. \A q, n : Store!Server!Shifted(q, n) = Tree!Shifted(q, n)
    BY Zenon, Zenon DEF Store!Server!Shifted, Tree!Shifted
  <1>6. \A c, p, n : Store!Server!Promoted(c, p, n) = Tree!Promoted(c, p, n)
    BY SamePlace, SameServer, SameNumbers, Zenon, Zenon DEF Store!Server!Promoted, Tree!Promoted
  <1>7. \A p, d, n : Store!Server!Stamped(p, d, n) = Tree!Stamped(p, d, n)
    BY SameNumbers, Zenon, Zenon DEF Store!Server!Stamped, Tree!Stamped
  <1>8. \A p, n : Store!Server!PagesAfterDelete(p, n) = Tree!PagesAfterDelete(p, n)
    BY <1>5, <1>6, <1>7, SameServer, SameNumbers, Zenon, Zenon
    DEF Store!Server!PagesAfterDelete, Tree!PagesAfterDelete
  <1> QED
    BY <1>4, <1>8

LEMMA SameWrites ==
    ASSUME NEW p, NEW s, NEW t, NEW d, NEW base
    PROVE  /\ Store!Server!EditPage(p) => Tree!EditPage(p)
           /\ Store!Server!DeletePage(p, 1) => Tree!DeletePage(p, 1)
           /\ Store!Server!MovePageToIndex(p, s, d, base) => Tree!MovePageToIndex(p, s, d, base)
           /\ Store!Server!MovePageToSpace(p, s, t, d, base)
                => Tree!MovePageToSpace(p, s, t, d, base)
  <1>1. Store!Server!EditPage(p) => Tree!EditPage(p)
    BY SameServer, SameNumbers, Zenon DEF Store!Server!EditPage, Tree!EditPage
  <1>2. Store!Server!DeletePage(p, 1) => Tree!DeletePage(p, 1)
    BY SameServer, SameNumbers, SameTables, Zenon, Zenon
    DEF Store!Server!DeletePage, Tree!DeletePage, Store!Server!HasRoom, Tree!HasRoom
  <1>3. \A u, v, b : Store!Server!MayMove(u, v, b) <=> Tree!MayMove(u, v, b)
    BY SameServer, Zenon, Zenon DEF Store!Server!MayMove, Tree!MayMove
  <1>4. Store!Server!Indexes = Tree!Indexes
    BY SameNumbers DEF Store!Server!Indexes, Tree!Indexes
  <1>5. Store!Server!MovePageToIndex(p, s, d, base) => Tree!MovePageToIndex(p, s, d, base)
    BY <1>3, <1>4, SameServer, SameNumbers, SameTables, SameMayHang, Zenon, Zenon
    DEF Store!Server!MovePageToIndex, Tree!MovePageToIndex, Store!Server!HasRoom, Tree!HasRoom
  <1>6. Store!Server!MovePageToSpace(p, s, t, d, base) => Tree!MovePageToSpace(p, s, t, d, base)
    <2>1. \A u, v : Store!Server!NextSortOrder(u, v) = Tree!NextSortOrder(u, v)
      BY SameServer, SameNumbers, Zenon, Zenon DEF Store!Server!NextSortOrder, Tree!NextSortOrder
    <2>2. \A u : Store!Server!Rehomed(u) = Tree!Rehomed(u)
      BY SameServer, Zenon, Zenon
      DEF Store!Server!Rehomed, Tree!Rehomed, Store!Server!Subtree, Tree!Subtree,
          Store!Server!ClosedBelow, Tree!ClosedBelow
    <2> QED
      BY <1>3, <2>1, <2>2, SameServer, SameNumbers, SameMayHang, Zenon, Zenon
      DEF Store!Server!MovePageToSpace, Tree!MovePageToSpace, Store!Server!HasRoom, Tree!HasRoom
  <1> QED
    BY <1>1, <1>2, <1>5, <1>6

(* A write of the server keeps its trees and leaves the other spaces alone. *)
LEMMA InSpaceFacts ==
    ASSUME Store!StoreAssumption, ServerInv
    PROVE  /\ rows \in [Pages -> Tree!Row]
           /\ \A p \in Pages : Tree!Live(p) => rows[p].spaceId \in StoreSpaces
           /\ \A p, s : p \in Here(s) <=> /\ p \in Pages /\ Tree!Live(p) /\ rows[p].spaceId = s
           /\ \A p \in Pages : \A s : p \in Here(s) => rows[p].parentId \in Here(s) \cup {NoPage}
           /\ \A s : \A S \in SUBSET Here(s) : S # {} => \E p \in S : rows[p].parentId \notin S
           /\ \A s : \A p, q \in Here(s) : p # q /\ rows[p].parentId = rows[q].parentId
                                           => rows[p].sortOrder # rows[q].sortOrder
  <1>1. rows \in [Pages -> Tree!Row]
    BY DEF ServerInv, Tree!TreeInv, Tree!TypeOK
  <1>2. \A p, s : p \in Here(s) <=> p \in Pages /\ Tree!Live(p) /\ rows[p].spaceId = s
    BY SameServer DEF Here, Tree!LiveIn
  <1>3. \A p \in Pages : Tree!Live(p) => rows[p].spaceId \in StoreSpaces
    BY ServerAssumptions, Tree!LiveIsKept DEF ServerInv
  <1>4. Tree!ParentsLive /\ Tree!Acyclic /\ Tree!SiblingsOrdered
    BY ServerAssumptions, Tree!InvParentsLive, Tree!InvAcyclic,
      Tree!InvSiblingsOrdered DEF ServerInv
  <1>5. ASSUME NEW p \in Pages, NEW s, p \in Here(s)
        PROVE  rows[p].parentId \in Here(s) \cup {NoPage}
    BY <1>2, <1>4, <1>5 DEF Tree!ParentsLive, Tree!LiveIn
  <1>6. ASSUME NEW s, NEW S \in SUBSET Here(s), S # {}
        PROVE  \E p \in S : rows[p].parentId \notin S
    <2>1. S \in SUBSET {p \in Pages : Tree!Live(p)}
      BY <1>2
    <2> QED
      BY <1>4, <1>6, <2>1 DEF Tree!Acyclic
  <1>7. ASSUME NEW s, NEW p \in Here(s), NEW q \in Here(s), p # q, rows[p].parentId
                     = rows[q].parentId
        PROVE  rows[p].sortOrder # rows[q].sortOrder
    BY <1>2, <1>4, <1>7 DEF Tree!SiblingsOrdered
  <1> QED
    BY <1>1, <1>2, <1>3, <1>5, <1>6, <1>7

LEMMA SteadyRows ==
    ASSUME Store!StoreAssumption, ServerInv, ServerInv', NEW s,
           \A q \in Here(s) : rows'[q] = rows[q],
           \A q \in Pages \ Here(s) : rows'[q] = rows[q] \/ ~ Tree!Live(q)' \/ rows'[q].spaceId # s
    PROVE  Steady(s)
  <1>1. ASSUME NEW q \in Here(s)
        PROVE  q \in Here(s)'
    BY SameServer DEF Here, Store!Server!LiveIn, Store!Server!Live, Store!Server!Exists
  <1>2. ASSUME NEW q \in Here(s)', q \notin Here(s)
        PROVE  FALSE
    <2>1. q \in Pages /\ Tree!Live(q)' /\ rows'[q].spaceId = s
      BY SameServer DEF Here, Store!Server!LiveIn, Store!Server!Live, Store!Server!Exists,
                        Tree!Live, Tree!Exists
    <2>2. rows'[q] = rows[q]
      BY <1>2, <2>1
    <2> QED
      BY <1>2, <2>1, <2>2 DEF Here, Store!Server!LiveIn, Store!Server!Live, Store!Server!Exists,
                        Tree!Live, Tree!Exists
  <1> QED
    BY <1>1, <1>2 DEF Steady

LEMMA EditKeeps ==
    ASSUME Store!StoreAssumption, ServerInv, NEW p \in Pages, Store!Server!EditPage(p)
    PROVE  ServerInv' /\ \A s : s # rows[p].spaceId => Steady(s)
  <1>1. Tree!EditPage(p)
    BY SameWrites
  <1>2. Tree!TypeOK'
    BY <1>1, ServerAssumptions, Tree!PageStepType DEF ServerInv, Tree!TreeInv, Tree!PageStep
  <1>3. Tree!TreeInv' /\ \A q \in Pages : Tree!StaysPut(q)
    BY <1>1, <1>2, ServerAssumptions, Tree!EditPageInv DEF ServerInv
  <1>4. ServerInv'
    BY <1>3, ServerAssumptions, Tree!StillOrderly DEF ServerInv
  <1>5. /\ \A q \in Pages \ {p} : rows'[q] = rows[q]
        /\ rows'[p].spaceId = rows[p].spaceId
    BY <1>1, InSpaceFacts DEF Tree!EditPage, Tree!Row
  <1>6. ASSUME NEW s, s # rows[p].spaceId
        PROVE  Steady(s)
    <2>1. p \notin Here(s) /\ Here(s) \subseteq Pages
      BY <1>6, InSpaceFacts
    <2> QED
      BY <1>4, <1>5, <1>6, <2>1, SteadyRows
  <1> QED
    BY <1>4, <1>6

LEMMA DeleteKeeps ==
    ASSUME Store!StoreAssumption, ServerInv, NEW p \in Pages, Store!Server!DeletePage(p, 1)
    PROVE  /\ ServerInv'
           /\ rows' = Tree!PagesAfterDelete(p, 1)
           /\ \A s : s # rows[p].spaceId => Steady(s)
  <1>1. Tree!DeletePage(p, 1)
    BY SameWrites
  <1>2. Tree!TypeOK'
    <2>1. 1 \in Tree!ClockReads
      BY DEF Store!StoreAssumption, Tree!ClockReads, Tree!StaleReads
    <2> QED
      BY <1>1, <2>1, ServerAssumptions, Tree!PageStepType DEF ServerInv, Tree!TreeInv, Tree!PageStep
  <1>3. 1 \in Nat \ {0}
    OBVIOUS
  <1>4. ServerInv'
    BY <1>1, <1>2, <1>3, ServerAssumptions, Tree!DeletePageInv, Tree!DeletePageOrderly DEF ServerInv
  <1>5. Tree!TypeOK
    BY DEF ServerInv, Tree!TreeInv
  <1>6. rows' = Tree!PagesAfterDelete(p, 1) /\ Tree!Live(p)
    BY <1>1 DEF Tree!DeletePage
  <1>7. ASSUME NEW s, s # rows[p].spaceId
        PROVE  Steady(s)
    <2>1. p \notin Here(s) /\ Here(s) \subseteq Pages
      BY <1>7, InSpaceFacts
    <2>2. \A q \in Tree!Children(p) : q \in Pages /\ Tree!Live(q)
            /\ rows[q].spaceId = rows[p].spaceId
      <3> SUFFICES ASSUME NEW q \in Tree!Children(p)
                   PROVE  q \in Pages /\ Tree!Live(q) /\ rows[q].spaceId = rows[p].spaceId
        OBVIOUS
      <3>1. q \in Pages /\ Tree!Live(q) /\ rows[q].parentId = p
        BY DEF Tree!Children
      <3>2. q \in Here(rows[q].spaceId)
        BY <3>1, InSpaceFacts
      <3>3. p \in Here(rows[q].spaceId)
        BY <3>1, <3>2, InSpaceFacts, ServerAssumptions DEF Tree!RootAssumption
      <3> QED
        BY <3>1, <3>3, InSpaceFacts
    <2>3. ASSUME NEW q \in Pages \ {p}, rows'[q] # rows[q]
          PROVE  rows[q].spaceId = rows[p].spaceId /\ rows'[q].spaceId = rows[p].spaceId
      <3>1. CASE q \in Tree!Children(p)
        <4>1. rows'[q] = Tree!Promoted(q, p, 1)
          BY <1>6, <3>1 DEF Tree!PagesAfterDelete
        <4>2. Tree!Promoted(q, p, 1).spaceId = rows[q].spaceId
          BY <1>5, ServerAssumptions, Tree!PromotedRow
        <4> QED
          BY <2>2, <3>1, <4>1, <4>2
      <3>2. CASE q \notin Tree!Children(p)
        <4>1. q \in Tree!Group(rows[p].spaceId, rows[p].parentId)
          BY <1>6, <2>3, <3>2 DEF Tree!PagesAfterDelete
        <4>2. rows'[q] = Tree!Shifted(q, Tree!Cardinality(Tree!Children(p)))
          BY <1>6, <2>3, <3>2 DEF Tree!PagesAfterDelete
        <4>3. rows'[q].spaceId = rows[q].spaceId
          BY <4>2, InSpaceFacts DEF Tree!Shifted, Tree!Row
        <4> QED
          BY <4>1, <4>3 DEF Tree!Group, Tree!LiveIn
      <3> QED
        BY <3>1, <3>2
    <2>4. ~ Tree!Live(p)' \/ rows'[p].spaceId # s
      <3>1. rows'[p] = Tree!Stamped(p, 1, 1)
        BY <1>6 DEF Tree!PagesAfterDelete
      <3>2. rows'[p].spaceId = rows[p].spaceId
        BY <3>1, InSpaceFacts DEF Tree!Stamped, Tree!Row
      <3> QED
        BY <1>7, <3>2
    <2>5. \A q \in Here(s) : rows[q].spaceId = s
      BY InSpaceFacts
    <2> QED
      BY <1>4, <1>7, <2>1, <2>3, <2>4, <2>5, SteadyRows
  <1> QED
    BY <1>4, <1>6, <1>7

LEMMA MoveKeeps ==
    ASSUME Store!StoreAssumption, ServerInv, NEW p \in Pages, NEW u \in StoreSpaces,
           NEW d \in Pages \cup {NoPage}, NEW base, Store!Server!MovePageToIndex(p, u, d, base)
    PROVE  ServerInv' /\ \A s : s # u => Steady(s)
  <1>1. Tree!MovePageToIndex(p, u, d, base) /\ d \in Tree!ParentIds
    BY SameWrites DEF Tree!ParentIds
  <1>2. Tree!TypeOK'
    BY <1>1, ServerAssumptions, Tree!MoveStepType DEF ServerInv, Tree!TreeInv, Tree!MoveStep
  <1>3. ServerInv'
    BY <1>1, <1>2, ServerAssumptions, Tree!MovePageToIndexInv, Tree!MovePageToIndexOrderly
    DEF ServerInv
  <1>4. PICK i \in Tree!Indexes : rows' = Tree!PagesAfterReindex(p, u, d, i)
    BY <1>1 DEF Tree!MovePageToIndex
  <1>5. Tree!LiveIn(p, u)
    BY <1>1 DEF Tree!MovePageToIndex, Tree!MayMove
  <1>6. \A q \in Pages : q # p /\ q \notin Tree!Group(u, d) => rows'[q] = rows[q]
    BY <1>4 DEF Tree!PagesAfterReindex
  <1>7. \A q \in Pages : rows'[q].spaceId = rows[q].spaceId
    BY <1>4, InSpaceFacts DEF Tree!PagesAfterReindex, Tree!Row
  <1>8. ASSUME NEW s, s # u
        PROVE  Steady(s)
    <2>1. \A q \in Here(s) : rows[q].spaceId = s /\ q \in Pages
      BY InSpaceFacts
    <2>2. \A q \in Tree!Group(u, d) : rows[q].spaceId = u
      BY DEF Tree!Group, Tree!LiveIn
    <2>3. rows[p].spaceId = u
      BY <1>5 DEF Tree!LiveIn
    <2> QED
      BY <1>3, <1>6, <1>7, <1>8, <2>1, <2>2, <2>3, SteadyRows
  <1> QED
    BY <1>3, <1>8

LEMMA RelocateKeeps ==
    ASSUME Store!StoreAssumption, ServerInv, NEW p \in Pages, NEW u \in StoreSpaces,
           NEW t \in StoreSpaces, NEW d \in Pages \cup {NoPage}, NEW base,
           Store!Server!MovePageToSpace(p, u, t, d, base)
    PROVE  ServerInv' /\ \A s : s \notin {u, t} => Steady(s)
  <1>1. Tree!MovePageToSpace(p, u, t, d, base) /\ d \in Tree!ParentIds
    BY SameWrites DEF Tree!ParentIds
  <1>2. Tree!TypeOK'
    BY <1>1, ServerAssumptions, Tree!MoveStepType, Zenon DEF ServerInv, Tree!TreeInv, Tree!MoveStep
  <1>3. ServerInv'
    BY <1>1, <1>2, ServerAssumptions, Tree!MovePageToSpaceInv, Tree!MovePageToSpaceOrderly
    DEF ServerInv
  <1>4. Tree!LiveIn(p, u)
    BY <1>1 DEF Tree!MovePageToSpace, Tree!MayMove
  <1>5. Tree!TypeOK
    BY DEF ServerInv, Tree!TreeInv
  <1>6. /\ rows'[p].spaceId = t
        /\ \A q \in Pages \ {p} : /\ q \in Tree!Subtree(p) => rows'[q].spaceId = t
                                  /\ q \notin Tree!Subtree(p) => rows'[q] = rows[q]
    BY <1>1, <1>5, ServerAssumptions, Tree!RehomedTable
  <1>7. \A q \in Tree!Subtree(p) : Tree!LiveIn(q, u)
    BY <1>4, ServerAssumptions, Tree!SubtreeInSpace DEF ServerInv
  <1>8. ASSUME NEW s, s \notin {u, t}
        PROVE  Steady(s)
    <2>1. \A q \in Here(s) : rows[q].spaceId = s /\ q \in Pages
      BY InSpaceFacts
    <2>2. \A q \in Tree!Subtree(p) \cup {p} : rows[q].spaceId = u
      BY <1>4, <1>7 DEF Tree!LiveIn
    <2> QED
      BY <1>3, <1>6, <1>8, <2>1, <2>2, SteadyRows
  <1> QED
    BY <1>3, <1>8

(* The first tables. *)
LEMMA ServerInit ==
    ASSUME Store!StoreAssumption, Store!Init
    PROVE  /\ ServerInv
           /\ \E s \in StoreSpaces : \A p \in Pages : Tree!Live(p) /\ rows[p].spaceId = s
  <1>1. PICK up \in [Pages -> Pages \cup {NoPage}] :
          /\ \A p \in Pages : up[p] < p
          /\ rows = [p \in Pages |->
               [spaceId |-> CHOOSE s \in StoreSpaces : TRUE, parentId |-> up[p],
                sortOrder |-> Store!Cardinality({q \in Pages : q <= p /\ up[q] = up[p]}),
                createAt |-> p, deleteAt |-> 0, updateAt |-> 1]]
    BY Zenon DEF Store!Init
  <1>s. PICK s \in StoreSpaces : s = CHOOSE r \in StoreSpaces : TRUE
    BY DEF Store!StoreAssumption
  <1>2. \A p \in Pages : /\ rows[p].spaceId = s /\ rows[p].parentId = up[p]
                         /\ rows[p].createAt = p /\ rows[p].deleteAt = 0 /\ rows[p].updateAt = 1
                         /\ rows[p].sortOrder = Cardinality({q \in Pages : q <= p /\ up[q] = up[p]})
                         /\ DOMAIN rows[p]
                              = {"spaceId", "parentId", "sortOrder", "createAt", "deleteAt",
                                "updateAt"}
    BY <1>1, <1>s, SameNumbers
  <1>3. Pages \subseteq Nat \ {0} /\ NoPage = 0 /\ NoSpace \notin StoreSpaces
    BY DEF Store!StoreAssumption
  <1>4. \A S \in SUBSET Pages : IsFiniteSet(S)
    <2>1. IsFiniteSet(Pages)
      BY DEF Store!StoreAssumption, Store!IsFiniteSet, IsFiniteSet
    <2> QED
      BY <2>1, FS_Subset
  <1>5. rows \in [Pages -> Tree!Row]
    <2> SUFFICES ASSUME NEW p \in Pages
                 PROVE  rows[p] \in Tree!Row
      BY <1>1
    <2>1. rows[p] = [spaceId |-> s, parentId |-> up[p],
                     sortOrder |-> Cardinality({q \in Pages : q <= p /\ up[q] = up[p]}),
                     createAt |-> p, deleteAt |-> 0, updateAt |-> 1]
      BY <1>1, <1>s, SameNumbers, Zenon
    <2>2. {q \in Pages : q <= p /\ up[q] = up[p]} \subseteq Pages
      OBVIOUS
    <2>3. Cardinality({q \in Pages : q <= p /\ up[q] = up[p]}) \in Nat
      BY <1>4, <2>2, FS_CardinalityType
    <2> QED
      BY <1>1, <1>3, <2>1, <2>3, Zenon DEF Tree!Row, Tree!ParentIds
  <1>6. Tree!TypeOK
    BY <1>5 DEF Tree!TypeOK
  <1>7. \A p \in Pages : Tree!Live(p) /\ Tree!Kept(p)
    <2>1. \A r \in StoreSpaces : [x \in StoreSpaces |-> 0][r] = 0
      OBVIOUS
    <2> SUFFICES ASSUME NEW p \in Pages
                 PROVE  Tree!Live(p) /\ Tree!Kept(p)
      OBVIOUS
    <2>2. rows[p].spaceId = s /\ rows[p].deleteAt = 0 /\ s # NoSpace
      BY <1>s, <1>2, <1>3, Zenon
    <2>3. [x \in StoreSpaces |-> 0][rows[p].spaceId] = 0
      BY <2>1, <2>2
    <2> QED
      BY <2>2, <2>3, Zenon, Zenon DEF Tree!Live, Tree!Exists, Tree!Kept
  <1>8. Tree!LiveInLive
    BY <1>2, Zenon DEF Tree!LiveInLive, Tree!SpaceLive
  <1>9. Tree!ParentsKept
    BY <1>1, <1>2, <1>7, Zenon DEF Tree!ParentsKept, Tree!ParentKept
  <1>10. Tree!KeptAcyclic
    <2> SUFFICES ASSUME NEW S \in SUBSET Pages, S # {}
                 PROVE  \E p \in S : rows[p].parentId \notin S
      BY DEF Tree!KeptAcyclic, Tree!Rooted
    <2>1. PICK p \in S : \A q \in S : p <= q
      <3> DEFINE f == [x \in S |-> 0 - x]
                 T == {f[x] : x \in S}
      <3>1. S \subseteq Nat
        BY <1>3
      <3>2. Tree!IsFiniteSet(T)
        <4>1. Tree!IsFiniteSet(S)
          BY <1>4, Zenon, Zenon DEF IsFiniteSet, Tree!IsFiniteSet
        <4>2. \A g : Tree!IsFiniteSet({g[x] : x \in S})
          BY <4>1, ServerAssumptions, Tree!FiniteRange
        <4> HIDE DEF f
        <4> QED
          BY <4>2
      <3>3. T \subseteq Int /\ T # {}
        <4>1. \A x \in S : f[x] \in Int
          BY <3>1
        <4> HIDE DEF f
        <4> QED
          BY <4>1, <1>4
      <3>4. PICK m \in T : \A y \in T : m >= y
        <4> HIDE DEF T
        <4> QED
          BY <3>2, <3>3, ServerAssumptions, Tree!MaxIsMaximum, Zenon
      <3>5. PICK p \in S : m = 0 - p
        BY <3>4
      <3>6. \A q \in S : 0 - q \in T
        <4>1. \A q \in S : f[q] = 0 - q
          OBVIOUS
        <4> HIDE DEF f
        <4> QED
          BY <4>1
      <3>7. ASSUME NEW q \in S
            PROVE  p <= q
        <4>1. m >= 0 - q
          BY <3>4, <3>6
        <4> QED
          BY <3>1, <3>5, <4>1
      <3> QED
        BY <3>7
    <2>2. p \in Pages
      BY <2>1, <1>7
    <2>4. rows[p].parentId = up[p] /\ up[p] < p /\ p \in Nat
      BY <2>2, <1>1, <1>2, <1>3
    <2>5. up[p] \in Nat
      <3>1. up[p] \in Pages \cup {0}
        BY <2>2, <1>1, <1>3
      <3>2. \A y \in Pages : y \in Nat
        BY <1>3
      <3> HIDE <1>1
      <3> QED
        BY <3>1, <3>2
    <2>3. up[p] \notin S
      <3> SUFFICES ASSUME up[p] \in S PROVE FALSE
        OBVIOUS
      <3> QED
        BY <2>1, <2>4, <2>5
    <2> QED
      BY <2>1, <2>4, <2>3
  <1>11. Tree!TreesArchived
    BY DEF Tree!TreesArchived, Tree!SpaceLive
  <1>12. Tree!Orderly
    <2> SUFFICES ASSUME NEW r \in StoreSpaces, NEW u \in Tree!ParentIds
                 PROVE  Tree!OrderlyGroup(r, u)
      BY DEF Tree!Orderly
    <2> DEFINE g == Tree!KeptGroup(r, u)
    <2>1. g = Tree!Group(r, u)
      BY <1>7 DEF Tree!KeptGroup, Tree!Group, Tree!LiveIn
    <2>2. Tree!Cardinality(g) <= MaxSiblings
      <3>1. Store!Server!SiblingsCapped
        BY DEF Store!Init, Store!Server!TreeCapped
      <3>2. Store!Server!Cardinality(Store!Server!Group(r, u)) <= MaxSiblings
        BY <3>1 DEF Store!Server!SiblingsCapped, Store!Server!ParentIds, Tree!ParentIds
      <3> QED
        BY <2>1, <3>2, SameServer, SameNumbers
    <2>3. ASSUME NEW p \in g, NEW q \in g, p < q
          PROVE  rows[p].sortOrder < rows[q].sortOrder
      <3> DEFINE before(x) == {y \in Pages : y <= x /\ up[y] = up[x]}
      <3>1. p \in Pages /\ q \in Pages /\ up[p] = up[q]
        BY <1>2, Zenon DEF Tree!KeptGroup
      <3>2. before(p) \subseteq before(q) /\ q \in before(q) /\ q \notin before(p)
        <4>1. p \in Nat /\ q \in Nat /\ \A y \in Pages : y \in Nat
          BY <1>3, <3>1
        <4>2. q \in before(q) /\ q \notin before(p)
          BY <2>3, <3>1, <4>1
        <4>3. ASSUME NEW y \in before(p)
              PROVE  y \in before(q)
          BY <2>3, <3>1, <4>1
        <4> QED
          BY <4>2, <4>3
      <3>3. IsFiniteSet(before(q)) /\ IsFiniteSet(before(p))
        BY <1>4
      <3>4. Cardinality(before(p)) < Cardinality(before(q))
        BY <3>2, <3>3, StrictSubset
      <3> QED
        BY <1>2, <3>1, <3>4
    <2>4. \A p, q \in g : p # q => rows[p].sortOrder # rows[q].sortOrder
      <3> SUFFICES ASSUME NEW p \in g, NEW q \in g, p # q
                   PROVE  rows[p].sortOrder # rows[q].sortOrder
        OBVIOUS
      <3>1. p \in Nat /\ q \in Nat
        BY <1>3 DEF Tree!KeptGroup
      <3>2. rows[p].sortOrder \in Nat /\ rows[q].sortOrder \in Nat
        BY <1>5 DEF Tree!KeptGroup, Tree!Row
      <3> QED
        BY <2>3, <3>1, <3>2
    <2> QED
      BY <2>2, <2>4 DEF Tree!OrderlyGroup, Tree!Distinct
  <1>13. ServerInv
    BY <1>6, <1>8, <1>9, <1>10, <1>11, <1>12 DEF ServerInv, Tree!TreeInv
  <1> QED
    BY <1>2, <1>7, <1>13, Zenon

(* What the client holds of a space, against the rows of the server, both as *)
(* functions on pages.                                                       *)
Truth(s) == [p \in Here(s) |-> rows[p]]
KnownIn(s) == {p \in DOMAIN known : known[p].space = s}
HeldIn(s) == [p \in KnownIn(s) |-> known[p]]
Entities(truth) == [p \in DOMAIN truth |-> Store!Entity(truth[p])]

\* Every page is below another or at the root, no two of a group at one place.
IsTree(truth) ==
  /\ \A p \in DOMAIN truth : truth[p].parentId \in DOMAIN truth \cup {NoPage}
  /\ \A S \in SUBSET DOMAIN truth : S # {} => \E p \in S : truth[p].parentId \notin S
  /\ \A p, q \in DOMAIN truth :
       p # q /\ truth[p].parentId = truth[q].parentId => truth[p].sortOrder # truth[q].sortOrder

\* The places of a space after p is moved to the index among the pages under d.
Reordered(truth, p, d, i) ==
  LET g == {q \in DOMAIN truth \ {p} : truth[q].parentId = d}
      slot == IF i <= Cardinality(g) THEN i ELSE Cardinality(g)
      rank(q) == Cardinality({r \in g \ {q} : truth[r].sortOrder < truth[q].sortOrder})
  IN [q \in DOMAIN truth |->
        IF q = p THEN [parent |-> d, order |-> slot + 1]
        ELSE IF q \in g THEN [parent |-> d, order |-> IF rank(q) < slot THEN rank(q) + 1
          ELSE rank(q) + 2]
        ELSE [parent |-> truth[q].parentId, order |-> truth[q].sortOrder]]

Places(truth) == [q
  \in DOMAIN truth |-> [parent |-> truth[q].parentId, order |-> truth[q].sortOrder]]

\* All of a space but the place of p, which is below d or where the server has it,
\* and not below itself.
Astray(held, truth, p, d) ==
  /\ DOMAIN held = DOMAIN truth
  /\ p \in DOMAIN truth /\ held[p].parent \in {d, truth[p].parentId}
  /\ \A q \in DOMAIN truth \ {p} : held[q].parent = truth[q].parentId
  /\ \E D \in SUBSET DOMAIN truth :
       p \in D /\ d \notin D /\ \A q \in DOMAIN truth : truth[q].parentId \in D => q \in D

\* The pages of a space at the given places, the token of p being awaited.
PlacedAs(held, truth, places, p) ==
  \A q \in DOMAIN truth :
    /\ held[q].parent = places[q].parent /\ held[q].order = places[q].order
    /\ q # p => held[q].token = truth[q].updateAt

AllRead(cs) == \A i \in DOMAIN cs : cs[i].op \in Store!Reads
Single(cs) == DOMAIN cs = {1}

Wanted(c, truth) == IF c.op = "list" THEN DOMAIN truth ELSE {c.page}

\* A page answered is the server's.
Honest(c, s, truth) ==
  c.reply.answer = "ok" /\ c.op # "delete" =>
    IF c.space = s
    THEN Wanted(c, truth) \subseteq DOMAIN truth
      /\ c.reply.pages = [p \in Wanted(c, truth) |-> Store!Entity(truth[p])]
    ELSE DOMAIN c.reply.pages \cap DOMAIN truth = {}

\* A delete prunes what it deletes: a page without subpages alone, no page of
\* another space.
Prunes(c, s, truth) ==
  c.op = "delete" =>
    IF c.space = s
    THEN c.reply = Store!Waiting =>
           /\ c.page \in DOMAIN truth \cap c.ids
           /\ (\A q \in DOMAIN truth : truth[q].parentId # c.page)
                => c.ids \cap DOMAIN truth = {c.page}
    ELSE c.ids \cap DOMAIN truth = {} \/ (c.page \in DOMAIN truth /\ c.reply.answer # "ok")

\* The four ways a space follows the server: as it is, ...
InOrder(cs, s, held, truth) ==
  /\ held = Entities(truth)
  /\ \A i \in DOMAIN cs : cs[i].space = s =>
       cs[i].op \in Store!Reads \/ (cs[i].op = "delete" /\ cs[i].reply.answer # "ok")

\* ... until the listing after a refused move, ...
Refetched(cs, s, held, truth) ==
  /\ \E p, d \in Pages \cup {NoPage} : Astray(held, truth, p, d)
  /\ AllRead(cs)
  /\ \E i \in DOMAIN cs : cs[i].op = "list" /\ cs[i].space = s /\ cs[i].reply # Store!Failed

\* ... with a move ahead of the server or at one with it, ...
MoveUnderWay(cs, s, held, truth) ==
  LET c == cs[1] IN
  /\ Single(cs) /\ c.op = "move" /\ c.space = s
  /\ Astray(held, truth, c.page, c.parent)
  /\ c.reply = Store!Waiting
       => PlacedAs(held, truth, Reordered(truth, c.page, c.parent, c.index), c.page)
  /\ c.reply.answer = "ok" => PlacedAs(held, truth, Places(truth), c.page)

\* ... or with a page to prune.
DeleteAnswered(cs, s, held, truth) ==
  LET c == cs[1] IN
  /\ Single(cs) /\ c.op = "delete" /\ c.space = s /\ c.reply.answer = "ok"
  /\ c.page \in Pages \ DOMAIN truth /\ c.page \in c.ids /\ c.ids \cap DOMAIN truth = {}
  /\ DOMAIN held = DOMAIN truth \cup {c.page} /\ held[c.page].parent # c.page
  /\ \A q \in DOMAIN truth : held[q] = Store!Entity(truth[q])

Consistent(cs, s, held, truth) ==
  /\ AllRead(cs) \/ Single(cs)
  /\ \A i \in DOMAIN cs : Honest(cs[i], s, truth) /\ Prunes(cs[i], s, truth)
  /\ \/ InOrder(cs, s, held, truth)
     \/ Refetched(cs, s, held, truth)
     \/ MoveUnderWay(cs, s, held, truth)
     \/ DeleteAnswered(cs, s, held, truth)

Indexed(s) == s \in DOMAIN listed /\ listed[s] = KnownIn(s)
Follows(s) == Indexed(s) /\ Consistent(calls, s, HeldIn(s), Truth(s))

\* The shape of a call, and a listing that nothing overtook.
CallWell(c, truth) ==
  /\ c.op # "list" => c.page \in Pages
  /\ c.op = "move" => c.index <= Cardinality(Pages)
  /\ c.reply.answer = "ok" =>
       /\ c.op # "delete" => \A p \in DOMAIN c.reply.pages : c.reply.pages[p].space = c.space
       /\ c.op \in {"page", "move"} => DOMAIN c.reply.pages = {c.page}
       /\ c.op = "list" /\ c.fresh => c.reply.pages = Entities(truth)

CallsWell ==
  \A s \in StoreSpaces : \A i \in DOMAIN calls : calls[i].space = s => CallWell(calls[i], Truth(s))
StoreInv == CallsWell /\ \A s \in StoreSpaces : drift[s] = {} => Follows(s)

-----------------------------------------------------------------------------
(* Calls under way                                                         *)

IsCalls(cs) == cs \in Seq(Store!Range(cs)) /\ \A c \in Store!Range(cs) : Store!IsCall(c)

LEMMA CallsAre ==
    ASSUME NEW cs, IsCalls(cs)
    PROVE  /\ Len(cs) \in Nat /\ DOMAIN cs = 1 .. Len(cs)
           /\ cs = [i \in 1 .. Len(cs) |-> cs[i]]
           /\ \A i \in DOMAIN cs : Store!IsCall(cs[i])
  <1>1. Len(cs) \in Nat /\ DOMAIN cs = 1 .. Len(cs) /\ cs = [i \in 1 .. Len(cs) |-> cs[i]]
    BY DEF IsCalls
  <1>2. \A i \in DOMAIN cs : cs[i] \in Store!Range(cs)
    BY DEF Store!Range
  <1> QED
    BY <1>1, <1>2 DEF IsCalls

LEMMA AreCalls ==
    ASSUME NEW n \in Nat, NEW cs, cs = [i \in 1 .. n |-> cs[i]],
           \A i \in 1 .. n : Store!IsCall(cs[i])
    PROVE  IsCalls(cs) /\ Len(cs) = n /\ DOMAIN cs = 1 .. n
  <1>1. DOMAIN cs = 1 .. n
    OBVIOUS
  <1>2. \A i \in 1 .. n : cs[i] \in Store!Range(cs)
    BY <1>1 DEF Store!Range
  <1>3. cs \in [1 .. n -> Store!Range(cs)]
    BY <1>2
  <1>4. cs \in Seq(Store!Range(cs)) /\ Len(cs) = n
    BY <1>3
  <1>5. \A c \in Store!Range(cs) : \E i \in 1 .. n : c = cs[i]
    BY <1>1 DEF Store!Range
  <1> QED
    BY <1>1, <1>4, <1>5 DEF IsCalls

LEMMA NoCalls == ASSUME NEW cs, IsCalls(cs) PROVE cs = << >> <=> DOMAIN cs = {}
  <1>1. Len(cs) \in Nat /\ DOMAIN cs = 1 .. Len(cs) /\ cs \in Seq(Store!Range(cs))
    BY CallsAre DEF IsCalls
  <1>2. cs = << >> <=> Len(cs) = 0
    BY <1>1
  <1>3. 1 .. Len(cs) = {} <=> Len(cs) = 0
    <2>1. Len(cs) # 0 => 1 \in 1 .. Len(cs)
      BY <1>1
    <2>2. Len(cs) = 0 => 1 .. Len(cs) = {}
      OBVIOUS
    <2> QED
      BY <2>1, <2>2
  <1> QED
    BY <1>1, <1>2, <1>3

LEMMA Appended ==
    ASSUME NEW cs, IsCalls(cs), NEW c, Store!IsCall(c)
    PROVE  /\ IsCalls(Append(cs, c))
           /\ DOMAIN Append(cs, c) = DOMAIN cs \cup {Len(cs) + 1}
           /\ \A i \in DOMAIN cs : Append(cs, c)[i] = cs[i]
           /\ Append(cs, c)[Len(cs) + 1] = c
  <1> DEFINE n == Len(cs)
             next == Append(cs, c)
  <1>1. n \in Nat /\ DOMAIN cs = 1 .. n /\ \A i \in 1 .. n : Store!IsCall(cs[i])
    BY CallsAre
  <1>2. cs \in Seq(Store!Range(cs))
    BY DEF IsCalls
  <1>3. cs \in Seq(Store!Range(cs) \cup {c}) /\ c \in Store!Range(cs) \cup {c}
    BY <1>1, <1>2
  <1>4. /\ next = [i \in 1 .. n + 1 |-> next[i]]
        /\ \A i \in 1 .. n : next[i] = cs[i]
        /\ next[n + 1] = c
    <2>1. Len(next) = n + 1 /\ DOMAIN next = 1 .. n + 1
      BY <1>1, <1>3
    <2>2. next = [i \in 1 .. n + 1 |-> next[i]]
      <3>1. next \in Seq(Store!Range(cs) \cup {c})
        BY <1>3
      <3> HIDE DEF next
      <3> QED
        BY <2>1, <3>1
    <2>3. \A i \in 1 .. n : next[i] = cs[i]
      BY <1>1, <1>3
    <2>4. next[n + 1] = c
      BY <1>1, <1>3
    <2> QED
      BY <2>2, <2>3, <2>4
  <1>5. \A i \in 1 .. n + 1 : Store!IsCall(next[i])
    <2>1. \A i \in 1 .. n + 1 : i \in 1 .. n \/ i = n + 1
      BY <1>1
    <2> QED
      BY <2>1, <1>1, <1>4
  <1>6. n + 1 \in Nat /\ 1 .. n + 1 = 1 .. n \cup {n + 1}
    BY <1>1
  <1> HIDE DEF next
  <1>7. IsCalls(next) /\ DOMAIN next = 1 .. n + 1
    BY <1>4, <1>5, <1>6, AreCalls
  <1> QED
    BY <1>1, <1>4, <1>6, <1>7, Zenon DEF next

\* The calls left when one is taken out.
IsRest(rest, cs, i) ==
  /\ \A j \in DOMAIN rest : \E k \in DOMAIN cs \ {i} : rest[j] = cs[k]
  /\ \A k \in DOMAIN cs \ {i} : \E j \in DOMAIN rest : rest[j] = cs[k]

LEMMA Removed ==
    ASSUME NEW cs, IsCalls(cs), NEW i \in DOMAIN cs, NEW rest, rest = Store!RemoveAt(cs, i)
    PROVE  IsCalls(rest) /\ IsRest(rest, cs, i) /\ (rest = << >> <=> DOMAIN cs = {i})
  <1> DEFINE n == Len(cs)
             R == Store!Range(cs)
             a == SubSeq(cs, 1, i - 1)
             b == SubSeq(cs, i + 1, n)
  <1>1. n \in Nat /\ DOMAIN cs = 1 .. n /\ i \in 1 .. n /\ \A j \in 1 .. n : Store!IsCall(cs[j])
    BY CallsAre
  <1>2. cs \in Seq(R)
    BY DEF IsCalls
  <1>3. a \in Seq(R) /\ Len(a) = i - 1 /\ \A j \in 1 .. i - 1 : a[j] = cs[j]
    BY <1>1, <1>2
  <1>4. b \in Seq(R) /\ Len(b) = n - i /\ \A j \in 1 .. n - i : b[j] = cs[i + j]
    BY <1>1, <1>2
  <1>5. rest = a \o b
    BY DEF Store!RemoveAt
  <1> HIDE DEF a, b
  <1>6. /\ rest \in Seq(R) /\ Len(rest) = n - 1
        /\ \A j \in 1 .. n - 1 : rest[j] = IF j < i THEN cs[j] ELSE cs[j + 1]
    <2>1. Len(a) + Len(b) = n - 1
      BY <1>1, <1>3, <1>4
    <2>2. rest \in Seq(R) /\ Len(rest) = n - 1
      BY <1>3, <1>4, <1>5, <2>1
    <2>3. ASSUME NEW j \in 1 .. n - 1
          PROVE  rest[j] = IF j < i THEN cs[j] ELSE cs[j + 1]
      <3>1. CASE j < i
        <4>1. j \in 1 .. i - 1
          BY <1>1, <3>1
        <4>2. rest[j] = a[j]
          BY <1>3, <1>4, <1>5, <4>1, <1>1
        <4> QED
          BY <3>1, <4>1, <4>2, <1>3
      <3>2. CASE ~ (j < i)
        <4>1. j - (i - 1) \in 1 .. n - i /\ i + (j - (i - 1)) = j + 1
          BY <1>1, <3>2
        <4>2. rest[j] = b[j - (i - 1)]
          <5>1. j \in 1 .. Len(a) + Len(b) /\ ~(j <= Len(a))
            BY <1>1, <1>3, <1>4, <3>2
          <5>2. (a \o b)[j] = b[j - Len(a)]
            <6>1. a \in Seq(R) /\ b \in Seq(R)
              BY <1>3, <1>4
            <6> QED
              BY <5>1, <6>1
          <5> QED
            BY <1>3, <1>5, <5>2
        <4>3. b[j - (i - 1)] = cs[j + 1]
          BY <1>4, <4>1
        <4> QED
          BY <3>2, <4>2, <4>3
      <3> QED
        BY <3>1, <3>2
    <2> QED
      BY <2>2, <2>3
  <1>7. DOMAIN rest = 1 .. n - 1 /\ n - 1 \in Nat /\ rest = [j \in 1 .. n - 1 |-> rest[j]]
    BY <1>1, <1>6
  <1>8. ASSUME NEW j \in 1 .. n - 1
        PROVE  \E k \in DOMAIN cs \ {i} : rest[j] = cs[k]
    <2>1. CASE j < i
      <3>1. j \in DOMAIN cs \ {i}
        BY <1>1, <2>1
      <3> QED
        BY <1>6, <2>1, <3>1
    <2>2. CASE ~ (j < i)
      <3>1. j + 1 \in DOMAIN cs \ {i}
        BY <1>1, <2>2
      <3> QED
        BY <1>6, <2>2, <3>1
    <2> QED
      BY <2>1, <2>2
  <1>9. ASSUME NEW k \in DOMAIN cs \ {i}
        PROVE  \E j \in 1 .. n - 1 : rest[j] = cs[k]
    <2>1. CASE k < i
      <3>1. k \in 1 .. n - 1
        BY <1>1, <2>1
      <3> QED
        BY <1>6, <2>1, <3>1
    <2>2. CASE ~ (k < i)
      <3>1. k - 1 \in 1 .. n - 1 /\ ~ (k - 1 < i) /\ (k - 1) + 1 = k
        BY <1>1, <2>2
      <3> QED
        BY <1>6, <3>1
    <2> QED
      BY <2>1, <2>2
  <1>10. \A j \in 1 .. n - 1 : Store!IsCall(rest[j])
    BY <1>1, <1>8
  <1>11. IsCalls(rest)
    BY <1>7, <1>10, AreCalls, Zenon
  <1>12. rest = << >> <=> DOMAIN cs = {i}
    <2>1. rest = << >> <=> n = 1
      BY <1>1, <1>6
    <2>2. DOMAIN cs = {i} <=> n = 1
      BY <1>1
    <2> QED
      BY <2>1, <2>2
  <1> QED
    BY <1>7, <1>8, <1>9, <1>11, <1>12 DEF IsRest

(* Writing into calls keeps their sequence. *)
LEMMA Rewritten ==
    ASSUME NEW cs, IsCalls(cs), NEW next, DOMAIN next = DOMAIN cs,
           next = [i \in DOMAIN cs |-> next[i]], \A i \in DOMAIN cs : Store!IsCall(next[i])
    PROVE  IsCalls(next)
  <1>1. Len(cs) \in Nat /\ DOMAIN cs = 1 .. Len(cs)
    BY CallsAre
  <1> QED
    BY <1>1, AreCalls

LEMMA CallFields ==
    ASSUME NEW c, Store!IsCall(c)
    PROVE  /\ c.op \in {"list", "page", "move", "delete"} /\ c.space \in StoreSpaces
           /\ c.page \in Pages \cup {NoPage} /\ c.parent \in Pages \cup {NoPage}
           /\ c.index \in Nat /\ c.token \in Nat /\ c.ids \in SUBSET Pages /\ c.fresh \in BOOLEAN
           /\ c.reply.answer \in {"waiting", "failed", "ok"}
           /\ c.reply = Store!Waiting <=> c.reply.answer = "waiting"
           /\ c.reply = Store!Failed <=> c.reply.answer = "failed"
           /\ c.reply.answer = "ok" => /\ DOMAIN c.reply.pages \subseteq Pages
                                       /\ c.reply.pages
                                            \in [DOMAIN c.reply.pages -> Store!EntityType]
  <1>1. /\ c.op \in {"list", "page", "move", "delete"} /\ c.space \in StoreSpaces
        /\ c.page \in Pages \cup {NoPage} /\ c.parent \in Pages \cup {NoPage}
        /\ c.index \in Nat /\ c.token \in Nat /\ c.ids \in SUBSET Pages /\ c.fresh \in BOOLEAN
    BY DEF Store!IsCall, Store!Reads
  <1>2. Store!IsReply(c.reply)
    BY DEF Store!IsCall
  <1> QED
    BY <1>1, <1>2 DEF Store!IsReply, Store!Waiting, Store!Failed, Store!Answer

(* What a step may do to a call under way. *)
LEMMA AnsweredCall ==
    ASSUME NEW c, Store!IsCall(c), NEW r, Store!IsReply(r), NEW b \in BOOLEAN,
           NEW d, d = [c EXCEPT !.reply = r, !.fresh = b]
    PROVE  /\ Store!IsCall(d) /\ d.reply = r /\ d.fresh = b
           /\ d.op = c.op /\ d.space = c.space /\ d.page = c.page /\ d.parent = c.parent
           /\ d.index = c.index /\ d.token = c.token /\ d.ids = c.ids
  BY Zenon DEF Store!IsCall

LEMMA StaleCall ==
    ASSUME NEW c, Store!IsCall(c), NEW d, d = [c EXCEPT !.fresh = FALSE]
    PROVE  /\ Store!IsCall(d) /\ d.reply = c.reply /\ d.fresh = FALSE
           /\ d.op = c.op /\ d.space = c.space /\ d.page = c.page /\ d.parent = c.parent
           /\ d.index = c.index /\ d.token = c.token /\ d.ids = c.ids
  BY Zenon DEF Store!IsCall

LEMMA FailedCall ==
    ASSUME NEW c, Store!IsCall(c), NEW d, d = [c EXCEPT !.reply = Store!Failed]
    PROVE  /\ Store!IsCall(d) /\ d.reply = Store!Failed /\ d.fresh = c.fresh
           /\ d.op = c.op /\ d.space = c.space /\ d.page = c.page /\ d.parent = c.parent
           /\ d.index = c.index /\ d.token = c.token /\ d.ids = c.ids
  BY DEF Store!IsCall, Store!IsReply

LEMMA Kinds ==
    /\ Store!Waiting.answer = "waiting" /\ Store!Failed.answer = "failed"
    /\ Store!IsReply(Store!Waiting) /\ Store!IsReply(Store!Failed)
    /\ \A f : Store!Answer(f).answer = "ok" /\ Store!Answer(f).pages = f
    /\ \A f : DOMAIN f \subseteq Pages /\ f \in [DOMAIN f -> Store!EntityType]
         => Store!IsReply(Store!Answer(f))
    /\ \A f : Store!Answer(f) # Store!Failed /\ Store!Answer(f) # Store!Waiting
    /\ Store!Waiting # Store!Failed
  BY DEF Store!Waiting, Store!Failed, Store!Answer, Store!IsReply

-----------------------------------------------------------------------------
(* The two sides of a space                                                *)

ClientTypes ==
  /\ DOMAIN known \subseteq Pages /\ known \in [DOMAIN known -> Store!EntityType]
  /\ DOMAIN listed \subseteq StoreSpaces /\ listed \in [DOMAIN listed -> SUBSET Pages]
  /\ IsCalls(calls)
  /\ drift \in [StoreSpaces -> SUBSET Store!Reasons]
  /\ {sent, failures, others} \subseteq Nat

LEMMA TruthFacts ==
    ASSUME Store!StoreAssumption, ServerInv, NEW s
    PROVE  /\ DOMAIN Truth(s) = Here(s) /\ Here(s) \subseteq Pages
           /\ \A p \in Here(s) : Truth(s)[p] = rows[p] /\ rows[p] \in Tree!Row
                /\ rows[p].spaceId = s
           /\ Here(s) # {} => s \in StoreSpaces
           /\ IsTree(Truth(s))
  <1>1. DOMAIN Truth(s) = Here(s) /\ \A p \in Here(s) : Truth(s)[p] = rows[p]
    BY DEF Truth
  <1>2. \A p \in Here(s) : p \in Pages /\ Tree!Live(p) /\ rows[p] \in Tree!Row
          /\ rows[p].spaceId = s
    BY InSpaceFacts
  <1>3. Here(s) # {} => s \in StoreSpaces
    BY <1>2, InSpaceFacts
  <1>4. IsTree(Truth(s))
    <2>1. \A p \in Here(s) : rows[p].parentId \in Here(s) \cup {NoPage}
      BY <1>2, InSpaceFacts
    <2>2. \A S \in SUBSET Here(s) : S # {} => \E p \in S : rows[p].parentId \notin S
      BY InSpaceFacts
    <2>3. \A p, q \in Here(s) : p # q /\ rows[p].parentId = rows[q].parentId
                                  => rows[p].sortOrder # rows[q].sortOrder
      BY InSpaceFacts
    <2>4. \A S \in SUBSET Here(s) : S # {} => \E p \in S : Truth(s)[p].parentId \notin S
      BY <1>1, <2>2
    <2> QED
      BY <1>1, <2>1, <2>3, <2>4 DEF IsTree
  <1> QED
    BY <1>1, <1>2, <1>3, <1>4

LEMMA SteadyTruth == ASSUME NEW s, Steady(s) PROVE Truth(s)' = Truth(s)
  BY DEF Steady, Truth

LEMMA HeldFacts ==
    ASSUME ClientTypes, NEW s
    PROVE  /\ DOMAIN HeldIn(s) = KnownIn(s) /\ KnownIn(s) \subseteq DOMAIN known
           /\ \A p \in KnownIn(s) : /\ HeldIn(s)[p] = known[p] /\ known[p].space = s
                                    /\ HeldIn(s)[p] \in Store!EntityType
  BY DEF ClientTypes, HeldIn, KnownIn

LEMMA SameHeld ==
    ASSUME NEW s, KnownIn(s)' = KnownIn(s), \A p \in KnownIn(s) : known'[p] = known[p]
    PROVE  HeldIn(s)' = HeldIn(s)
  BY DEF HeldIn

LEMMA EntityFacts ==
    ASSUME Store!StoreAssumption, ServerInv, NEW s \in StoreSpaces, NEW p \in Here(s)
    PROVE  Store!Entity(rows[p]) \in Store!EntityType /\ Store!Entity(rows[p]).space = s
  <1>1. rows[p] \in Tree!Row /\ rows[p].spaceId = s
    BY TruthFacts
  <1> QED
    BY <1>1 DEF Store!Entity, Store!EntityType, Tree!Row, Tree!ParentIds

LEMMA ListedIs ==
    ASSUME ClientTypes, NEW s, Indexed(s)
    PROVE  Store!Listed(s) = KnownIn(s)
  BY HeldFacts DEF Indexed, Store!Listed

(* A tree that hangs together is shown whole. *)
Hangs(held) == \A S \in SUBSET DOMAIN held : S # {} => \E p \in S : held[p].parent \notin S

LEMMA HangingIsReached ==
    ASSUME ClientTypes, NEW s, Indexed(s), Hangs(HeldIn(s))
    PROVE  Store!Reached(s) = KnownIn(s) /\ Store!Listed(s) = KnownIn(s)
  <1>1. Store!Listed(s) = KnownIn(s)
    BY ListedIs
  <1>2. ASSUME NEW p \in KnownIn(s), NEW S \in SUBSET KnownIn(s),
               \A q \in KnownIn(s) : Store!ShownParent(q, s) \in S \cup {NoPage} => q \in S
        PROVE  p \in S
    <2> SUFFICES ASSUME p \notin S PROVE FALSE
      OBVIOUS
    <2> DEFINE rest == KnownIn(s) \ S
    <2>1. PICK q \in rest : HeldIn(s)[q].parent \notin rest
      BY HeldFacts, Zenon DEF Hangs
    <2>2. HeldIn(s)[q].parent = known[q].parent
      BY HeldFacts
    <2>3. Store!ShownParent(q, s) \in S \cup {NoPage}
      BY <1>1, <2>1, <2>2 DEF Store!ShownParent
    <2> QED
      BY <1>2, <2>1, <2>3
  <1> QED
    BY <1>1, <1>2 DEF Store!Reached

LEMMA ExactHangs ==
    ASSUME NEW truth, IsTree(truth), NEW held, held = Entities(truth)
    PROVE  Hangs(held)
  <1>1. DOMAIN held = DOMAIN truth /\ \A p \in DOMAIN truth : held[p].parent = truth[p].parentId
    BY DEF Entities, Store!Entity
  <1> QED
    BY <1>1 DEF Hangs, IsTree

LEMMA AstrayHangs ==
    ASSUME NEW truth, IsTree(truth), NEW held, NEW p, NEW d, Astray(held, truth, p, d)
    PROVE  Hangs(held)
  <1> SUFFICES ASSUME NEW S \in SUBSET DOMAIN truth, S # {}, \A q \in S : held[q].parent \in S
               PROVE  FALSE
    BY DEF Hangs, Astray
  <1>1. PICK D \in SUBSET DOMAIN truth :
          p \in D /\ d \notin D /\ \A q \in DOMAIN truth : truth[q].parentId \in D => q \in D
    BY DEF Astray
  <1>2. \A q \in DOMAIN truth \ {p} : held[q].parent = truth[q].parentId
    BY DEF Astray
  <1>3. \A R \in SUBSET DOMAIN truth : R # {} => \E q \in R : truth[q].parentId \notin R
    BY DEF IsTree
  <1>4. PICK r \in S : truth[r].parentId \notin S
    BY <1>3
  <1>5. r = p /\ held[p].parent = d /\ p \in S /\ d \in S
    BY <1>2, <1>4 DEF Astray
  <1>6. S \ D # {}
    BY <1>1, <1>5
  <1>7. PICK q \in S \ D : truth[q].parentId \notin S \ D
    BY <1>3, <1>6, Zenon
  <1>8. q # p /\ truth[q].parentId \in S
    BY <1>1, <1>2, <1>7
  <1> QED
    BY <1>1, <1>7, <1>8

LEMMA PrunedHangs ==
    ASSUME NEW truth, IsTree(truth), NEW held, NEW p, p \notin DOMAIN truth,
           p # NoPage, NoPage \notin DOMAIN truth,
           DOMAIN held = DOMAIN truth \cup {p}, held[p].parent # p,
           \A q \in DOMAIN truth : held[q] = Store!Entity(truth[q])
    PROVE  Hangs(held)
  <1> SUFFICES ASSUME NEW S \in SUBSET (DOMAIN truth \cup {p}), S # {}
               PROVE  \E q \in S : held[q].parent \notin S
    BY DEF Hangs
  <1>1. \A q \in DOMAIN truth : held[q].parent = truth[q].parentId
    BY DEF Store!Entity
  <1>2. CASE S \cap DOMAIN truth = {}
    <2>1. S = {p}
      BY <1>2
    <2> QED
      BY <2>1
  <1>3. CASE S \cap DOMAIN truth # {}
    <2>1. PICK q \in S \cap DOMAIN truth : truth[q].parentId \notin S \cap DOMAIN truth
      BY <1>3, Zenon DEF IsTree
    <2>2. truth[q].parentId \in DOMAIN truth \cup {NoPage}
      BY <2>1 DEF IsTree
    <2>3. NoPage \notin S
      OBVIOUS
    <2> QED
      BY <1>1, <2>1, <2>2, <2>3
  <1> QED
    BY <1>2, <1>3

LEMMA ConsistentHangs ==
    ASSUME NEW cs, NEW s, NEW held, NEW truth, IsTree(truth), Consistent(cs, s, held, truth),
           NoPage \notin DOMAIN truth, NoPage \notin Pages
    PROVE  Hangs(held)
  <1>1. CASE InOrder(cs, s, held, truth)
    BY <1>1, ExactHangs DEF InOrder
  <1>2. CASE Refetched(cs, s, held, truth)
    BY <1>2, AstrayHangs DEF Refetched
  <1>3. CASE MoveUnderWay(cs, s, held, truth)
    BY <1>3, AstrayHangs DEF MoveUnderWay
  <1>4. CASE DeleteAnswered(cs, s, held, truth)
    BY <1>4, PrunedHangs DEF DeleteAnswered
  <1> QED
    BY <1>1, <1>2, <1>3, <1>4 DEF Consistent

LEMMA ExactIsInStep ==
    ASSUME Store!StoreAssumption, ServerInv, ClientTypes, NEW s, Indexed(s),
           HeldIn(s) = Entities(Truth(s))
    PROVE  Store!InStep(s)
  <1> DEFINE H == Here(s)
  <1>1. /\ DOMAIN Truth(s) = H /\ H \subseteq Pages /\ IsTree(Truth(s))
        /\ \A p \in H : Truth(s)[p] = rows[p] /\ rows[p] \in Tree!Row
    BY TruthFacts
  <1>2. /\ KnownIn(s) = H /\ H \subseteq DOMAIN known
        /\ \A p \in H : known[p] = Store!Entity(rows[p])
    <2>1. DOMAIN HeldIn(s) = KnownIn(s) /\ \A p \in KnownIn(s) : HeldIn(s)[p] = known[p]
      BY HeldFacts
    <2>2. DOMAIN HeldIn(s) = H /\ \A p \in H : HeldIn(s)[p] = Store!Entity(rows[p])
      BY <1>1 DEF Entities
    <2> QED
      BY <2>1, <2>2, HeldFacts
  <1>3. \A p \in H : known[p].parent = rows[p].parentId /\ known[p].order = rows[p].sortOrder
    <2>1. \A r : Store!Entity(r).parent = r.parentId /\ Store!Entity(r).order = r.sortOrder
      BY DEF Store!Entity
    <2> HIDE DEF H
    <2> QED
      BY <1>2, <2>1
  <1>4. Store!Reached(s) = H /\ Store!Listed(s) = H
    BY <1>1, <1>2, ExactHangs, HangingIsReached
  <1>5. NoPage \notin H
    BY <1>1 DEF Store!StoreAssumption
  <1>6. \A p \in H : Store!ShownParent(p, s) = rows[p].parentId
    <2>1. \A p \in H : rows[p].parentId \in H \cup {NoPage}
      BY <1>1 DEF IsTree
    <2> QED
      BY <1>3, <1>4, <1>5, <2>1 DEF Store!ShownParent
  <1>7. ASSUME NEW p \in H
        PROVE  Store!Place(p, Store!ShownGroup(s, Store!ShownParent(p, s)))
                 = Store!Server!Place(p, Store!Server!Group(s, rows[p].parentId))
    <2> DEFINE g == {q \in H : rows[q].parentId = rows[p].parentId}
    <2>1. Store!ShownGroup(s, Store!ShownParent(p, s)) = g
      BY <1>4, <1>6 DEF Store!ShownGroup
    <2>2. Store!Server!Group(s, rows[p].parentId) = g
      BY DEF Store!Server!Group, Here
    <2>3. ASSUME NEW q \in g \ {p}
          PROVE  Store!Before(q, p) <=> Store!Server!Before(q, p)
      <3>1. q \in H /\ rows[q].sortOrder # rows[p].sortOrder
        BY <1>1, <1>7, <2>3 DEF IsTree
      <3> QED
        BY <1>3, <1>7, <3>1 DEF Store!Before, Store!Server!Before
    <2>4. {q \in g \ {p} : Store!Before(q, p)} = {q \in g \ {p} : Store!Server!Before(q, p)}
      BY <2>3
    <2>5. \A S : Store!Cardinality(S) = Store!Server!Cardinality(S)
      BY SameNumbers
    <2> HIDE DEF g
    <2> QED
      BY <2>1, <2>2, <2>4, <2>5 DEF Store!Place, Store!Server!Place
  <1>8. Store!ShownRows(s) =
          {[page |-> p, parent |-> rows[p].parentId,
            at |-> Store!Server!Place(p, Store!Server!Group(s, rows[p].parentId))] : p \in H}
    BY <1>4, <1>6, <1>7 DEF Store!ShownRows
  <1> QED
    BY <1>8 DEF Store!InStep, Store!TrueRows, Here

(* What the invariant says of the tree shown. *)
LEMMA StoreInvIsEnough ==
    ASSUME Store!StoreAssumption, ServerInv, ClientTypes, StoreInv
    PROVE  Store!TreeFollowsTheServer /\ Store!OwnMovesDropNothing
  <1>1. ASSUME NEW s \in StoreSpaces, drift[s] = {}
        PROVE  Store!Reached(s) = Store!Listed(s)
    <2>1. Indexed(s) /\ Consistent(calls, s, HeldIn(s), Truth(s))
      BY <1>1 DEF StoreInv, Follows
    <2>2. IsTree(Truth(s)) /\ NoPage \notin DOMAIN Truth(s) /\ NoPage \notin Pages
      BY TruthFacts DEF Store!StoreAssumption
    <2> QED
      BY <2>1, <2>2, ConsistentHangs, HangingIsReached
  <1>2. ASSUME NEW s \in DOMAIN listed, calls = << >>, drift[s] \cap Store!Reasons = {}
        PROVE  Store!InStep(s)
    <2>1. s \in StoreSpaces /\ drift[s] = {}
      BY <1>2 DEF ClientTypes
    <2>2. Indexed(s) /\ Consistent(calls, s, HeldIn(s), Truth(s))
      BY <2>1 DEF StoreInv, Follows
    <2>3. DOMAIN calls = {}
      BY <1>2, NoCalls DEF ClientTypes
    <2>4. InOrder(calls, s, HeldIn(s), Truth(s))
      BY <2>2, <2>3 DEF Consistent, Refetched, MoveUnderWay, DeleteAnswered, Single
    <2> QED
      BY <2>2, <2>4, ExactIsInStep DEF InOrder
  <1> QED
    BY <1>1, <1>2 DEF Store!TreeFollowsTheServer, Store!Agrees, Store!OwnMovesDropNothing

-----------------------------------------------------------------------------
(* A move puts the pages where the server will                             *)

LEMMA SubsetsAreFinite ==
    ASSUME Store!StoreAssumption, NEW S \in SUBSET Pages
    PROVE  IsFiniteSet(S) /\ Cardinality(S) \in Nat
  <1>1. IsFiniteSet(Pages)
    BY Zenon, Zenon DEF Store!StoreAssumption, Store!IsFiniteSet, IsFiniteSet
  <1> QED
    BY <1>1, FS_Subset, FS_CardinalityType

Slot(g, i) == IF i <= Cardinality(g) THEN i ELSE Cardinality(g)

LEMMA SlotIsMin ==
    ASSUME Store!StoreAssumption, NEW g \in SUBSET Pages, NEW i \in Nat
    PROVE  Slot(g, i) \in Nat /\ Store!Min({i, Store!Cardinality(g)}) = Slot(g, i)
  <1>1. PICK n \in Nat : n = Cardinality(g)
    BY SubsetsAreFinite
  <1>2. Tree!Min({i, n}) = IF i <= n THEN i ELSE n
    <2>1. i \in Int /\ n \in Int
      OBVIOUS
    <2> QED
      BY <2>1, ServerAssumptions, Tree!MaxOfTwo, Zenon
  <1>3. Store!Cardinality(g) = n /\ Store!Min({i, n}) = Tree!Min({i, n})
    BY <1>1, SameNumbers
  <1> QED
    BY <1>1, <1>2, <1>3 DEF Slot

LEMMA SlotIsClamped ==
    ASSUME Store!StoreAssumption, NEW p \in Pages, NEW g \in SUBSET (Pages \ {p}), NEW i \in Nat
    PROVE  Tree!Clamped(i, g \cup {p}) = Slot(g, i)
  <1>1. PICK n \in Nat : n = Cardinality(g)
    BY SubsetsAreFinite
  <1>2. Tree!Cardinality(g \cup {p}) = n + 1
    <2>1. IsFiniteSet(g) /\ p \notin g
      BY SubsetsAreFinite
    <2>2. Cardinality(g \cup {p}) = n + 1
      BY <1>1, <2>1, FS_AddElement, Zenon
    <2> QED
      BY <2>2, SameNumbers
  <1>3. PICK l \in Int : l = (n + 1) - 1
    OBVIOUS
  <1>4. l = n
    BY <1>3
  <1>5. PICK a \in Int : a = IF i <= n THEN i ELSE n
    OBVIOUS
  <1>6. i \in Int /\ n \in Int /\ 0 \in Int
    OBVIOUS
  <1>7. Tree!Min({i, n}) = a
    BY <1>5, <1>6, ServerAssumptions, Tree!MaxOfTwo, Zenon, Zenon
  <1>8. Tree!Max({0, a}) = IF 0 >= a THEN 0 ELSE a
    BY <1>5, <1>6, ServerAssumptions, Tree!MaxOfTwo, Zenon, Zenon
  <1>9. Tree!Clamped(i, g \cup {p}) = Tree!Max({0, a})
    BY <1>2, <1>3, <1>4, <1>7, Zenon DEF Tree!Clamped
  <1> QED
    BY <1>1, <1>5, <1>8, <1>9 DEF Slot

LEMMA ReorderedRows ==
    ASSUME NEW truth, NEW p, NEW d, NEW i, NEW g,
           g = {q \in DOMAIN truth \ {p} : truth[q].parentId = d}
    PROVE  \A q \in DOMAIN truth :
             /\ q = p => Reordered(truth, p, d, i)[q] = [parent |-> d, order |-> Slot(g, i) + 1]
             /\ q \in g => LET rank == Cardinality({r
                  \in g \ {q} : truth[r].sortOrder < truth[q].sortOrder})
                           IN Reordered(truth, p, d, i)[q]
                                = [parent |-> d, order |-> IF rank < Slot(g, i) THEN rank + 1
                                  ELSE rank + 2]
             /\ q # p /\ q \notin g => Reordered(truth, p, d, i)[q]
                                         = [parent |-> truth[q].parentId,
                                           order |-> truth[q].sortOrder]
  BY DEF Reordered, Slot

LEMMA ServerTable ==
    ASSUME Store!StoreAssumption, ServerInv, NEW s \in StoreSpaces, NEW p \in Pages,
           NEW d \in Pages \cup {NoPage}, NEW i \in Nat,
           NEW tab, tab = Tree!PagesAfterReindex(p, s, d, i),
           NEW group, group = Tree!Group(s, d) \cup {p}
    PROVE  /\ tab \in [Pages -> Tree!Row]
           /\ Tree!OnlyReparented(tab, p, d)
           /\ \A q \in group : tab[q].sortOrder
                = Tree!Renumbered(p, group, Tree!Clamped(i, group))[q]
           /\ \A q \in Pages \ {p} : /\ Tree!OnlyReordered(tab, q)
                                     /\ q \notin group => tab[q].sortOrder = rows[q].sortOrder
  <1>1. Tree!TypeOK /\ d \in Tree!ParentIds /\ i \in Int
    BY DEF ServerInv, Tree!TreeInv, Tree!ParentIds
  <1>2. tab \in [Pages -> Tree!Row]
    BY <1>1, ServerAssumptions, Tree!ReindexedTable, Zenon
  <1>3. Tree!OnlyReparented(tab, p, d)
    BY <1>1, ServerAssumptions, Tree!ReindexedTable, Zenon
  <1>4. \A q \in Pages \ {p} : Tree!OnlyReordered(tab, q)
    BY <1>1, ServerAssumptions, Tree!ReindexedTable, Zenon
  <1>5. ASSUME NEW q \in Pages \ {p}, q \notin group
        PROVE  tab[q].sortOrder = rows[q].sortOrder
    BY <1>5 DEF Tree!PagesAfterReindex
  <1>6. \A q \in group : tab[q].sortOrder = Tree!Renumbered(p, group, Tree!Clamped(i, group))[q]
    BY <1>1, ServerAssumptions, Tree!ReindexedTable
  <1> QED
    BY <1>2, <1>3, <1>4, <1>5, <1>6, Zenon

LEMMA ServerReorders ==
    ASSUME Store!StoreAssumption, ServerInv, NEW s \in StoreSpaces, NEW p \in Here(s),
           NEW d \in Pages \cup {NoPage}, NEW i \in Nat,
           NEW tab, tab = Tree!PagesAfterReindex(p, s, d, i)
    PROVE  \A q \in Here(s) :
             /\ tab[q].parentId = Reordered(Truth(s), p, d, i)[q].parent
             /\ tab[q].sortOrder = Reordered(Truth(s), p, d, i)[q].order
             /\ tab[q].spaceId = rows[q].spaceId
             /\ q # p => tab[q].updateAt = rows[q].updateAt /\ tab[q].parentId = rows[q].parentId
             /\ q = p => tab[q].parentId = d
  <1> DEFINE truth == Truth(s)
             g == {q \in Here(s) \ {p} : truth[q].parentId = d}
             order == Tree!Renumbered(p, g \cup {p}, Slot(g, i))
             R == Reordered(truth, p, d, i)
  <1>1. /\ DOMAIN truth = Here(s) /\ Here(s) \subseteq Pages
        /\ \A q \in Here(s) : truth[q] = rows[q]
        /\ \A q, r \in Here(s) : q # r /\ rows[q].parentId = rows[r].parentId
                                 => rows[q].sortOrder # rows[r].sortOrder
    BY TruthFacts DEF IsTree
  <1>2. g \in SUBSET (Pages \ {p}) /\ p \in Pages
    BY <1>1
  <1>3. Tree!Group(s, d) \cup {p} = g \cup {p}
    BY <1>1, SameServer DEF Tree!Group, Here
  <1>4. Tree!Clamped(i, Tree!Group(s, d) \cup {p}) = Slot(g, i)
    BY <1>2, <1>3, SlotIsClamped
  <1>5. /\ tab \in [Pages -> Tree!Row]
        /\ Tree!OnlyReparented(tab, p, d)
        /\ \A q \in g \cup {p} : tab[q].sortOrder = order[q]
        /\ \A q \in Pages \ {p} : /\ Tree!OnlyReordered(tab, q)
                                  /\ q \notin g \cup {p} => tab[q].sortOrder = rows[q].sortOrder
    <2>1. PICK group : group = Tree!Group(s, d) \cup {p}
      BY Zenon
    <2>3. /\ tab \in [Pages -> Tree!Row]
          /\ Tree!OnlyReparented(tab, p, d)
          /\ \A q \in group : tab[q].sortOrder
               = Tree!Renumbered(p, group, Tree!Clamped(i, group))[q]
          /\ \A q \in Pages \ {p} : /\ Tree!OnlyReordered(tab, q)
                                    /\ q \notin group => tab[q].sortOrder = rows[q].sortOrder
      BY <1>2, <2>1, ServerTable
    <2> HIDE DEF g
    <2> QED
      BY <1>3, <1>4, <2>1, <2>3, Zenon
  <1>6. order[p] = Slot(g, i) + 1
    <2> HIDE DEF g
    <2> QED
      BY DEF Tree!Renumbered
  <1>7. ASSUME NEW q \in g
        PROVE  LET rank == Cardinality({r \in g \ {q} : truth[r].sortOrder < truth[q].sortOrder})
               IN order[q] = IF rank < Slot(g, i) THEN rank + 1 ELSE rank + 2
    <2>1. (g \cup {p}) \ {p} = g /\ q # p /\ q \in g \cup {p}
      BY <1>7
    <2>2. Tree!Place(q, g) = Cardinality({r \in g \ {q} : truth[r].sortOrder < truth[q].sortOrder})
      <3>1. ASSUME NEW r \in g \ {q}
            PROVE  Tree!Before(r, q) <=> truth[r].sortOrder < truth[q].sortOrder
        <4>1. r \in Here(s) /\ q \in Here(s) /\ rows[r].sortOrder # rows[q].sortOrder
          BY <1>1, <1>7, <3>1
        <4> QED
          BY <1>1, <4>1 DEF Tree!Before
      <3>2. {r \in g \ {q} : Tree!Before(r, q)} = {r
              \in g \ {q} : truth[r].sortOrder < truth[q].sortOrder}
        BY <3>1
      <3>3. \A S : Tree!Cardinality(S) = Cardinality(S)
        BY SameNumbers
      <3> HIDE DEF g
      <3> QED
        BY <3>2, <3>3, Zenon DEF Tree!Place
    <2> HIDE DEF g
    <2> QED
      BY <2>1, <2>2 DEF Tree!Renumbered
  <1>8. ASSUME NEW q \in Here(s)
        PROVE  tab[q].parentId = R[q].parent /\ tab[q].sortOrder = R[q].order
    <2>1. /\ q = p => R[q] = [parent |-> d, order |-> Slot(g, i) + 1]
          /\ q \in g => LET rank == Cardinality({r
               \in g \ {q} : truth[r].sortOrder < truth[q].sortOrder})
                        IN R[q] = [parent |-> d, order |-> IF rank < Slot(g, i) THEN rank + 1
                             ELSE rank + 2]
          /\ q # p /\ q \notin g
               => R[q] = [parent |-> truth[q].parentId, order |-> truth[q].sortOrder]
      BY <1>1, <1>8, ReorderedRows
    <2>2. CASE q = p
      <3>1. tab[q].parentId = d /\ tab[q].sortOrder = Slot(g, i) + 1
        BY <1>5, <1>6, <2>2 DEF Tree!OnlyReparented
      <3> HIDE DEF R, g
      <3> QED
        BY <2>1, <2>2, <3>1
    <2>3. CASE q \in g
      <3>1. tab[q].parentId = d
        BY <1>1, <1>5, <2>3 DEF Tree!OnlyReordered
      <3>2. tab[q].sortOrder = order[q]
        BY <1>5, <2>3
      <3> HIDE DEF R, g, order
      <3> QED
        BY <2>1, <2>3, <3>1, <3>2, <1>7
    <2>4. CASE q # p /\ q \notin g
      <3>1. tab[q].parentId = rows[q].parentId /\ tab[q].sortOrder = rows[q].sortOrder
        BY <1>1, <1>5, <1>8, <2>4 DEF Tree!OnlyReordered
      <3> HIDE DEF R, g
      <3> QED
        BY <1>1, <1>8, <2>1, <2>4, <3>1
    <2> QED
      BY <2>2, <2>3, <2>4
  <1>9. ASSUME NEW q \in Here(s)
        PROVE  /\ tab[q].spaceId = rows[q].spaceId
               /\ q # p => tab[q].updateAt = rows[q].updateAt /\ tab[q].parentId = rows[q].parentId
               /\ q = p => tab[q].parentId = d
    BY <1>1, <1>5, <1>9 DEF Tree!OnlyReparented, Tree!OnlyReordered
  <1> QED
    BY <1>8, <1>9

LEMMA ClientReorders ==
    ASSUME Store!StoreAssumption, ServerInv, ClientTypes, NEW s \in StoreSpaces,
           HeldIn(s) = Entities(Truth(s)), NEW p \in Here(s), NEW d \in Pages \cup {NoPage},
           NEW i \in Nat, NEW new, new = Store!Reindexed(p, s, d, i)
    PROVE  \A q \in Here(s) :
             /\ new[q].parent = Reordered(Truth(s), p, d, i)[q].parent
             /\ new[q].order = Reordered(Truth(s), p, d, i)[q].order
             /\ new[q].token = rows[q].updateAt
             /\ q # p => new[q].parent = rows[q].parentId
             /\ q = p => new[q].parent = d
  <1> DEFINE truth == Truth(s)
             H == Here(s)
             g == {q \in H \ {p} : truth[q].parentId = d}
             R == Reordered(truth, p, d, i)
             rank(q) == Cardinality({r \in g \ {q} : truth[r].sortOrder < truth[q].sortOrder})
  <1>1. /\ DOMAIN truth = H /\ H \subseteq Pages
        /\ \A q \in H : truth[q] = rows[q]
        /\ \A q, r \in H : q # r /\ rows[q].parentId = rows[r].parentId
                           => rows[q].sortOrder # rows[r].sortOrder
    BY TruthFacts DEF IsTree
  <1>2. /\ KnownIn(s) = H /\ H \subseteq DOMAIN known
        /\ \A q \in H : known[q] = Store!Entity(truth[q]) /\ known[q] \in Store!EntityType
    <2>1. DOMAIN HeldIn(s) = KnownIn(s)
          /\ \A q \in KnownIn(s) : HeldIn(s)[q] = known[q] /\ HeldIn(s)[q] \in Store!EntityType
      BY HeldFacts
    <2>2. DOMAIN HeldIn(s) = H /\ \A q \in H : HeldIn(s)[q] = Store!Entity(truth[q])
      BY <1>1 DEF Entities
    <2> QED
      BY <2>1, <2>2, HeldFacts
  <1>3. \A q \in H : /\ known[q].parent = truth[q].parentId /\ known[q].order = truth[q].sortOrder
                     /\ known[q].token = truth[q].updateAt /\ known[q].space = s
    <2>1. \A r : /\ Store!Entity(r).parent = r.parentId /\ Store!Entity(r).order = r.sortOrder
                 /\ Store!Entity(r).token = r.updateAt
      BY DEF Store!Entity
    <2>2. \A q \in H : known[q].space = s
      BY <1>2 DEF KnownIn
    <2> HIDE DEF H, truth
    <2> QED
      BY <1>2, <2>1, <2>2
  <1>4. {q \in DOMAIN known \ {p} : known[q].space = s /\ known[q].parent = d} = g
    <2>1. \A q \in DOMAIN known : known[q].space = s <=> q \in H
      BY <1>2 DEF KnownIn
    <2> HIDE DEF H, truth
    <2> QED
      BY <1>2, <1>3, <2>1
  <1>5. g \in SUBSET Pages /\ g \subseteq H /\ p \notin g
    BY <1>1
  <1>6. Store!Min({i, Store!Cardinality(g)}) = Slot(g, i)
    BY <1>5, SlotIsMin
  <1>7. ASSUME NEW q \in g
        PROVE  Store!Place(q, g) = rank(q)
    <2>1. ASSUME NEW r \in g \ {q}
          PROVE  Store!Before(r, q) <=> truth[r].sortOrder < truth[q].sortOrder
      <3>1. r \in H /\ q \in H /\ rows[r].sortOrder # rows[q].sortOrder
        BY <1>1, <1>7, <2>1
      <3> HIDE DEF H, truth, g
      <3> QED
        BY <1>1, <1>3, <3>1 DEF Store!Before
    <2>2. {r \in g \ {q} : Store!Before(r, q)} = {r
            \in g \ {q} : truth[r].sortOrder < truth[q].sortOrder}
      BY <2>1
    <2>3. \A S : Store!Cardinality(S) = Cardinality(S)
      BY SameNumbers
    <2> HIDE DEF g
    <2> QED
      BY <2>2, <2>3 DEF Store!Place
  <1>8. \A q \in DOMAIN known :
          new[q] = IF q = p THEN [known[p] EXCEPT !.parent = d, !.order = Slot(g, i) + 1]
                   ELSE IF q \in g
                   THEN [known[q] EXCEPT !.order = IF Store!Place(q, g) < Slot(g, i)
                                                   THEN Store!Place(q, g) + 1
                                                     ELSE Store!Place(q, g) + 2]
                   ELSE known[q]
    <2> HIDE DEF g
    <2> QED
      BY <1>4, <1>6 DEF Store!Reindexed
  <1> SUFFICES ASSUME NEW q \in H
               PROVE  /\ new[q].parent = R[q].parent /\ new[q].order = R[q].order
                      /\ new[q].token = rows[q].updateAt
                      /\ q # p => new[q].parent = rows[q].parentId
                      /\ q = p => new[q].parent = d
    OBVIOUS
  <1>9. /\ q = p => R[q] = [parent |-> d, order |-> Slot(g, i) + 1]
        /\ q \in g => R[q] = [parent |-> d, order |-> IF rank(q) < Slot(g, i) THEN rank(q) + 1
             ELSE rank(q) + 2]
        /\ q # p /\ q \notin g
             => R[q] = [parent |-> truth[q].parentId, order |-> truth[q].sortOrder]
    BY <1>1, ReorderedRows
  <1>10. known[q] \in Store!EntityType /\ q \in DOMAIN known
    BY <1>2
  <1>11. q \in g => truth[q].parentId = d
    OBVIOUS
  <1> HIDE DEF R, g, H, truth, rank
  <1>12. CASE q = p
    <2>1. new[q] = [known[q] EXCEPT !.parent = d, !.order = Slot(g, i) + 1]
      BY <1>8, <1>10, <1>12, Zenon
    <2>2. new[q].parent = d /\ new[q].order = Slot(g, i) + 1 /\ new[q].token = known[q].token
      BY <1>10, <2>1 DEF Store!EntityType
    <2>3. R[q].parent = d /\ R[q].order = Slot(g, i) + 1
      BY <1>9, <1>12
    <2> QED
      BY <1>1, <1>3, <1>12, <2>2, <2>3
  <1>13. CASE q \in g
    <2>1. q # p
      BY <1>5, <1>13
    <2>2. new[q] = [known[q] EXCEPT !.order = IF rank(q) < Slot(g, i) THEN rank(q) + 1
            ELSE rank(q) + 2]
      BY <1>7, <1>8, <1>10, <1>13, <2>1
    <2>3. /\ new[q].order = IF rank(q) < Slot(g, i) THEN rank(q) + 1 ELSE rank(q) + 2
          /\ new[q].token = known[q].token /\ new[q].parent = known[q].parent
      BY <1>10, <2>2 DEF Store!EntityType
    <2>4. R[q].parent = d /\ R[q].order = IF rank(q) < Slot(g, i) THEN rank(q) + 1 ELSE rank(q) + 2
      BY <1>9, <1>13
    <2> QED
      BY <1>1, <1>3, <1>11, <1>13, <2>1, <2>3, <2>4
  <1>14. CASE q # p /\ q \notin g
    <2>1. new[q] = known[q]
      BY <1>8, <1>10, <1>14, Zenon
    <2>2. R[q].parent = truth[q].parentId /\ R[q].order = truth[q].sortOrder
      BY <1>9, <1>14
    <2> QED
      BY <1>1, <1>3, <1>14, <2>1, <2>2
  <1> QED
    BY <1>12, <1>13, <1>14

-----------------------------------------------------------------------------
(* How a space stays consistent when a call is sent, served or answered    *)

LEMMA ReadSent ==
    ASSUME NEW cs, IsCalls(cs), NEW s, NEW held, NEW truth, Consistent(cs, s, held, truth),
           AllRead(cs), NEW c, Store!IsCall(c), c.op \in Store!Reads, c.reply = Store!Waiting,
           NEW next, next = Append(cs, c)
    PROVE  Consistent(next, s, held, truth)
  <1>1. /\ DOMAIN next = DOMAIN cs \cup {Len(cs) + 1}
        /\ \A i \in DOMAIN cs : next[i] = cs[i]
        /\ next[Len(cs) + 1] = c
    BY Appended
  <1>2. c.reply.answer = "waiting" /\ c.op # "delete"
    BY Kinds DEF Store!Reads
  <1>3. AllRead(next)
    BY <1>1 DEF AllRead
  <1>4. Honest(c, s, truth) /\ Prunes(c, s, truth)
    BY <1>2 DEF Honest, Prunes
  <1>5. \A i \in DOMAIN next : Honest(next[i], s, truth) /\ Prunes(next[i], s, truth)
    BY <1>1, <1>4 DEF Consistent
  <1>6. CASE InOrder(cs, s, held, truth)
    <2>1. InOrder(next, s, held, truth)
      BY <1>3, <1>6 DEF InOrder, AllRead
    <2> QED
      BY <1>3, <1>5, <2>1 DEF Consistent
  <1>7. CASE Refetched(cs, s, held, truth)
    <2>1. Refetched(next, s, held, truth)
      BY <1>1, <1>3, <1>7, Zenon DEF Refetched
    <2> QED
      BY <1>3, <1>5, <2>1 DEF Consistent
  <1>8. ~ MoveUnderWay(cs, s, held, truth) /\ ~ DeleteAnswered(cs, s, held, truth)
    BY DEF MoveUnderWay, DeleteAnswered, Single, AllRead, Store!Reads
  <1> QED
    BY <1>6, <1>7, <1>8 DEF Consistent

(* With no call under way a space is in order. *)
LEMMA QuietIsInOrder ==
    ASSUME NEW cs, NEW s, NEW held, NEW truth, Consistent(cs, s, held, truth), DOMAIN cs = {}
    PROVE  held = Entities(truth)
  BY DEF Consistent, InOrder, Refetched, MoveUnderWay, DeleteAnswered, Single

(* A write sent when nothing is under way, and not ahead in this space. *)
LEMMA WriteSent ==
    ASSUME NEW cs, DOMAIN cs = {1}, NEW s, NEW held, NEW truth, held = Entities(truth),
           Store!IsCall(cs[1]), cs[1].reply = Store!Waiting,
           cs[1].space # s \/ cs[1].op = "delete", Prunes(cs[1], s, truth)
    PROVE  Consistent(cs, s, held, truth)
  <1>1. cs[1].reply.answer = "waiting"
    BY Kinds
  <1>2. Single(cs) /\ InOrder(cs, s, held, truth)
    BY <1>1 DEF Single, InOrder
  <1>3. Honest(cs[1], s, truth)
    BY <1>1 DEF Honest
  <1> QED
    BY <1>2, <1>3 DEF Consistent

(* The same calls, some of them answered. *)
Alike(c, d) ==
  /\ d.op = c.op /\ d.space = c.space /\ d.page = c.page /\ d.parent = c.parent
  /\ d.index = c.index /\ d.ids = c.ids

LEMMA OvertakenSame ==
    ASSUME NEW cs, NEW s, NEW held, NEW truth, Consistent(cs, s, held, truth), NEW next,
           DOMAIN next = DOMAIN cs,
           \A i \in DOMAIN cs : Alike(cs[i], next[i]) /\ next[i].reply = cs[i].reply
    PROVE  Consistent(next, s, held, truth)
  <1>1. AllRead(next) \/ Single(next)
    BY DEF Consistent, AllRead, Single, Alike
  <1>2. \A i \in DOMAIN next : Honest(next[i], s, truth) /\ Prunes(next[i], s, truth)
    <2> SUFFICES ASSUME NEW i \in DOMAIN next
                 PROVE  Honest(next[i], s, truth) /\ Prunes(next[i], s, truth)
      OBVIOUS
    <2>1. Honest(cs[i], s, truth) /\ Prunes(cs[i], s, truth) /\ Alike(cs[i], next[i])
          /\ next[i].reply = cs[i].reply
      BY DEF Consistent
    <2> QED
      BY <2>1 DEF Honest, Prunes, Alike, Wanted
  <1>3. CASE InOrder(cs, s, held, truth)
    <2>1. InOrder(next, s, held, truth)
      BY <1>3 DEF InOrder, Alike
    <2> QED
      BY <1>1, <1>2, <2>1 DEF Consistent
  <1>4. CASE Refetched(cs, s, held, truth)
    <2>1. Refetched(next, s, held, truth)
      BY <1>4 DEF Refetched, AllRead, Alike
    <2> QED
      BY <1>1, <1>2, <2>1 DEF Consistent
  <1>5. CASE MoveUnderWay(cs, s, held, truth) \/ DeleteAnswered(cs, s, held, truth)
    <2>1. DOMAIN cs = {1}
      BY <1>5 DEF MoveUnderWay, DeleteAnswered, Single
    <2>2. Alike(cs[1], next[1]) /\ next[1].reply = cs[1].reply /\ Single(next)
      BY <2>1 DEF Single
    <2>3. MoveUnderWay(next, s, held, truth) \/ DeleteAnswered(next, s, held, truth)
      BY <1>5, <2>2 DEF MoveUnderWay, DeleteAnswered, Alike
    <2> QED
      BY <1>1, <1>2, <2>3 DEF Consistent
  <1> QED
    BY <1>3, <1>4, <1>5 DEF Consistent

LEMMA ReadServed ==
    ASSUME NEW cs, NEW s, NEW held, NEW truth, Consistent(cs, s, held, truth), NEW next,
           NEW i \in DOMAIN cs, DOMAIN next = DOMAIN cs,
           \A j \in DOMAIN cs \ {i} : next[j] = cs[j],
           Alike(cs[i], next[i]), cs[i].op \in Store!Reads,
           next[i].op = "list" => next[i].reply # Store!Failed, Honest(next[i], s, truth)
    PROVE  Consistent(next, s, held, truth)
  <1>1. \A j \in DOMAIN cs : next[j].op = cs[j].op /\ next[j].space = cs[j].space
    BY DEF Alike
  <1>2. AllRead(next) \/ Single(next)
    BY <1>1 DEF Consistent, AllRead, Single
  <1>3. \A j \in DOMAIN next : Honest(next[j], s, truth) /\ Prunes(next[j], s, truth)
    <2>1. Prunes(next[i], s, truth)
      BY DEF Prunes, Alike, Store!Reads
    <2> QED
      BY <2>1 DEF Consistent
  <1>4. CASE InOrder(cs, s, held, truth)
    <2>1. InOrder(next, s, held, truth)
      <3> SUFFICES ASSUME NEW j \in DOMAIN next, next[j].space = s
                   PROVE  \/ next[j].op \in Store!Reads
                          \/ next[j].op = "delete" /\ next[j].reply.answer # "ok"
        BY <1>4 DEF InOrder
      <3>1. CASE j = i
        BY <1>1, <3>1
      <3>2. CASE j # i
        BY <1>4, <3>2 DEF InOrder
      <3> QED
        BY <3>1, <3>2
    <2> QED
      BY <1>2, <1>3, <2>1 DEF Consistent
  <1>5. CASE Refetched(cs, s, held, truth)
    <2>1. PICK k \in DOMAIN cs : cs[k].op = "list" /\ cs[k].space = s /\ cs[k].reply # Store!Failed
      BY <1>5 DEF Refetched
    <2>2. next[k].op = "list" /\ next[k].space = s /\ next[k].reply # Store!Failed
      BY <1>1, <2>1
    <2>3. Refetched(next, s, held, truth)
      BY <1>1, <1>5, <2>2 DEF Refetched, AllRead
    <2> QED
      BY <1>2, <1>3, <2>3 DEF Consistent
  <1>6. ~ MoveUnderWay(cs, s, held, truth) /\ ~ DeleteAnswered(cs, s, held, truth)
    BY DEF MoveUnderWay, DeleteAnswered, Single, Store!Reads
  <1> QED
    BY <1>4, <1>5, <1>6 DEF Consistent

LEMMA CallFails ==
    ASSUME NEW cs, NEW s, NEW held, NEW truth, Consistent(cs, s, held, truth), NEW next,
           NEW i \in DOMAIN cs, DOMAIN next = DOMAIN cs,
           \A j \in DOMAIN cs \ {i} : next[j] = cs[j],
           Alike(cs[i], next[i]), next[i].reply = Store!Failed,
           cs[i].space = s => cs[i].op # "list" /\ ~ (cs[i].op = "delete"
             /\ cs[i].reply.answer = "ok")
    PROVE  Consistent(next, s, held, truth)
  <1>1. \A j \in DOMAIN cs : next[j].op = cs[j].op /\ next[j].space = cs[j].space
    BY DEF Alike
  <1>2. AllRead(next) \/ Single(next)
    BY <1>1 DEF Consistent, AllRead, Single
  <1>a. next[i].reply.answer = "failed" /\ next[i].reply # Store!Waiting
    BY Kinds
  <1>3. \A j \in DOMAIN next : Honest(next[j], s, truth) /\ Prunes(next[j], s, truth)
    <2>1. Honest(next[i], s, truth)
      BY <1>a DEF Honest
    <2>2. Prunes(cs[i], s, truth)
      BY DEF Consistent
    <2>3. Prunes(next[i], s, truth)
      BY <1>a, <2>2 DEF Prunes, Alike
    <2> QED
      BY <2>1, <2>3 DEF Consistent
  <1>4. CASE InOrder(cs, s, held, truth)
    <2>1. InOrder(next, s, held, truth)
      <3> SUFFICES ASSUME NEW j \in DOMAIN next, next[j].space = s
                   PROVE  \/ next[j].op \in Store!Reads
                          \/ next[j].op = "delete" /\ next[j].reply.answer # "ok"
        BY <1>4 DEF InOrder
      <3>1. CASE j = i
        BY <1>1, <1>4, <1>a, <3>1 DEF InOrder
      <3>2. CASE j # i
        BY <1>4, <3>2 DEF InOrder
      <3> QED
        BY <3>1, <3>2
    <2> QED
      BY <1>2, <1>3, <2>1 DEF Consistent
  <1>5. CASE Refetched(cs, s, held, truth)
    <2>1. PICK k \in DOMAIN cs : cs[k].op = "list" /\ cs[k].space = s /\ cs[k].reply # Store!Failed
      BY <1>5 DEF Refetched
    <2>2. next[k] = cs[k]
      BY <2>1
    <2>3. Refetched(next, s, held, truth)
      BY <1>1, <1>5, <2>1, <2>2 DEF Refetched, AllRead
    <2> QED
      BY <1>2, <1>3, <2>3 DEF Consistent
  <1>6. CASE MoveUnderWay(cs, s, held, truth)
    <2>1. i = 1 /\ Single(next)
      BY <1>6 DEF MoveUnderWay, Single
    <2>2. MoveUnderWay(next, s, held, truth)
      BY <1>6, <1>a, <2>1 DEF MoveUnderWay, Alike
    <2> QED
      BY <1>2, <1>3, <2>2 DEF Consistent
  <1>7. ~ DeleteAnswered(cs, s, held, truth)
    BY DEF DeleteAnswered, Single
  <1> QED
    BY <1>4, <1>5, <1>6, <1>7 DEF Consistent

LEMMA RestReads ==
    ASSUME NEW cs, IsCalls(cs), NEW s, NEW held, NEW truth, Consistent(cs, s, held, truth),
           NEW i \in DOMAIN cs, NEW rest, rest = Store!RemoveAt(cs, i)
    PROVE  /\ IsCalls(rest) /\ AllRead(rest)
           /\ \A j \in DOMAIN rest : Honest(rest[j], s, truth) /\ Prunes(rest[j], s, truth)
           /\ \A k \in DOMAIN cs \ {i} : \E j \in DOMAIN rest : rest[j] = cs[k]
           /\ Single(cs) => rest = << >>
  <1>1. /\ IsCalls(rest)
        /\ \A j \in DOMAIN rest : \E k \in DOMAIN cs \ {i} : rest[j] = cs[k]
        /\ \A k \in DOMAIN cs \ {i} : \E j \in DOMAIN rest : rest[j] = cs[k]
        /\ rest = << >> <=> DOMAIN cs = {i}
    <2>1. IsRest(rest, cs, i)
      BY Removed, Zenon
    <2>2. IsCalls(rest)
      BY Removed, Zenon
    <2>3. (rest = << >> <=> DOMAIN cs = {i})
      BY Removed
    <2> QED
      BY <2>1, <2>2, <2>3 DEF IsRest
  <1>2. AllRead(rest)
    <2>1. CASE AllRead(cs)
      BY <1>1, <2>1 DEF AllRead
    <2>2. CASE Single(cs)
      BY <1>1, <2>2 DEF AllRead, Single
    <2> QED
      BY <2>1, <2>2 DEF Consistent
  <1>3. \A j \in DOMAIN rest : Honest(rest[j], s, truth) /\ Prunes(rest[j], s, truth)
    BY <1>1 DEF Consistent
  <1>4. Single(cs) => rest = << >>
    BY <1>1 DEF Single
  <1> QED
    BY <1>1, <1>2, <1>3, <1>4

(* A space brought in order by an answer. *)
LEMMA BroughtInOrder ==
    ASSUME NEW cs, IsCalls(cs), NEW s, NEW held, NEW truth, Consistent(cs, s, held, truth),
           NEW i \in DOMAIN cs, NEW rest, rest = Store!RemoveAt(cs, i)
    PROVE  Consistent(rest, s, Entities(truth), truth)
  <1>1. AllRead(rest) /\ \A j \in DOMAIN rest : Honest(rest[j], s, truth)
          /\ Prunes(rest[j], s, truth)
    BY RestReads
  <1>2. InOrder(rest, s, Entities(truth), truth)
    BY <1>1 DEF InOrder, AllRead
  <1> QED
    BY <1>1, <1>2 DEF Consistent

(* A call answered that leaves this space alone: it is about another, or reports *)
(* a failure.                                                                     *)
LEMMA AnsweredElsewhere ==
    ASSUME NEW cs, IsCalls(cs), NEW s, NEW held, NEW truth, Consistent(cs, s, held, truth),
           NEW i \in DOMAIN cs, NEW rest, rest = Store!RemoveAt(cs, i),
           cs[i].space # s \/ (cs[i].reply = Store!Failed /\ cs[i].op # "move")
    PROVE  Consistent(rest, s, held, truth)
  <1>1. /\ AllRead(rest)
        /\ \A j \in DOMAIN rest : Honest(rest[j], s, truth) /\ Prunes(rest[j], s, truth)
        /\ \A k \in DOMAIN cs \ {i} : \E j \in DOMAIN rest : rest[j] = cs[k]
    BY RestReads
  <1>2. CASE InOrder(cs, s, held, truth)
    BY <1>2, BroughtInOrder DEF InOrder
  <1>3. CASE Refetched(cs, s, held, truth)
    <2>1. PICK k \in DOMAIN cs : cs[k].op = "list" /\ cs[k].space = s /\ cs[k].reply # Store!Failed
      BY <1>3 DEF Refetched
    <2>2. PICK j \in DOMAIN rest : rest[j] = cs[k]
      BY <1>1, <2>1
    <2>3. Refetched(rest, s, held, truth)
      BY <1>1, <1>3, <2>1, <2>2 DEF Refetched
    <2> QED
      BY <1>1, <2>3 DEF Consistent
  <1>4. ~ MoveUnderWay(cs, s, held, truth) /\ ~ DeleteAnswered(cs, s, held, truth)
    BY Kinds DEF MoveUnderWay, DeleteAnswered, Single
  <1> QED
    BY <1>2, <1>3, <1>4 DEF Consistent

(* A page of this space fetched. *)
LEMMA PageAnswered ==
    ASSUME NEW cs, IsCalls(cs), NEW s, NEW held, NEW truth, Consistent(cs, s, held, truth),
           NEW i \in DOMAIN cs, NEW rest, rest = Store!RemoveAt(cs, i), cs[i].op = "page",
           NEW p \in DOMAIN truth, NEW new, DOMAIN new = DOMAIN held,
           new = [q \in DOMAIN held |-> IF q = p THEN Store!Entity(truth[p]) ELSE held[q]]
    PROVE  Consistent(rest, s, new, truth)
  <1>1. /\ AllRead(rest)
        /\ \A j \in DOMAIN rest : Honest(rest[j], s, truth) /\ Prunes(rest[j], s, truth)
        /\ \A k \in DOMAIN cs \ {i} : \E j \in DOMAIN rest : rest[j] = cs[k]
    BY RestReads
  <1>2. CASE InOrder(cs, s, held, truth)
    <2>1. new = Entities(truth)
      BY <1>2 DEF InOrder, Entities
    <2> QED
      BY <2>1, BroughtInOrder
  <1>3. CASE Refetched(cs, s, held, truth)
    <2>1. PICK k \in DOMAIN cs : cs[k].op = "list" /\ cs[k].space = s /\ cs[k].reply # Store!Failed
      BY <1>3 DEF Refetched
    <2>2. PICK j \in DOMAIN rest : rest[j] = cs[k]
      BY <1>1, <2>1
    <2>3. PICK r \in Pages \cup {NoPage}, d \in Pages \cup {NoPage} : Astray(held, truth, r, d)
      BY <1>3 DEF Refetched
    <2>4. Store!Entity(truth[p]).parent = truth[p].parentId
      BY DEF Store!Entity
    <2>5. Astray(new, truth, r, d)
      BY <2>3, <2>4 DEF Astray
    <2>6. Refetched(rest, s, new, truth)
      BY <1>1, <2>1, <2>2, <2>5 DEF Refetched
    <2> QED
      BY <1>1, <2>6 DEF Consistent
  <1>4. ~ MoveUnderWay(cs, s, held, truth) /\ ~ DeleteAnswered(cs, s, held, truth)
    BY DEF MoveUnderWay, DeleteAnswered, Single
  <1> QED
    BY <1>2, <1>3, <1>4 DEF Consistent

(* A move refused: the space is listed again. *)
LEMMA MoveRefused ==
    ASSUME NEW cs, IsCalls(cs), NEW s, NEW held, NEW truth, Consistent(cs, s, held, truth),
           NEW i \in DOMAIN cs, NEW rest, rest = Store!RemoveAt(cs, i), cs[i].op = "move",
           NEW c, Store!IsCall(c), c.op = "list", c.space = cs[i].space, c.reply = Store!Waiting,
           cs[i].page \in Pages, NEW next, next = Append(rest, c)
    PROVE  Consistent(next, s, held, truth)
  <1>1. Single(cs) /\ i = 1
    BY DEF Consistent, AllRead, Single, Store!Reads
  <1>2. rest = << >> /\ IsCalls(rest)
    BY <1>1, RestReads
  <1>3. DOMAIN rest = {} /\ Len(rest) = 0
    BY <1>2, NoCalls
  <1>4. DOMAIN next = {1} /\ next[1] = c
    <2>1. DOMAIN next = DOMAIN rest \cup {Len(rest) + 1} /\ next[Len(rest) + 1] = c
      BY <1>2, Appended
    <2> QED
      BY <1>3, <2>1
  <1>5. c.reply.answer = "waiting" /\ c.reply # Store!Failed
    BY Kinds
  <1>6. Honest(c, s, truth) /\ Prunes(c, s, truth)
    BY <1>5 DEF Honest, Prunes
  <1>7. AllRead(next) /\ \A j \in DOMAIN next : Honest(next[j], s, truth)
          /\ Prunes(next[j], s, truth)
    BY <1>4, <1>6 DEF AllRead, Store!Reads
  <1>8. CASE InOrder(cs, s, held, truth)
    <2>1. InOrder(next, s, held, truth)
      BY <1>7, <1>8 DEF InOrder, AllRead
    <2> QED
      BY <1>7, <2>1 DEF Consistent
  <1>9. CASE MoveUnderWay(cs, s, held, truth)
    <2>1. Astray(held, truth, cs[i].page, cs[i].parent) /\ c.space = s
      BY <1>1, <1>9 DEF MoveUnderWay
    <2>2. cs[i].parent \in Pages \cup {NoPage}
      BY CallsAre, CallFields
    <2>3. \E p, d \in Pages \cup {NoPage} : Astray(held, truth, p, d)
      BY <2>1, <2>2
    <2>4. Refetched(next, s, held, truth)
      BY <1>4, <1>5, <1>7, <2>1, <2>3, Zenon DEF Refetched
    <2> QED
      BY <1>7, <2>4 DEF Consistent
  <1>10. ~ Refetched(cs, s, held, truth) /\ ~ DeleteAnswered(cs, s, held, truth)
    BY <1>1 DEF Refetched, AllRead, Single, DeleteAnswered, Store!Reads
  <1> QED
    BY <1>8, <1>9, <1>10 DEF Consistent

-----------------------------------------------------------------------------
(* Sending                                                                 *)

LEMMA RowsRest ==
    ASSUME Store!StoreAssumption, ServerInv, rows' = rows
    PROVE  ServerInv' /\ \A s : Steady(s) /\ Truth(s)' = Truth(s)
  <1>1. Tree!TypeOK'
    BY DEF ServerInv, Tree!TreeInv, Tree!TypeOK
  <1>2. Tree!TreeInv'
    BY <1>1, ServerAssumptions, Tree!IdleInv DEF ServerInv
  <1>3. \A q \in Pages : Tree!StaysPut(q)
    BY DEF Tree!StaysPut, Tree!SameStructure, Tree!SamePosition, Tree!Position, Tree!Kept,
      Tree!Exists
  <1>4. ServerInv'
    BY <1>2, <1>3, ServerAssumptions, Tree!StillOrderly DEF ServerInv
  <1>5. \A s : Steady(s)
    BY SameServer DEF Steady, Here, Store!Server!LiveIn, Store!Server!Live, Store!Server!Exists
  <1> QED
    BY <1>4, <1>5, SteadyTruth

LEMMA SendFacts ==
    ASSUME ClientTypes, NEW c, Store!IsCall(c), Store!Send(c)
    PROVE  /\ rows' = rows /\ calls' = Append(calls, c) /\ IsCalls(calls)'
           /\ drift' \in [StoreSpaces -> SUBSET Store!Reasons]
           /\ {sent, failures, others}' \subseteq Nat
           /\ \A s \in StoreSpaces : drift'[s] = {} =>
                /\ drift[s] = {}
                /\ \A i \in DOMAIN calls : calls[i].op \in Store!Reads /\ c.op \in Store!Reads
                /\ c.op = "move" /\ known[c.page].space = s => s = c.space
  <1>1. /\ rows' = rows /\ calls' = Append(calls, c) /\ sent' = sent + 1
        /\ failures' = failures /\ others' = others
    BY DEF Store!Send
  <1>2. IsCalls(Append(calls, c))
    BY Appended DEF ClientTypes
  <1>3. \A s \in StoreSpaces :
          drift'[s] = (drift[s]
             \cup (IF \E i \in DOMAIN calls : ~ ({calls[i].op, c.op}
               \subseteq Store!Reads) THEN {"overlap"} ELSE {}))
             \cup (IF c.op = "move" /\ known[c.page].space = s /\ s # c.space THEN {"stray"}
               ELSE {})
    BY DEF Store!Send
  <1>4. DOMAIN drift' = StoreSpaces /\ drift' = [s \in StoreSpaces |-> drift'[s]]
    BY DEF Store!Send
  <1>5. \A s \in StoreSpaces : drift'[s] \in SUBSET Store!Reasons
    BY <1>3 DEF ClientTypes, Store!Reasons
  <1>6. ASSUME NEW s \in StoreSpaces, drift'[s] = {}
        PROVE  /\ drift[s] = {}
               /\ \A i \in DOMAIN calls : calls[i].op \in Store!Reads /\ c.op \in Store!Reads
               /\ c.op = "move" /\ known[c.page].space = s => s = c.space
    BY <1>3, <1>6
  <1>7. IsCalls(calls)'
    BY <1>1, <1>2 DEF IsCalls
  <1>8. drift' \in [StoreSpaces -> SUBSET Store!Reasons]
    BY <1>4, <1>5
  <1> QED
    BY <1>1, <1>6, <1>7, <1>8 DEF ClientTypes

LEMMA SentWell ==
    ASSUME Store!StoreAssumption, ServerInv, ClientTypes, CallsWell, NEW c, Store!IsCall(c),
           Store!Send(c), c.reply = Store!Waiting,
           c.op # "list" => c.page \in Pages, c.op = "move" => c.index <= Cardinality(Pages)
    PROVE  CallsWell'
  <1>1. rows' = rows /\ calls' = Append(calls, c)
    BY SendFacts
  <1>2. /\ DOMAIN calls' = DOMAIN calls \cup {Len(calls) + 1}
        /\ \A i \in DOMAIN calls : calls'[i] = calls[i]
        /\ calls'[Len(calls) + 1] = c
    BY <1>1, Appended DEF ClientTypes
  <1>3. \A s : Truth(s)' = Truth(s)
    BY <1>1, RowsRest
  <1>4. c.reply.answer = "waiting"
    BY Kinds
  <1>5. \A t : CallWell(c, t)
    BY <1>4 DEF CallWell
  <1> SUFFICES ASSUME NEW s \in StoreSpaces, NEW i \in DOMAIN calls', calls'[i].space = s
               PROVE  CallWell(calls'[i], Truth(s)')
    BY DEF CallsWell
  <1> QED
    BY <1>2, <1>3, <1>5 DEF CallsWell

LEMMA CallIs ==
    ASSUME NEW op \in {"list", "page", "move", "delete"}, NEW s \in StoreSpaces,
           NEW p \in Pages \cup {NoPage}, NEW d \in Pages \cup {NoPage}, NEW i \in Nat,
           NEW token \in Nat, NEW ids \in SUBSET Pages, NEW c,
           c = [op |-> op, space |-> s, page |-> p, parent |-> d, index |-> i, token |-> token,
                ids |-> ids, reply |-> Store!Waiting, fresh |-> FALSE]
    PROVE  /\ Store!IsCall(c) /\ c.reply = Store!Waiting /\ c.op = op /\ c.space = s /\ c.page = p
           /\ c.parent = d /\ c.index = i /\ c.token = token /\ c.ids = ids
  BY Kinds DEF Store!IsCall, Store!Reads

LEMMA ReadIsSent ==
    ASSUME Store!StoreAssumption, ServerInv, ClientTypes, StoreInv, NEW c, Store!IsCall(c),
           c.op \in Store!Reads, c.reply = Store!Waiting, c.op # "list" => c.page \in Pages,
           Store!Send(c), UNCHANGED Store!client
    PROVE  ServerInv' /\ ClientTypes' /\ StoreInv'
  <1>1. /\ rows' = rows /\ calls' = Append(calls, c) /\ IsCalls(calls)'
        /\ drift' \in [StoreSpaces -> SUBSET Store!Reasons]
        /\ {sent, failures, others}' \subseteq Nat
        /\ \A s \in StoreSpaces : drift'[s] = {} =>
             drift[s] = {} /\ \A i \in DOMAIN calls : calls[i].op \in Store!Reads
    BY SendFacts
  <1>2. known' = known /\ listed' = listed
    BY DEF Store!client
  <1>3. ServerInv' /\ \A s : Truth(s)' = Truth(s)
    BY <1>1, RowsRest
  <1>4. ClientTypes'
    BY <1>1, <1>2 DEF ClientTypes
  <1>5. CallsWell'
    <2>1. c.op # "move"
      BY DEF Store!Reads
    <2> QED
      BY <2>1, SentWell DEF StoreInv
  <1>6. ASSUME NEW s \in StoreSpaces, drift'[s] = {}
        PROVE  Follows(s)'
    <2>1. Indexed(s) /\ Consistent(calls, s, HeldIn(s), Truth(s)) /\ AllRead(calls)
      BY <1>1, <1>6 DEF StoreInv, Follows, AllRead
    <2>2. Indexed(s)' /\ HeldIn(s)' = HeldIn(s)
      BY <1>2, <2>1 DEF Indexed, HeldIn, KnownIn
    <2>3. IsCalls(calls)
      BY DEF ClientTypes
    <2>4. Consistent(calls', s, HeldIn(s), Truth(s))
      BY <1>1, <2>1, <2>3, ReadSent, Zenon
    <2> QED
      BY <1>3, <2>2, <2>4 DEF Follows
  <1> QED
    BY <1>3, <1>4, <1>5, <1>6 DEF StoreInv

LEMMA FetchesKeep ==
    ASSUME Store!StoreAssumption, ServerInv, ClientTypes, StoreInv, Store!FetchPages
             \/ Store!FetchPage
    PROVE  ServerInv' /\ ClientTypes' /\ StoreInv'
  <1>1. CASE Store!FetchPages
    <2>1. PICK s \in StoreSpaces : Store!Send(Store!Call("list", s)) /\ UNCHANGED Store!client
      BY <1>1 DEF Store!FetchPages
    <2>2. PICK c : c = Store!Call("list", s)
      OBVIOUS
    <2>3. Store!IsCall(c) /\ c.op = "list" /\ c.reply = Store!Waiting
      BY <2>2, CallIs DEF Store!Call
    <2> QED
      BY <2>1, <2>2, <2>3, ReadIsSent DEF Store!Reads
  <1>2. CASE Store!FetchPage
    <2>1. PICK s \in StoreSpaces, p \in Pages :
            Store!Send([Store!Call("page", s) EXCEPT !.page = p]) /\ UNCHANGED Store!client
      BY <1>2 DEF Store!FetchPage
    <2>2. PICK c : c = [Store!Call("page", s) EXCEPT !.page = p]
      BY Zenon
    <2>3. Store!IsCall(c) /\ c.op = "page" /\ c.reply = Store!Waiting /\ c.page = p
      BY <2>2, CallIs DEF Store!Call
    <2> QED
      BY <2>1, <2>2, <2>3, ReadIsSent, Zenon DEF Store!Reads
  <1> QED
    BY <1>1, <1>2

LEMMA ReachedKnown ==
    ASSUME ClientTypes, NEW s
    PROVE  Store!Reached(s) \subseteq DOMAIN known /\ Store!Reached(s) \subseteq Store!Listed(s)
           /\ DOMAIN known \subseteq Pages
  BY DEF Store!Reached, Store!Listed, ClientTypes

LEMMA StoreSubtree ==
    ASSUME NEW p \in DOMAIN known
    PROVE  /\ p \in Store!Subtree(p) /\ Store!Subtree(p) \subseteq DOMAIN known
           /\ \A q \in DOMAIN known : known[q].parent \in Store!Subtree(p) => q \in Store!Subtree(p)
           /\ \A S \in SUBSET DOMAIN known :
                p \in S /\ (\A q \in DOMAIN known : known[q].parent \in S => q \in S)
                  => Store!Subtree(p) \subseteq S
  BY DEF Store!Subtree

LEMMA FirstCall ==
    ASSUME ClientTypes, DOMAIN calls = {}, NEW c, Store!IsCall(c), calls' = Append(calls, c)
    PROVE  DOMAIN calls' = {1} /\ calls'[1] = c
  <1>1. calls = << >> /\ Len(calls) = 0
    BY NoCalls DEF ClientTypes
  <1>2. DOMAIN calls' = DOMAIN calls \cup {Len(calls) + 1} /\ calls'[Len(calls) + 1] = c
    BY Appended DEF ClientTypes
  <1> QED
    BY <1>1, <1>2

LEMMA ReindexedTypes ==
    ASSUME Store!StoreAssumption, ClientTypes, NEW s, NEW p \in DOMAIN known,
           NEW d \in Pages \cup {NoPage}, NEW i \in Nat, NEW new, new = Store!Reindexed(p, s, d, i)
    PROVE  /\ new \in [DOMAIN known -> Store!EntityType] /\ DOMAIN new = DOMAIN known
           /\ \A q \in DOMAIN known : new[q].space = known[q].space
           /\ \A q \in DOMAIN known : q # p /\ known[q].space # s => new[q] = known[q]
           /\ new[p].parent = d
  <1> DEFINE g == {q \in DOMAIN known \ {p} : known[q].space = s /\ known[q].parent = d}
             number(q) == IF Store!Place(q, g) < Slot(g, i) THEN Store!Place(q, g) + 1
                          ELSE Store!Place(q, g) + 2
  <1>1. DOMAIN known \subseteq Pages /\ known \in [DOMAIN known -> Store!EntityType]
    BY DEF ClientTypes
  <1>2. g \in SUBSET Pages
    BY <1>1
  <1>3. Slot(g, i) \in Nat /\ Store!Min({i, Store!Cardinality(g)}) = Slot(g, i)
    BY <1>2, SlotIsMin, Zenon
  <1>4. ASSUME NEW q \in g
        PROVE  number(q) \in Nat
    <2>1. {r \in g \ {q} : Store!Before(r, q)} \in SUBSET Pages
      BY <1>2
    <2>2. Store!Place(q, g) \in Nat
      BY <2>1, SubsetsAreFinite, SameNumbers DEF Store!Place
    <2> HIDE DEF g
    <2> QED
      BY <1>3, <2>2
  <1>5. /\ DOMAIN new = DOMAIN known /\ new = [q \in DOMAIN known |-> new[q]]
        /\ \A q \in DOMAIN known :
             new[q] = IF q = p THEN [known[p] EXCEPT !.parent = d, !.order = Slot(g, i) + 1]
                      ELSE IF q \in g THEN [known[q] EXCEPT !.order = number(q)]
                      ELSE known[q]
    <2> HIDE DEF g
    <2>1. g = {q \in DOMAIN known \ {p} : known[q].space = s /\ known[q].parent = d}
      BY DEF g
    <2> QED
      BY <1>3, <2>1, Zenon DEF Store!Reindexed
  <1>6. \A q \in g : q # p /\ known[q].space = s
    OBVIOUS
  <1> HIDE DEF g, number
  <1>7. ASSUME NEW q \in DOMAIN known
        PROVE  /\ new[q] \in Store!EntityType /\ new[q].space = known[q].space
               /\ q # p /\ known[q].space # s => new[q] = known[q]
               /\ q = p => new[q].parent = d
    <2>0. known[q] \in Store!EntityType
      BY <1>1
    <2>1. CASE q = p
      <3>1. new[q] = [known[q] EXCEPT !.parent = d, !.order = Slot(g, i) + 1]
        BY <1>5, <2>1, Zenon
      <3>2. Slot(g, i) + 1 \in Nat
        BY <1>3
      <3> QED
        BY <2>0, <2>1, <3>1, <3>2, Zenon DEF Store!EntityType
    <2>2. CASE q # p /\ q \in g
      <3>1. new[q] = [known[q] EXCEPT !.order = number(q)]
        BY <1>5, <2>2
      <3> QED
        BY <2>0, <2>2, <3>1, <1>4, <1>6 DEF Store!EntityType
    <2>3. CASE q # p /\ q \notin g
      BY <1>5, <2>0, <2>3, Zenon
    <2> QED
      BY <2>1, <2>2, <2>3
  <1> QED
    BY <1>5, <1>7

LEMMA AheadByAMove ==
    ASSUME Store!StoreAssumption, ServerInv, ClientTypes, NEW s \in StoreSpaces, Indexed(s),
           HeldIn(s) = Entities(Truth(s)), NEW p \in Store!Reached(s),
           NEW d \in Store!Reached(s) \cup {NoPage}, Store!MayDropOn(p, d), NEW i \in Nat,
           known' = Store!Reindexed(p, s, d, i), listed' = listed,
           DOMAIN calls' = {1}, NEW c, c = calls'[1], Store!IsCall(c), c.op = "move", c.space = s,
           c.page = p, c.parent = d, c.index = i, c.reply = Store!Waiting, rows' = rows
    PROVE  Follows(s)'
  <1> DEFINE H == Here(s)
  <1>1. /\ DOMAIN Truth(s) = H /\ H \subseteq Pages /\ IsTree(Truth(s))
        /\ \A q \in H : Truth(s)[q] = rows[q]
    BY TruthFacts
  <1>2. /\ KnownIn(s) = H /\ H \subseteq DOMAIN known
        /\ \A q \in H : known[q] = Store!Entity(rows[q])
    <2>1. DOMAIN HeldIn(s) = KnownIn(s) /\ \A q \in KnownIn(s) : HeldIn(s)[q] = known[q]
      BY HeldFacts
    <2>2. DOMAIN HeldIn(s) = H /\ \A q \in H : HeldIn(s)[q] = Store!Entity(rows[q])
      BY <1>1 DEF Entities
    <2> QED
      BY <2>1, <2>2, HeldFacts
  <1>3. p \in H /\ d \in Pages \cup {NoPage}
    <2>1. Store!Listed(s) = H
      BY <1>2, ListedIs
    <2> QED
      BY <2>1, ReachedKnown
  <1>4. /\ DOMAIN known' = DOMAIN known
        /\ \A q \in DOMAIN known : known'[q].space = known[q].space
    BY <1>2, <1>3, ReindexedTypes
  <1>5. KnownIn(s)' = H
    BY <1>2, <1>4 DEF KnownIn
  <1>6. Indexed(s)'
    BY <1>2, <1>5 DEF Indexed
  <1>7. Truth(s)' = Truth(s)
    BY RowsRest
  <1> DEFINE held == HeldIn(s)'
             R == Reordered(Truth(s), p, d, i)
  <1>8. DOMAIN held = H /\ \A q \in H : held[q] = known'[q]
    BY <1>5 DEF HeldIn
  <1>9. \A q \in H : /\ held[q].parent = R[q].parent /\ held[q].order = R[q].order
                     /\ held[q].token = rows[q].updateAt
                     /\ q # p => held[q].parent = rows[q].parentId
                     /\ q = p => held[q].parent = d
    BY <1>3, <1>8, ClientReorders
  <1>10. Astray(held, Truth(s), p, d)
    <2> DEFINE D == Store!Subtree(p) \cap H
    <2>1. p \in D /\ D \in SUBSET H
      BY <1>2, <1>3, StoreSubtree
    <2>2. d \notin D
      BY DEF Store!MayDropOn
    <2>3. ASSUME NEW q \in H, rows[q].parentId \in D
          PROVE  q \in D
      <3>0. \A r : Store!Entity(r).parent = r.parentId
        BY DEF Store!Entity
      <3>1. known[q].parent = rows[q].parentId
        BY <1>2, <2>3, <3>0
      <3> QED
        BY <1>2, <1>3, <2>3, <3>1, StoreSubtree
    <2> HIDE DEF D, held
    <2>4. \E E \in SUBSET H : p \in E /\ d \notin E /\ \A q \in H : Truth(s)[q].parentId \in E
            => q \in E
      BY <1>1, <2>1, <2>2, <2>3
    <2> QED
      BY <1>1, <1>3, <1>8, <1>9, <2>4 DEF Astray
  <1>11. PlacedAs(held, Truth(s), R, p)
    <2> HIDE DEF held, R
    <2> QED
      BY <1>1, <1>9 DEF PlacedAs
  <1>12. c.reply.answer = "waiting"
    BY Kinds
  <1>13. MoveUnderWay(calls', s, held, Truth(s))
    <2> HIDE DEF held
    <2> QED
      BY <1>10, <1>11, <1>12 DEF MoveUnderWay, Single
  <1>14. Honest(c, s, Truth(s)) /\ Prunes(c, s, Truth(s))
    BY <1>12 DEF Honest, Prunes
  <1>15. Consistent(calls', s, held, Truth(s))
    <2> HIDE DEF held
    <2> QED
      BY <1>13, <1>14 DEF Consistent, Single
  <1> QED
    BY <1>6, <1>7, <1>15 DEF Follows

LEMMA MovePageKeeps ==
    ASSUME Store!StoreAssumption, ServerInv, ClientTypes, StoreInv, Store!MovePage
    PROVE  ServerInv' /\ ClientTypes' /\ StoreInv'
  <1>1. PICK s \in StoreSpaces : \E p \in Store!Reached(s), d \in Store!Reached(s) \cup {NoPage} :
          /\ Store!MayDropOn(p, d)
          /\ \E i \in 0 .. Store!Cardinality(Store!ShownGroup(s, d) \ {p}) :
               /\ Store!Send([Store!Call("move", s) EXCEPT !.page = p, !.parent = d, !.index = i,
                                                          !.token = known[p].token])
               /\ known' = Store!Reindexed(p, s, d, i)
          /\ UNCHANGED listed
    BY DEF Store!MovePage
  <1>2. PICK p \in Store!Reached(s), d \in Store!Reached(s) \cup {NoPage} :
          /\ Store!MayDropOn(p, d)
          /\ \E i \in 0 .. Store!Cardinality(Store!ShownGroup(s, d) \ {p}) :
               /\ Store!Send([Store!Call("move", s) EXCEPT !.page = p, !.parent = d, !.index = i,
                                                          !.token = known[p].token])
               /\ known' = Store!Reindexed(p, s, d, i)
          /\ UNCHANGED listed
    BY <1>1
  <1>3. PICK i \in 0 .. Store!Cardinality(Store!ShownGroup(s, d) \ {p}) :
          /\ Store!Send([Store!Call("move", s) EXCEPT !.page = p, !.parent = d, !.index = i,
                                                     !.token = known[p].token])
          /\ known' = Store!Reindexed(p, s, d, i)
    BY <1>2
  <1>4. PICK c : c = [Store!Call("move", s) EXCEPT !.page = p, !.parent = d, !.index = i,
                                                  !.token = known[p].token]
    OBVIOUS
  <1>5. p \in DOMAIN known /\ p \in Pages /\ d \in Pages \cup {NoPage}
    BY ReachedKnown
  <1>6. i \in Nat /\ i <= Cardinality(Pages)
    <2>1. Store!ShownGroup(s, d) \ {p} \in SUBSET Pages
      BY ReachedKnown DEF Store!ShownGroup, Store!Listed, ClientTypes
    <2>2. IsFiniteSet(Pages) /\ Cardinality(Pages) \in Nat
      BY SubsetsAreFinite
    <2>3. Cardinality(Store!ShownGroup(s, d) \ {p}) <= Cardinality(Pages)
          /\ Cardinality(Store!ShownGroup(s, d) \ {p}) \in Nat
      BY <2>1, <2>2, FS_Subset, SubsetsAreFinite
    <2>4. Store!Cardinality(Store!ShownGroup(s, d) \ {p})
            = Cardinality(Store!ShownGroup(s, d) \ {p})
      BY SameNumbers
    <2> QED
      BY <2>2, <2>3, <2>4
  <1>7. /\ Store!IsCall(c) /\ c.reply = Store!Waiting /\ c.op = "move" /\ c.space = s
        /\ c.page = p /\ c.parent = d /\ c.index = i
    <2>1. known[p].token \in Nat
      BY <1>5 DEF ClientTypes, Store!EntityType
    <2>2. c = [op |-> "move", space |-> s, page |-> p, parent |-> d, index |-> i,
               token |-> known[p].token, ids |-> {}, reply |-> Store!Waiting, fresh |-> FALSE]
      BY <1>4, Zenon DEF Store!Call
    <2>3. /\ p \in Pages \cup {NoPage} /\ d \in Pages \cup {NoPage} /\ i \in Nat
          /\ {} \in SUBSET Pages /\ "move" \in {"list", "page", "move", "delete"}
      BY <1>5, <1>6
    <2>4. PICK token \in Nat : token = known[p].token
      BY <2>1
    <2>5. PICK e \in SUBSET Pages : e = {}
      BY Zenon
    <2>6. /\ c.reply = Store!Waiting /\ c.op = "move" /\ c.space = s
          /\ c.page = p /\ c.parent = d /\ c.index = i
      BY <2>2
    <2>7. c = [op |-> "move", space |-> s, page |-> p, parent |-> d, index |-> i,
               token |-> token, ids |-> e, reply |-> Store!Waiting, fresh |-> FALSE]
      BY <2>2, <2>4, <2>5
    <2>8. Store!IsCall(c)
      BY <2>3, <2>7, Kinds DEF Store!IsCall, Store!Reads
    <2> QED
      BY <2>6, <2>8
  <1>8. Store!Send(c) /\ known' = Store!Reindexed(p, s, d, i) /\ listed' = listed
    BY <1>2, <1>3, <1>4
  <1>9. /\ rows' = rows /\ calls' = Append(calls, c) /\ IsCalls(calls)'
        /\ drift' \in [StoreSpaces -> SUBSET Store!Reasons]
        /\ {sent, failures, others}' \subseteq Nat
        /\ \A t \in StoreSpaces : drift'[t] = {} =>
             /\ drift[t] = {}
             /\ \A j \in DOMAIN calls : c.op \in Store!Reads
             /\ c.op = "move" /\ known[c.page].space = t => t = c.space
    BY <1>7, <1>8, SendFacts
  <1>10. ServerInv' /\ \A t : Truth(t)' = Truth(t)
    BY <1>9, RowsRest
  <1>11. /\ known' \in [DOMAIN known -> Store!EntityType] /\ DOMAIN known' = DOMAIN known
         /\ \A q \in DOMAIN known : known'[q].space = known[q].space
         /\ \A q \in DOMAIN known : q # p /\ known[q].space # s => known'[q] = known[q]
    <2>1. PICK new : new = Store!Reindexed(p, s, d, i)
      OBVIOUS
    <2>2. d \in Pages \cup {NoPage} /\ i \in Nat /\ p \in DOMAIN known
      BY <1>5, <1>6
    <2>3. new \in [DOMAIN known -> Store!EntityType] /\ DOMAIN new = DOMAIN known
      BY <2>1, <2>2, ReindexedTypes
    <2>4. \A q \in DOMAIN known : new[q].space = known[q].space
      BY <2>1, <2>2, ReindexedTypes
    <2>5. ASSUME NEW q \in DOMAIN known, q # p, known[q].space # s
          PROVE  new[q] = known[q]
      BY <2>1, <2>5 DEF Store!Reindexed
    <2> QED
      BY <1>8, <2>1, <2>3, <2>4, <2>5
  <1>12. ClientTypes'
    BY <1>8, <1>9, <1>11 DEF ClientTypes
  <1>13. CallsWell'
    BY <1>5, <1>6, <1>7, <1>8, SentWell DEF StoreInv
  <1>14. ASSUME NEW t \in StoreSpaces, drift'[t] = {}
         PROVE  Follows(t)'
    <2>1. Indexed(t) /\ Consistent(calls, t, HeldIn(t), Truth(t))
      BY <1>9, <1>14 DEF StoreInv, Follows
    <2>2. DOMAIN calls = {} /\ (known[p].space = t => t = s)
      BY <1>7, <1>9, <1>14 DEF Store!Reads
    <2>3. HeldIn(t) = Entities(Truth(t))
      BY <2>1, <2>2, QuietIsInOrder
    <2>4. DOMAIN calls' = {1} /\ calls'[1] = c
      BY <1>7, <1>9, <2>2, FirstCall
    <2>5. CASE t = s
      BY <1>2, <1>6, <1>7, <1>8, <1>9, <2>1, <2>3, <2>4, <2>5, AheadByAMove
    <2>6. CASE t # s
      <3>1. known[p].space # t
        BY <2>2, <2>6
      <3>2. KnownIn(t)' = KnownIn(t)
        BY <1>11 DEF KnownIn
      <3>3. \A q \in KnownIn(t) : known'[q] = known[q]
        BY <1>11, <2>6, <3>1 DEF KnownIn
      <3>4. HeldIn(t)' = HeldIn(t)
        BY <3>2, <3>3, SameHeld
      <3>5. Indexed(t)'
        BY <1>8, <2>1, <3>2 DEF Indexed
      <3>6. Prunes(c, t, Truth(t))
        BY <1>7 DEF Prunes
      <3>7. Consistent(calls', t, HeldIn(t), Truth(t))
        BY <1>7, <2>3, <2>4, <2>6, <3>6, WriteSent
      <3> QED
        BY <1>10, <3>4, <3>5, <3>7 DEF Follows
    <2> QED
      BY <2>5, <2>6
  <1> QED
    BY <1>10, <1>12, <1>13, <1>14 DEF StoreInv

LEMMA DeletePageKeeps ==
    ASSUME Store!StoreAssumption, ServerInv, ClientTypes, StoreInv, Store!DeletePage
    PROVE  ServerInv' /\ ClientTypes' /\ StoreInv'
  <1>s. PICK s \in StoreSpaces : \E p \in Store!Reached(s) :
          /\ Store!Send([Store!Call("delete", s) EXCEPT !.page = p, !.ids = Store!Subtree(p)])
          /\ UNCHANGED Store!client
    BY DEF Store!DeletePage
  <1>1. PICK p \in Store!Reached(s) :
          /\ Store!Send([Store!Call("delete", s) EXCEPT !.page = p, !.ids = Store!Subtree(p)])
          /\ UNCHANGED Store!client
    BY <1>s
  <1>2. PICK c : c = [Store!Call("delete", s) EXCEPT !.page = p, !.ids = Store!Subtree(p)]
    OBVIOUS
  <1>3. p \in DOMAIN known /\ DOMAIN known \subseteq Pages /\ p \in Store!Listed(s)
    BY ReachedKnown
  <1>4. /\ Store!IsCall(c) /\ c.reply = Store!Waiting /\ c.op = "delete" /\ c.space = s
        /\ c.page = p /\ c.ids = Store!Subtree(p)
    <2>1. Store!Subtree(p) \in SUBSET Pages
      BY <1>3, StoreSubtree
    <2>2. c = [op |-> "delete", space |-> s, page |-> p, parent |-> NoPage, index |-> 0,
               token |-> 0, ids |-> Store!Subtree(p), reply |-> Store!Waiting, fresh |-> FALSE]
      BY <1>2, Zenon DEF Store!Call
    <2> QED
      BY <1>3, <2>1, <2>2, CallIs
  <1>5. Store!Send(c) /\ known' = known /\ listed' = listed
    BY <1>1, <1>2 DEF Store!client
  <1>6. /\ rows' = rows /\ calls' = Append(calls, c) /\ IsCalls(calls)'
        /\ drift' \in [StoreSpaces -> SUBSET Store!Reasons]
        /\ {sent, failures, others}' \subseteq Nat
        /\ \A t \in StoreSpaces : drift'[t] = {} =>
             drift[t] = {} /\ \A j \in DOMAIN calls : c.op \in Store!Reads
    BY <1>4, <1>5, SendFacts
  <1>7. ServerInv' /\ \A t : Truth(t)' = Truth(t)
    BY <1>6, RowsRest
  <1>8. ClientTypes'
    BY <1>5, <1>6 DEF ClientTypes
  <1>9. CallsWell'
    BY <1>3, <1>4, <1>5, SentWell DEF StoreInv
  <1>10. ASSUME NEW t \in StoreSpaces, drift'[t] = {}
         PROVE  Follows(t)'
    <2> DEFINE H == Here(t)
    <2>1. Indexed(t) /\ Consistent(calls, t, HeldIn(t), Truth(t))
      BY <1>6, <1>10 DEF StoreInv, Follows
    <2>2. DOMAIN calls = {}
      BY <1>4, <1>6, <1>10 DEF Store!Reads
    <2>3. HeldIn(t) = Entities(Truth(t))
      BY <2>1, <2>2, QuietIsInOrder
    <2>4. DOMAIN calls' = {1} /\ calls'[1] = c
      BY <1>4, <1>6, <2>2, FirstCall
    <2>5. Indexed(t)' /\ HeldIn(t)' = HeldIn(t)
      BY <1>5, <2>1 DEF Indexed, HeldIn, KnownIn
    <2>6. /\ DOMAIN Truth(t) = H /\ H \subseteq Pages /\ IsTree(Truth(t))
          /\ \A q \in H : Truth(t)[q] = rows[q]
      BY TruthFacts
    <2>7. /\ KnownIn(t) = H /\ H \subseteq DOMAIN known
          /\ \A q \in H : known[q].parent = rows[q].parentId
      <3>1. DOMAIN HeldIn(t) = KnownIn(t) /\ \A q \in KnownIn(t) : HeldIn(t)[q] = known[q]
        BY HeldFacts
      <3>2. DOMAIN HeldIn(t) = H /\ \A q \in H : HeldIn(t)[q].parent = rows[q].parentId
        BY <2>3, <2>6 DEF Entities, Store!Entity
      <3> QED
        BY <3>1, <3>2, HeldFacts
    <2>8. \A q \in H : known[q].parent \in H \cup {NoPage}
      BY <2>6, <2>7 DEF IsTree
    <2>9. NoPage \notin DOMAIN known /\ p # NoPage
      BY <1>3 DEF Store!StoreAssumption
    <2>10. /\ p \in c.ids
           /\ \A S \in SUBSET DOMAIN known :
                p \in S /\ (\A q \in DOMAIN known : known[q].parent \in S => q \in S)
                  => c.ids \subseteq S
      BY <1>3, <1>4, StoreSubtree
    <2>11. p \notin H => c.ids \cap H = {}
      <3> SUFFICES ASSUME p \notin H PROVE c.ids \subseteq DOMAIN known \ H
        OBVIOUS
      <3>1. ASSUME NEW q \in DOMAIN known, known[q].parent \in DOMAIN known \ H
            PROVE  q \in DOMAIN known \ H
        BY <2>8, <2>9, <3>1
      <3> HIDE DEF H
      <3> QED
        BY <1>3, <2>10, <3>1, Zenon
    <2>12. p \in H /\ (\A q \in H : rows[q].parentId # p) => c.ids \cap H = {p}
      <3> SUFFICES ASSUME p \in H, \A q \in H : rows[q].parentId # p
                   PROVE  c.ids \subseteq (DOMAIN known \ H) \cup {p}
        BY <2>10
      <3>1. ASSUME NEW q \in DOMAIN known, known[q].parent \in (DOMAIN known \ H) \cup {p}
            PROVE  q \in (DOMAIN known \ H) \cup {p}
        BY <2>7, <2>8, <2>9, <3>1
      <3> HIDE DEF H
      <3> QED
        BY <1>3, <2>10, <3>1
    <2>13. t = s => p \in H
      BY <1>3, <2>1, <2>7, ListedIs
    <2>14. Prunes(c, t, Truth(t))
      <3>1. c.reply.answer = "waiting"
        BY <1>4, Kinds
      <3>2. CASE t = s
        <4> HIDE DEF H
        <4> QED
          BY <1>4, <2>6, <2>10, <2>12, <2>13, <3>2 DEF Prunes
      <3>3. CASE t # s
        <4> HIDE DEF H
        <4> QED
          BY <1>4, <2>6, <2>11, <3>1, <3>3 DEF Prunes
      <3> QED
        BY <3>2, <3>3
    <2>15. Consistent(calls', t, HeldIn(t), Truth(t))
      BY <1>4, <2>3, <2>4, <2>14, WriteSent
    <2> QED
      BY <1>7, <2>5, <2>15 DEF Follows
  <1> QED
    BY <1>7, <1>8, <1>9, <1>10 DEF StoreInv

-----------------------------------------------------------------------------
(* Serving                                                                 *)

LEMMA EntityOf ==
    ASSUME NEW r \in Tree!Row, r.spaceId \in StoreSpaces
    PROVE  /\ Store!Entity(r) \in Store!EntityType /\ Store!Entity(r).space = r.spaceId
           /\ Store!Entity(r).parent = r.parentId /\ Store!Entity(r).order = r.sortOrder
           /\ Store!Entity(r).token = r.updateAt
  BY DEF Store!Entity, Store!EntityType, Tree!Row, Tree!ParentIds

LEMMA ClientRests ==
    ASSUME known' = known, listed' = listed
    PROVE  \A s : HeldIn(s)' = HeldIn(s) /\ (Indexed(s)' <=> Indexed(s))
  BY DEF HeldIn, Indexed, KnownIn

LEMMA HereApart == ASSUME NEW s, NEW t, NEW p \in Here(s), p \in Here(t) PROVE s = t
  BY DEF Here, Store!Server!LiveIn

LEMMA ServedFacts ==
    ASSUME ClientTypes, NEW i \in DOMAIN calls, NEW reply, Store!IsReply(reply),
           NEW wrote \in BOOLEAN, Store!Replied(i, reply, wrote)
    PROVE  /\ IsCalls(calls)' /\ DOMAIN calls' = DOMAIN calls
           /\ calls'[i].reply = reply /\ calls'[i].fresh = ~ wrote
           /\ \A j \in DOMAIN calls : Store!IsCall(calls'[j]) /\ Alike(calls[j], calls'[j])
           /\ \A j \in DOMAIN calls \ {i} :
                /\ calls'[j].reply = calls[j].reply
                /\ IF wrote THEN calls'[j].fresh = FALSE ELSE calls'[j] = calls[j]
  <1>1. /\ DOMAIN calls' = DOMAIN calls /\ calls' = [j \in DOMAIN calls |-> calls'[j]]
        /\ calls'[i] = [calls[i] EXCEPT !.reply = reply, !.fresh = ~ wrote]
        /\ \A j \in DOMAIN calls \ {i} :
             calls'[j] = IF wrote THEN [calls[j] EXCEPT !.fresh = FALSE] ELSE calls[j]
    BY DEF Store!Replied
  <1>2. \A j \in DOMAIN calls : Store!IsCall(calls[j])
    BY CallsAre DEF ClientTypes
  <1>3. /\ Store!IsCall(calls'[i]) /\ Alike(calls[i], calls'[i])
        /\ calls'[i].reply = reply /\ calls'[i].fresh = ~ wrote
    <2>1. (~ wrote) \in BOOLEAN
      OBVIOUS
    <2>2. PICK c : c = calls[i]
      OBVIOUS
    <2>3. PICK d : d = calls'[i]
      OBVIOUS
    <2>4. PICK b \in BOOLEAN : b = ~ wrote
      BY <2>1, Zenon
    <2>5. d = [c EXCEPT !.reply = reply, !.fresh = b] /\ Store!IsCall(c)
      BY <1>1, <1>2, <2>2, <2>3, <2>4
    <2>6. /\ Store!IsCall(d) /\ d.reply = reply /\ d.fresh = b
          /\ d.op = c.op /\ d.space = c.space /\ d.page = c.page /\ d.parent = c.parent
          /\ d.index = c.index /\ d.token = c.token /\ d.ids = c.ids
      BY <2>5, Zenon DEF Store!IsCall
    <2> QED
      BY <2>2, <2>3, <2>4, <2>6 DEF Alike
  <1>4. ASSUME NEW j \in DOMAIN calls \ {i}
        PROVE  /\ Store!IsCall(calls'[j]) /\ Alike(calls[j], calls'[j])
               /\ calls'[j].reply = calls[j].reply
               /\ IF wrote THEN calls'[j].fresh = FALSE ELSE calls'[j] = calls[j]
    <2>1. CASE wrote
      <3>1. PICK c : c = calls[j]
        OBVIOUS
      <3>2. PICK d : d = calls'[j]
        OBVIOUS
      <3>3. d = [c EXCEPT !.fresh = FALSE] /\ Store!IsCall(c)
        BY <1>1, <1>2, <2>1, <3>1, <3>2
      <3>4. /\ Store!IsCall(d) /\ d.reply = c.reply /\ d.fresh = FALSE
            /\ d.op = c.op /\ d.space = c.space /\ d.page = c.page /\ d.parent = c.parent
            /\ d.index = c.index /\ d.token = c.token /\ d.ids = c.ids
        BY <3>3, StaleCall, Zenon
      <3> QED
        BY <2>1, <3>1, <3>2, <3>4 DEF Alike
    <2>2. CASE ~ wrote
      BY <1>1, <1>2, <2>2 DEF Alike
    <2> QED
      BY <2>1, <2>2, Zenon
  <1>5. \A j \in DOMAIN calls : Store!IsCall(calls'[j]) /\ Alike(calls[j], calls'[j])
    BY <1>3, <1>4, Zenon
  <1>6. IsCalls(calls)'
    <2>1. IsCalls(calls')
      BY <1>1, <1>5, Rewritten DEF ClientTypes
    <2> QED
      BY <2>1 DEF IsCalls
  <1> QED
    BY <1>1, <1>3, <1>4, <1>5, <1>6, Zenon

(* A call that does not change the server, and the others as they were. *)
LEMMA OthersWell ==
    ASSUME CallsWell, NEW i, DOMAIN calls' = DOMAIN calls, \A s : Truth(s)' = Truth(s),
           \A j \in DOMAIN calls \ {i} : calls'[j] = calls[j],
           i \in DOMAIN calls => CallWell(calls'[i], Truth(calls'[i].space))
    PROVE  CallsWell'
  BY DEF CallsWell

(* A write of the server: no listing under way is fresh. *)
LEMMA StaleWell ==
    ASSUME CallsWell, \A i \in DOMAIN calls : calls[i].space \in StoreSpaces, NEW c, NEW d, NEW i
             \in DOMAIN calls,
           c = calls[i], Alike(c, d), d.reply = c.reply, d.fresh = FALSE, NEW truth
    PROVE  CallWell(d, truth)
  <1>1. CallWell(c, Truth(c.space))
    BY DEF CallsWell
  <1> QED
    BY <1>1 DEF CallWell, Alike

LEMMA FailedWell ==
    ASSUME CallsWell, \A i \in DOMAIN calls : calls[i].space \in StoreSpaces, NEW d, NEW i
             \in DOMAIN calls,
           Alike(calls[i], d), d.reply = Store!Failed, NEW truth
    PROVE  CallWell(d, truth)
  <1>1. CallWell(calls[i], Truth(calls[i].space))
    BY DEF CallsWell
  <1>2. d.reply.answer # "ok"
    BY Kinds
  <1> QED
    BY <1>1, <1>2 DEF CallWell, Alike

LEMMA RefusedKeeps ==
    ASSUME Store!StoreAssumption, ServerInv, ClientTypes, StoreInv, NEW i \in DOMAIN calls,
           rows' = rows, known' = known, listed' = listed,
           drift' \in [StoreSpaces -> SUBSET Store!Reasons], {sent, failures, others}'
             \subseteq Nat,
           IsCalls(calls)', DOMAIN calls' = DOMAIN calls, Alike(calls[i], calls'[i]),
           calls'[i].reply = Store!Failed, \A j \in DOMAIN calls \ {i} : calls'[j] = calls[j],
           \A s \in StoreSpaces : drift'[s] = {} => drift[s] = {},
           \A s \in StoreSpaces : drift'[s] = {} /\ calls[i].space = s =>
             calls[i].op # "list" /\ ~ (calls[i].op = "delete" /\ calls[i].reply.answer = "ok")
    PROVE  ServerInv' /\ ClientTypes' /\ StoreInv'
  <1>1. ServerInv' /\ \A s : Truth(s)' = Truth(s)
    BY RowsRest
  <1>2. ClientTypes'
    BY DEF ClientTypes
  <1>3. \A j \in DOMAIN calls : calls[j].space \in StoreSpaces
    BY CallsAre, CallFields DEF ClientTypes
  <1>4. CallsWell'
    <2>1. CallWell(calls'[i], Truth(calls'[i].space))
      BY <1>3, FailedWell DEF StoreInv
    <2> QED
      BY <1>1, <2>1, OthersWell DEF StoreInv
  <1>5. ASSUME NEW s \in StoreSpaces, drift'[s] = {}
        PROVE  Follows(s)'
    <2>1. Indexed(s) /\ Consistent(calls, s, HeldIn(s), Truth(s))
      BY <1>5 DEF StoreInv, Follows
    <2>2. Consistent(calls', s, HeldIn(s), Truth(s))
      BY <1>5, <2>1, CallFails
    <2> QED
      BY <1>1, <2>1, <2>2, ClientRests DEF Follows
  <1> QED
    BY <1>1, <1>2, <1>4, <1>5 DEF StoreInv

LEMMA ServeReadKeeps ==
    ASSUME Store!StoreAssumption, ServerInv, ClientTypes, StoreInv, NEW i \in DOMAIN calls,
           calls[i].reply = Store!Waiting, Store!ServeRead(i),
           UNCHANGED <<Store!client, Store!bounds>>
    PROVE  ServerInv' /\ ClientTypes' /\ StoreInv'
  <1> DEFINE c == calls[i]
             H == Here(c.space)
             wanted == IF c.op = "list" THEN H ELSE H \cap {c.page}
             f == [p \in wanted |-> Store!Entity(rows[p])]
             reply == IF c.op = "page" /\ wanted = {} THEN Store!Failed ELSE Store!Answer(f)
  <1>1. c.op \in Store!Reads /\ rows' = rows /\ drift' = drift
    BY DEF Store!ServeRead
  <1>2. Store!Replied(i, reply, FALSE)
    BY Zenon DEF Store!ServeRead, Here
  <1>3. known' = known /\ listed' = listed /\ sent' = sent /\ failures' = failures
          /\ others' = others
    BY DEF Store!client, Store!bounds
  <1>4. c.space \in StoreSpaces /\ Store!IsCall(c)
    BY CallsAre, CallFields DEF ClientTypes
  <1>5. H \subseteq Pages /\ DOMAIN Truth(c.space) = H
        /\ \A p \in H : Truth(c.space)[p] = rows[p] /\ rows[p] \in Tree!Row
             /\ rows[p].spaceId = c.space
    BY TruthFacts
  <1>6. /\ DOMAIN f = wanted /\ wanted \subseteq H
        /\ \A p \in wanted : f[p] = Store!Entity(rows[p]) /\ f[p] \in Store!EntityType
             /\ f[p].space = c.space
    BY <1>4, <1>5, EntityOf
  <1>7. Store!IsReply(reply)
    <2>1. DOMAIN f \subseteq Pages /\ f \in [DOMAIN f -> Store!EntityType]
      BY <1>5, <1>6, Zenon
    <2> HIDE DEF f, wanted
    <2> QED
      BY <2>1, Kinds
  <1> HIDE DEF f, reply
  <1>8. /\ IsCalls(calls)' /\ DOMAIN calls' = DOMAIN calls /\ calls'[i].reply = reply
        /\ Alike(c, calls'[i]) /\ \A j \in DOMAIN calls \ {i} : calls'[j] = calls[j]
    BY <1>2, <1>7, ServedFacts, Zenon
  <1>9. CASE c.op = "page" /\ wanted = {}
    <2>1. calls'[i].reply = Store!Failed
      BY <1>8, <1>9 DEF reply
    <2>2. \A s \in StoreSpaces : drift'[s] = {} => drift[s] = {}
      BY <1>1
    <2>3. calls[i].op # "list" /\ calls[i].op # "delete"
      BY <1>9
    <2>4. drift' \in [StoreSpaces -> SUBSET Store!Reasons]
            /\ {sent, failures, others}' \subseteq Nat
      BY <1>1, <1>3 DEF ClientTypes
    <2> QED
      BY <1>1, <1>3, <1>8, <2>1, <2>2, <2>3, <2>4, RefusedKeeps
  <1>10. CASE ~ (c.op = "page" /\ wanted = {})
    <2> DEFINE d == calls'[i]
    <2>1. d.reply = Store!Answer(f) /\ d.reply.pages = f /\ d.reply.answer = "ok"
          /\ d.reply # Store!Failed
      BY <1>8, <1>10, Kinds DEF reply
    <2>2. ServerInv' /\ \A s : Truth(s)' = Truth(s)
      BY <1>1, RowsRest
    <2>3. ClientTypes'
      BY <1>1, <1>3, <1>8 DEF ClientTypes
    <2>4. d.op = c.op /\ d.space = c.space /\ d.page = c.page /\ c.op \in {"list", "page"}
      BY <1>1, <1>8 DEF Alike, Store!Reads
    <2>5. c.op = "page" => wanted = {c.page}
      BY <1>10
    <2>6. f = [p \in wanted |-> Store!Entity(Truth(c.space)[p])]
      BY <1>5, <1>6 DEF f
    <2>7. CallWell(d, Truth(d.space))
      <3>1. CallWell(c, Truth(c.space))
        BY <1>4 DEF StoreInv, CallsWell
      <3>2. d.op = "list" => f = Entities(Truth(c.space))
        BY <1>5, <2>4, <2>6 DEF Entities
      <3> HIDE DEF d, c, H, wanted
      <3> QED
        BY <1>6, <2>1, <2>4, <2>5, <3>1, <3>2 DEF CallWell, wanted
    <2>8. CallsWell'
      BY <1>8, <2>2, <2>7, OthersWell DEF StoreInv
    <2>9. ASSUME NEW s \in StoreSpaces, drift'[s] = {}
          PROVE  Follows(s)'
      <3>1. Indexed(s) /\ Consistent(calls, s, HeldIn(s), Truth(s))
        BY <1>1, <2>9 DEF StoreInv, Follows
      <3>2. Honest(d, s, Truth(s))
        <4>1. CASE c.space = s
          <5>1. wanted = Wanted(d, Truth(s))
            BY <1>5, <2>4, <2>5, <4>1 DEF Wanted
          <5> HIDE DEF d, c, H, wanted
          <5> QED
            BY <1>5, <1>6, <2>1, <2>4, <2>6, <4>1, <5>1 DEF Honest
        <4>2. CASE c.space # s
          <5>1. DOMAIN f \cap Here(s) = {}
            BY <1>6, <4>2, HereApart
          <5>2. DOMAIN Truth(s) = Here(s)
            BY TruthFacts
          <5> HIDE DEF d, c, H, wanted
          <5> QED
            BY <2>1, <2>4, <4>2, <5>1, <5>2 DEF Honest
        <4> QED
          BY <4>1, <4>2
      <3>3. Consistent(calls', s, HeldIn(s), Truth(s))
        BY <1>1, <1>8, <2>1, <3>1, <3>2, ReadServed
      <3> QED
        BY <1>3, <2>2, <3>1, <3>3, ClientRests DEF Follows
    <2> QED
      BY <2>2, <2>3, <2>8, <2>9 DEF StoreInv
  <1> QED
    BY <1>9, <1>10

(* A write that leaves a space alone, seen from that space. *)
LEMMA AnsweredWrite ==
    ASSUME ClientTypes, StoreInv, NEW i \in DOMAIN calls, calls[i].op \notin Store!Reads,
           NEW s \in StoreSpaces, drift[s] = {}, calls[i].space # s, Truth(s)' = Truth(s),
           DOMAIN calls' = DOMAIN calls, Alike(calls[i], calls'[i]),
           known' = known, listed' = listed,
           Honest(calls'[i], s, Truth(s)), Prunes(calls'[i], s, Truth(s))
    PROVE  Follows(s)'
  <1>1. Indexed(s) /\ Consistent(calls, s, HeldIn(s), Truth(s))
    BY DEF StoreInv, Follows
  <1>2. Single(calls) /\ i = 1 /\ Single(calls')
    BY <1>1 DEF Consistent, AllRead, Single
  <1>3. HeldIn(s) = Entities(Truth(s))
    BY <1>1, <1>2 DEF Consistent, InOrder, Refetched, MoveUnderWay, DeleteAnswered, AllRead
  <1>4. InOrder(calls', s, HeldIn(s), Truth(s))
    BY <1>2, <1>3 DEF InOrder, Single, Alike
  <1>5. Consistent(calls', s, HeldIn(s), Truth(s))
    BY <1>2, <1>4 DEF Consistent, Single
  <1> QED
    BY <1>1, <1>5, ClientRests DEF Follows

LEMMA MovedSpace ==
    ASSUME Store!StoreAssumption, ServerInv, ServerInv', ClientTypes, StoreInv,
           NEW i \in DOMAIN calls, calls[i].op = "move", calls[i].reply = Store!Waiting,
           NEW s \in StoreSpaces, s = calls[i].space, drift[s] = {},
           NEW p \in Here(s), p = calls[i].page, NEW d \in Pages \cup {NoPage}, d = calls[i].parent,
           calls[i].index \in Nat, rows' = Tree!PagesAfterReindex(p, s, d, calls[i].index),
           DOMAIN calls' = DOMAIN calls, Alike(calls[i], calls'[i]),
           known' = known, listed' = listed,
           calls'[i].reply = Store!Answer([q \in {p} |-> Store!Entity(rows'[q])])
    PROVE  Follows(s)'
  <1> DEFINE H == Here(s)
             held == HeldIn(s)
             truth == Truth(s)
             next == Truth(s)'
             R == Reordered(truth, p, d, calls[i].index)
             c == calls'[1]
  <1>1. Indexed(s) /\ Consistent(calls, s, held, truth)
    BY DEF StoreInv, Follows
  <1>2. Single(calls) /\ i = 1 /\ Single(calls')
    BY <1>1 DEF Consistent, AllRead, Single, Store!Reads
  <1>3. MoveUnderWay(calls, s, held, truth)
    BY <1>1, <1>2 DEF Consistent, InOrder, Refetched, DeleteAnswered, AllRead, Store!Reads
  <1>4. Astray(held, truth, p, d) /\ PlacedAs(held, truth, R, p)
    BY <1>2, <1>3 DEF MoveUnderWay
  <1>5. DOMAIN truth = H /\ H \subseteq Pages /\ \A q \in H : truth[q] = rows[q]
    BY TruthFacts
  <1>6. \A q \in H : /\ rows'[q].parentId = R[q].parent /\ rows'[q].sortOrder = R[q].order
                     /\ q # p => rows'[q].updateAt = rows[q].updateAt
                          /\ rows'[q].parentId = rows[q].parentId
                     /\ q = p => rows'[q].parentId = d
    BY ServerReorders
  <1>7. Here(s)' = H
    <2>1. \A q \in Pages : rows'[q].spaceId = rows[q].spaceId
            /\ rows'[q].deleteAt = rows[q].deleteAt
      BY InSpaceFacts DEF Tree!PagesAfterReindex, Tree!Row
    <2> QED
      BY <2>1 DEF Here, Store!Server!LiveIn, Store!Server!Live, Store!Server!Exists
  <1>8. DOMAIN next = H /\ \A q \in H : next[q] = rows'[q]
    BY <1>7 DEF Truth
  <1>9. Astray(held, next, p, d)
    <2>1. DOMAIN held = H /\ \A q \in H \ {p} : held[q].parent = next[q].parentId
      BY <1>4, <1>5, <1>6, <1>8 DEF Astray
    <2>2. next[p].parentId = d /\ held[p].parent = d
      BY <1>4, <1>5, <1>6, <1>8 DEF PlacedAs
    <2>3. PICK D \in SUBSET H : p \in D /\ d \notin D /\ \A q \in H : rows[q].parentId \in D
            => q \in D
      BY <1>4, <1>5 DEF Astray
    <2>4. \A q \in H : next[q].parentId \in D => q \in D
      BY <1>6, <1>8, <2>3
    <2> HIDE DEF held, next, H
    <2>5. \E E \in SUBSET DOMAIN next : p \in E /\ d \notin E
            /\ \A q \in DOMAIN next : next[q].parentId \in E => q \in E
      BY <1>8, <2>3, <2>4
    <2> QED
      BY <1>8, <2>1, <2>2, <2>5 DEF Astray, H
  <1>10. PlacedAs(held, next, Places(next), p)
    <2>1. ASSUME NEW q \in H
          PROVE  /\ held[q].parent = Places(next)[q].parent /\ held[q].order = Places(next)[q].order
                 /\ q # p => held[q].token = next[q].updateAt
      <3>1. held[q].parent = R[q].parent /\ held[q].order = R[q].order /\ (q # p
              => held[q].token = rows[q].updateAt)
        BY <1>4, <1>5 DEF PlacedAs
      <3>2. Places(next)[q] = [parent |-> next[q].parentId, order |-> next[q].sortOrder]
        BY <1>8 DEF Places
      <3> QED
        BY <1>6, <1>8, <3>1, <3>2
    <2> HIDE DEF held, next
    <2> QED
      BY <1>8, <2>1 DEF PlacedAs
  <1>11. /\ c.op = "move" /\ c.space = s /\ c.page = p /\ c.parent = d
         /\ c.reply.answer = "ok" /\ c.reply # Store!Waiting
         /\ c.reply.pages = [q \in {p} |-> Store!Entity(rows'[q])]
    BY <1>2, Kinds DEF Alike
  <1>12. MoveUnderWay(calls', s, held, next)
    <2> HIDE DEF held, next
    <2> QED
      BY <1>2, <1>9, <1>10, <1>11 DEF MoveUnderWay
  <1>13. Honest(c, s, next) /\ Prunes(c, s, next)
    <2>1. [q \in {p} |-> Store!Entity(rows'[q])] = [q \in {p} |-> Store!Entity(next[q])]
      BY <1>8
    <2>2. Wanted(c, next) = {p} /\ {p} \subseteq DOMAIN next
      BY <1>8, <1>11 DEF Wanted
    <2> HIDE DEF c, next
    <2> QED
      BY <1>11, <2>1, <2>2 DEF Honest, Prunes
  <1>14. Consistent(calls', s, held, next)
    <2> HIDE DEF held, next
    <2> QED
      BY <1>2, <1>12, <1>13 DEF Consistent, Single
  <1> QED
    BY <1>1, <1>14, ClientRests DEF Follows

LEMMA ServeMoveKeeps ==
    ASSUME Store!StoreAssumption, ServerInv, ClientTypes, StoreInv, NEW i \in DOMAIN calls,
           calls[i].reply = Store!Waiting, Store!ServeMove(i),
           UNCHANGED <<Store!client, Store!bounds>>
    PROVE  ServerInv' /\ ClientTypes' /\ StoreInv'
  <1> DEFINE c == calls[i]
  <1>1. c.op = "move" /\ drift' = drift /\ c.op \notin Store!Reads
    BY DEF Store!ServeMove, Store!Reads
  <1>2. known' = known /\ listed' = listed /\ sent' = sent /\ failures' = failures
          /\ others' = others
    BY DEF Store!client, Store!bounds
  <1>3. /\ \A j \in DOMAIN calls : calls[j].space \in StoreSpaces
        /\ Store!IsCall(c) /\ c.index \in Nat /\ c.parent \in Pages \cup {NoPage}
    BY CallsAre, CallFields DEF ClientTypes
  <1>4. CallWell(c, Truth(c.space))
    BY <1>3 DEF StoreInv, CallsWell
  <1>5. c.page \in Pages /\ c.index <= Cardinality(Pages)
    BY <1>1, <1>4 DEF CallWell
  <1>6. CASE ~ Store!CanMove(c)
    <2>1. rows' = rows /\ Store!Replied(i, Store!Failed, FALSE)
      BY <1>6, Zenon DEF Store!ServeMove
    <2>2. /\ IsCalls(calls)' /\ DOMAIN calls' = DOMAIN calls /\ calls'[i].reply = Store!Failed
          /\ Alike(c, calls'[i]) /\ \A j \in DOMAIN calls \ {i} : calls'[j] = calls[j]
      BY <2>1, Kinds, ServedFacts, Zenon
    <2>3. drift' \in [StoreSpaces -> SUBSET Store!Reasons]
            /\ {sent, failures, others}' \subseteq Nat
      BY <1>1, <1>2 DEF ClientTypes
    <2>4. \A s \in StoreSpaces : drift'[s] = {} => drift[s] = {}
      BY <1>1
    <2>5. calls[i].op # "list" /\ calls[i].op # "delete"
      BY <1>1
    <2> QED
      BY <1>2, <2>1, <2>2, <2>3, <2>4, <2>5, RefusedKeeps
  <1>7. CASE Store!CanMove(c)
    <2> DEFINE f == [p \in {c.page} |-> Store!Entity(rows'[p])]
    <2>1. rows' = Store!Server!PagesAfterReindex(c.page, c.space, c.parent, c.index)
          /\ Store!Replied(i, Store!Answer(f), TRUE)
      BY <1>7, Zenon DEF Store!ServeMove
    <2>2. rows' = Tree!PagesAfterReindex(c.page, c.space, c.parent, c.index)
      BY <2>1, SameTables
    <2>3. c.index \in Store!Server!Indexes
      <3>1. Cardinality(Pages) \in Nat /\ Store!Server!Cardinality(Pages) = Cardinality(Pages)
        BY SubsetsAreFinite, SameNumbers
      <3> QED
        BY <1>3, <1>5, <3>1 DEF Store!Server!Indexes
    <2>4. Store!Server!MovePageToIndex(c.page, c.space, c.parent, c.token)
      BY <1>7, <2>1, <2>3 DEF Store!CanMove, Store!Server!MovePageToIndex
    <2>5. ServerInv' /\ \A s : s # c.space => Steady(s)
      BY <1>3, <1>5, <2>4, MoveKeeps
    <2>6. c.page \in Here(c.space)
      BY <1>5, <2>4 DEF Here, Store!Server!MovePageToIndex, Store!Server!MayMove
    <2>7. rows'[c.page] \in Tree!Row /\ rows'[c.page].spaceId = c.space
      <3>1. rows' \in [Pages -> Tree!Row]
        BY <2>5 DEF ServerInv, Tree!TreeInv, Tree!TypeOK
      <3>2. rows[c.page].spaceId = c.space /\ rows[c.page] \in Tree!Row
        BY <2>6, TruthFacts
      <3>3. rows'[c.page].spaceId = rows[c.page].spaceId
        BY <1>5, <2>2, <3>2 DEF Tree!PagesAfterReindex, Tree!Row
      <3> QED
        BY <1>5, <3>1, <3>2, <3>3
    <2>8. f[c.page] \in Store!EntityType /\ f[c.page].space = c.space /\ DOMAIN f = {c.page}
      BY <1>3, <2>7, EntityOf
    <2>9. Store!IsReply(Store!Answer(f))
      <3>1. DOMAIN f \subseteq Pages /\ f \in [DOMAIN f -> Store!EntityType]
        BY <1>5, <2>8
      <3> HIDE DEF f
      <3> QED
        BY <3>1, Kinds
    <2> HIDE DEF f
    <2>10. /\ IsCalls(calls)' /\ DOMAIN calls' = DOMAIN calls
           /\ calls'[i].reply = Store!Answer(f)
           /\ \A j \in DOMAIN calls : Store!IsCall(calls'[j]) /\ Alike(calls[j], calls'[j])
           /\ \A j \in DOMAIN calls \ {i} : calls'[j].reply = calls[j].reply
                /\ calls'[j].fresh = FALSE
      BY <2>1, <2>9, ServedFacts, Zenon
    <2>11. ClientTypes'
      BY <1>1, <1>2, <2>10 DEF ClientTypes
    <2>12. calls'[i].reply.pages = f /\ Alike(c, calls'[i])
      BY <2>10, Kinds
    <2>13. CallsWell'
      <3> SUFFICES ASSUME NEW j \in DOMAIN calls, NEW t
                   PROVE  CallWell(calls'[j], t)
        BY <2>10 DEF CallsWell
      <3>1. CASE j = i
        BY <1>1, <1>4, <2>8, <2>12, <3>1 DEF CallWell, Alike
      <3>2. CASE j # i
        BY <1>3, <2>10, <3>2, StaleWell, Zenon DEF StoreInv
      <3> QED
        BY <3>1, <3>2
    <2>14. ASSUME NEW s \in StoreSpaces, drift'[s] = {}
           PROVE  Follows(s)'
      <3>1. drift[s] = {}
        BY <1>1, <2>14
      <3>2. CASE s = c.space
        <4>1. calls'[i].reply = Store!Answer([q \in {c.page} |-> Store!Entity(rows'[q])])
          BY <2>10 DEF f
        <4> QED
          BY <1>1, <1>2, <1>3, <2>2, <2>5, <2>6, <2>10, <3>1, <3>2, <4>1, MovedSpace
      <3>3. CASE s # c.space
        <4>1. Truth(s)' = Truth(s)
          BY <2>5, <3>3, SteadyTruth
        <4>2. c.page \notin DOMAIN Truth(s)
          BY <2>6, <3>3, HereApart, TruthFacts
        <4>3. Honest(calls'[i], s, Truth(s)) /\ Prunes(calls'[i], s, Truth(s))
          BY <1>1, <2>8, <2>12, <3>3, <4>2 DEF Honest, Prunes, Alike
        <4> QED
          BY <1>1, <1>2, <2>10, <3>1, <3>3, <4>1, <4>3, AnsweredWrite
      <3> QED
        BY <3>2, <3>3
    <2> QED
      BY <2>5, <2>11, <2>13, <2>14 DEF StoreInv
  <1> QED
    BY <1>6, <1>7

LEMMA PrunedSpace ==
    ASSUME Store!StoreAssumption, ServerInv, ClientTypes, StoreInv,
           NEW i \in DOMAIN calls, calls[i].op = "delete", calls[i].reply = Store!Waiting,
           NEW s \in StoreSpaces, s = calls[i].space, drift[s] = {},
           NEW p \in Here(s), p = calls[i].page, Tree!Children(p) = {},
           Here(s)' = Here(s) \ {p}, \A q \in Here(s) \ {p} : rows'[q] = rows[q],
           DOMAIN calls' = DOMAIN calls, Alike(calls[i], calls'[i]),
           known' = known, listed' = listed, calls'[i].reply = Store!Answer(<< >>)
    PROVE  Follows(s)'
  <1> DEFINE H == Here(s)
             held == HeldIn(s)
             truth == Truth(s)
             next == Truth(s)'
             c == calls'[1]
  <1>1. Indexed(s) /\ Consistent(calls, s, held, truth)
    BY DEF StoreInv, Follows
  <1>2. Single(calls) /\ i = 1 /\ Single(calls')
    BY <1>1 DEF Consistent, AllRead, Single, Store!Reads
  <1>a. calls[i].reply.answer = "waiting"
    BY Kinds
  <1>3. held = Entities(truth) /\ Prunes(calls[i], s, truth)
    BY <1>1, <1>2, <1>a DEF Consistent, InOrder, Refetched, MoveUnderWay, DeleteAnswered, AllRead,
      Store!Reads
  <1>4. /\ DOMAIN truth = H /\ H \subseteq Pages /\ IsTree(truth)
        /\ \A q \in H : truth[q] = rows[q] /\ rows[q].spaceId = s
    BY TruthFacts
  <1>5. \A q \in H : rows[q].parentId # p
    <2>1. \A q \in H : q \in Pages /\ Tree!Live(q)
      BY InSpaceFacts
    <2> QED
      BY <2>1 DEF Tree!Children
  <1>6. p \in calls[i].ids /\ calls[i].ids \cap H = {p}
    <2>1. \A q \in DOMAIN truth : truth[q].parentId # calls[i].page
      BY <1>4, <1>5
    <2> HIDE DEF truth, H
    <2> QED
      BY <1>3, <1>4, <2>1 DEF Prunes
  <1>7. DOMAIN next = H \ {p} /\ \A q \in H \ {p} : next[q] = truth[q]
    BY <1>4 DEF Truth
  <1>8. /\ c.op = "delete" /\ c.space = s /\ c.page = p /\ c.ids = calls[i].ids
        /\ c.reply.answer = "ok" /\ c.reply # Store!Waiting
    BY <1>2, Kinds DEF Alike
  <1>9. DeleteAnswered(calls', s, held, next)
    <2>1. DOMAIN held = DOMAIN next \cup {p} /\ p \in Pages \ DOMAIN next
      BY <1>3, <1>4, <1>7 DEF Entities
    <2>2. held[p].parent # p
      BY <1>3, <1>4, <1>5 DEF Entities, Store!Entity
    <2>3. \A q \in DOMAIN next : held[q] = Store!Entity(next[q])
      BY <1>3, <1>4, <1>7 DEF Entities
    <2>4. c.ids \cap DOMAIN next = {}
      BY <1>6, <1>7, <1>8
    <2> HIDE DEF c, held, next, H
    <2> QED
      BY <1>2, <1>6, <1>8, <2>1, <2>2, <2>3, <2>4 DEF DeleteAnswered, c
  <1>10. Honest(c, s, next) /\ Prunes(c, s, next)
    <2> HIDE DEF c, next
    <2> QED
      BY <1>8 DEF Honest, Prunes
  <1>11. Consistent(calls', s, held, next)
    <2> HIDE DEF held, next
    <2> QED
      BY <1>2, <1>9, <1>10 DEF Consistent, Single
  <1> QED
    BY <1>1, <1>11, ClientRests DEF Follows

LEMMA DeletedHere ==
    ASSUME Store!StoreAssumption, ServerInv, ServerInv', NEW s, NEW p \in Here(s),
           rows' = Tree!PagesAfterDelete(p, 1), Tree!Children(p) = {}
    PROVE  Here(s)' = Here(s) \ {p} /\ \A q \in Here(s) \ {p} : rows'[q] = rows[q]
  <1>1. p \in Pages /\ rows[p] \in Tree!Row /\ Here(s) \subseteq Pages
    BY TruthFacts
  <1>2. Tree!Cardinality(Tree!Children(p)) = 0
    BY SameNumbers, FS_EmptySet
  <1>3. \A q \in Pages \ {p} : rows'[q] = rows[q]
    BY <1>2 DEF Tree!PagesAfterDelete
  <1>4. rows'[p].deleteAt = 1
    BY <1>1, Zenon DEF Tree!PagesAfterDelete, Tree!Stamped, Tree!Row
  <1>5. \A q \in Pages \ {p} : q \in Here(s)' <=> q \in Here(s)
    BY <1>3 DEF Here, Store!Server!LiveIn, Store!Server!Live, Store!Server!Exists
  <1>6. p \notin Here(s)'
    BY <1>4 DEF Here, Store!Server!LiveIn, Store!Server!Live
  <1>7. Here(s)' \subseteq Pages
    BY DEF Here
  <1> QED
    BY <1>1, <1>3, <1>5, <1>6, <1>7

LEMMA ServeDeleteKeeps ==
    ASSUME Store!StoreAssumption, ServerInv, ClientTypes, StoreInv, NEW i \in DOMAIN calls,
           calls[i].reply = Store!Waiting, Store!ServeDelete(i),
           UNCHANGED <<Store!client, Store!bounds>>
    PROVE  ServerInv' /\ ClientTypes' /\ StoreInv'
  <1> DEFINE c == calls[i]
  <1>1. c.op = "delete" /\ c.op \notin Store!Reads
    BY DEF Store!ServeDelete, Store!Reads
  <1>2. known' = known /\ listed' = listed /\ sent' = sent /\ failures' = failures
          /\ others' = others
    BY DEF Store!client, Store!bounds
  <1>3. \A j \in DOMAIN calls : calls[j].space \in StoreSpaces
    BY CallsAre, CallFields DEF ClientTypes
  <1>4. CallWell(c, Truth(c.space))
    BY <1>3 DEF StoreInv, CallsWell
  <1>5. c.page \in Pages
    BY <1>1, <1>4 DEF CallWell
  <1>6. CASE ~ Store!CanDelete(c)
    <2>1. rows' = rows /\ Store!Replied(i, Store!Failed, FALSE) /\ drift' = drift
      BY <1>6, Zenon DEF Store!ServeDelete
    <2>2. /\ IsCalls(calls)' /\ DOMAIN calls' = DOMAIN calls /\ calls'[i].reply = Store!Failed
          /\ Alike(c, calls'[i]) /\ \A j \in DOMAIN calls \ {i} : calls'[j] = calls[j]
      BY <2>1, Kinds, ServedFacts, Zenon
    <2>3. drift' \in [StoreSpaces -> SUBSET Store!Reasons]
            /\ {sent, failures, others}' \subseteq Nat
      BY <1>2, <2>1 DEF ClientTypes
    <2>4. \A s \in StoreSpaces : drift'[s] = {} => drift[s] = {}
      BY <2>1
    <2>5. calls[i].op # "list" /\ calls[i].reply.answer # "ok"
      BY <1>1, Kinds
    <2> QED
      BY <1>2, <2>1, <2>2, <2>3, <2>4, <2>5, RefusedKeeps
  <1>7. CASE Store!CanDelete(c)
    <2>1. /\ Store!Server!DeletePage(c.page, 1) /\ Store!Replied(i, Store!Answer(<< >>), TRUE)
          /\ drift' = IF Store!Server!Children(c.page) = {} THEN drift
                      ELSE [drift EXCEPT ![c.space] = @ \cup {"promotion"}]
      BY <1>7, Zenon DEF Store!ServeDelete
    <2>2. ServerInv' /\ rows' = Tree!PagesAfterDelete(c.page, 1)
          /\ \A s : s # rows[c.page].spaceId => Steady(s)
      BY <1>5, <2>1, DeleteKeeps
    <2>3. c.page \in Here(c.space)
      BY <1>5, <1>7 DEF Here, Store!CanDelete
    <2>4. rows[c.page].spaceId = c.space
      BY <2>3, TruthFacts
    <2>5. Store!IsReply(Store!Answer(<< >>))
      <3>1. PICK e : e = << >>
        OBVIOUS
      <3>2. e \in Seq(Store!EntityType) /\ Len(e) = 0
        BY <3>1
      <3>3. e \in [1 .. 0 -> Store!EntityType] /\ 1 .. 0 = {}
        BY <3>2
      <3>4. DOMAIN e \subseteq Pages /\ e \in [DOMAIN e -> Store!EntityType]
        BY <3>3
      <3> QED
        BY <3>1, <3>4, Kinds, Zenon
    <2>6. /\ IsCalls(calls)' /\ DOMAIN calls' = DOMAIN calls
          /\ calls'[i].reply = Store!Answer(<< >>)
          /\ \A j \in DOMAIN calls : Store!IsCall(calls'[j]) /\ Alike(calls[j], calls'[j])
          /\ \A j \in DOMAIN calls \ {i} : calls'[j].reply = calls[j].reply
               /\ calls'[j].fresh = FALSE
      BY <2>1, <2>5, ServedFacts, Zenon
    <2>7. drift' \in [StoreSpaces -> SUBSET Store!Reasons]
          /\ \A s \in StoreSpaces : drift'[s] = {} =>
               drift[s] = {} /\ (s = c.space => Store!Server!Children(c.page) = {})
      BY <1>3, <2>1, Zenon DEF ClientTypes, Store!Reasons
    <2>8. ClientTypes'
      BY <1>2, <2>6, <2>7 DEF ClientTypes
    <2>9. CallsWell'
      <3> SUFFICES ASSUME NEW j \in DOMAIN calls, NEW t
                   PROVE  CallWell(calls'[j], t)
        BY <2>6 DEF CallsWell
      <3>1. CASE j = i
        <4>1. Alike(c, calls'[j])
          BY <2>6, <3>1
        <4> QED
          BY <1>1, <1>5, <4>1 DEF CallWell, Alike
      <3>2. CASE j # i
        BY <1>3, <2>6, <3>2, StaleWell, Zenon DEF StoreInv
      <3> QED
        BY <3>1, <3>2
    <2>10. ASSUME NEW s \in StoreSpaces, drift'[s] = {}
           PROVE  Follows(s)'
      <3>1. drift[s] = {} /\ (s = c.space => Tree!Children(c.page) = {})
        BY <2>7, <2>10, SameServer
      <3>2. CASE s = c.space
        <4>1. Here(s)' = Here(s) \ {c.page} /\ \A q \in Here(s) \ {c.page} : rows'[q] = rows[q]
          BY <2>2, <2>3, <3>1, <3>2, DeletedHere
        <4> QED
          BY <1>1, <1>2, <2>3, <2>6, <3>1, <3>2, <4>1, PrunedSpace
      <3>3. CASE s # c.space
        <4>1. Truth(s)' = Truth(s)
          BY <2>2, <2>4, <3>3, SteadyTruth
        <4>2. c.page \notin DOMAIN Truth(s)
          BY <2>3, <3>3, HereApart, TruthFacts
        <4>3. Prunes(c, s, Truth(s)) /\ Alike(c, calls'[i])
          BY <2>6, <3>1 DEF StoreInv, Follows, Consistent
        <4>4. Honest(calls'[i], s, Truth(s)) /\ Prunes(calls'[i], s, Truth(s))
          BY <1>1, <3>3, <4>2, <4>3 DEF Honest, Prunes, Alike
        <4> QED
          BY <1>1, <1>2, <2>6, <3>1, <3>3, <4>1, <4>4, AnsweredWrite
      <3> QED
        BY <3>2, <3>3
    <2> QED
      BY <2>2, <2>8, <2>9, <2>10 DEF StoreInv
  <1> QED
    BY <1>6, <1>7

LEMMA ServeKeeps ==
    ASSUME Store!StoreAssumption, ServerInv, ClientTypes, StoreInv, Store!Serve
    PROVE  ServerInv' /\ ClientTypes' /\ StoreInv'
  <1>1. PICK i \in DOMAIN calls :
          /\ calls[i].reply = Store!Waiting
          /\ Store!ServeRead(i) \/ Store!ServeMove(i) \/ Store!ServeDelete(i)
    BY DEF Store!Serve
  <1>2. UNCHANGED <<Store!client, Store!bounds>>
    BY DEF Store!Serve
  <1> QED
    BY <1>1, <1>2, ServeReadKeeps, ServeMoveKeeps, ServeDeleteKeeps

LEMMA FailKeeps ==
    ASSUME Store!StoreAssumption, ServerInv, ClientTypes, StoreInv, Store!Fail
    PROVE  ServerInv' /\ ClientTypes' /\ StoreInv'
  <1>1. PICK i \in DOMAIN calls :
          /\ calls' = [calls EXCEPT ![i].reply = Store!Failed]
          /\ drift' = IF calls[i].op = "move" THEN drift
                      ELSE [drift EXCEPT ![calls[i].space] = @ \cup {"failure"}]
    BY Zenon DEF Store!Fail
  <1>2. /\ rows' = rows /\ known' = known /\ listed' = listed
        /\ failures' = failures + 1 /\ sent' = sent /\ others' = others
    BY DEF Store!Fail, Store!client
  <1>3. calls[i].space \in StoreSpaces /\ Store!IsCall(calls[i])
    BY CallsAre, CallFields DEF ClientTypes
  <1>4. /\ DOMAIN calls' = DOMAIN calls /\ calls' = [j \in DOMAIN calls |-> calls'[j]]
        /\ calls'[i] = [calls[i] EXCEPT !.reply = Store!Failed]
        /\ \A j \in DOMAIN calls \ {i} : calls'[j] = calls[j]
    BY <1>1, Zenon
  <1>5. Store!IsCall(calls'[i]) /\ calls'[i].reply = Store!Failed /\ Alike(calls[i], calls'[i])
    <2>1. PICK c : c = calls[i]
      OBVIOUS
    <2>2. PICK d : d = calls'[i]
      OBVIOUS
    <2>3. d = [c EXCEPT !.reply = Store!Failed] /\ Store!IsCall(c)
      BY <1>3, <1>4, <2>1, <2>2
    <2>4. /\ Store!IsCall(d) /\ d.reply = Store!Failed
          /\ d.op = c.op /\ d.space = c.space /\ d.page = c.page /\ d.parent = c.parent
          /\ d.index = c.index /\ d.ids = c.ids
      BY <2>3, FailedCall
    <2> QED
      BY <2>1, <2>2, <2>4 DEF Alike
  <1>6. IsCalls(calls)'
    <2>1. \A j \in DOMAIN calls : Store!IsCall(calls'[j])
      BY <1>4, <1>5, CallsAre, Zenon DEF ClientTypes
    <2>2. IsCalls(calls')
      BY <1>4, <2>1, Rewritten DEF ClientTypes
    <2> QED
      BY <2>2 DEF IsCalls
  <1>7. /\ drift' \in [StoreSpaces -> SUBSET Store!Reasons]
        /\ \A s \in StoreSpaces : drift'[s] = {} =>
             drift[s] = {} /\ (s = calls[i].space => calls[i].op = "move")
    BY <1>1, <1>3 DEF ClientTypes, Store!Reasons
  <1>8. {sent, failures, others}' \subseteq Nat
    BY <1>2 DEF ClientTypes
  <1>9. \A s \in StoreSpaces : drift'[s] = {} /\ calls[i].space = s =>
          calls[i].op # "list" /\ ~ (calls[i].op = "delete" /\ calls[i].reply.answer = "ok")
    BY <1>7
  <1> QED
    BY <1>2, <1>4, <1>5, <1>6, <1>7, <1>8, <1>9, RefusedKeeps, Zenon

-----------------------------------------------------------------------------
(* Receiving                                                               *)

(* A call about another space leaves this one with the pages of the server. *)
LEMMA HeldElsewhere ==
    ASSUME NEW cs, NEW s, NEW held, NEW truth, Consistent(cs, s, held, truth), NEW i \in DOMAIN cs,
           cs[i].space # s
    PROVE  DOMAIN held = DOMAIN truth
  BY DEF Consistent, InOrder, Refetched, MoveUnderWay, DeleteAnswered, Entities, Astray, Single

LEMMA RestWell ==
    ASSUME CallsWell, ClientTypes, NEW i \in DOMAIN calls, calls' = Store!RemoveAt(calls, i),
           \A s : Truth(s)' = Truth(s)
    PROVE  CallsWell' /\ IsCalls(calls)'
  <1>1. IsRest(calls', calls, i) /\ IsCalls(calls')
    BY Removed, Zenon DEF ClientTypes
  <1>2. CallsWell'
    <2> SUFFICES ASSUME NEW s \in StoreSpaces, NEW j \in DOMAIN calls', calls'[j].space = s
                 PROVE  CallWell(calls'[j], Truth(s)')
      BY DEF CallsWell
    <2>1. PICK k \in DOMAIN calls \ {i} : calls'[j] = calls[k]
      BY <1>1 DEF IsRest
    <2> QED
      BY <2>1 DEF CallsWell
  <1> QED
    BY <1>1, <1>2 DEF IsCalls

LEMMA RefusedReceived ==
    ASSUME Store!StoreAssumption, ServerInv, ClientTypes, StoreInv, NEW i \in DOMAIN calls,
           calls[i].reply = Store!Failed, NEW rest, rest = Store!RemoveAt(calls, i),
           Store!Refused(calls[i], rest), UNCHANGED <<rows, Store!bounds>>
    PROVE  ServerInv' /\ ClientTypes' /\ StoreInv'
  <1> DEFINE c == calls[i]
  <1>1. /\ known' = known /\ listed' = listed /\ drift' = drift /\ rows' = rows
        /\ sent' = sent /\ failures' = failures /\ others' = others
    BY DEF Store!Refused, Store!client, Store!bounds
  <1>2. ServerInv' /\ \A s : Truth(s)' = Truth(s)
    BY <1>1, RowsRest
  <1>3. IsCalls(calls) /\ c.space \in StoreSpaces
    BY CallsAre, CallFields DEF ClientTypes
  <1>4. CASE c.op # "move"
    <2>1. calls' = rest
      BY <1>4 DEF Store!Refused
    <2>2. CallsWell' /\ IsCalls(calls)'
      BY <1>2, <2>1, RestWell DEF StoreInv
    <2>3. ClientTypes'
      BY <1>1, <2>2 DEF ClientTypes
    <2>4. ASSUME NEW s \in StoreSpaces, drift'[s] = {}
          PROVE  Follows(s)'
      <3>1. Indexed(s) /\ Consistent(calls, s, HeldIn(s), Truth(s))
        BY <1>1, <2>4 DEF StoreInv, Follows
      <3>2. Consistent(rest, s, HeldIn(s), Truth(s))
        BY <1>3, <1>4, <3>1, AnsweredElsewhere
      <3> QED
        BY <1>1, <1>2, <2>1, <3>1, <3>2, ClientRests DEF Follows
    <2> QED
      BY <1>2, <2>2, <2>3, <2>4 DEF StoreInv
  <1>5. CASE c.op = "move"
    <2>1. PICK d : d = Store!Call("list", c.space)
      OBVIOUS
    <2>2. Store!IsCall(d) /\ d.op = "list" /\ d.reply = Store!Waiting /\ d.space = c.space
      BY <1>3, <2>1, CallIs DEF Store!Call
    <2>3. calls' = Append(rest, d)
      BY <1>5, <2>1 DEF Store!Refused
    <2>4. IsCalls(rest) /\ \A j \in DOMAIN rest : \E k \in DOMAIN calls \ {i} : rest[j] = calls[k]
      <3>1. IsCalls(rest) /\ IsRest(rest, calls, i)
        BY <1>3, Removed, Zenon
      <3> QED
        BY <3>1 DEF IsRest
    <2>5. /\ IsCalls(Append(rest, d)) /\ DOMAIN Append(rest, d) = DOMAIN rest \cup {Len(rest) + 1}
          /\ \A j \in DOMAIN rest : Append(rest, d)[j] = rest[j]
          /\ Append(rest, d)[Len(rest) + 1] = d
      BY <2>2, <2>4, Appended
    <2>6. IsCalls(calls)'
      BY <2>3, <2>5 DEF IsCalls
    <2>7. CallsWell'
      <3> SUFFICES ASSUME NEW s \in StoreSpaces, NEW j \in DOMAIN calls', calls'[j].space = s
                   PROVE  CallWell(calls'[j], Truth(s))
        BY <1>2 DEF CallsWell
      <3>1. CASE calls'[j] = d
        <4>1. d.reply.answer = "waiting"
          BY <2>2, Kinds
        <4> QED
          BY <2>2, <3>1, <4>1 DEF CallWell
      <3>2. CASE calls'[j] # d
        <4>1. j \in DOMAIN rest /\ calls'[j] = rest[j]
          BY <2>3, <2>5, <3>2
        <4>2. PICK k \in DOMAIN calls \ {i} : rest[j] = calls[k]
          BY <2>4, <4>1
        <4> QED
          BY <4>1, <4>2 DEF StoreInv, CallsWell
      <3> QED
        BY <3>1, <3>2
    <2>8. ClientTypes'
      BY <1>1, <2>6 DEF ClientTypes
    <2>9. CallWell(c, Truth(c.space))
      BY <1>3 DEF StoreInv, CallsWell
    <2>10. c.page \in Pages
      BY <1>5, <2>9 DEF CallWell
    <2>11. ASSUME NEW s \in StoreSpaces, drift'[s] = {}
           PROVE  Follows(s)'
      <3>1. Indexed(s) /\ Consistent(calls, s, HeldIn(s), Truth(s))
        BY <1>1, <2>11 DEF StoreInv, Follows
      <3>2. Consistent(calls', s, HeldIn(s), Truth(s))
        BY <1>3, <1>5, <2>2, <2>3, <2>10, <3>1, MoveRefused, Zenon
      <3> QED
        BY <1>1, <1>2, <3>1, <3>2, ClientRests DEF Follows
    <2> QED
      BY <1>2, <2>7, <2>8, <2>11 DEF StoreInv
  <1> QED
    BY <1>4, <1>5

(* A space that an answer leaves alone. *)
LEMMA ElsewhereFollows ==
    ASSUME Store!StoreAssumption, ServerInv, ClientTypes, StoreInv, NEW i \in DOMAIN calls,
           NEW s \in StoreSpaces, drift[s] = {}, calls[i].space # s,
           calls' = Store!RemoveAt(calls, i), Truth(s)' = Truth(s),
           KnownIn(s)' = KnownIn(s), \A p \in KnownIn(s) : known'[p] = known[p],
           s \in DOMAIN listed', listed'[s] = listed[s]
    PROVE  Follows(s)'
  <1>1. Indexed(s) /\ Consistent(calls, s, HeldIn(s), Truth(s))
    BY DEF StoreInv, Follows
  <1>2. PICK rest : rest = Store!RemoveAt(calls, i)
    OBVIOUS
  <1>3. IsCalls(calls)
    BY DEF ClientTypes
  <1>4. Consistent(rest, s, HeldIn(s), Truth(s))
    BY <1>1, <1>2, <1>3, AnsweredElsewhere
  <1>5. HeldIn(s)' = HeldIn(s) /\ Indexed(s)'
    BY <1>1, SameHeld DEF Indexed
  <1> QED
    BY <1>2, <1>4, <1>5 DEF Follows

(* A space that an answer brings in order. *)
LEMMA ExactFollows ==
    ASSUME Store!StoreAssumption, ServerInv, ClientTypes, NEW i \in DOMAIN calls,
           NEW s \in StoreSpaces, Consistent(calls, s, HeldIn(s), Truth(s)),
           calls' = Store!RemoveAt(calls, i), Truth(s)' = Truth(s),
           KnownIn(s)' = Here(s), \A p \in Here(s) : known'[p] = Store!Entity(rows[p]),
           s \in DOMAIN listed', listed'[s] = Here(s)
    PROVE  Follows(s)'
  <1>1. HeldIn(s)' = Entities(Truth(s))
    BY TruthFacts DEF HeldIn, Entities
  <1>2. PICK rest : rest = Store!RemoveAt(calls, i)
    OBVIOUS
  <1>3. IsCalls(calls)
    BY DEF ClientTypes
  <1>4. Consistent(rest, s, Entities(Truth(s)), Truth(s))
    BY <1>2, <1>3, BroughtInOrder
  <1>5. Indexed(s)'
    BY DEF Indexed
  <1> QED
    BY <1>1, <1>2, <1>4, <1>5 DEF Follows

LEMMA ListingReceived ==
    ASSUME Store!StoreAssumption, ServerInv, ClientTypes, StoreInv, NEW i \in DOMAIN calls,
           NEW c, c = calls[i], NEW s, s = c.space, NEW f, f = c.reply.pages,
           c.reply.answer = "ok", c.op = "list", NEW rest, rest = Store!RemoveAt(calls, i),
           Store!Listing(c, rest), UNCHANGED <<rows, Store!bounds>>
    PROVE  ServerInv' /\ ClientTypes' /\ StoreInv'
  <1>1. /\ rows' = rows /\ sent' = sent /\ failures' = failures /\ others' = others
        /\ calls' = rest
        /\ drift' = IF c.fresh /\ rest = << >> THEN [drift EXCEPT ![s] = {}] ELSE drift
    BY DEF Store!Listing, Store!bounds
  <1>2. /\ DOMAIN known' = DOMAIN f \cup {q \in DOMAIN known : known[q].space # s}
        /\ known' = [p \in DOMAIN known' |-> known'[p]]
        /\ \A p \in DOMAIN known' : known'[p] = IF p \in DOMAIN f THEN f[p] ELSE known[p]
        /\ DOMAIN listed' = DOMAIN listed \cup {s}
             /\ listed' = [t \in DOMAIN listed' |-> listed'[t]]
        /\ \A t \in DOMAIN listed' :
             listed'[t] = IF t = s THEN {p \in DOMAIN f : f[p].space = s} ELSE listed[t]
    BY DEF Store!Listing, Store!ReceivedListing
  <1>3. ServerInv' /\ \A t : Truth(t)' = Truth(t)
    BY <1>1, RowsRest
  <1>4. /\ IsCalls(calls) /\ s \in StoreSpaces
        /\ DOMAIN f \subseteq Pages /\ f \in [DOMAIN f -> Store!EntityType]
    BY CallsAre, CallFields DEF ClientTypes
  <1>5. CallsWell' /\ IsCalls(calls)'
    BY <1>1, <1>3, RestWell DEF StoreInv
  <1>6. CallWell(c, Truth(s))
    BY <1>4 DEF StoreInv, CallsWell
  <1>7. \A p \in DOMAIN f : f[p].space = s
    BY <1>6 DEF CallWell
  <1>8. ClientTypes'
    <2>1. DOMAIN known' \subseteq Pages /\ \A p \in DOMAIN known' : known'[p] \in Store!EntityType
      BY <1>2, <1>4 DEF ClientTypes
    <2>2. DOMAIN listed' \subseteq StoreSpaces
            /\ \A t \in DOMAIN listed' : listed'[t] \in SUBSET Pages
      BY <1>2, <1>4, Zenon DEF ClientTypes
    <2>3. known' \in [DOMAIN known' -> Store!EntityType]
            /\ listed' \in [DOMAIN listed' -> SUBSET Pages]
      BY <1>2, <2>1, <2>2
    <2>4. drift' \in [StoreSpaces -> SUBSET Store!Reasons]
      BY <1>1, <1>4 DEF ClientTypes
    <2>5. {sent, failures, others}' \subseteq Nat
      BY <1>1 DEF ClientTypes
    <2> QED
      BY <1>5, <2>1, <2>2, <2>3, <2>4, <2>5 DEF ClientTypes
  <1>9. KnownIn(s)' = DOMAIN f /\ listed'[s] = DOMAIN f /\ s \in DOMAIN listed'
    <2>1. s \in DOMAIN listed' /\ listed'[s] = {p \in DOMAIN f : f[p].space = s}
      BY <1>2, Zenon
    <2>2. {p \in DOMAIN f : f[p].space = s} = DOMAIN f
      BY <1>7
    <2>3. KnownIn(s)' = {p \in DOMAIN known' : known'[p].space = s}
      BY DEF KnownIn
    <2>4. ASSUME NEW p \in DOMAIN f
          PROVE  p \in DOMAIN known' /\ known'[p].space = s
      BY <1>2, <1>7
    <2>5. ASSUME NEW p \in DOMAIN known', p \notin DOMAIN f
          PROVE  known'[p].space # s
      BY <1>2, <2>5
    <2> QED
      BY <2>1, <2>2, <2>3, <2>4, <2>5
  <1>10. \A p \in DOMAIN f : known'[p] = f[p]
    BY <1>2
  <1>11. ASSUME NEW t \in StoreSpaces, drift'[t] = {}
         PROVE  Follows(t)'
    <2>1. CASE t = s /\ drift[t] = {}
      <3>1. Indexed(t) /\ Consistent(calls, t, HeldIn(t), Truth(t))
        BY <2>1 DEF StoreInv, Follows
      <3>2. f = Entities(Truth(s))
        <4>1. Honest(c, s, Truth(s))
          BY <2>1, <3>1 DEF Consistent
        <4>2. Wanted(c, Truth(s)) = DOMAIN Truth(s)
          BY DEF Wanted
        <4> QED
          BY <4>1, <4>2 DEF Honest, Entities
      <3>3. DOMAIN f = Here(s) /\ \A p \in Here(s) : f[p] = Store!Entity(rows[p])
        BY <3>2, TruthFacts DEF Entities
      <3> QED
        BY <1>1, <1>3, <1>9, <1>10, <2>1, <3>1, <3>3, ExactFollows
    <2>2. CASE t = s /\ drift[t] # {}
      <3>1. c.fresh /\ rest = << >>
        BY <1>1, <1>11, <2>2
      <3>2. f = Entities(Truth(s))
        BY <1>6, <3>1 DEF CallWell
      <3>3. HeldIn(s)' = Entities(Truth(s))
        BY <1>9, <1>10, <3>2 DEF HeldIn, Entities
      <3>4. DOMAIN calls' = {}
        BY <1>1, <1>5, <3>1
      <3>5. Consistent(calls', s, Entities(Truth(s)), Truth(s))
        BY <3>4 DEF Consistent, AllRead, InOrder
      <3>6. Indexed(s)'
        BY <1>9 DEF Indexed
      <3> QED
        BY <1>3, <2>2, <3>3, <3>5, <3>6 DEF Follows
    <2>3. CASE t # s
      <3>1. drift[t] = {}
        BY <1>1, <1>11, <2>3
      <3>2. Indexed(t) /\ Consistent(calls, t, HeldIn(t), Truth(t))
        BY <3>1 DEF StoreInv, Follows
      <3>3. DOMAIN HeldIn(t) = DOMAIN Truth(t)
        BY <2>3, <3>2, HeldElsewhere
      <3>4. DOMAIN f \cap DOMAIN Truth(t) = {}
        <4>1. Honest(c, t, Truth(t))
          BY <3>2 DEF Consistent
        <4> QED
          BY <2>3, <4>1 DEF Honest
      <3>5. DOMAIN f \cap KnownIn(t) = {}
        BY <3>3, <3>4, HeldFacts
      <3>6. KnownIn(t)' = KnownIn(t) /\ \A p \in KnownIn(t) : known'[p] = known[p]
        BY <1>2, <1>7, <2>3, <3>5 DEF KnownIn
      <3>7. t \in DOMAIN listed' /\ listed'[t] = listed[t]
        BY <1>2, <2>3, <3>2, Zenon DEF Indexed
      <3>8. calls[i].space # t
        BY <2>3
      <3> QED
        BY <1>1, <1>3, <3>1, <3>6, <3>7, <3>8, ElsewhereFollows
    <2> QED
      BY <2>1, <2>2, <2>3
  <1> QED
    BY <1>3, <1>5, <1>8, <1>11 DEF StoreInv

LEMMA MergedElsewhere ==
    ASSUME Store!StoreAssumption, ServerInv, ClientTypes, StoreInv, NEW i \in DOMAIN calls,
           NEW c, c = calls[i], NEW s \in StoreSpaces, s = c.space, NEW p, p = c.page, NEW f, f
                 = c.reply.pages,
           c.reply.answer = "ok", c.op \in {"page", "move"}, DOMAIN f = {p}, f[p].space = s,
           calls' = Store!RemoveAt(calls, i),
           DOMAIN known' = DOMAIN known \cup {p},
           \A q \in DOMAIN known' : known'[q] = IF q = p THEN f[p] ELSE known[q],
           DOMAIN listed' = DOMAIN listed \cup {s},
           \A t \in DOMAIN listed' : t # s => listed'[t] = listed[t],
           NEW t \in StoreSpaces, t # s, drift[t] = {}, Truth(t)' = Truth(t)
    PROVE  Follows(t)'
  <1>1. Indexed(t) /\ Consistent(calls, t, HeldIn(t), Truth(t))
    BY DEF StoreInv, Follows
  <1>2. DOMAIN HeldIn(t) = DOMAIN Truth(t)
    BY <1>1, HeldElsewhere
  <1>3. p \notin DOMAIN Truth(t)
    <2>1. Honest(c, t, Truth(t))
      BY <1>1 DEF Consistent
    <2> QED
      BY <2>1 DEF Honest
  <1>4. p \notin KnownIn(t)
    BY <1>2, <1>3, HeldFacts
  <1>5. KnownIn(t)' = KnownIn(t)
    <2>1. KnownIn(t)' = {q \in DOMAIN known' : known'[q].space = t}
      BY DEF KnownIn
    <2>2. KnownIn(t) = {q \in DOMAIN known : known[q].space = t}
      BY DEF KnownIn
    <2>3. \A q \in DOMAIN known \ {p} : q \in DOMAIN known' /\ known'[q] = known[q]
      OBVIOUS
    <2>4. p \in DOMAIN known' /\ known'[p].space # t
      OBVIOUS
    <2> QED
      BY <1>4, <2>1, <2>2, <2>3, <2>4
  <1>6. \A q \in KnownIn(t) : known'[q] = known[q]
    BY <1>4 DEF KnownIn
  <1>7. t \in DOMAIN listed' /\ listed'[t] = listed[t]
    BY <1>1 DEF Indexed
  <1>8. calls[i].space # t
    OBVIOUS
  <1> QED
    BY <1>5, <1>6, <1>7, <1>8, ElsewhereFollows

LEMMA PageMerged ==
    ASSUME Store!StoreAssumption, ServerInv, ClientTypes, StoreInv, NEW i \in DOMAIN calls,
           NEW c, c = calls[i], NEW s \in StoreSpaces, s = c.space, NEW p, p = c.page, NEW f, f
                 = c.reply.pages,
           c.reply.answer = "ok", c.op = "page", DOMAIN f = {p}, f[p].space = s,
           calls' = Store!RemoveAt(calls, i),
           DOMAIN known' = DOMAIN known \cup {p},
           \A q \in DOMAIN known' : known'[q] = IF q = p THEN f[p] ELSE known[q],
           s \in DOMAIN listed', s \in DOMAIN listed => listed'[s] = {p} \cup listed[s],
           drift[s] = {}, Truth(s)' = Truth(s)
    PROVE  Follows(s)'
  <1>1. Indexed(s) /\ Consistent(calls, s, HeldIn(s), Truth(s))
    BY DEF StoreInv, Follows
  <1>2. p \in DOMAIN Truth(s) /\ f[p] = Store!Entity(Truth(s)[p])
    <2>1. Honest(c, s, Truth(s)) /\ Wanted(c, Truth(s)) = {p}
      BY <1>1 DEF Consistent, Wanted
    <2> QED
      BY <2>1 DEF Honest
  <1>3. DOMAIN HeldIn(s) = DOMAIN Truth(s)
    <2>1. ~ MoveUnderWay(calls, s, HeldIn(s), Truth(s))
            /\ ~ DeleteAnswered(calls, s, HeldIn(s), Truth(s))
      BY DEF MoveUnderWay, DeleteAnswered, Single
    <2> QED
      BY <1>1, <2>1 DEF Consistent, InOrder, Refetched, Entities, Astray
  <1>4. p \in KnownIn(s) /\ DOMAIN HeldIn(s) = KnownIn(s)
    BY <1>2, <1>3, HeldFacts
  <1>5. KnownIn(s)' = KnownIn(s)
    <2>1. KnownIn(s)' = {q \in DOMAIN known' : known'[q].space = s}
      BY DEF KnownIn
    <2>2. KnownIn(s) = {q \in DOMAIN known : known[q].space = s}
      BY DEF KnownIn
    <2>3. \A q \in DOMAIN known \ {p} : q \in DOMAIN known' /\ known'[q] = known[q]
      OBVIOUS
    <2>4. p \in DOMAIN known' /\ known'[p].space = s
      OBVIOUS
    <2> QED
      BY <1>4, <2>1, <2>2, <2>3, <2>4
  <1>6. PICK new : new = HeldIn(s)'
    OBVIOUS
  <1>7. DOMAIN new = DOMAIN HeldIn(s)
        /\ new = [q \in DOMAIN HeldIn(s) |-> IF q = p THEN Store!Entity(Truth(s)[p])
             ELSE HeldIn(s)[q]]
    <2>1. new = [q \in KnownIn(s) |-> known'[q]]
      BY <1>5, <1>6 DEF HeldIn
    <2>2. \A q \in KnownIn(s) : known'[q] = IF q = p THEN Store!Entity(Truth(s)[p])
            ELSE HeldIn(s)[q]
      <3>1. \A q \in KnownIn(s) : q \in DOMAIN known /\ HeldIn(s)[q] = known[q]
        BY HeldFacts
      <3> QED
        BY <1>2, <3>1
    <2> QED
      BY <1>4, <2>1, <2>2
  <1>8. PICK rest : rest = Store!RemoveAt(calls, i)
    OBVIOUS
  <1>9. IsCalls(calls) /\ calls[i].op = "page"
    BY DEF ClientTypes
  <1>10. Consistent(rest, s, new, Truth(s))
    BY <1>1, <1>2, <1>7, <1>8, <1>9, PageAnswered
  <1>11. Indexed(s)'
    <2>1. listed'[s] = KnownIn(s)
      BY <1>1, <1>4 DEF Indexed
    <2> QED
      BY <1>5, <2>1 DEF Indexed
  <1> QED
    BY <1>6, <1>8, <1>10, <1>11 DEF Follows

LEMMA MoveMerged ==
    ASSUME Store!StoreAssumption, ServerInv, ClientTypes, StoreInv, NEW i \in DOMAIN calls,
           NEW c, c = calls[i], NEW s \in StoreSpaces, s = c.space, NEW p, p = c.page, NEW f, f
                 = c.reply.pages,
           c.reply.answer = "ok", c.op = "move", DOMAIN f = {p}, f[p].space = s,
           calls' = Store!RemoveAt(calls, i),
           DOMAIN known' = DOMAIN known \cup {p},
           \A q \in DOMAIN known' : known'[q] = IF q = p THEN f[p] ELSE known[q],
           s \in DOMAIN listed', s \in DOMAIN listed => listed'[s] = {p} \cup listed[s],
           drift[s] = {}, Truth(s)' = Truth(s)
    PROVE  Follows(s)'
  <1> DEFINE H == Here(s)
  <1>1. Indexed(s) /\ Consistent(calls, s, HeldIn(s), Truth(s))
    BY DEF StoreInv, Follows
  <1>2. /\ DOMAIN Truth(s) = H /\ H \subseteq Pages
        /\ \A q \in H : Truth(s)[q] = rows[q] /\ rows[q] \in Tree!Row /\ rows[q].spaceId = s
    BY TruthFacts
  <1>3. p \in H /\ f[p] = Store!Entity(rows[p])
    <2>1. Honest(c, s, Truth(s)) /\ Wanted(c, Truth(s)) = {p}
      BY <1>1 DEF Consistent, Wanted
    <2> QED
      BY <1>2, <2>1 DEF Honest
  <1>4. MoveUnderWay(calls, s, HeldIn(s), Truth(s)) /\ calls[1] = c
    <2>1. Single(calls) /\ i = 1
      BY <1>1 DEF Consistent, AllRead, Single, Store!Reads
    <2> QED
      BY <1>1, <2>1 DEF Consistent, InOrder, Refetched, DeleteAnswered, AllRead, Store!Reads
  <1>5. DOMAIN HeldIn(s) = H /\ PlacedAs(HeldIn(s), Truth(s), Places(Truth(s)), p)
    BY <1>2, <1>4 DEF MoveUnderWay, Astray
  <1>6. KnownIn(s) = H /\ \A q \in H : HeldIn(s)[q] = known[q] /\ known[q].space = s
          /\ known[q] \in Store!EntityType
    BY <1>5, HeldFacts
  <1>7. KnownIn(s)' = H
    <2>1. KnownIn(s)' = {q \in DOMAIN known' : known'[q].space = s}
      BY DEF KnownIn
    <2>2. KnownIn(s) = {q \in DOMAIN known : known[q].space = s}
      BY DEF KnownIn
    <2>3. \A q \in DOMAIN known \ {p} : q \in DOMAIN known' /\ known'[q] = known[q]
      OBVIOUS
    <2>4. p \in DOMAIN known' /\ known'[p].space = s
      OBVIOUS
    <2> HIDE DEF H
    <2> QED
      BY <1>3, <1>6, <2>1, <2>2, <2>3, <2>4
  <1>8. ASSUME NEW q \in H
        PROVE  known'[q] = Store!Entity(rows[q])
    <2>1. CASE q = p
      BY <1>3, <2>1
    <2>2. CASE q # p
      <3>1. known'[q] = known[q]
        BY <1>6, <2>2 DEF KnownIn
      <3>2. Places(Truth(s))[q] = [parent |-> rows[q].parentId, order |-> rows[q].sortOrder]
        BY <1>2 DEF Places
      <3>3. /\ known[q].parent = rows[q].parentId /\ known[q].order = rows[q].sortOrder
            /\ known[q].token = rows[q].updateAt /\ known[q].space = rows[q].spaceId
        BY <1>2, <1>5, <1>6, <2>2, <3>2 DEF PlacedAs
      <3>4. known[q] \in Store!EntityType
        BY <1>6
      <3> HIDE DEF H
      <3> QED
        BY <3>1, <3>3, <3>4 DEF Store!EntityType, Store!Entity
    <2> QED
      BY <2>1, <2>2
  <1>9. listed'[s] = H
    <2>1. s \in DOMAIN listed /\ listed[s] = H
      BY <1>1, <1>6 DEF Indexed
    <2>2. listed'[s] = {p} \cup listed[s]
      BY <2>1
    <2> HIDE DEF H
    <2> QED
      BY <1>3, <2>1, <2>2
  <1> QED
    BY <1>1, <1>7, <1>8, <1>9, ExactFollows

LEMMA MergedReceived ==
    ASSUME Store!StoreAssumption, ServerInv, ClientTypes, StoreInv, NEW i \in DOMAIN calls,
           NEW c, c = calls[i], NEW s, s = c.space, NEW p, p = c.page, NEW f, f = c.reply.pages,
           c.reply.answer = "ok", c.op \in {"page", "move"}, NEW rest, rest
             = Store!RemoveAt(calls, i),
           Store!Merged(c, rest), UNCHANGED <<rows, Store!bounds>>
    PROVE  ServerInv' /\ ClientTypes' /\ StoreInv'
  <1>1. /\ rows' = rows /\ sent' = sent /\ failures' = failures /\ others' = others
        /\ calls' = rest /\ drift' = drift
    BY DEF Store!Merged, Store!bounds
  <1>2. ServerInv' /\ \A t : Truth(t)' = Truth(t)
    BY <1>1, RowsRest
  <1>3. /\ IsCalls(calls) /\ s \in StoreSpaces
        /\ DOMAIN f \subseteq Pages /\ f \in [DOMAIN f -> Store!EntityType]
    BY CallsAre, CallFields DEF ClientTypes
  <1>4. CallsWell' /\ IsCalls(calls)'
    BY <1>1, <1>2, RestWell DEF StoreInv
  <1>5. CallWell(c, Truth(s))
    BY <1>3 DEF StoreInv, CallsWell
  <1>6. DOMAIN f = {p} /\ f[p].space = s
    BY <1>5 DEF CallWell
  <1>7. /\ DOMAIN known' = DOMAIN known \cup {p}
        /\ known' = [q \in DOMAIN known' |-> known'[q]]
        /\ \A q \in DOMAIN known' : known'[q] = IF q = p THEN f[p] ELSE known[q]
        /\ DOMAIN listed' = DOMAIN listed \cup {s}
             /\ listed' = [t \in DOMAIN listed' |-> listed'[t]]
        /\ \A t \in DOMAIN listed' :
             listed'[t] = IF t = s THEN {p} \cup (IF t \in DOMAIN listed THEN listed[t] ELSE {})
               ELSE listed[t]
    <2>1. Store!ReceivedPage(p, f[p])
      BY DEF Store!Merged
    <2> QED
      BY <1>6, <2>1 DEF Store!ReceivedPage
  <1>8. ClientTypes'
    <2>1. p \in Pages /\ f[p] \in Store!EntityType
      BY <1>3, <1>6
    <2>2. DOMAIN known' \subseteq Pages /\ \A q \in DOMAIN known' : known'[q] \in Store!EntityType
      BY <1>7, <2>1 DEF ClientTypes
    <2>3. DOMAIN listed' \subseteq StoreSpaces
            /\ \A t \in DOMAIN listed' : listed'[t] \in SUBSET Pages
      <3>1. DOMAIN listed \subseteq StoreSpaces
              /\ \A t \in DOMAIN listed : listed[t] \in SUBSET Pages
        BY DEF ClientTypes
      <3>2. ASSUME NEW t \in DOMAIN listed'
            PROVE  listed'[t] \in SUBSET Pages
        <4>1. CASE t = s /\ t \in DOMAIN listed
          <5>1. listed'[t] = {p} \cup listed[t]
            BY <1>7, <4>1, Zenon
          <5> QED
            BY <2>1, <3>1, <4>1, <5>1
        <4>2. CASE t = s /\ t \notin DOMAIN listed
          <5>1. listed'[t] = {p} \cup {}
            BY <1>7, <4>2, Zenon
          <5> QED
            BY <2>1, <5>1
        <4>3. CASE t # s
          BY <1>7, <3>1, <4>3, Zenon
        <4> QED
          BY <4>1, <4>2, <4>3
      <3>3. DOMAIN listed' \subseteq StoreSpaces
        BY <1>3, <1>7, <3>1
      <3> QED
        BY <3>2, <3>3
    <2>4. known' \in [DOMAIN known' -> Store!EntityType]
            /\ listed' \in [DOMAIN listed' -> SUBSET Pages]
      BY <1>7, <2>2, <2>3
    <2>5. drift' \in [StoreSpaces -> SUBSET Store!Reasons]
            /\ {sent, failures, others}' \subseteq Nat
      BY <1>1 DEF ClientTypes
    <2> QED
      BY <1>4, <2>2, <2>3, <2>4, <2>5 DEF ClientTypes
  <1>9. s \in DOMAIN listed' /\ (s \in DOMAIN listed => listed'[s] = {p} \cup listed[s])
    BY <1>7, Zenon
  <1>10. \A t \in DOMAIN listed' : t # s => listed'[t] = listed[t]
    BY <1>7, Zenon
  <1>11. ASSUME NEW t \in StoreSpaces, drift'[t] = {}
         PROVE  Follows(t)'
    <2>1. drift[t] = {}
      BY <1>1, <1>11
    <2>2. CASE t # s
      BY <1>1, <1>2, <1>3, <1>6, <1>7, <1>10, <2>1, <2>2, MergedElsewhere
    <2>3. CASE t = s /\ c.op = "page"
      BY <1>1, <1>2, <1>3, <1>6, <1>7, <1>9, <2>1, <2>3, PageMerged
    <2>4. CASE t = s /\ c.op = "move"
      BY <1>1, <1>2, <1>3, <1>6, <1>7, <1>9, <2>1, <2>4, MoveMerged
    <2> QED
      BY <2>2, <2>3, <2>4
  <1> QED
    BY <1>2, <1>4, <1>8, <1>11 DEF StoreInv

LEMMA PrunedReceived ==
    ASSUME Store!StoreAssumption, ServerInv, ClientTypes, StoreInv, NEW i \in DOMAIN calls,
           NEW c, c = calls[i], NEW s, s = c.space, NEW ids, ids = c.ids,
           c.reply.answer = "ok", c.op = "delete", NEW rest, rest = Store!RemoveAt(calls, i),
           Store!Pruned(c, rest), UNCHANGED <<rows, Store!bounds>>
    PROVE  ServerInv' /\ ClientTypes' /\ StoreInv'
  <1>1. /\ rows' = rows /\ sent' = sent /\ failures' = failures /\ others' = others
        /\ calls' = rest /\ drift' = drift
    BY DEF Store!Pruned, Store!bounds
  <1>2. ServerInv' /\ \A t : Truth(t)' = Truth(t)
    BY <1>1, RowsRest
  <1>3. IsCalls(calls) /\ s \in StoreSpaces
    BY CallsAre, CallFields DEF ClientTypes
  <1>4. CallsWell' /\ IsCalls(calls)'
    BY <1>1, <1>2, RestWell DEF StoreInv
  <1>5. /\ DOMAIN known' = DOMAIN known \ ids /\ known' = [q \in DOMAIN known \ ids |-> known[q]]
        /\ DOMAIN listed' = DOMAIN listed
        /\ listed' = [t \in DOMAIN listed |-> IF t = s THEN listed[t] \ ids ELSE listed[t]]
    <2>1. known' = [q \in DOMAIN known \ ids |-> known[q]]
      BY DEF Store!Pruned, Store!DeletedPage, Store!Restrict
    <2>2. listed' = IF s \in DOMAIN listed THEN [listed EXCEPT ![s] = @ \ ids] ELSE listed
      BY DEF Store!Pruned, Store!DeletedPage
    <2>3. listed = [t \in DOMAIN listed |-> listed[t]]
      BY DEF ClientTypes
    <2>4. CASE s \in DOMAIN listed
      BY <2>1, <2>2, <2>3, <2>4, Zenon
    <2>5. CASE s \notin DOMAIN listed
      BY <2>1, <2>2, <2>3, <2>5
    <2> QED
      BY <2>4, <2>5
  <1>6. ClientTypes'
    <2>1. DOMAIN known' \subseteq Pages /\ known' \in [DOMAIN known' -> Store!EntityType]
      BY <1>5 DEF ClientTypes
    <2>2. DOMAIN listed' \subseteq StoreSpaces /\ listed' \in [DOMAIN listed' -> SUBSET Pages]
      BY <1>5 DEF ClientTypes
    <2>3. drift' \in [StoreSpaces -> SUBSET Store!Reasons]
            /\ {sent, failures, others}' \subseteq Nat
      BY <1>1 DEF ClientTypes
    <2> QED
      BY <1>4, <2>1, <2>2, <2>3 DEF ClientTypes
  <1>7. \A t : KnownIn(t)' = KnownIn(t) \ ids
    BY <1>5 DEF KnownIn
  <1>8. ASSUME NEW t \in StoreSpaces, drift'[t] = {}
        PROVE  Follows(t)'
    <2>1. drift[t] = {}
      BY <1>1, <1>8
    <2>2. Indexed(t) /\ Consistent(calls, t, HeldIn(t), Truth(t))
      BY <2>1 DEF StoreInv, Follows
    <2>3. DOMAIN HeldIn(t) = KnownIn(t) /\ \A q \in KnownIn(t) : HeldIn(t)[q] = known[q]
            /\ q \in DOMAIN known
      BY HeldFacts
    <2>4. DOMAIN Truth(t) = Here(t) /\ \A q \in Here(t) : Truth(t)[q] = rows[q]
      BY TruthFacts
    <2>5. CASE t = s
      <3>1. DeleteAnswered(calls, t, HeldIn(t), Truth(t)) /\ calls[1] = c
        <4>1. Single(calls) /\ i = 1
          BY <2>2 DEF Consistent, AllRead, Single, Store!Reads
        <4> QED
          BY <2>2, <2>5, <4>1 DEF Consistent, InOrder, Refetched, MoveUnderWay, AllRead, Store!Reads
      <3>2. KnownIn(t)' = Here(t)
        <4>1. DOMAIN HeldIn(t) = Here(t) \cup {c.page} /\ c.page \in ids /\ ids \cap Here(t) = {}
          BY <2>4, <3>1 DEF DeleteAnswered
        <4> QED
          BY <1>7, <2>3, <4>1, Zenon
      <3>3. \A q \in Here(t) : known'[q] = Store!Entity(rows[q])
        <4>1. \A q \in Here(t) : HeldIn(t)[q] = Store!Entity(rows[q]) /\ q \in KnownIn(t)
                /\ q \notin ids
          BY <2>3, <2>4, <3>1 DEF DeleteAnswered
        <4> QED
          BY <1>5, <2>3, <4>1
      <3>4. t \in DOMAIN listed' /\ listed'[t] = Here(t)
        BY <1>5, <1>7, <2>2, <2>5, <3>2 DEF Indexed
      <3> QED
        BY <1>1, <1>2, <2>2, <3>2, <3>3, <3>4, ExactFollows
    <2>6. CASE t # s
      <3>1. DOMAIN HeldIn(t) = DOMAIN Truth(t)
        BY <2>2, <2>6, HeldElsewhere
      <3>2. ids \cap KnownIn(t) = {}
        <4>1. Prunes(c, t, Truth(t))
          BY <2>2 DEF Consistent
        <4> QED
          BY <2>3, <2>6, <3>1, <4>1 DEF Prunes
      <3>3. KnownIn(t)' = KnownIn(t) /\ \A q \in KnownIn(t) : known'[q] = known[q]
        BY <1>5, <1>7, <2>3, <3>2, Zenon
      <3>4. t \in DOMAIN listed' /\ listed'[t] = listed[t]
        BY <1>5, <2>2, <2>6 DEF Indexed
      <3>5. calls[i].space # t
        BY <2>6
      <3> QED
        BY <1>1, <1>2, <2>1, <3>3, <3>4, <3>5, ElsewhereFollows
    <2> QED
      BY <2>5, <2>6
  <1> QED
    BY <1>2, <1>4, <1>6, <1>8 DEF StoreInv

LEMMA ReceiveKeeps ==
    ASSUME Store!StoreAssumption, ServerInv, ClientTypes, StoreInv, Store!Receive
    PROVE  ServerInv' /\ ClientTypes' /\ StoreInv'
  <1>1. PICK i \in DOMAIN calls :
          LET c == calls[i] rest == Store!RemoveAt(calls, i)
          IN \/ c.reply = Store!Failed /\ Store!Refused(c, rest)
             \/ c.reply.answer = "ok" /\ c.op = "list" /\ Store!Listing(c, rest)
             \/ c.reply.answer = "ok" /\ c.op \in {"page", "move"} /\ Store!Merged(c, rest)
             \/ c.reply.answer = "ok" /\ c.op = "delete" /\ Store!Pruned(c, rest)
    BY DEF Store!Receive
  <1>2. UNCHANGED <<rows, Store!bounds>>
    BY DEF Store!Receive
  <1>3. PICK c : c = calls[i]
    OBVIOUS
  <1>4. PICK rest : rest = Store!RemoveAt(calls, i)
    OBVIOUS
  <1>5. CASE calls[i].reply = Store!Failed /\ Store!Refused(calls[i], rest)
    BY <1>2, <1>4, <1>5, RefusedReceived
  <1>6. CASE c.reply.answer = "ok" /\ c.op = "list" /\ Store!Listing(c, rest)
    BY <1>2, <1>3, <1>4, <1>6, ListingReceived
  <1>7. CASE c.reply.answer = "ok" /\ c.op \in {"page", "move"} /\ Store!Merged(c, rest)
    BY <1>2, <1>3, <1>4, <1>7, MergedReceived
  <1>8. CASE c.reply.answer = "ok" /\ c.op = "delete" /\ Store!Pruned(c, rest)
    BY <1>2, <1>3, <1>4, <1>8, PrunedReceived
  <1> QED
    BY <1>1, <1>3, <1>4, <1>5, <1>6, <1>7, <1>8

-----------------------------------------------------------------------------
(* Other users, and the beginning                                          *)

LEMMA OtherKeeps ==
    ASSUME Store!StoreAssumption, ServerInv, ServerInv', ClientTypes, StoreInv,
           NEW touched \in SUBSET StoreSpaces, Store!Other(touched),
           \A s : s \notin touched => Steady(s)
    PROVE  ClientTypes' /\ StoreInv'
  <1>1. /\ known' = known /\ listed' = listed /\ sent' = sent /\ failures' = failures
        /\ others' = others + 1
    BY DEF Store!Other, Store!client
  <1>2. /\ DOMAIN calls' = DOMAIN calls /\ calls' = [j \in DOMAIN calls |-> calls'[j]]
        /\ \A j \in DOMAIN calls : calls'[j] = [calls[j] EXCEPT !.fresh = FALSE]
    BY DEF Store!Other
  <1>3. /\ drift' \in [StoreSpaces -> SUBSET Store!Reasons]
        /\ \A s \in StoreSpaces : drift'[s] = {} => drift[s] = {} /\ s \notin touched
    BY Zenon DEF Store!Other, ClientTypes, Store!Reasons
  <1>4. ASSUME NEW j \in DOMAIN calls
        PROVE  /\ Store!IsCall(calls'[j]) /\ Alike(calls[j], calls'[j])
               /\ calls'[j].reply = calls[j].reply /\ calls'[j].fresh = FALSE
    <2>1. PICK c : c = calls[j]
      OBVIOUS
    <2>2. PICK d : d = calls'[j]
      OBVIOUS
    <2>3. d = [c EXCEPT !.fresh = FALSE] /\ Store!IsCall(c)
      BY <1>2, <2>1, <2>2, CallsAre DEF ClientTypes
    <2>4. /\ Store!IsCall(d) /\ d.reply = c.reply /\ d.fresh = FALSE
          /\ d.op = c.op /\ d.space = c.space /\ d.page = c.page /\ d.parent = c.parent
          /\ d.index = c.index /\ d.token = c.token /\ d.ids = c.ids
      BY <2>3, StaleCall, Zenon
    <2> QED
      BY <2>1, <2>2, <2>4 DEF Alike
  <1>5. IsCalls(calls)'
    <2>1. IsCalls(calls')
      BY <1>2, <1>4, Rewritten, Zenon DEF ClientTypes
    <2> QED
      BY <2>1 DEF IsCalls
  <1>6. ClientTypes'
    <2>1. {sent, failures, others}' \subseteq Nat
      BY <1>1 DEF ClientTypes
    <2> QED
      BY <1>1, <1>3, <1>5, <2>1 DEF ClientTypes
  <1>7. CallsWell'
    <2>1. \A j \in DOMAIN calls : calls[j].space \in StoreSpaces
      BY CallsAre, CallFields DEF ClientTypes
    <2> SUFFICES ASSUME NEW j \in DOMAIN calls, NEW t
                 PROVE  CallWell(calls'[j], t)
      BY <1>2 DEF CallsWell
    <2> QED
      BY <1>4, <2>1, StaleWell, Zenon DEF StoreInv
  <1>8. ASSUME NEW s \in StoreSpaces, drift'[s] = {}
        PROVE  Follows(s)'
    <2>1. Indexed(s) /\ Consistent(calls, s, HeldIn(s), Truth(s))
      BY <1>3, <1>8 DEF StoreInv, Follows
    <2>2. Truth(s)' = Truth(s)
      BY <1>3, <1>8, SteadyTruth
    <2>3. Consistent(calls', s, HeldIn(s), Truth(s))
      <3>1. PICK held : held = HeldIn(s)
        OBVIOUS
      <3>2. PICK truth : truth = Truth(s)
        OBVIOUS
      <3>3. PICK next : next = calls'
        OBVIOUS
      <3>4. Consistent(calls, s, held, truth)
        BY <2>1, <3>1, <3>2
      <3>5. DOMAIN next = DOMAIN calls
            /\ \A i \in DOMAIN calls : Alike(calls[i], next[i]) /\ next[i].reply = calls[i].reply
        BY <1>2, <1>4, <3>3, Zenon
      <3>6. Consistent(next, s, held, truth)
        BY <3>4, <3>5, OvertakenSame
      <3> QED
        BY <3>1, <3>2, <3>3, <3>6
    <2> QED
      BY <1>1, <2>1, <2>2, <2>3, ClientRests DEF Follows
  <1> QED
    BY <1>6, <1>7, <1>8 DEF StoreInv

LEMMA OthersKeep ==
    ASSUME Store!StoreAssumption, ServerInv, ClientTypes, StoreInv,
           \/ Store!OtherMoves \/ Store!OtherRelocates \/ Store!OtherDeletes \/ Store!OtherEdits
    PROVE  ServerInv' /\ ClientTypes' /\ StoreInv'
  <1>1. CASE Store!OtherMoves
    <2>1. PICK s \in StoreSpaces, p \in Pages, d \in Pages \cup {NoPage} :
            Store!Server!MovePageToIndex(p, s, d, Forced) /\ Store!Other({s})
      BY <1>1 DEF Store!OtherMoves
    <2>2. ServerInv' /\ \A r : r # s => Steady(r)
      BY <2>1, MoveKeeps
    <2> QED
      BY <2>1, <2>2, OtherKeeps
  <1>2. CASE Store!OtherRelocates
    <2>1. PICK s \in StoreSpaces, t \in StoreSpaces, p \in Pages, d \in Pages \cup {NoPage} :
            Store!Server!MovePageToSpace(p, s, t, d, Forced) /\ Store!Other({s, t})
      BY <1>2, Zenon DEF Store!OtherRelocates
    <2>2. ServerInv' /\ \A r : r \notin {s, t} => Steady(r)
      BY <2>1, RelocateKeeps, Zenon
    <2> QED
      BY <2>1, <2>2, OtherKeeps
  <1>3. CASE Store!OtherDeletes
    <2>1. PICK p \in Pages : Store!Server!DeletePage(p, 1) /\ Store!Other({rows[p].spaceId})
      BY <1>3, Zenon DEF Store!OtherDeletes
    <2>2. ServerInv' /\ \A r : r # rows[p].spaceId => Steady(r)
      BY <2>1, DeleteKeeps
    <2>3. rows[p].spaceId \in StoreSpaces
      <3>1. Tree!Live(p)
        BY <2>1, SameServer DEF Store!Server!DeletePage
      <3> QED
        BY <3>1, InSpaceFacts
    <2> QED
      BY <2>1, <2>2, <2>3, OtherKeeps
  <1>4. CASE Store!OtherEdits
    <2>1. PICK p \in Pages : Store!Server!EditPage(p) /\ Store!Other({rows[p].spaceId})
      BY <1>4, Zenon DEF Store!OtherEdits
    <2>2. ServerInv' /\ \A r : r # rows[p].spaceId => Steady(r)
      BY <2>1, EditKeeps
    <2>3. rows[p].spaceId \in StoreSpaces
      <3>1. Tree!Live(p)
        BY <2>1, SameServer DEF Store!Server!EditPage
      <3> QED
        BY <3>1, InSpaceFacts
    <2> QED
      BY <2>1, <2>2, <2>3, OtherKeeps
  <1> QED
    BY <1>1, <1>2, <1>3, <1>4

LEMMA StoreStarts ==
    ASSUME Store!StoreAssumption, Store!Init
    PROVE  ServerInv /\ ClientTypes /\ StoreInv
  <1>1. ServerInv
    BY ServerInit
  <1>2. PICK s \in StoreSpaces : \A p \in Pages : Tree!Live(p) /\ rows[p].spaceId = s
    BY ServerInit
  <1>3. /\ known = [p \in {q \in Pages : rows[q].spaceId \in Opened} |-> Store!Entity(rows[p])]
        /\ listed = [t \in Opened |-> {p \in Pages : rows[p].spaceId = t}]
        /\ calls = << >> /\ sent = 0 /\ failures = 0 /\ others = 0
        /\ drift = [t \in StoreSpaces |-> IF t \in Opened THEN {} ELSE {"unlisted"}]
    BY DEF Store!Init
  <1>4. Opened \subseteq StoreSpaces
    BY DEF Store!StoreAssumption
  <1>5. rows \in [Pages -> Tree!Row] /\ \A t : \A p : p \in Here(t) <=> p \in Pages
          /\ rows[p].spaceId = t
    BY <1>1, <1>2, InSpaceFacts
  <1>6. IsCalls(calls) /\ DOMAIN calls = {}
    <2>1. DOMAIN calls = {}
      BY <1>3
    <2>2. calls \in Seq(Store!Range(calls))
      BY <1>3
    <2>3. Store!Range(calls) = {}
      BY <2>1 DEF Store!Range
    <2> QED
      BY <2>1, <2>2, <2>3 DEF IsCalls
  <1>7. /\ DOMAIN known \subseteq Pages /\ known = [p \in DOMAIN known |-> known[p]]
        /\ \A p \in DOMAIN known : /\ rows[p].spaceId \in Opened
                                   /\ known[p] = Store!Entity(rows[p])
                                        /\ known[p] \in Store!EntityType
                                   /\ known[p].space = rows[p].spaceId
    <2>1. /\ DOMAIN known = {q \in Pages : rows[q].spaceId \in Opened}
          /\ known = [p \in DOMAIN known |-> known[p]]
          /\ \A p \in DOMAIN known : known[p] = Store!Entity(rows[p])
      BY <1>3
    <2>2. ASSUME NEW p \in DOMAIN known
          PROVE  Store!Entity(rows[p]) \in Store!EntityType
                   /\ Store!Entity(rows[p]).space = rows[p].spaceId
      <3>1. rows[p] \in Tree!Row /\ rows[p].spaceId \in StoreSpaces
        BY <1>4, <1>5, <2>1
      <3> QED
        BY <3>1, EntityOf
    <2> QED
      BY <2>1, <2>2
  <1>8. ClientTypes
    <2>1. DOMAIN listed = Opened /\ listed \in [DOMAIN listed -> SUBSET Pages]
      BY <1>3
    <2>2. drift \in [StoreSpaces -> SUBSET Store!Reasons]
      BY <1>3 DEF Store!Reasons
    <2>3. known \in [DOMAIN known -> Store!EntityType]
      BY <1>7
    <2> QED
      BY <1>3, <1>4, <1>6, <1>7, <2>1, <2>2, <2>3 DEF ClientTypes
  <1>9. CallsWell
    BY <1>6 DEF CallsWell
  <1>10. ASSUME NEW t \in StoreSpaces, drift[t] = {}
         PROVE  Follows(t)
    <2>1. t \in Opened
      BY <1>3, <1>10
    <2>2. KnownIn(t) = Here(t)
      <3>1. \A p \in Here(t) : p \in DOMAIN known /\ known[p].space = t
        BY <1>3, <1>5, <1>7, <2>1, Zenon
      <3> QED
        BY <1>5, <1>7, <3>1 DEF KnownIn
    <2>3. listed[t] = Here(t) /\ t \in DOMAIN listed
      <3>1. Here(t) = {p \in Pages : rows[p].spaceId = t}
        BY <1>5
      <3> QED
        BY <1>3, <2>1, <3>1
    <2>4. HeldIn(t) = Entities(Truth(t))
      <3>1. \A p \in Here(t) : known[p] = Store!Entity(rows[p])
        BY <1>7, <2>2 DEF KnownIn
      <3> QED
        BY <2>2, <3>1 DEF HeldIn, Entities, Truth
    <2>5. Consistent(calls, t, HeldIn(t), Truth(t))
      BY <1>6, <2>4 DEF Consistent, AllRead, InOrder
    <2> QED
      BY <2>2, <2>3, <2>5 DEF Follows, Indexed
  <1> QED
    BY <1>1, <1>8, <1>9, <1>10 DEF StoreInv

LEMMA StoreStutters ==
    ASSUME Store!StoreAssumption, ServerInv, ClientTypes, StoreInv, UNCHANGED Store!vars
    PROVE  ServerInv' /\ ClientTypes' /\ StoreInv'
  <1>1. /\ rows' = rows /\ known' = known /\ listed' = listed /\ calls' = calls /\ drift' = drift
        /\ sent' = sent /\ failures' = failures /\ others' = others
    BY DEF Store!vars
  <1>2. ServerInv' /\ \A s : Truth(s)' = Truth(s)
    BY <1>1, RowsRest
  <1>3. ClientTypes'
    BY <1>1 DEF ClientTypes, IsCalls
  <1>4. CallsWell'
    BY <1>1, <1>2 DEF StoreInv, CallsWell
  <1>5. \A s \in StoreSpaces : drift'[s] = {} => Follows(s)'
    BY <1>1, <1>2, ClientRests DEF StoreInv, Follows
  <1> QED
    BY <1>2, <1>3, <1>4, <1>5 DEF StoreInv

LEMMA StoreStep ==
    ASSUME Store!StoreAssumption, ServerInv, ClientTypes, StoreInv, [Store!Next]_(Store!vars)
    PROVE  ServerInv' /\ ClientTypes' /\ StoreInv'
  <1>1. CASE Store!Next
    BY <1>1, FetchesKeep, MovePageKeeps, DeletePageKeeps, ServeKeeps, FailKeeps, ReceiveKeeps,
      OthersKeep
    DEF Store!Next
  <1>2. CASE UNCHANGED Store!vars
    BY <1>2, StoreStutters
  <1> QED
    BY <1>1, <1>2

LEMMA StoreTypes ==
    ASSUME ServerInv, ClientTypes
    PROVE  Store!TypeOK
  <1>1. rows \in [Pages -> Tree!Row]
    BY DEF ServerInv, Tree!TreeInv, Tree!TypeOK
  <1>2. Store!Server!Row = Tree!Row
    BY DEF Store!Server!Row, Tree!Row, Store!Server!ParentIds, Tree!ParentIds
  <1> QED
    BY <1>1, <1>2 DEF ClientTypes, IsCalls, Store!TypeOK

(* The tree of a space that nothing has overtaken is the server's as soon as    *)
(* nothing is under way, and drops no page before.                              *)
THEOREM StoreFollows ==
    ASSUME Store!StoreAssumption
    PROVE  Store!Spec => [](Store!TypeOK /\ Store!TreeFollowsTheServer
                              /\ Store!OwnMovesDropNothing)
  <1> DEFINE Inv == ServerInv /\ ClientTypes /\ StoreInv
  <1>1. Store!Init => Inv
    BY StoreStarts
  <1>2. Inv /\ [Store!Next]_(Store!vars) => Inv'
    BY StoreStep
  <1>3. Inv => Store!TypeOK /\ Store!TreeFollowsTheServer /\ Store!OwnMovesDropNothing
    BY StoreTypes, StoreInvIsEnough
  <1> QED
    BY <1>1, <1>2, <1>3, PTL DEF Store!Spec

==============================================================================
