------------------------------- MODULE PageRoute -------------------------------
(***************************************************************************)
(* The address of the routed page or draft of one space: the pushes and    *)
(* replacements of the browser's history (hooks/navigation, drafts, pages, *)
(* the modals), the loads a visit starts and the redirects of space_view,  *)
(* over the client's pages and drafts (store/entities, actions, selectors) *)
(* and the server's.                                                       *)
(*                                                                         *)
(* An address is [at, id, edit].  A store change, the render it causes and *)
(* the effects of that render are one step (React 18 flushes a store       *)
(* update before the promise that dispatched it continues); a redirect is  *)
(* a step of its own.                                                      *)
(***************************************************************************)
EXTENDS Integers, Sequences, FiniteSets

CONSTANTS
  Ids, NoId,       \* ids of pages, published or not
  InitPages, InitDrafts,  \* the server's pages, and the user's drafts, at first
  PageLinks, DraftLinks,  \* ids the user holds a link to
  DefaultPage,     \* the space's default page, or NoId
  Listed,          \* the space's listings are in at first
  Failures,        \* requests may fail
  Outside,         \* what other tabs and users do
  MaxOutside, MaxVisits, MaxEntries   \* bounds

RouteAssumption ==
  /\ NoId \notin Ids /\ InitPages \subseteq Ids /\ InitDrafts \subseteq Ids
  /\ PageLinks \subseteq Ids /\ DraftLinks \subseteq Ids
  /\ DefaultPage \in Ids \cup {NoId}
  /\ Listed \in BOOLEAN /\ Failures \in BOOLEAN
  /\ Outside \subseteq {"publish", "discard", "delete", "arrive"}
  /\ {MaxOutside, MaxVisits, MaxEntries} \subseteq Nat

VARIABLES
  pages, drafts,  \* the server's
  store,          \* the client's: pages, each draft ("none", "summary", "full"),
                  \* the space's index of drafts
  entries,        \* the history up to the present address
  load,           \* loadedId, the draft's request, checkedId, the page's request
  late,           \* pages still asked for by a visit that is over
  lists,          \* the listings' requests
  busy,           \* the command that waits for its answer
  gone,           \* what is routed was seen missing on the server in this visit
  hops,           \* redirects since something else happened
  outside, visits

server == <<pages, drafts>>
vars == <<server, store, entries, load, late, lists, busy, gone, hops, outside, visits>>

HomeUrl == [at |-> "home", id |-> NoId, edit |-> FALSE]
Overview == [at |-> "overview", id |-> NoId, edit |-> FALSE]
Page(id) == [at |-> "page", id |-> id, edit |-> FALSE]
DraftOf(id) == [at |-> "draft", id |-> id, edit |-> FALSE]
Editing(url) == [url EXCEPT !.edit = TRUE]
Addresses(ps, ds) == {HomeUrl, Overview} \cup {Page(id) : id \in ps} \cup {DraftOf(id) : id \in ds}

Idle == [phase |-> "idle", ids |-> {}]
NoCommand == [op |-> "none", id |-> NoId, viewing |-> FALSE, phase |-> "idle"]

Top(es) == es[Len(es)]
Url == Top(entries)
Push(url) == Append(entries, url)
Replace(url) == [entries EXCEPT ![Len(entries)] = url]

Missing(url, st) == url.at \in {"page", "draft"} /\ url.id \notin st.pages
Absent(url, ps, ds) ==
  \/ url.at = "page" /\ url.id \notin ps
  \/ url.at = "draft" /\ url.id \notin ds

-----------------------------------------------------------------------------
(* Effects of a render *)

AskPage(url, st) == IF url.at = "page" /\ Missing(url, st) THEN "sent" ELSE "idle"
AskDraft(url) == IF url.id = NoId THEN "idle" ELSE "sent"

\* Mutant of Loaded: what the last visit loaded still counts.
LoadedKept(url, next, loaded) == loaded
Loaded(url, next, loaded) == IF url.id = next.id THEN loaded ELSE NoId

\* A new id aborts the draft's request and starts its own; the page is asked
\* for again when it is another, or goes missing.
Effects(now) ==
  LET next == Top(entries')
      asked(url, st) == <<url.id, Missing(url, st), url.at = "draft">>
      again == asked(Url, store) # asked(next, store')
  IN /\ load' = [loaded |-> Loaded(Url, next, now.loaded),
                 draft |-> IF Url.id = next.id THEN now.draft ELSE AskDraft(next),
                 checked |-> now.checked,
                 page |-> IF again THEN AskPage(next, store') ELSE now.page]
     /\ late' = IF again /\ now.page \notin {"idle"} THEN late \cup {Url.id} ELSE late
     /\ gone' = (Absent(next, pages', drafts')
                   \/ (gone /\ next.at = Url.at /\ next.id = Url.id))

Init ==
  /\ pages = InitPages /\ drafts = InitDrafts
  /\ store = IF Listed
             THEN [pages |-> pages, listed |-> drafts,
                   draft |-> [id \in Ids |-> IF id \in drafts THEN "summary" ELSE "none"]]
             ELSE [pages |-> {}, listed |-> {}, draft |-> [id \in Ids |-> "none"]]
  /\ \E url \in Addresses(PageLinks, DraftLinks) : entries = <<url>>
  /\ load = [loaded |-> NoId, draft |-> AskDraft(Url), checked |-> NoId,
             page |-> AskPage(Url, store)]
  /\ late = {}
  /\ lists = LET ask == IF Listed THEN Idle ELSE [Idle EXCEPT !.phase = "sent"]
             IN [pages |-> ask, drafts |-> ask]
  /\ busy = NoCommand
  /\ gone = Absent(Url, pages, drafts)
  /\ hops = 0 /\ outside = 0 /\ visits = 0

-----------------------------------------------------------------------------
(* Redirects *)

DefaultTarget == IF Url.at = "home" THEN DefaultPage ELSE NoId

DraftSettled == load.loaded = Url.id

PageResolved == Url.id \in store.pages \/ load.checked = Url.id

\* Where the space view sends the address it is rendered for.
Redirects ==
  IF DefaultTarget \in store.pages THEN {Page(DefaultTarget)}
  ELSE IF Url.at = "draft" /\ Url.id \in store.pages THEN {Page(Url.id)}
  ELSE IF Url.at = "draft" /\ DraftSettled /\ store.draft[Url.id] # "full" THEN {Overview}
  ELSE IF Url.at = "page" /\ PageResolved /\ Url.id \notin store.pages THEN {Overview}
  ELSE {}

Redirect ==
  \E url \in Redirects :
    /\ entries' = Replace(url)
    /\ UNCHANGED <<server, store, lists, busy, outside, visits>>
    /\ Effects(load)
    /\ hops' = hops + 1

\* Nothing comes between a render and its redirect.
Rendered == Redirects = {} /\ hops' = 0

-----------------------------------------------------------------------------
(* Requests *)

Answers(found) ==
  {IF found THEN "found" ELSE "absent"} \cup (IF Failures THEN {"failed"} ELSE {})

\* The server answers; the answer is under way.
ServerReads ==
  /\ Rendered
  /\ \/ /\ load.draft = "sent"
        /\ \E a \in Answers(Url.id \in drafts) : load' = [load EXCEPT !.draft = a]
        /\ UNCHANGED lists
     \/ /\ load.page = "sent"
        /\ \E a \in Answers(Url.id \in pages) : load' = [load EXCEPT !.page = a]
        /\ UNCHANGED lists
     \/ /\ lists.pages.phase = "sent"
        /\ lists' = [lists EXCEPT !.pages = [phase |-> "read", ids |-> pages]]
        /\ UNCHANGED load
     \/ /\ lists.drafts.phase = "sent"
        /\ lists' = [lists EXCEPT !.drafts = [phase |-> "read", ids |-> drafts]]
        /\ UNCHANGED load
  /\ UNCHANGED <<server, store, entries, late, busy, gone, outside, visits>>

WithDraft(st, id) ==
  [st EXCEPT !.draft[id] = "full", !.listed = @ \cup {id}]
WithoutDraft(st, id) ==
  [st EXCEPT !.draft[id] = "none", !.listed = @ \ {id}]

\* Mutant of DraftAnswered: a draft that is not there stays unanswered.
DraftAnsweredIfFound(answer) ==
  [load EXCEPT !.draft = "idle", !.loaded = IF answer = "found" THEN Url.id ELSE @]
DraftAnswered(answer) == [load EXCEPT !.draft = "idle", !.loaded = Url.id]

\* usePageDraft: "no draft" and a failure settle the load alike, and neither
\* touches the store.
DraftArrives ==
  /\ Rendered
  /\ load.draft \in {"found", "absent", "failed"}
  /\ store' = IF load.draft = "found" THEN WithDraft(store, Url.id) ELSE store
  /\ UNCHANGED <<server, entries, lists, busy, outside, visits>>
  /\ Effects(DraftAnswered(load.draft))

\* useRoutedPage: a page that is found ends the effect before it is checked off.
PageArrives ==
  /\ Rendered
  /\ load.page \in {"found", "absent", "failed"}
  /\ store' = IF load.page = "found" THEN [store EXCEPT !.pages = @ \cup {Url.id}] ELSE store
  /\ UNCHANGED <<server, entries, lists, busy, outside, visits>>
  /\ Effects([load EXCEPT !.page = "idle",
                          !.checked = IF load.page = "found" THEN @ ELSE Url.id])

\* A page asked for by a visit that is over, or by the editor, arrives.
PageArrivesLate ==
  /\ Rendered
  /\ \E id \in late \cup (IF Url.edit THEN {Url.id} ELSE {}) :
       /\ store' = IF id \in pages THEN [store EXCEPT !.pages = @ \cup {id}] ELSE store
       /\ UNCHANGED <<server, entries, lists, busy, outside, visits>>
       /\ LET next == Top(entries)
              asked(st) == Missing(next, st)
          IN /\ load' = IF asked(store) # asked(store')
                        THEN [load EXCEPT !.page = AskPage(next, store')] ELSE load
             /\ late' = late \ {id}
             /\ UNCHANGED gone

\* fetchPages replaces the space's pages, fetchDrafts its index of drafts.
ListArrives ==
  /\ Rendered
  /\ \/ /\ lists.pages.phase = "read"
        /\ store' = [store EXCEPT !.pages = lists.pages.ids]
        /\ lists' = [lists EXCEPT !.pages = Idle]
     \/ /\ lists.drafts.phase = "read"
        /\ store' = [store EXCEPT
             !.listed = lists.drafts.ids,
             !.draft = [id \in Ids |->
               IF id \in lists.drafts.ids /\ @[id] = "none" THEN "summary" ELSE @[id]]]
        /\ lists' = [lists EXCEPT !.drafts = Idle]
  /\ UNCHANGED <<server, entries, busy, outside, visits>>
  /\ Effects(load)

-----------------------------------------------------------------------------
(* The user goes somewhere *)

Visit(es) ==
  /\ Rendered
  /\ visits < MaxVisits /\ visits' = visits + 1
  /\ Len(es) <= MaxEntries /\ entries' = es
  /\ UNCHANGED <<server, store, lists, busy, outside>>
  /\ Effects(load)

\* A row, a link or the space's own entry is opened.
Open ==
  \E url \in Addresses(PageLinks \cup store.pages,
                       DraftLinks \cup (store.listed \ store.pages)) \ {Url} :
    Visit(Push(url))

\* useTogglePageEditMode: both ways are pushes.
ToggleEdit == Url.id # NoId /\ Visit(Push([Url EXCEPT !.edit = ~@]))

Back == Len(entries) > 1 /\ Visit(SubSeq(entries, 1, Len(entries) - 1))

-----------------------------------------------------------------------------
(* Commands *)

Starts(op, id, viewing) ==
  /\ Rendered
  /\ op = "create" => visits < MaxVisits
  /\ visits' = visits + (IF op = "create" THEN 1 ELSE 0)
  /\ busy = NoCommand
  /\ busy' = [op |-> op, id |-> id, viewing |-> viewing, phase |-> "sent"]
  /\ UNCHANGED <<server, store, entries, load, late, lists, gone, outside>>

\* Add page; Publish in the page header; Discard and Delete in the row's menu,
\* whose modal knows whether what it removes is on screen.
Command ==
  \/ Starts("create", NoId, FALSE)
  \/ Url.edit /\ store.draft[Url.id] = "full" /\ Starts("publish", Url.id, FALSE)
  \/ \E id \in store.listed \ store.pages :
       /\ store.draft[id] # "none"
       /\ Starts("discard", id, Url.at = "draft" /\ Url.id = id)
  \/ \E id \in store.pages : Starts("delete", id, Url.id = id)

Answer(ps, ds, ok, id) ==
  /\ pages' = ps /\ drafts' = ds
  /\ busy' = [busy EXCEPT !.phase = IF ok THEN "ok" ELSE "failed", !.id = id]

Refuses == Answer(pages, drafts, FALSE, busy.id)

\* No id is given out twice.
IsNew(id) ==
  /\ id \notin pages \cup drafts \cup InitPages \cup InitDrafts
  /\ id \notin store.pages \cup lists.pages.ids \cup lists.drafts.ids \cup {load.checked}
  /\ store.draft[id] = "none" /\ \A i \in DOMAIN entries : entries[i].id # id

\* The server carries the command out, or refuses what is not there.
ServerCommands ==
  /\ Rendered
  /\ busy.phase = "sent"
  /\ \/ /\ busy.op = "create"
        /\ \E id \in Ids : IsNew(id) /\ Answer(pages, drafts \cup {id}, TRUE, id)
     \/ /\ busy.op = "create" /\ Refuses
     \/ /\ busy.op = "publish"
        /\ IF busy.id \in drafts
           THEN Answer(pages \cup {busy.id}, drafts \ {busy.id}, TRUE, busy.id) ELSE Refuses
     \/ /\ busy.op = "discard"
        /\ IF busy.id \in drafts
           THEN Answer(pages, drafts \ {busy.id}, TRUE, busy.id) ELSE Refuses
     \/ /\ busy.op = "delete"
        /\ IF busy.id \in pages
           THEN Answer(pages \ {busy.id}, drafts \ {busy.id}, TRUE, busy.id) ELSE Refuses
  /\ gone' = (gone \/ Absent(Url, pages', drafts'))
  /\ UNCHANGED <<store, entries, load, late, lists, outside, visits>>

Published(id) == WithoutDraft([store EXCEPT !.pages = @ \cup {id}], id)

\* Where its answer takes the user: a new draft is pushed, what replaces an
\* address that names nothing any more replaces it.
Settles(st, es) ==
  /\ store' = st /\ entries' = es
  /\ busy' = NoCommand
  /\ UNCHANGED <<server, lists, outside, visits>>
  /\ Effects(load)

CommandAnswered ==
  /\ Rendered
  /\ \/ /\ busy.phase = "failed" /\ Settles(store, entries)
     \/ /\ busy.phase = "ok" /\ busy.op = "create"
        /\ Settles(WithDraft(store, busy.id), Push(Editing(DraftOf(busy.id))))
     \/ /\ busy.phase = "ok" /\ busy.op = "publish"
        /\ Settles(Published(busy.id), Replace(Page(busy.id)))
     \/ /\ busy.phase = "ok" /\ busy.op = "discard"
        /\ Settles(WithoutDraft(store, busy.id),
                   IF busy.viewing THEN Replace(HomeUrl) ELSE entries)
     \/ /\ busy.phase = "ok" /\ busy.op = "delete"
        /\ Settles(WithoutDraft([store EXCEPT !.pages = @ \ {busy.id}], busy.id),
                   IF busy.viewing THEN Replace(HomeUrl) ELSE entries)

\* The editor saves an edit of the routed page or draft; the server's upsert
\* answers with the draft.
SaveEdit ==
  /\ Rendered
  /\ Url.edit /\ Url.id \in pages \cup drafts
  /\ Url.id \in store.pages \/ store.draft[Url.id] = "full"
  /\ drafts' = drafts \cup {Url.id}
  /\ store' = WithDraft(store, Url.id)
  /\ UNCHANGED <<pages, entries, lists, busy, outside, visits>>
  /\ Effects(load)

\* Another tab publishes or discards a draft, another user deletes a page or
\* moves one into the space.
Elsewhere ==
  /\ Rendered
  /\ outside < MaxOutside /\ outside' = outside + 1
  /\ \/ /\ "publish" \in Outside
        /\ \E id \in drafts : pages' = pages \cup {id} /\ drafts' = drafts \ {id}
     \/ /\ "discard" \in Outside
        /\ \E id \in drafts : drafts' = drafts \ {id} /\ UNCHANGED pages
     \/ /\ "delete" \in Outside
        /\ \E id \in pages : pages' = pages \ {id} /\ drafts' = drafts \ {id}
     \/ /\ "arrive" \in Outside
        /\ \E id \in PageLinks \ pages : pages' = pages \cup {id} /\ UNCHANGED drafts
  /\ gone' = (gone \/ Absent(Url, pages', drafts'))
  /\ UNCHANGED <<store, entries, load, late, lists, busy, visits>>

Answering == ServerReads \/ DraftArrives \/ PageArrives \/ ListArrives

Next ==
  \/ Redirect \/ Answering \/ PageArrivesLate
  \/ Open \/ ToggleEdit \/ Back
  \/ Command \/ ServerCommands \/ CommandAnswered
  \/ SaveEdit \/ Elsewhere

\* Requests are answered and the browser renders what changed.
Fairness == WF_vars(Answering) /\ WF_vars(Redirect)

Spec == Init /\ [][Next]_vars

-----------------------------------------------------------------------------
(* Properties *)

TypeOK ==
  /\ pages \subseteq Ids /\ drafts \subseteq Ids
  /\ store \in [pages : SUBSET Ids, listed : SUBSET Ids,
                draft : [Ids -> {"none", "summary", "full"}]]
  /\ \A i \in DOMAIN entries :
       LET all == Addresses(Ids, Ids)
       IN entries[i] \in all \cup {Editing(url) : url \in all \ {HomeUrl, Overview}}
  /\ load.loaded \in {NoId, Url.id} /\ load.checked \in Ids \cup {NoId}
  /\ load.draft \in {"idle", "sent", "found", "absent", "failed"}
  /\ load.page \in {"idle", "sent", "found", "absent", "failed"}
  /\ load.page # "idle" => Url.at = "page" /\ Url.id \notin store.pages
  /\ late \subseteq Ids
  /\ gone \in BOOLEAN /\ hops \in Nat

\* An address is corrected once: where a redirect leads, none follows, so the
\* default page, the front door and dead drafts cannot send the user around
\* (space_view.tsx 64-90, "/overview is explicit, so it won't bounce back").
RedirectsSettle == hops <= 1

Bounced == Top(entries').at = "overview" /\ Len(entries') = Len(entries) /\ Url.id # NoId

\* Nobody is sent to the front door from a page or draft that was there all
\* through the visit: "correcting it earlier would turn a slow response into a
\* bounce out of a draft that is really there" (space_view.tsx 76-90,
\* hooks/pages.ts 57-63).
BounceOnlyIfGone == [][Bounced => gone]_vars

\* "Publishing destroys the draft, so its URL is dead and Back must not return
\* to it" (hooks/drafts.tsx 77-78): the answer leaves no entry that names it.
\* Not kept: the draft was read before it was edited, and the reading entry stays
\* behind the editing one.
BackAvoidsDeadDrafts ==
  [][busy.op = "publish" /\ busy.phase = "ok" /\ busy' = NoCommand
       => \A i \in DOMAIN entries' :
            ~(entries'[i].at = "draft" /\ entries'[i].id = busy.id)]_vars

\* "A draft URL whose page now exists means the draft was published, here or in
\* another tab ... so hand over" (space_view.tsx 70-74).
\* Not kept: the page published in another tab is not in the store yet, and the
\* load of the draft finds nothing.
PublishedIsHandedOver == [][Bounced /\ Url.at = "draft" => Url.id \notin pages]_vars

\* "A draft URL naming no draft was discarded or never existed": once its load
\* has found no draft, the address is left (space_view.tsx 76-81).
\* Not kept: the draft was discarded in another tab while its summary is in the
\* store here.
DeadDraftIsLeft ==
  [][load.draft = "absent" /\ load'.draft = "idle" /\ Url.at = "draft" /\ entries' = entries
       => Redirects' # {}]_vars

\* What is on screen is a front door, a page or a draft that has arrived.
Settled ==
  /\ Redirects = {}
  /\ Url.at = "page" => Url.id \in store.pages
  /\ Url.at = "draft" => store.draft[Url.id] = "full"

\* No address leaves the user before a shell that never fills in: the routed
\* page or draft arrives, or the user is taken where something is
\* (space_view.tsx 83-90).
RouteSettles == ~Settled ~> Settled

=============================================================================
