# Specifications of mattermost-plugin-docs

TLA+ models of the docs plugin in `src/`: what its server promises about pages,
drafts, spaces and page trees when requests of several users and several tabs
interleave, and what its client makes of those promises while answers fail,
overlap and arrive late.  They are model-checked with TLC on small instances and,
where marked below, proved with TLAPS for every instance.

Every definition is translated from the source it names; `PROJECT.json` ("map")
gives the file and the lines of each one.

## The system

The plugin has a Go server (`src/server`) over three PostgreSQL tables, and a
React client (`src/webapp/src`).

| Component | State it keeps | Operations | Correct when |
|---|---|---|---|
| Page content and drafts (`app/page_draft.go`, `store/draft_store.go`, `store/page_store.go`) | `DOCS_Page` (EditAt, UpdateAt, DeleteAt, body), `DOCS_Draft` keyed by user and page (UpdateAt as version, BaseEditAt, pending parent) | autosave, reserve a new page, discard, publish, PATCH | no edit is overwritten unseen; no save is lost by a publish; a finished edit does not come back |
| Version tokens (`store/store.go`) | none | `nextMonotonic`, `monotonicBump` | a token names one version, in spite of equal milliseconds |
| Page hierarchy (`store/page_move.go`, `page_hierarchy.go`, `app/page_hierarchy.go`) | ParentId, SortOrder, SpaceId of pages | create, delete (children promoted), restore, move, move to an index, move to another space, duplicate | a forest of live pages, capped in depth and breadth, ordered; moves start from what their caller saw |
| Space rows (`store/space_store.go`) | `DOCS_Space` (DeleteAt, UpdateAt) | create, update (CAS), delete and restore with page cascade | restore brings back exactly what the delete took |
| Space lifecycle (`app/space.go`) | the row and the Mattermost backing channel, two systems | create, update, delete, restore, retry of a stuck restore | a live space has a live channel, or a repair can make it so |
| Space membership (`app/space.go`, webapp `hooks/space_members.ts`, `components/space_members`) | channel members, a session lock; the client's roster, chips and busy flag | add, remove, leave | a space is never left without a member; nobody picked is lost |
| Presence (`app/page_presence.go`, webapp `hooks/page_presence.ts`) | throttle map, LastActiveAt; a viewer's snapshot and expiry timer | throttled broadcast, end of session, fetch, receive, expire | viewers converge on who edits |
| Editor autosave (webapp `hooks/draft_autosave.ts`, `pending_saves.ts`, `drafts.tsx`) | pending patch, timer, write chain, status | type, debounce, save, merge a failure back, leave, flush before a publish | what is typed is stored, queued or being sent; a publish carries it |
| Edit baselines (webapp `hooks/edit_baseline.ts`, `own_page_writes.ts`) | the version loaded, the version last written | name a baseline for a save, a title, a publish | no conflict with oneself, no overwrite of an unseen body |
| Title field (webapp `page_content.tsx`) | buffer, observed title, write lock | type, blur, cancel, leave edit mode, follow the store | what is typed stays and lands |
| Client store of pages (webapp `store/entities.ts`, `actions.ts`, `page_tree.ts`) | normalised pages and an index per space | list, fetch, optimistic move, delete, create | with nothing under way it is the server's tree |
| Page tree panel (webapp `page_tree/`) | focus, collapsed rows, a drag | keys, drag and drop, collapse, reclaiming focus | a drop lands where it was shown; focus is not lost |
| Routing of pages and drafts (webapp `space_view.tsx`, `hooks/pages.ts`, `drafts.tsx`, `navigation.ts`) | address and history, loads of a visit | visit, redirect, publish, discard, delete, create | every address is shown or corrected, never too early |
| Space routing, home and sidebar list (webapp `hooks/spaces.ts`, `bootstrap.ts`, `docs_home.tsx`) | spaces, an index per team, checked ids | list, fetch, create, leave, archive | the index is what the user belongs to; no bounce out of a space that is there |
| Space settings (webapp `space_settings_modal.tsx`) | form, the row it was filled from, prompts | edit, save, close, archive | overwrites only what was shown; unsaved edits are not dropped |
| Spaces sidebar order and favorites (webapp `use_sidebar_spaces.ts`, `data/favorites.ts`) | favorites and a stored order, in preferences | drag between and inside categories, collapse | a drop lands; every space has one row |
| Resizable panels (webapp `resizable_divider.tsx`, `hooks/sidebar_width.ts`) | width in the store and in localStorage, refs of a drag | press, move, release, double click, keys | the width shown at rest is the one a reload restores |
| Sanitizer, REST routing, listings, activation, people search, rendering | — | pure functions, gates, reads, start-up | (not modelled) |

How they interact.  A REST handler checks membership and calls one service
method; the method reads with separate statements and then opens one store
transaction.  A transaction that changes structure locks the space row first, then
pages, then drafts, so such transactions of one space run one after the other;
`UpdatePage` and the publish of an edit lock only the page row, which every other
writer of that page locks too.  `DeleteDraftVersion` deletes a draft row by its token and
locks neither.  After the commit the method broadcasts ids over
WebSocket; the client handles one of these events, presence, and learns of
everything else by the next listing or fetch.  PostgreSQL runs READ COMMITTED, so
what a method has read before its transaction may be stale inside it.  Clients keep
tokens (EditAt to edit, UpdateAt to move and to update a space) from an earlier
load.  Tokens are milliseconds and several writes share one.  In the client, thunks
write optimistically into one Redux store, await an answer and write again;
hooks keep refs across renders and read them when a timer or a promise fires.

Hard behaviours: reads before a transaction (publish reads draft, page and parent);
a row that is looked at and then written, and a delete that waits for neither lock;
late, reordered or duplicated autosaves; two tabs of one user; same-millisecond
writes; a clock read before a lock wait; cascades whose stamp must single out
their own pages; promotion and renumbering that move siblings silently; a failed
save merged back under newer text; an answer merged next to an optimistic
write; a listing asked for before a write and answered after it; a redirect decided
before the answer it should wait for; lost and overtaken broadcasts.
`PROJECT.json` ("hazards") lists each one at its line, with the properties that
would catch it.

## Modules

| Module | Models | State |
|---|---|---|
| `StoreTokens` | `nextMonotonic`/`monotonicBump`, and clock reads that precede the lock wait | none |
| `DraftPublish` | one space: pages' content, drafts, edit sessions, `upsertDraft` in two steps, and `PublishPageDraft` one statement at a time | `clock`, `spaceDeleteAt`, `pages`, `drafts`, `reqs`, `save` |
| `DraftDiscard` | `DraftPublish` and the record of which sessions a discard closed | `discarded` |
| `PageTree` | page trees of several spaces: create, edit, delete with promotion, restore, the three moves, delete and restore of spaces | `clock`, `spaces`, `pages` |
| `PageMoves` | `PageTree` composed with clients that hold what they loaded and move by it | `loaded` |
| `TypedTexts` | the abstract promise of the editor: a draft only ever moves on to a later text typed in its page | `texts`, `stored`, `published` |
| `DraftAutosave` | the autosave hook with its saves on the wire, its failures, and publishes; implements `TypedTexts` | `page`, `editing`, `pending`, `timer`, `inflight`, `chain`, `status`, `posts`, … |
| `EditBaseline` | the versions a client names in saves, titles and publishes, over the server's upsert | `page`, `draft`, `storePage`, `storeDraft`, `own`, `loaded`, `queued`, … |
| `PageTitle` | the title field, its commits and its write lock, titles that change elsewhere | `buffer`, `props`, `inflight`, `typed`, `due`, … |
| `PagePresence` | server and viewer of presence: throttle, three-step snapshots, events that get lost or overtake, expiry | `drafts`, `times`, `tasks`, `events`, `viewing`, `snapshot`, `expired`, `fetch` |
| `PageStore` | the client's store of pages composed with the server's tree (`Server == INSTANCE PageTree`) | `rows` (server), `known`, `listed`, `calls`, `drift`, … |
| `PageRoute` | the address inside a space with its history, loads and redirects | `entries`, `store`, `load`, `late`, `lists`, `busy`, … |
| `SpaceStore` | the store of spaces and the address of a space | `visible` (server), `rows`, `index`, `listings`, `fetches`, `checked`, `command`, … |
| `SpaceMembers` | guarded removal and leaving on the server; roster, chips and busy flag of two surfaces | `members`, `roster`, `listing`, `calls`, `batch`, `chips`, `busy`, … |
| `SpaceSettings` | the info tab's form and saves, closing, archiving, listings in between | `row` (server), `store`, `form`, `since`, `dialog`, … |
| `PageRows` | rows of the tree as drawn, and where keys and drops move a page (operators) | none |
| `PageTreePanel` | focus, keys, collapsing and drag and drop over `PageRows` | `tree`, `collapsed`, `focusedId`, `owns`, `at`, `dropped`, … |
| `SidebarSpaces` | favorites and the stored order under drags, loads and other sessions | `favs`, `order`, `loaded`, `drag`, `dropped`, … |
| `SidebarWidth` | the divider's gestures over the shared width and localStorage | `width`, `saved`, `open`, `dragging`, `startX`, … |
| `DraftPublishProofs` | theorems about `DraftPublish`: types, versions and sessions; rows, parents and what a publish call holds | |
| `PageTreeProofs` | theorems about `PageTree`: types and the forest; order, group size and depth; and about `PageMoves` | |
| `EditingPartsProofs` | theorems about `PagePresence`, `EditBaseline` and `PageTitle` | |
| `EditorProofs` | theorems about `DraftAutosave`, and about the suite `MCEditor` from those about its parts | |
| `NavigationPartsProofs` | theorems about `PageRoute`, `SpaceStore` and `PageStore` | |
| `NavigationProofs` | theorems about the suite `MCNavigation`, from those | |
| `PanelPartsProofs` | theorems about `SpaceMembers`, `SpaceSettings`, `SidebarWidth`, `PageRows` and `PageTreePanel` | |
| `PanelsProofs` | theorems about `MCPanels` | |
| `MCDraftPublish`, `MCDraftDiscard`, `MCPageTree`, `MCPageMoves` | symmetry for TLC; the `.cfg` files give the constants | |
| `MCEditor`, `MCNavigation`, `MCPanels` | suites: several client components, each a *part* with instances of its own | `part` |

**Suites.**  The client's components in a suite share no state with one another, so
their interleavings show nothing that each alone does not.  A behavior of a suite
picks a part in its first state and steps only that part; the others rest in one
initial state.  A part is an `INSTANCE` with the bounds of one question, and the
suite's properties name the part they speak of.

**Server state and code.**  `pages` and `drafts` are the tables, keyed like them; `spaces`
and `spaceDeleteAt` are `DOCS_Space.DeleteAt`.  `reqs` holds the local variables of
`PublishPageDraft` calls between statements (which draft row was read, where the
call stands), and `save` those of an `upsertDraft` that has found its row and holds the
space and page rows until it writes.  `sessions` is what clients hold: each opening of the editor loads
a page's EditAt and text, and any later save or PATCH may come from any session
ever opened, which covers delay, reordering, duplication and several tabs.
`opener`, `writer`, `row`, `ended`, `texts`, `archived` and `discarded` are history:
they record who wrote what and never enable or disable a step of the code.

**Server actions.**  A store transaction is one action with all its writes where everyone
who competes for its rows waits for a lock that it holds: its guard is
the conjunction of the code's checks, and a refusal changes nothing, so it is
the absence of a step (the refusals of a publish call, which lead somewhere else,
are actions).  `DeleteDraftVersion` is a statement of its own that waits for neither the
space row nor the page row, and `upsertDraft` relies on a row it has only looked at.  So a
save that finds its row is two actions: `FindDraft` looks, up to the last existence check,
and takes the locks (`SpaceUnlocked` and `PageUnlocked` are the guards of everyone who
waits for them); `FinishSave` is the `INSERT ... ON CONFLICT` and the commit, which merges
into the row or, if it is gone by now, inserts it again.  A save that finds no row is
one step, since nobody inserts without the space row.  The other transactions
that meet a lock-free delete either lock the draft row (`DeleteDraftReparenting`)
or touch it in one statement, so the delete is before or after them.  The split of `PublishPageDraft` follows its statements:
`ReadDraft` (GetPageDraft), `DeriveTarget` (GetPageWithDeleted), `ProbeParent`
(PageExistsInSpace), `PublishNew`/`PublishNewFails` and `PublishEdit`/`PublishEditFails`
(the transactions), `DiscardBaselineOnly`, `ReadWinner`, `DropOrphan`.

**Client actions.**  JavaScript runs to completion, so a handler, a timer or the
continuation of a promise is one action, with the effects its store updates
trigger (React 18 flushes the effects of a store update before the promise that
made it continues).  A request is two or three: it is sent, the server serves it,
the answer arrives; between these anything else may happen.  A `calls`,
`listings`, `fetches` or `tasks` set holds the requests under way with the arguments
that were read when they were sent, so that staleness is in the model.

**Abstractions.**  Content is a number that names one save; 0 is a save without
content.  `CreateAt` numbers creations (in the code a tie within a
millisecond goes to the random id).  Version snapshots, search text, icons, wording and
rendering are left out.  In `DraftPublish` positions are left out, in `PageTree`
content and drafts.  Each client module has only the part of the server's row
that its component reads.

## What the runs show

| Run | Question | Bounds | Result |
|---|---|---|---|
| `publish_race` | one user, two publish calls, two sessions, late autosaves | 1 page, 2 calls, 1 ms, 3 saves, 3 lives of a draft row | `EndedSessionsEstablishNothing`, `PublishReplacesWhatItsOpenerSaw`, `PublishKeepsNewerSaves` hold |
| `publish_users` | two users edit one page within one millisecond | 1 page, 2 users, 2 calls, 1 ms | `EditAtNamesOneText`, `PatchReplacesWhatItsSenderSaw`, `NoDraftOfDeletedPage` hold |
| `publish_nested` | never published pages, one pending below the other, with discards and late autosaves | 2 pages, 2 calls, 2 ms with a lock wait of 1 | `DiscardedNewPageStaysDiscarded`, `DraftParentsLive` hold |
| `discard_edit` | a late autosave after discarding the draft of a published page | 1 page | `DiscardedEditStaysDiscarded` violated: finding 1 |
| `publish_ends` | a lock-free delete between the two steps of a late save | 1 page, 1 call | `PublishEndsSessions` violated: finding 2 |
| `publish_token` | a draft row inserted again after a discard | 1 page, 1 ms | `TokenNamesOneSave` violated: finding 3 |
| `publish_writer` | an older session saves into a newer session's draft | 1 page | `PublishReplacesWhatItsWriterSaw` violated: finding 4 |
| `tree_shape` | one space under creates, deletes, restores and moves | 4 pages, depth 3, 3 siblings | `Acyclic`, `SiblingsOrdered`, `ReindexInsertsAtTheIndex`, `SilentSiblingsKeepOrder`, `ChildrenTakeThePlace` hold |
| `tree_spaces` | two spaces exchange subtrees, are deleted and restored; a client moves by what it saw before others acted | 3 pages, 2 spaces, 1 client, 2 ms with a lock wait of 1 | `ParentsLive`, `TreeCapped` (siblings and depth), `SpaceRestoreReconstitutes`, `TokenNamesOnePlace`, `UnforcedMoveLeavesItsSeenPlace` hold |
| `editor` | a page being edited | see below | `NoEditLost`, `ImplementsTypedTexts`, `EditsGetThrough`, `BaselineProtects`, `TypedTitleStays`, `NobodyStaysForEver`, `EditorsShownAreEditing` hold |
| `navigation` | stores and addresses | see below | `StoreFollowsTheServer`, `BounceOnlyIfGone`, `RouteSettles` hold |
| `panels` | members, settings, tree, sidebar, widths | see below | `SomeoneRemains`, `BatchesSettle`, `SettingsSurvive`, `FocusKept`, `MovesLand`, `SpacesLand`, `WidthIsKept` hold |

The suites' parts:

| Suite | Part | Instance | Bounds |
|---|---|---|---|
| `editor` | page | `DraftAutosave`, the editor stays on one page | 3 texts, 3 saves run, 2 failures, 2 publishes |
| | pages | the same with a second page to go to | 2 texts, 1 failure, 1 publish asked |
| | baseline | `EditBaseline`, another user publishes, no listing replaces the page under the editor | 5 versions, 5 bodies |
| | title | `PageTitle`, titles change elsewhere | 2 titles and one with white space, 3 typed, 1 change, 1 failure |
| | lossy | `PagePresence`, broadcasts and answers get lost (liveness) | 1 editor |
| | session | the same, broadcasts fail but arrive, one at a time | 2 editors |
| | snapshots | the same, broadcasts overtake each other | 1 editor, 2 events |
| `navigation` | alone | `PageStore`, one call at a time, one failure | 3 pages, 3 calls |
| | overlap | two calls under way | 3 pages, 2 calls |
| | across | two spaces, another user writes too | 2 pages, 2 calls, 1 write |
| | visit | `PageRoute`, a listed space | a page, a draft, a new draft, 2 visits, history of 2 |
| | lists | the listings race with the visit | a page, a draft |
| | quiet | `SpaceStore`, two teams, failing requests | 2 spaces, 2 visits, 2 commands |
| | routed | one team, overlaps, access revoked | 2 spaces, 2 visits, 1 command |
| `panels` | share, tab | `SpaceMembers`, picks committed at once or collected, additions that fail | 4 users, one an outsider, 4 calls |
| | members | three members who add, remove and leave, overlapping | 3 users, 2 calls |
| | steady, refreshed | `SpaceSettings`, without and with listings in between | 2 texts, 3 or 2 versions |
| | focus | `PageTreePanel`, focus, keys and collapsing while the store changes | 3 rows, 1 change |
| | moves, closed | drag and drop; the same over collapsed rows | 4 or 3 rows, depth 2 |
| | sorting, loading | `SidebarSpaces`, drags; loads, a favorited page and an order too short | 4 or 3 spaces |
| | dragged, slipped | `SidebarWidth`, without and with slips | widths 4 to 12, 19 pointer places |

What the suites show, beyond the names:

- `NoEditLost`: while the editor stays on a page, the last text typed is stored, queued
  or being sent, the indicator says "saved" of nothing else, and a publish that goes on
  while the editor is enabled carries every text typed before it was asked for.
- `ImplementsTypedTexts`: `DraftAutosave` implements `TypedTexts`, with its own `texts`,
  `stored` and `published` as the mapping: whatever is debounced, chained, merged back
  and retried, a draft never goes back to an older text and never gets another page's.
  Texts, stored and published are the server's view; the queue, the timer, the
  chain and the wire are hidden.
- `EditsGetThrough`, `NobodyStaysForEver`, `RouteSettles`: liveness, under the fairness below.
- `TypedTitleStays`: a title typed stays in the field or on its way, until the field comes to
  hold a stored title again; that a committed one gets stored is part of `EditsGetThrough`.
- `StoreFollowsTheServer`: with no call under way, the client's list, order and tree are the
  server's, unless `drift` names a reason since the last listing: another user wrote, a call
  other than a move failed, calls overlapped, a delete promoted children (the client
  prunes them), or a page strayed in from another space.  `PageStore` also states the
  stronger properties, without one of the excuses, and what breaks them.
- `MovesLand`: where the line or the highlight was at the drop, there the page is
  after it; a key moves a page by one step, the opposite key takes it back, and keys do
  nothing that no drop does.

Findings:

1. `discard_edit`. A comment in `DeletePageDraft` says that only the draft of an
   unpublished page can come back by a late autosave and that a published page is
   protected. The code does the reverse: an id without a page row is refused
   (`publish_nested` passes), and a late autosave over a live page that nobody edited
   meanwhile inserts the discarded draft again.
2. `publish_ends`. `upsertDraft` refuses to bring back a draft that a publish consumed, and
   says that the page lock makes its existence check stable.  It does not against
   `DeleteDraftVersion`, which waits for no lock.  Session 1 is published; session 2 starts
   a draft without content, and a publish call reads it, to discard it; a late save
   of session 1 finds that row and passes the check; the call deletes the row; the
   save's `INSERT` meets no conflict and the draft of session 1 is there again, with its old
   baseline.  What does hold is `EndedSessionsEstablishNothing`: a save that finds no row
   establishes none for an ended session.
3. `publish_token`. `UpdateAt` of a draft is called collision-free, but it is
   so only while the row exists. A row discarded and inserted again in one
   millisecond has the token of the old row, and a publish call that read the
   old row deletes the new save. (`PublishKeepsNewerSaves` is the same
   property restricted to one life of the row, and holds.)
4. `publish_writer`. A save of an older session, behind the page, merges into the
   row that a newer session of the same user established, whose baseline is
   current; the publish then replaces a text that the writer never saw, without the
   conflict that the comment says is deferred to publish. What does hold is
   `PublishReplacesWhatItsOpenerSaw`.

**Stronger properties that are not kept.**  Modelling the client met more places where a
comment, a test's name or a prop's doc promises more than the code does.  No run
lists them; each is stated in its module next to the weaker property that holds,
with the words it is taken from and the steps that break it ("Not kept"):

| Property | What happens |
|---|---|
| `DraftAutosave!LeftPageIsFlushed` | a page is left while a save is in flight; typing in the next page replaces its one queued patch (`draft_autosave.ts:127`) |
| `DraftAutosave!PublishNeverOnUnsaved` | edit mode is closed within the debounce; the flush writes nothing and returns true (`draft_autosave.ts:72`) |
| `EditBaseline!EditsOfTheCurrentBodyAreSavable` | the version of an own write hides a newer one that the editor loaded (`edit_baseline.ts:13`); saves are refused |
| `EditBaseline!PublishReplacesWhatTheEditorShowed`, with refreshes | the title's save names the version the store holds now, not the one the editor opened with (`page_content.tsx:76`) |
| `PageTitle!LastTypedIsKept` | a title typed back to the stored one is taken for it when the write of another is answered (`page_content.tsx:161`) |
| `PageTitle!LeavingSendsOnlyTyped`, `LeavingSendsTyped` | on leaving edit mode the buffer is compared with the published title, not the drafted one (`page_content.tsx:182`) |
| `PageTitle!WhitespaceIsNoChange` | after a rename elsewhere the untrimmed buffer stops following, and its commit undoes the rename (`page_content.tsx:172`) |
| `PagePresence!NobodySuppressedUnseen`, with overlaps | a save under way at the end of a session stores the throttle entry again (`page_presence.go:142`) |
| `PagePresence!EndedSessionsAreGone`, with ties | of two snapshots of one millisecond the older may replace the newer (`hooks/page_presence.ts:45`) |
| `PageStore!OverlappingMovesAgree` | the answer of the first of two moves is merged next to rows renumbered for both (`store/actions.ts:153`) |
| `PageStore!DeletePrunesWhatTheServerDeletes` | the server promotes the subpages that the client prunes (`store/entities.ts:83`) |
| `PageStore!NothingDropped` | two pages become each other's parent in the store, and neither has a row (`page_tree.ts:72`) |
| `PageStore!RowsBelongToTheSpace` | the index of the old space resolves to a page that moved (`selectors.ts:61`) |
| `PageRoute!BackAvoidsDeadDrafts` | entering edit mode pushed an entry that the publish does not replace (`navigation.ts:138`) |
| `PageRoute!PublishedIsHandedOver` | a draft published in another tab keeps its address here (`space_view.tsx:79`) |
| `PageRoute!DeadDraftIsLeft` | a 404 of the single fetch removes nothing from the store (`store/actions.ts:227`) |
| `PageRoute!BounceOnlyIfGone`, with failures or further visits | a failed load settles like an absent draft (`hooks/drafts.tsx:62`); a page found missing once is not asked for again (`hooks/pages.ts:72`) |
| `SpaceStore!CreatedAppears` | a listing asked for before the creation and answered after it hides the new space (`entities.ts:156`) |
| `SpaceStore!HeroOnlyIfListed` | an index seeded by one fetched space counts as a settled list (`entities.ts:165`) |
| `SpaceStore!LeavingOneStaysInOther` | a user who went on to another space is pulled home (`leave_space.ts:32`) |
| `SpaceStore!BounceOnlyIfGone`, with grants | a space the user was added to after a refused visit is left at once (`hooks/spaces.ts:57`) |
| `SpaceMembers!OnlyPicksCommit` | removing a chip commits the other chips (`add_members_field.tsx:60`) |
| `SpaceMembers!BusyWhileInFlight`, reopened | a surface opened again has a busy flag of its own (`space_members.ts:40`) |
| `SpaceMembers!RosterIsRight`, overlapping | a listing read before a batch and answered after it replaces the roster (`entities.ts:300`) |
| `SpaceSettings!OverwritesOnlyShown`, with refreshes | a save names the store's version of now and the values of when the modal opened (`store/actions.ts:370`) |
| `SpaceSettings!PromptIsDrawn` | the discard prompt is a child of the dialog that has closed (`space_settings_modal.tsx:75`) |
| `SpaceSettings!ArchivedStaysPruned` | a listing asked for before the archive brings the space back (`entities.ts:154`) |
| `PageTreePanel!FocusNotStolen` | after a click on something that takes no focus, the next change of the tree takes it back (`page_tree_panel.tsx:122`) |
| `SidebarSpaces!ArrangedOrderSurvives` | a move made before every list is in writes an order without the rest (`use_sidebar_spaces.ts:100`) |
| `SidebarSpaces!DropsLand`, with page favorites, other sessions or a short order | the toggle favorites a space that was in Favorites only for its page, or flips back what another session flipped (`use_sidebar_spaces.ts:104`); the tail that is trimmed is where the row was dropped (`data/favorites.ts:96`) |
| `SidebarWidth!AtRestIsSaved`, with strays or interrupts | the release of another button sets a width from stale refs (`resizable_divider.tsx:152`); a panel that closes during a drag never stores it (`sidebar.tsx:56`) |

The switches of the modules (`Refreshes`, `Overlaps`, `Ties`, `Grants`, `Strays`,
`Interrupts`, `Meanwhile`, …) turn these causes on and off, so that a run shows both that
the property holds without the cause and which cause breaks it.

**Bounds.**  `MaxClock`, `MaxStamp`, `MaxTexts`, `MaxSessions`, `MaxRows` and the
`Max…` of the client modules cut off histories; they are large enough that every action
fires and that every mutant of the code in `PROJECT.json` is found.  On the server: two
sessions (one stale, one fresh), two calls of
one user (a winner and a loser), three saves (published, overwritten, late), three
lives of a draft row (published, deleted under a save, inserted by it), and stamps that run
ahead of the clock; a stale clock read is in the runs with a lock wait.  In the tree, three siblings and depth three are the
smallest instance in which a promotion shifts later siblings and a moved subtree
has height; four pages allow a group at its cap with a child elsewhere.
Index requests run from -2 to past the end.  `PageTree` bounds tokens in `Next`
(`Bounded'`).  In `PageTree`'s own runs moves are forced: a forced move can do all
that an unforced one can, so the shape of the tree is checked under the weaker
guard; `PageMoves` has both.  In the client: three texts are one stored, one on the
wire and one queued; two failures let a retry fail; two calls under way are the
least that overtake each other; two history entries let Back reach a dead address;
three rows allow a collapsed parent between siblings.

**Deadlock** is not checked: a server without a request at hand and a client without a
user's gesture are at rest, and the bounds end every history.

**Fairness.**  The server modules state safety only and assume none.  The client
modules with liveness assume weak fairness of what the browser and the network
do by themselves, never of a user's gesture: timers that are set fire and settled
promises continue (the event loop), requests are answered or fail
(the HTTP client reports either), a redirect that a render decides is taken, the
clock moves on, and the viewer's expiry timer fires.  `DraftAutosave!Fairness`,
`PageTitle!Fairness`, `PagePresence!Fairness`, `PageRoute` and `SpaceStore` name the
actions.  Nothing assumes that a save succeeds: the liveness properties name the
failure as the exception.  Loss of presence broadcasts is not excluded.

## What is proved

About `DraftPublish`, for any numbers of users, pages and publish calls, and any clock
waits (assumptions `ParamsAssumption`, `NoPageAssumption`, `NoDraftAssumption`,
`NoReqAssumption`, `NoSaveAssumption`: bounds are naturals, and the markers for "none" differ from values):

- `TypeCorrect`: `Spec => []TypeOK`.
- `InductiveInvariant`: `Spec => []PublishInv`.  That no save opens a draft for an ended
  session (`EndedSessionsEstablishNothing`) needs that ended sessions are
  behind their page (`EndedSessionsBehindPages`), which needs that no session is
  ahead of its page and that equal EditAt means equal text (`SessionsBehindPages`),
  for sessions and for the drafts and the copies that publish calls hold
  (`DraftsKeepTheirBaseline`); a published page has a positive EditAt
  (`PublishedPagesHaveEditAt`), so that a baseline of 0 is never current.  `SavesBySessions`
  carries the session of a save from its first step to its second.
- `EditAtIsAVersion`, `NoResurrection`, `PublishOverwritesNothingUnseen`,
  `PatchOverwritesNothingUnseen`: the properties of the runs `publish_race` and
  `publish_users`, from that invariant.

The argument has two layers.  `StepEffects` reduces each
action to what it may do to one page, one session list, one draft row and one
call; the parts of the invariant follow from those effects.

The second half adds what refers to what, under the same assumptions:

- `RowsInvariant`: `Spec => []RowsInv`, which is `PublishInv` with
  - `Places`: an id is reserved before a row has it, and until its page exists it is one
    user's (`ReservedIds`); while the space is live a draft is of a new page or a live one
    (`DraftsOfShownPages`), pages hang below live pages (`PagesBelowShown`) and drafts below
    live pages or drafts of their owner (`DraftsAnchored`); a save between its steps is of a page
    that is shown, which the locks keep so, or of a new page whose draft no lock-free
    delete reaches (`SavesOfShownPages`): its second step may insert the row.  These speak of *shown* pages,
    whose DeleteAt is that of the space, since a restored space brings back what it
    was deleted with; `DeletedSpaceIsDead` says that shown and live are then the same in a
    live space.  A delete and a discard hand the children of a row to its own parent:
    that the parent is not the row itself needs `ParentsAreOlder`, that some ranking of
    the ids, fixed as they are reserved, puts every parent before its child, in pages, in
    drafts and in the copies that publish calls hold.
  - `RowNumbers` and `TokensNameTexts`: a draft row's UpdateAt only grows, and names its text
    for as long as the row is the one inserted, so a publish call that finds the
    token it has read removes the text it has published.
  - `RequestsKnowTheirPage`: between its statements a publish call is right about its page:
    an edit publish has a page, and once the page of a new-page publish exists
    the row that call has read is spent.
- `DraftsOutliveNoPage`, `PendingPagesAreReachable`, `DiscardIsFinal`, `PublishLosesNoSave`:
  `NoDraftOfDeletedPage`, `DraftParentsLive`, `DiscardedNewPageStaysDiscarded` and
  `PublishKeepsNewerSaves`, from that invariant.

About `PageTree`, for any spaces, any finite set of pages and any limits
(`TreeParamsAssumption`, `FiniteAssumption`, `RootAssumption`, `ForcedAssumption`):

- `TreeTypeCorrect`: `Spec => []TypeOK`.  The positions and stamps are maxima of sets,
  so the proof begins with the fact that a finite set of integers has one.
- `TreeInvariant`: `Spec => []TreeInv`.  `ParentsLive` and `Acyclic` speak of live pages
  only, and say nothing of a deleted space, whose tree the restore brings back.  The
  invariant is about the *kept* pages instead, those whose DeleteAt is that of
  their space: live in a live space, gone with it in a deleted one.  Kept pages
  hang at the root or under kept pages of their space (`ParentsKept`), without
  cycles (`KeptAcyclic`), and those of a deleted space are the tree it had
  (`TreesArchived`).  Deleting and restoring a space leave the kept pages as they
  are: this is where the stamp of the cascade must be later than every earlier DeleteAt
  of the space (`CascadeStampIsLater`).  The other steps are of three kinds, with
  one lemma each: nothing moves (`TreeUnchanged`), a page is hung with what is
  below it outside of it (`TreeHang`: creates, restores and the three moves),
  children take the place of their parent (`TreePromote`).
- `LivePagesHangLive`, `NoCycles`, `RestoreReconstitutes`: `ParentsLive`, `Acyclic` and
  `SpaceRestoreReconstitutes`, from that invariant.

Then order and caps, again of the kept pages: a deleted space, which no
transaction looks at, must keep the shape that its restore brings back.

- `OrderInvariant`: `Spec => [](TreeInv /\ Orderly)`.  In a group no position is shared and
  the group is within its cap.  Both go together: the positions that a renumbering or a
  promotion hands out are *places* (how many come before), which are distinct
  because positions are, and a promotion makes room by shifting those behind the
  deleted page by the number of its children.  The lemmas on places (`PlaceBelowSize`,
  `PlaceMonotone`, `RenumberedIsAnOrder`) rest on cardinalities.
- `PositionsAreDistinct`, `ReindexIsFaithful`, `NoSilentReordering`, `ChildrenSucceed`:
  `SiblingsOrdered`, `ReindexInsertsAtTheIndex`, `SilentSiblingsKeepOrder` and
  `ChildrenTakeThePlace`, from it.
- `LevelInvariant`: `Spec => [](TreeInv /\ Levelled)`.  The code measures depths by walks,
  up from the destination and down from the moved page.  `Levelled` says instead that the
  kept pages have levels from 1 to the limit, each one more than its parent's;
  a move shifts the levels of the moved subtree, a promotion those below the deleted
  page.  The core of the proof is that the walks measure these levels: the walk up
  loses one with each step (`WalkOfLevels`, `DepthIsLevel`), and the walk down reaches
  no further than it counts (`HeightBounds`).
- `TreesAreCapped`: `TreeCapped`, both caps, from the two invariants.

About `PageMoves`, for any number of clients (`NoLoadAssumption` besides):

- `MovesInvariant`, and from it `TokenNamesThePlace` and `UnforcedMovesAreInformed`.
  Every step on a page either moves its token on or leaves its place (`Forward`),
  so a token that a client holds is never ahead of the page, and names its place
  if it is current.

About `DraftAutosave`, for any set of pages and any bounds (`AutosaveAssumption`):

- `AutosaveInvariant`: `SafeSpec => []AutosaveInv`.  Types alone do not give
  the refinement: a save that reaches the server must carry a text later than the one
  stored.  `HeadIsSending` says that a save on the wire belongs to the head of the chain, so
  that there is one at a time; `TextsInv` that what is queued or being sent was
  typed in its own page and is never older than what is stored there, and that of one
  page the queued text is never older than the one being sent: a failed save is
  merged under what was queued since.
- `AutosaveImplementsTypedTexts`: `SafeSpec => ImplementsTypedTexts`, the property of
  `editor`: initial states map to initial states, and each step to `Type`, `Store`,
  `Publish` or a stutter (`StepIsPromised`).
- `NoEditForgottenOnAPage`: while the editor stays on its page, the last text typed is
  stored, queued or being sent, and "saved" is shown only when it is stored.  It
  needs that what is queued or being sent is of the page shown (`OnThisPage`), and that
  "saved" is shown only with nothing queued or under way (`SavedMeansIdle`).
- `PublishCarriesWhatWasTyped`: while the editor stays on its page, a publish that goes on in
  an enabled editor carries what was typed before it was asked for.  A publish waits
  with the text of its moment, and a run behind a failed save may be the one it waits
  for: `AsksInv` says that the save on the wire, if a publish waits on it, carries
  at least that text, since `NoEditForgotten` makes what the run takes the latest.

About `EditBaseline`, for any bounds (`BaselineAssumption`):

- `BaselineTypes`: `Spec => []TypeOK`, from `BaseInv`: bodies are numbered as they are written,
  what is queued is what the editor shows and was typed here, answers are read while the
  editor loads, and the store has the baseline of its own draft (`StoreKnowsDraft`).
- `NeverConflictsWithItself`: `Spec => []NoSelfConflict`, refreshes of the store and titles
  before the load included.  `SeenInv` covers the client that has written
  nothing yet: what it read, shows and types is of the version it loaded, and once
  the page has moved on, not of its current body.
- `NothingReplacedUnseen`: `Spec => PublishReplacesWhatTheEditorShowed`, when `Refreshes` and
  `ActsLoading` are `FALSE`.  `CoverInv` says that whatever the client could save or publish
  at the page's version includes the page's body, unless that is its own: no version
  that the client may name is ahead of the page's (`VersionsBehind`), and while the editor
  loads nothing else of this client's happens (`LoadsAlone`).  Both hypotheses
  are needed: with either constant `TRUE` TLC finds a body replaced unseen.

About `PagePresence`, for any editors, timeout, interval and number of broadcasts on their
way (`PresenceAssumption`):

- `PresenceTypes`: `Spec => []TypeOK`, whatever fails, ties, overlaps or gets lost.
- `EndedSessionsLeave`: `Spec => []EndedSessionsAreGone`, without `Ties`, `Fails` and
  `Losses`, when requests take no longer than the timeout.  The
  property speaks of a moment when nothing is under way; `EndedInv` says of
  every moment that whatever shows an editor without a draft (a broadcast, the viewer's
  read, its snapshot) has a correction: something newer that does not name the editor, there
  or on its way.  The proof of an arrival (`ArrivalEnded`) is that a snapshot the viewer
  replaces or drops was no correction that a newer one does not make as well.
- `SuppressedAreSeen`: `Spec => []NobodySuppressedUnseen`, without `Overlaps`, `Losses` and
  `Ties`, failing queries included, when `Interval + MaxStay <= Timeout + 1`: requests
  take no longer than what the timeout leaves of the interval.  `ClaimsInv` ties the entry of
  the throttle to the request that claimed it, which releases its own and no other;
  `SuppInv` says that since that claim every snapshot names the editor, whose draft is
  recent enough, and that the viewer has one or will get one.  With requests that
  take one millisecond longer TLC refutes the property: a save claims its entry so late that the
  query of its own broadcast finds its draft past the timeout, and the next save
  is suppressed by that entry.

About `PageTitle`, for any titles and numbers of edits, changes and failures
(`TitleAssumption`):

- `TitleInvariant`: types, and `TypedIsSafe`: until the field comes to hold a stored title
  again, what was typed is in the field, and is a stored title only while its own write is
  under way.  The last clause is what the effect on `subject.title` depends on: a field that
  holds what was last taken from the store takes the next title.
- `WhatIsTypedStays`: `TypedStays` always.

About the suite `MCEditor`, for any bounds of the autosave and of the baseline:

- `EditorTypes`, `EditorLosesNoEdit`, `EditorImplementsTypedTexts`, `BaselinesProtect`,
  `TypedTitlesStay`, `EditorsOnScreen`: `TypesOK`, `NoEditLost`, `ImplementsTypedTexts`,
  `BaselineProtects`, `TypedTitleStays` and `EditorsShownAreEditing`, the properties of the
  run `editor` that are not liveness.  A behavior of the suite is one of `DraftAutosave`, of
  `EditBaseline` and of `PageTitle` (`AutosaveOfEditor`, `BaselineOfEditor`, `TitleOfEditor`),
  and in the parts about presence one of `PagePresence` (`SessionOfEditor` and its like), so
  the theorems about these apply.

About `PageRoute`, for any pages, drafts, links, bounds and kinds of steps by others
(`RouteAssumption`):

- `RouteTypes`: `Spec => []TypeOK`.  It needs that a load belongs to the address routed
  (`LoadFits`): the draft's request runs only for a page or a draft, the page's only for a
  page that the store does not have.
- `PagesAreLeftIfGone`: `Spec => BounceOnlyIfGone`.  The redirect reads the client's store and
  what has settled; the property speaks of the server.  `RouteInv` relates the two:
  what was settled as not there is not there (`CheckedIsGone`), a draft that counts as
  loaded and has no body in the store is gone or sends nobody away (`LoadedIsThere`), and
  neither does what the client forgets when a command is answered (`RemovedIsGone`); a
  draft of a page is a draft of a live page (`DraftsOfPages`), so that of the two requests of
  a visit no answer of one is refuted by the other.  The hypothesis `Benign` says what
  the code cannot help: a failed request counts as "not there" (hooks/pages.ts), and
  a page or draft that others publish or bring back while a visit lasts may have been
  missing when it was asked for.  It also asks that the listings are in, or that
  one step at most is made while they are not (edit mode, a publish and Back are steps): a
  listing read before the client's own publish and answered after it takes the new page from
  the store again, and Back to the address of its draft then ends at the overview.

About `SpaceStore`, for any spaces, teams and bounds (`StoreAssumption`):

- `SpaceTypes`: `Spec => []TypeOK`.
- `SpacesAreCorrectedIfGone`: `Spec => BounceOnlyIfGone`, without `Fails` and `Grants`.  Only routed
  spaces are asked for (`AskedIsViewed`), what was not found or settled as missing stays
  out of reach (`MissingIsGone`, `SpaceCheckedIsGone`), and a space being created has not
  been routed (`NewIsUnseen`), so that its creation refutes no earlier answer.  With
  `Grants` it is refuted, as the table above says.
- `TheSidebarIsRight`: `Spec => []SidebarIsRight`, without `Overlaps`, `Grants` and `Revokes`.
  The property speaks of a moment at rest; `IndexFollows` says of every moment how the
  index of a listed team differs from the server by the command that is
  pending, and `AnswersAreRight` that what was read and has not arrived is still so.

About `PageStore`, for any pages, spaces and bounds (`StoreAssumption`):

- `StoreFollows`: types, `TreeFollowsTheServer` and `OwnMovesDropNothing`.  A space without a
  reason to differ (an empty `drift`) is not always drawn as the server has it, only when no
  call about it is under way; in between the two are numbered differently, and the proof
  says in which ways (`Consistent`).  The client numbers as the server does (`InOrder`); or
  it is one move of its own ahead, sent or answered (`MoveUnderWay`); or a refused move left
  one page astray and the listing that corrects it is under way (`Refetched`); or the server
  has deleted a page that the client has yet to prune (`DeleteAnswered`).  `Honest` says that
  the answers on their way carry rows that the server still has, and `CallsWell` that a
  listing which nothing overtook is the space as it is.  The client's `reindexAfterMove` and
  the server's renumbering are written over different data in two languages; that they give
  every page the same number is what `ClientReorders` and `ServerReorders` establish, from
  positions that order the siblings.  So the invariant includes those of the server's own
  tree (`ServerInv`, by the lemmas of `PageTreeProofs`): without distinct positions the two
  would break ties by the title and by the time of creation.
- `ExactIsInStep`, the last step: a client whose pages of a space are the server's draws the
  server's tree, every row reached from the roots because the server's tree has no cycle.

About the suite `MCNavigation`:

- `NobodyIsSentAway`: its `BounceOnlyIfGone`.  A behavior of the suite is one of `PageRoute` in
  the parts inside a space and one of `SpaceStore` in the part about routed spaces; both
  are instances of the theorems above.
- `StoresFollowTheServer`: its `StoreFollowsTheServer`.  The three parts about pages are three
  instances of `PageStore` with bounds of their own (`StoreFollows`), the part about the
  sidebar is one of `SpaceStore` (`TheSidebarIsRight`).
- `NavigationTypes`: its `TypesOK`.

About `SpaceMembers`, for any finite set of users (`MembersAssumption`):

- `MembersTypeCorrect`: `Spec => []TypeOK`.
- `TheLastMemberStays`: `Spec => []SomeoneRemains`.  The invariant
  adds that there is one removal between its guard and its write, and that what the guard
  saw stays true until the write (`GuardStaysTrue`): this is what the membership lock is
  for, and it fails when the check and the removal are not under one lock.
- `BusyCoversEveryRequest`: `Spec => []BusyWhileInFlight` without `Reopens`.  One flag serves
  all mutations of a surface; `SurfaceInv` says that this client has one under way at a time:
  the requests of one batch, each of a member of it, or a single removal or leave.
- `NobodyPickedIsLost`: `Spec => [][PicksKept]_vars`, without `Others` and `Reopens`, in either
  surface.  Until a batch settles everyone in it has a request under way, is a member, or is
  among its failures (`BatchInv`).
- `TheRosterIsRight`: `Spec => []RosterIsRight`, without `Overlaps`, `Others` and `Reopens`.  The
  roster differs from the server by the requests that are done and not answered
  (`RosterInv`).  The hypotheses are those of the code: a removal by another member
  reaches this client only with the next listing, and a listing read before a mutation
  and answered after it undoes the mutation in the roster.

About `SidebarWidth`, for any limits, snap distance, step and places of the pointer:

- `WidthTypeCorrect`: widths stay within their limits, and during a drag the place it began at
  is the handle of the width it began with (`DragBegan`).
- `DragsReverse`: a drag brought back to where it began brings the width back.
- `WidthIsSavedAtRest`: between gestures the width is the one a reload restores, when no
  release strays and no panel closes under a drag.

About `SpaceSettings`, for any values and versions (`SettingsAssumption`):

- `SavesLeaveTheRest`: `Spec => [][LeavesTheRest]_vars`.  The server compares versions, the
  property speaks of properties: `CopiesInv` says that whoever holds the row's version (the
  store, a listing on its way, an answer) holds the row, so a save that the server takes
  was made from the row's own other properties.
- `SavesOverwriteOnlyWhatWasShown`: `Spec => [][OverwritesOnlyShown]_vars` without `Refreshes`.
  A form was set from the version the store holds (`BasedInv`).  With `Refreshes` TLC refutes
  it: a listing moves the store, and with it the version a save names, under an open form.
- `FormsAreDroppedClean`: `Spec => [][DropsClean]_vars`.

About `PageRows` and `PageTreePanel`, for any pages, cap on their depth, gestures and number of
changes by others (`PanelAssumption`):

- `PanelFocusKept`: `Spec => []FocusKept`.  The layout effect takes focus back to the row at the
  index the lost one had, clamped to the rows there are, so the proof needs what the rows are:
  the visible ids, each once, in one line (`RowsAreLines`).  That holds of trees with numbered
  levels and one position per sibling (`WellFormed`), whose rows the order from top to bottom
  puts in a line (`EarlierIsTotal`, `AboveIsEarlier`), and every move, drop, deletion,
  publication and new draft keeps a tree well formed (`AfterIsWellFormed`,
  `PublishedWellFormed`), because keys and drops only make moves to a place that is not
  below the page (`KeyMovesAreLegal`, `DropsAreLegal`).  `FocusInv` adds that a focused
  row is shown and has the tab stop.
  The recursive functions of `PageRows` are reasoned about by a least element of a finite set
  (`LeastOf`), which needs no induction over data: a row and what is above it are a chain
  (`PathIsAChain`), and a function that a row has from its parent is the only one
  (`SameFromAbove`, `SameFromBelow`).

About the suite `MCPanels`:

- `FocusStaysInTheTree`: its `FocusKept`.
- `SomeoneStays`, `BatchesAreSettled`, `SettingsAreSafe`, `WidthsAreKept`: its `SomeoneRemains`,
  `BatchesSettle`, `SettingsSurvive` and `WidthIsKept`.  A behavior of the suite is one of
  its part, and the parts about members, settings, widths and focus are instances of the theorems
  above; the first theorem also says that the other parts leave the members alone.

All properties of the passing runs about the server (`publish_*`, `tree_*`) are theorems;
the violated ones, `DraftDiscard`'s among them, state what the code does not do.  Only
model-checked, of the client:
where pages and spaces land (`MovesLand` of `PageTreePanel`, `SpacesLand` of `SidebarSpaces`), and
`TypesOK` of `MCPanels`.  Liveness under fairness,
`ENABLED` and induction over data are beyond the prover and stay with TLC: the liveness
properties of the suites (`RouteSettles`, `EditsGetThrough`, `NobodyStaysForEver` and
their like), and what `PageRows` and `SidebarSpaces` compute, whose
depths, heights, subtrees and trimmed orders are recursive functions.

## What is not modelled

The components with status `not_modelled` in `PROJECT.json`: the sanitizer (a pure
function on editor JSON), REST routing and authorization (a gate in front of every
handler), listings (reads), activation and migrations (before any request),
people search (a debounced search whose late answers a flag drops), and rendering:
menus, toasts, the slash menu, the host editor's chrome.  Space lifecycle and
duplicate page are planned below.

Left out of the modules that are written:

- `DraftAutosave`: `cancel()` has no caller in the client.  A save fails before or after it
  reached the server, but never arrives later than its own retry (`DraftPublish` has late
  saves).  A text queued and then closed within the debounce stays queued without
  a timer, as in the code.  A remount that reads the draft before the forced
  write of the unmount is not modelled, nor the host editor's own send key, which the
  header's `publishing` flag does not guard.
- `EditBaseline`: in the run, the store's page changes under the client's own writes.
- `PageTitle`: one field; another user's titles come one at a time.
- `PagePresence`: an unpublished page is announced to its author alone, who filters
  himself out; the server's sweep of the throttle map changes nothing that is
  observed; clocks do not skew.
- `PageStore`: the depth cap never binds in its instances; the thunk `createPage` has no
  caller, pages come by publishing drafts.
- `PageRoute`: the browser's Forward, several commands at once, and loads of the page made by the
  editor itself except late ones (`PageArrivesLate`).  Ids are made only by "Add page".
- `SpaceStore`: the host mounts the product anew on a switch of teams; the id of a space being
  created is nobody's yet.
- `SpaceMembers`: the polling of the advisory lock, its timeout and lost answers.
- `SpaceSettings`: the modal is opened again only once the last requests are answered; a
  refused save stays refused until the row is refreshed.
- `PageTreePanel`, `SidebarSpaces`: no store change between the last event of a drag and its
  drop; focus on the chevron or link inside a row.  Preference writes succeed.
- `SidebarWidth`: one pointer, a gesture begins on the handle, and localStorage writes succeed.

## Plan

Left, in this order:

1. An abstract ordered tree (children as sequences) that `PageTree` implements: the
   theorems of `PageTreeProofs` say that positions order siblings, so they define one.
2. `DraftTree`: autosave that changes the parent with `checkNoDraftCycle`, drafts that
   follow `MovePageToSpace`, duplicate page.
3. `SpaceLifecycle`: row and channel written in two systems, crash between them,
   compensation, retry of a stuck restore; convergence of channel metadata.
4. `Document`: an abstract register with compare-and-swap per page which
   `DraftPublish` implements, as a refinement.
