---------------------------- MODULE DraftPublish ----------------------------
(***************************************************************************)
(* Drafts and publishing inside one space: the rows of DOCS_Page and       *)
(* DOCS_Draft, the store transactions that write them, and the requests of *)
(* app.PublishPageDraft, which read both tables in separate statements     *)
(* before they open their transaction.                                     *)
(*                                                                         *)
(* A store transaction is one step where every competitor waits for a row  *)
(* lock it holds: the space row, or the page row.  DeleteDraftVersion      *)
(* waits for neither, so a save that finds its row is two steps, with the  *)
(* locks held in between: it looks for the row, then writes it.  A publish *)
(* request is several steps, because the code runs several statements      *)
(* outside any transaction.                                                *)
(*                                                                         *)
(* Abstracted: title, body, file ids and props are one text, a number that *)
(* names one save (0 = the save carried no content).  Page positions       *)
(* (SortOrder, depth, moves) are in module PageTree.                       *)
(***************************************************************************)
EXTENDS Integers, Sequences, FiniteSets, StoreTokens

CONSTANTS
    Users,          \* members of the space
    Pages,          \* page ids, reserved or published
    Reqs,           \* slots for publish requests in flight
    NoPage,         \* ParentId = '': the root of the space
    NoDraft,        \* no row in DOCS_Draft
    NoReq,          \* an unused request slot
    NoSave,         \* no save holds the space row
    MaxDraftsPerUser,   \* model.MaxDraftsPerUserPerSpace
    LockWait,       \* how long a transaction may wait for its first row lock
    MaxClock,       \* bound: milliseconds that may pass
    MaxStamp,       \* bound: largest UpdateAt / EditAt
    MaxTexts,       \* bound: saves that carry content
    MaxSessions,    \* bound: edit sessions per user and page
    MaxRows         \* bound: draft rows ever inserted per user and page

ASSUME ParamsAssumption ==
    /\ MaxDraftsPerUser \in Nat /\ LockWait \in Nat /\ MaxClock \in Nat
    /\ MaxStamp \in Nat /\ MaxTexts \in Nat /\ MaxSessions \in Nat
    /\ MaxRows \in Nat

ASSUME NoPageAssumption == NoPage \notin Pages

VARIABLES
    clock,      \* mmmodel.GetMillis(): several steps may share a millisecond
    spaceDeleteAt,  \* DOCS_Space.DeleteAt, 0 while the space is live
    pages,      \* DOCS_Page, by id
    drafts,     \* DOCS_Draft, by user and page id
    reqs,       \* the local variables of the PublishPageDraft calls in flight
    save,       \* the save that has found its row and not yet written it
    sessions,   \* history: the edit sessions the clients have opened
    ended,      \* history: how many sessions preceded the user's last publish
    texts,      \* history: how many texts have been saved
    rows        \* history: how many draft rows were inserted, by user and page

vars == <<clock, spaceDeleteAt, pages, drafts, reqs, save, sessions, ended, texts, rows>>

-----------------------------------------------------------------------------

ParentIds == Pages \cup {NoPage}

\* exists = FALSE: no row with this id yet (the id may be reserved by a draft).
Page == [exists : BOOLEAN, deleteAt : Nat, editAt : Nat, updateAt : Nat,
         parentId : ParentIds, text : Nat]

\* opener and writer are history: the session that inserted the row and the
\* session that wrote its text; row numbers the insertions of this key.
Draft == [updateAt : Nat, baseEditAt : Nat, parentId : ParentIds, text : Nat,
          opener : Nat \ {0}, writer : Nat \ {0}, row : Nat \ {0}]

Steps == {"target", "parent", "insert", "patch", "baseline", "winner", "orphan"}

Request == [step : Steps, user : Users, page : Pages, force : BOOLEAN,
            draft : Draft]

\* now is the UpdateAt of PreSave, read before the first lock.
Save == [user : Users, page : Pages, session : Nat \ {0}, text : Nat, now : Nat]

Session == [baseEditAt : Nat, text : Nat]

ASSUME NoDraftAssumption == NoDraft \notin Draft
ASSUME NoReqAssumption == NoReq \notin Request
ASSUME NoSaveAssumption == NoSave \notin Save

TypeOK ==
    /\ clock \in Nat \ {0}
    /\ spaceDeleteAt \in Nat
    /\ pages \in [Pages -> Page]
    /\ drafts \in [Users -> [Pages -> Draft \cup {NoDraft}]]
    /\ reqs \in [Reqs -> Request \cup {NoReq}]
    /\ save \in Save \cup {NoSave}
    /\ sessions \in [Users -> [Pages -> Seq(Session)]]
    /\ ended \in [Users -> [Pages -> Nat]]
    /\ texts \in Nat
    /\ rows \in [Users -> [Pages -> Nat]]

Init ==
    /\ clock = 1
    /\ spaceDeleteAt = 0
    /\ pages = [p \in Pages |-> [exists |-> FALSE, deleteAt |-> 0, editAt |-> 0,
                                 updateAt |-> 0, parentId |-> NoPage, text |-> 0]]
    /\ drafts = [u \in Users |-> [p \in Pages |-> NoDraft]]
    /\ reqs = [r \in Reqs |-> NoReq]
    /\ save = NoSave
    /\ sessions = [u \in Users |-> [p \in Pages |-> <<>>]]
    /\ ended = [u \in Users |-> [p \in Pages |-> 0]]
    /\ texts = 0
    /\ rows = [u \in Users |-> [p \in Pages |-> 0]]

-----------------------------------------------------------------------------
(* Tokens and reads                                                        *)

\* What a transaction may read as now before it gets its first row lock.
ClockReads == StaleReads(clock, LockWait)

Fits(stamp) == stamp <= MaxStamp

SpaceLive == spaceDeleteAt = 0

Absent(p) == ~ pages[p].exists

Live(p) == pages[p].exists /\ pages[p].deleteAt = 0

\* pageExistsInSpace, and tryLockLiveParent on the draft paths.
LiveParent(p) == p = NoPage \/ (p \in Pages /\ Live(p))

Held(u, p) == drafts[u][p] # NoDraft

\* Mutant of Visible: the not-found result of the draft read is ignored.
VisibleUnheld(u, p) == SpaceLive /\ (Absent(p) \/ Live(p))

\* applyDraftLivenessFilter: the page is absent or live, the space is live.
Visible(u, p) ==
    /\ Held(u, p)
    /\ SpaceLive
    /\ Absent(p) \/ Live(p)

\* The row locks: the space row (lockLiveSpace, FOR UPDATE) and a page row.
SpaceUnlocked == save = NoSave

PageUnlocked(p) == save # NoSave => save.page # p

DraftCount(u) == Cardinality({p \in Pages : Held(u, p)})

Tick ==
    /\ clock < MaxClock
    /\ clock' = clock + 1
    /\ UNCHANGED <<spaceDeleteAt, pages, drafts, reqs, save, sessions, ended, texts, rows>>

-----------------------------------------------------------------------------
(* Drafts: the editor's session, autosave, discard                         *)

\* A client loads a live page and starts to edit what it shows.
OpenEditor(u, p) ==
    /\ SpaceLive /\ Live(p)
    /\ Len(sessions[u][p]) < MaxSessions
    /\ sessions' = [sessions EXCEPT ![u][p] =
           Append(@, [baseEditAt |-> pages[p].editAt, text |-> pages[p].text])]
    /\ UNCHANGED <<clock, spaceDeleteAt, pages, drafts, reqs, save, ended, texts, rows>>

\* Where validateDraftParent and upsertDraft agree to hang a draft: the root,
\* a live page, or another visible draft of the same user.
DraftParentOK(u, parent) ==
    LiveParent(parent) \/ (parent \in Pages /\ Visible(u, parent))

\* CreateSpaceDraft reserves a fresh id and inserts the row of a new page.
CreateSpaceDraft(u, p, parent, now) ==
    /\ SpaceUnlocked
    /\ SpaceLive
    /\ Absent(p)
    /\ \A v \in Users : sessions[v][p] = <<>>        \* mmmodel.NewId()
    /\ DraftParentOK(u, parent)
    /\ DraftCount(u) < MaxDraftsPerUser
    /\ texts < MaxTexts
    /\ texts' = texts + 1
    /\ sessions' = [sessions EXCEPT ![u][p] = <<[baseEditAt |-> 0, text |-> 0]>>]
    /\ rows' = [rows EXCEPT ![u][p] = @ + 1]
    /\ drafts' = [drafts EXCEPT ![u][p] =
           [updateAt |-> now, baseEditAt |-> 0, parentId |-> parent,
            text |-> texts + 1, opener |-> 1, writer |-> 1,
            row |-> rows[u][p] + 1]]
    /\ UNCHANGED <<clock, spaceDeleteAt, pages, reqs, save, ended>>

\* Mutant of MayEstablish: a baseline behind the page, or none, is not refused.
MayEstablishStale(u, p, base) ==
    /\ Live(p) /\ base <= pages[p].editAt
    /\ DraftCount(u) < MaxDraftsPerUser

\* Mutant of MayEstablish: an id without a page row gets a draft by autosave.
MayEstablishAnywhere(u, p, base) == DraftCount(u) < MaxDraftsPerUser

\* upsertDraft on a key with no row: only over a live page, and only by a
\* session whose baseline is the page's current EditAt.  A baseline behind it
\* (or none) means a publish or an edit came between; one ahead is impossible.
MayEstablish(u, p, base) ==
    /\ Live(p)
    /\ base # 0
    /\ base <= pages[p].editAt
    /\ ~ (pages[p].editAt > base)
    /\ DraftCount(u) < MaxDraftsPerUser

\* The row a save by session i inserts: its own baseline, no parent.
Inserted(u, p, i, text, now) ==
    [updateAt |-> now, baseEditAt |-> sessions[u][p][i].baseEditAt,
     parentId |-> NoPage, text |-> text, opener |-> i, writer |-> i,
     row |-> rows[u][p] + 1]

InsertDraft(u, p, i, text, now) ==
    /\ rows[u][p] < MaxRows
    /\ rows' = [rows EXCEPT ![u][p] = @ + 1]
    /\ drafts' = [drafts EXCEPT ![u][p] = Inserted(u, p, i, text, now)]

\* A save that finds no row inserts one, if it may: nobody else can, since each
\* insert holds the space row.
EstablishDraft(u, p, i, text, now) ==
    /\ ~ Held(u, p)
    /\ MayEstablish(u, p, sessions[u][p][i].baseEditAt)
    /\ InsertDraft(u, p, i, text, now)
    /\ UNCHANGED save

\* A save that finds a row, whatever session wrote it last, may keep saving.
FindDraft(u, p, i, text, now) ==
    /\ Held(u, p)
    /\ Absent(p) \/ Live(p)
    /\ Fits(NextMonotonic(now, drafts[u][p].updateAt))
    /\ save' = [user |-> u, page |-> p, session |-> i, text |-> text, now |-> now]
    /\ UNCHANGED <<drafts, rows>>

\* UpdatePageDraft, up to its last look at the row: a save of any session ever
\* opened may arrive, the late and the reordered ones included; it carries a
\* fresh text or no content at all.
UpdatePageDraft(u, p, i, text, now) ==
    /\ SpaceUnlocked
    /\ SpaceLive
    /\ \/ text = 0 /\ UNCHANGED texts
       \/ text = texts + 1 /\ text <= MaxTexts /\ texts' = text
    /\ EstablishDraft(u, p, i, text, now) \/ FindDraft(u, p, i, text, now)
    /\ UNCHANGED <<clock, spaceDeleteAt, pages, reqs, sessions, ended>>

\* The row after a save by session i: the stored baseline and the omitted fields
\* are kept, the token moves on.
Merged(row, i, text, now) ==
    [row EXCEPT !.updateAt = NextMonotonic(now, @),
                !.text = IF text = 0 THEN @ ELSE text,
                !.writer = IF text = 0 THEN @ ELSE i]

\* INSERT ... ON CONFLICT DO UPDATE, and the commit: a row that is still there is
\* merged into; one that was deleted since the save found it is inserted again.
UpsertDraft(u, p, i, text, now) ==
    /\ \/ /\ Held(u, p)
          /\ drafts' = [drafts EXCEPT ![u][p] = Merged(@, i, text, now)]
          /\ UNCHANGED rows
       \/ ~ Held(u, p) /\ InsertDraft(u, p, i, text, now)
    /\ save' = NoSave
    /\ UNCHANGED <<clock, spaceDeleteAt, pages, reqs, sessions, ended, texts>>

FinishSave ==
    /\ save # NoSave
    /\ UpsertDraft(save.user, save.page, save.session, save.text, save.now)

\* A page or draft row under a new parent, with a new token.
Reparented(row, parent, now) ==
    [row EXCEPT !.parentId = parent, !.updateAt = NextMonotonic(now, @)]

\* Mutant of ReparentedBelow: the pending child keeps pointing at the old parent.
ReparentedBelowKept(p, parent, row, now) == row

\* A draft row that hangs below p is given p's parent.
ReparentedBelow(p, parent, row, now) ==
    IF row # NoDraft /\ row.parentId = p
    THEN Reparented(row, parent, now)
    ELSE row

\* DeleteDraftReparenting: discarding the draft of an unpublished page hands
\* its child drafts to its own parent.
DiscardDraft(u, p, now) ==
    /\ SpaceUnlocked
    /\ SpaceLive
    /\ Held(u, p)
    /\ \A q \in Pages : Held(u, q) => Fits(NextMonotonic(now, drafts[u][q].updateAt))
    /\ drafts' = [drafts EXCEPT ![u] = [q \in Pages |->
           IF q = p THEN NoDraft
           ELSE IF Live(p) THEN @[q]
           ELSE ReparentedBelow(p, drafts[u][p].parentId, @[q], now)]]
    /\ UNCHANGED <<clock, spaceDeleteAt, pages, reqs, save, sessions, ended, texts, rows>>

-----------------------------------------------------------------------------
(* PublishPageDraft, one statement at a time                               *)

Return(r) == reqs' = [reqs EXCEPT ![r] = NoReq]

Continue(r, step) == reqs' = [reqs EXCEPT ![r].step = step]

AtStep(r, step) == reqs[r] # NoReq /\ reqs[r].step = step

\* Mutant of HoldsVersion: the delete is not pinned to the version read.
HoldsAnyVersion(q) == Held(q.user, q.page)

\* The row the request has read is still the stored one, by its token.
HoldsVersion(q) ==
    /\ Held(q.user, q.page)
    /\ drafts[q.user][q.page].updateAt = q.draft.updateAt

WithoutDraft(u, p) == [drafts EXCEPT ![u][p] = NoDraft]

\* 1. GetPageDraft.
ReadDraft(r, u, p, force) ==
    /\ reqs[r] = NoReq
    /\ Visible(u, p)
    /\ reqs' = [reqs EXCEPT ![r] = [step |-> "target", user |-> u, page |-> p,
                                    force |-> force, draft |-> drafts[u][p]]]
    /\ UNCHANGED <<clock, spaceDeleteAt, pages, drafts, save, sessions, ended, texts, rows>>

\* 2. GetPageWithDeleted and derivePublishTarget, then the choice of the write:
\* a deleted page refuses, an absent one is created, a live one is patched
\* unless the draft has no baseline to patch it on.
DeriveTarget(r) ==
    /\ AtStep(r, "target")
    /\ LET q == reqs[r] IN
       \/ /\ Absent(q.page)
          /\ Continue(r, IF q.draft.parentId # NoPage THEN "parent" ELSE "insert")
       \/ /\ Live(q.page)
          /\ q.force \/ q.draft.baseEditAt # 0
          /\ Continue(r, IF q.draft.text = 0 THEN "baseline" ELSE "patch")
       \/ /\ Live(q.page)
          /\ ~ (q.force \/ q.draft.baseEditAt # 0)        \* baseline_required
          /\ Return(r)
       \/ /\ ~ Absent(q.page) /\ ~ Live(q.page)           \* page_deleted
          /\ Return(r)
    /\ UNCHANGED <<clock, spaceDeleteAt, pages, drafts, save, sessions, ended, texts, rows>>

\* 3. PageExistsInSpace on the parent of a new page.
ProbeParent(r) ==
    /\ AtStep(r, "parent")
    /\ IF LiveParent(reqs[r].draft.parentId) THEN Continue(r, "insert") ELSE Return(r)
    /\ UNCHANGED <<clock, spaceDeleteAt, pages, drafts, save, sessions, ended, texts, rows>>

\* The effect of a committed publish on the draft and on the history.
ConsumeDraft(q) ==
    /\ drafts' = WithoutDraft(q.user, q.page)
    /\ ended' = [ended EXCEPT ![q.user][q.page] = Len(sessions[q.user][q.page])]

\* PublishNewPageDraft commits: insertPageTx, then deletePublishedDraftTx.
PublishNew(r) ==
    /\ AtStep(r, "insert")
    /\ SpaceUnlocked
    /\ LET q == reqs[r] IN
       /\ SpaceLive
       /\ LiveParent(q.draft.parentId)
       /\ Absent(q.page)
       /\ HoldsVersion(q)
       /\ pages' = [pages EXCEPT ![q.page] =
              [exists |-> TRUE, deleteAt |-> 0, editAt |-> clock, updateAt |-> clock,
               parentId |-> q.draft.parentId, text |-> q.draft.text]]
       /\ ConsumeDraft(q)
    /\ Return(r)
    /\ UNCHANGED <<clock, spaceDeleteAt, save, sessions, texts, rows>>

\* PublishNewPageDraft rolls back.  Space or parent gone: page_deleted.  A row
\* with this id: ErrConflict, and the caller looks for the winner of the race.
\* The draft's token has moved: ReasonConcurrentAutosave.
PublishNewFails(r) ==
    /\ AtStep(r, "insert")
    /\ SpaceUnlocked
    /\ LET q == reqs[r] IN
       \/ /\ ~ (SpaceLive /\ LiveParent(q.draft.parentId))
          /\ Return(r)
       \/ /\ SpaceLive /\ LiveParent(q.draft.parentId) /\ ~ Absent(q.page)
          /\ Continue(r, "winner")
       \/ /\ SpaceLive /\ LiveParent(q.draft.parentId) /\ Absent(q.page)
          /\ ~ HoldsVersion(q)
          /\ Return(r)
    /\ UNCHANGED <<clock, spaceDeleteAt, pages, drafts, save, sessions, ended, texts, rows>>

\* Mutant of Patched: EditAt is taken from the clock, not bumped past its old value.
PatchedByClock(p, text) ==
    [pages[p] EXCEPT !.text = text, !.editAt = Later(clock, @),
                     !.updateAt = Later(clock, @)]

\* applyPagePatchTx: the row as the patch leaves it.
Patched(p, text) ==
    LET now == NextMonotonic(clock, Later(pages[p].editAt, pages[p].updateAt))
    IN [pages[p] EXCEPT !.text = text, !.editAt = now, !.updateAt = now]

\* Mutant of MayPatch: no compare-and-swap on EditAt.
MayPatchBlind(p, base, force) == Live(p)

MayPatch(p, base, force) == Live(p) /\ (force \/ pages[p].editAt = base)

\* PublishPageEditDraft commits: applyPagePatchTx, then deletePublishedDraftTx.
PublishEdit(r) ==
    /\ AtStep(r, "patch")
    /\ PageUnlocked(reqs[r].page)
    /\ LET q == reqs[r] IN
       /\ MayPatch(q.page, q.draft.baseEditAt, q.force)
       /\ HoldsVersion(q)
       /\ Fits(Patched(q.page, q.draft.text).editAt)
       /\ pages' = [pages EXCEPT ![q.page] = Patched(q.page, q.draft.text)]
       /\ ConsumeDraft(q)
    /\ Return(r)
    /\ UNCHANGED <<clock, spaceDeleteAt, save, sessions, texts, rows>>

\* PublishPageEditDraft rolls back: page gone, edit conflict or draft changed.
PublishEditFails(r) ==
    /\ AtStep(r, "patch")
    /\ PageUnlocked(reqs[r].page)
    /\ LET q == reqs[r] IN
       ~ (MayPatch(q.page, q.draft.baseEditAt, q.force) /\ HoldsVersion(q))
    /\ Return(r)
    /\ UNCHANGED <<clock, spaceDeleteAt, pages, drafts, save, sessions, ended, texts, rows>>

\* DeleteDraftVersion: no lock, no liveness condition, only the token.
DropVersion(q) ==
    drafts' = IF HoldsVersion(q) THEN WithoutDraft(q.user, q.page) ELSE drafts

\* discardBaselineOnlyDraft: nothing to write, the draft is dropped.
DiscardBaselineOnly(r) ==
    /\ AtStep(r, "baseline")
    /\ DropVersion(reqs[r])
    /\ Return(r)
    /\ UNCHANGED <<clock, spaceDeleteAt, pages, save, sessions, ended, texts, rows>>

\* adoptPublishRaceWinner, the read: only a live page can be adopted.
ReadWinner(r) ==
    /\ AtStep(r, "winner")
    /\ IF Live(reqs[r].page) THEN Continue(r, "orphan") ELSE Return(r)
    /\ UNCHANGED <<clock, spaceDeleteAt, pages, drafts, save, sessions, ended, texts, rows>>

\* adoptPublishRaceWinner, the delete of the orphaned draft.
DropOrphan(r) ==
    /\ AtStep(r, "orphan")
    /\ DropVersion(reqs[r])
    /\ Return(r)
    /\ UNCHANGED <<clock, spaceDeleteAt, pages, save, sessions, ended, texts, rows>>

-----------------------------------------------------------------------------
(* Other writers of the page: direct edits, delete and restore, the space  *)

\* UpdatePage: a PATCH that carries the baseline of one of the user's sessions.
UpdatePage(u, p, i, force) ==
    /\ PageUnlocked(p)
    /\ MayPatch(p, sessions[u][p][i].baseEditAt, force)
    /\ texts < MaxTexts
    /\ Fits(Patched(p, texts + 1).editAt)
    /\ texts' = texts + 1
    /\ pages' = [pages EXCEPT ![p] = Patched(p, texts + 1)]
    /\ UNCHANGED <<clock, spaceDeleteAt, drafts, reqs, save, sessions, ended, rows>>

\* A page row that is deleted or revived at stamp now gets new tokens.
Restamped(row, deleteAt, now) ==
    [row EXCEPT !.deleteAt = deleteAt,
                !.updateAt = NextMonotonic(now, @),
                !.editAt = NextMonotonic(now, @)]

\* Mutant of DraftsAfterDelete: deleteDraftsForPage is forgotten.
DraftsAfterDeleteKept(p, now) ==
    [u \in Users |-> [q \in Pages |->
        ReparentedBelow(p, pages[p].parentId, drafts[u][q], now)]]

\* deleteDraftsForPage and reparentDraftsForPage, for every user.
DraftsAfterDelete(p, now) ==
    [u \in Users |-> [q \in Pages |->
        IF q = p THEN NoDraft
        ELSE ReparentedBelow(p, pages[p].parentId, drafts[u][q], now)]]

\* The page row, stamped deleted, and its live children, promoted to its parent.
PagesAfterDelete(p, now) ==
    [q \in Pages |->
        IF q = p THEN Restamped(pages[p], now, now)
        ELSE IF Live(q) /\ pages[q].parentId = p
             THEN Reparented(pages[q], pages[p].parentId, now)
             ELSE pages[q]]

\* DeletePage: children are promoted to the page's parent; its drafts die with
\* it and the drafts pending below it follow the children.
DeletePage(p, now) ==
    /\ SpaceUnlocked
    /\ SpaceLive
    /\ Live(p)
    /\ \A q \in Pages : Fits(NextMonotonic(now, pages[q].updateAt))
    /\ \A u \in Users, q \in Pages :
           Held(u, q) => Fits(NextMonotonic(now, drafts[u][q].updateAt))
    /\ pages' = PagesAfterDelete(p, now)
    /\ drafts' = DraftsAfterDelete(p, now)
    /\ UNCHANGED <<clock, spaceDeleteAt, reqs, save, sessions, ended, texts, rows>>

\* The restored row under its old parent if that is still live, else at the root.
Revived(row) ==
    [row EXCEPT !.parentId = IF LiveParent(@) THEN @ ELSE NoPage]

\* RestorePage: under its old parent if that is still live, else at the root.
RestorePage(p, now) ==
    /\ SpaceUnlocked
    /\ SpaceLive
    /\ ~ Absent(p) /\ ~ Live(p)
    /\ Fits(NextMonotonic(now, pages[p].editAt))
    /\ Fits(NextMonotonic(now, pages[p].updateAt))
    /\ pages' = [pages EXCEPT ![p] = Revived(Restamped(@, 0, now))]
    /\ UNCHANGED <<clock, spaceDeleteAt, drafts, reqs, save, sessions, ended, texts, rows>>

\* The rows of pages ps, stamped deleted or live by their space at stamp.
Stamped(ps, deleteAt, stamp) ==
    [p \in Pages |->
        IF p \in ps THEN Restamped(pages[p], deleteAt, stamp) ELSE pages[p]]

\* DeleteSpace: one stamp, later than that of any page deleted before it, on
\* the space and on its live pages.  Drafts stay.
DeleteSpace(stamp) ==
    /\ SpaceUnlocked
    /\ SpaceLive
    /\ stamp >= clock
    /\ \A p \in Pages : pages[p].deleteAt < stamp
    /\ stamp = clock \/ \E p \in Pages : pages[p].deleteAt + 1 = stamp
    /\ \A p \in Pages : Fits(NextMonotonic(stamp, pages[p].updateAt))
    /\ spaceDeleteAt' = stamp
    /\ pages' = Stamped({p \in Pages : Live(p)}, stamp, stamp)
    /\ UNCHANGED <<clock, drafts, reqs, save, sessions, ended, texts, rows>>

\* RestoreSpace: revives the pages that carry exactly the space's stamp.
RestoreSpace(now) ==
    /\ SpaceUnlocked
    /\ ~ SpaceLive
    /\ \A p \in Pages : Fits(NextMonotonic(now, pages[p].updateAt))
    /\ spaceDeleteAt' = 0
    /\ pages' = Stamped({p \in Pages : pages[p].exists /\ pages[p].deleteAt = spaceDeleteAt},
                        0, now)
    /\ UNCHANGED <<clock, drafts, reqs, save, sessions, ended, texts, rows>>

-----------------------------------------------------------------------------

DraftStep(u, p) ==
    \/ OpenEditor(u, p)
    \/ \E now \in ClockReads : DiscardDraft(u, p, now)
    \/ \E now \in ClockReads, parent \in ParentIds \ {p} : CreateSpaceDraft(u, p, parent, now)
    \/ \E now \in ClockReads, i \in 1 .. Len(sessions[u][p]), text \in {0, texts + 1} :
           UpdatePageDraft(u, p, i, text, now)

PublishStep(r) ==
    \/ \E u \in Users, p \in Pages, force \in BOOLEAN : ReadDraft(r, u, p, force)
    \/ DeriveTarget(r) \/ ProbeParent(r)
    \/ PublishNew(r) \/ PublishNewFails(r)
    \/ PublishEdit(r) \/ PublishEditFails(r)
    \/ DiscardBaselineOnly(r) \/ ReadWinner(r) \/ DropOrphan(r)

PageStep(p) ==
    \/ \E u \in Users, force \in BOOLEAN : \E i \in 1 .. Len(sessions[u][p]) :
           UpdatePage(u, p, i, force)
    \/ \E now \in ClockReads : DeletePage(p, now) \/ RestorePage(p, now)

SpaceStep ==
    \/ \E stamp \in 1 .. MaxStamp : DeleteSpace(stamp)
    \/ \E now \in ClockReads : RestoreSpace(now)

Next ==
    \/ Tick
    \/ \E u \in Users, p \in Pages : DraftStep(u, p)
    \/ FinishSave
    \/ \E r \in Reqs : PublishStep(r)
    \/ \E p \in Pages : PageStep(p)
    \/ SpaceStep

Spec == Init /\ [][Next]_vars

-----------------------------------------------------------------------------
(* What must hold                                                          *)

\* An EditAt value names one content of the page for ever: whoever loaded the
\* page when it carried that value saw the text the page still has if it
\* carries that value now.  The optimistic lock of applyPagePatchTx and of the
\* draft baseline rests on it (store.go, monotonicBump).
EditAtNamesOneText ==
    \A u \in Users, p \in Pages : \A i \in 1 .. Len(sessions[u][p]) :
        LET s == sessions[u][p][i] IN
        s.baseEditAt # 0 /\ s.baseEditAt = pages[p].editAt => s.text = pages[p].text

\* The commit of request r over an existing page.
PatchedBy(r) ==
    /\ AtStep(r, "patch")
    /\ reqs'[r] = NoReq
    /\ pages'[reqs[r].page] # pages[reqs[r].page]

\* The session that opened the published draft loaded the very text that an
\* unforced publish replaces: nobody's edit is overwritten unseen (page_draft.go,
\* buildEditPatchForPublish).
PublishReplacesWhatItsOpenerSaw ==
    [][\A r \in Reqs : PatchedBy(r) /\ ~ reqs[r].force =>
           LET q == reqs[r] IN
           sessions[q.user][q.page][q.draft.opener].text = pages[q.page].text]_vars

\* The same for a direct edit: an unforced PATCH replaces the text its sender
\* had loaded (store.UpdatePage).
PatchReplacesWhatItsSenderSaw ==
    [][\A u \in Users, p \in Pages : \A i \in 1 .. Len(sessions[u][p]) :
           UpdatePage(u, p, i, FALSE) => sessions[u][p][i].text = pages[p].text]_vars

\* The row of user u on page p is gone after this step of request r.
TakenBy(r, u, p) ==
    /\ reqs[r] # NoReq /\ reqs'[r] # reqs[r]
    /\ reqs[r].user = u /\ reqs[r].page = p
    /\ Held(u, p) /\ drafts'[u][p] = NoDraft

Shipped(u, p) == drafts[u][p].text = 0 \/ pages'[p].text = drafts[u][p].text

\* A publish call never loses a save: the row it removes, if it is the row it
\* read, holds no text or the text the page now has, whatever autosaves,
\* reparentings and rival publishes came between (deletePublishedDraftTx,
\* DeleteDraftVersion).
PublishKeepsNewerSaves ==
    [][\A r \in Reqs, u \in Users, p \in Pages :
           TakenBy(r, u, p) /\ reqs[r].draft.row = drafts[u][p].row => Shipped(u, p)]_vars

\* The same without the clause on the row: it fails when the row was discarded
\* and inserted again with the token of the old one.
TokenNamesOneSave ==
    [][\A r \in Reqs, u \in Users, p \in Pages :
           TakenBy(r, u, p) => Shipped(u, p)]_vars

\* The save that is under way writes the row of u on p.
Saving(u, p) == save # NoSave /\ save.user = u /\ save.page = p

\* A save that finds no row establishes none for an edit session that was open
\* when the user's publish consumed its draft, however late it arrives and
\* whatever was published, edited or restored since (upsertDraft, "Refuse to
\* resurrect a draft").
EndedSessionsEstablishNothing ==
    [][\A u \in Users, p \in Pages :
           ~ Held(u, p) /\ drafts'[u][p] # NoDraft /\ ~ Saving(u, p) =>
               drafts'[u][p].opener > ended[u][p]]_vars

\* A published draft stays published: no row of such a session is left or
\* inserted later.  upsertDraft says so ("the existence check is stable within
\* the transaction"); it fails when DeleteDraftVersion removes the row of a
\* newer session after an older one's save has found it.
PublishEndsSessions ==
    \A u \in Users, p \in Pages :
        Held(u, p) => drafts[u][p].opener > ended[u][p]

\* While the space is live no draft outlives its page, so no save is stranded
\* where neither the editor nor the draft list can reach it.
NoDraftOfDeletedPage ==
    SpaceLive => \A u \in Users, p \in Pages : Held(u, p) => Visible(u, p)

\* A pending page hangs below the root, a live page or another draft of its
\* owner, through deletes, discards and publishes of what it hung below, so a
\* publish from the top down can reach it.
DraftParentsLive ==
    SpaceLive => \A u \in Users, p \in Pages :
        Held(u, p) => DraftParentOK(u, drafts[u][p].parentId)

\* The draft of a page that was never published does not come back after its
\* owner discarded it: the row is the only one ever inserted for the id, since
\* the autosave path inserts none for an id without a page (upsertDraft,
\* "autosaving it would ghost-draft").
DiscardedNewPageStaysDiscarded ==
    \A u \in Users, p \in Pages :
        Held(u, p) /\ Absent(p) => drafts[u][p].row = 1

\* An unforced publish replaces a text that the session which wrote the draft
\* had loaded.  It fails: a save of an older session merges into a row that a
\* newer session has established, and the stale baseline is forgotten.
PublishReplacesWhatItsWriterSaw ==
    [][\A r \in Reqs : PatchedBy(r) /\ ~ reqs[r].force =>
           LET q == reqs[r] IN
           sessions[q.user][q.page][q.draft.writer].text = pages[q.page].text]_vars

-----------------------------------------------------------------------------
(* Why they hold: the parts of the inductive invariant                     *)

\* No session is ahead of its page; one as recent as the page saw its content.
SessionsBehindPages ==
    \A u \in Users, p \in Pages : \A i \in 1 .. Len(sessions[u][p]) :
        LET s == sessions[u][p][i] IN
        /\ s.baseEditAt <= pages[p].editAt
        /\ Absent(p) => s.baseEditAt = 0
        /\ s.baseEditAt # 0 /\ s.baseEditAt = pages[p].editAt => s.text = pages[p].text

\* The stored baseline of draft is the one its opener loaded.
OpenedBySession(u, p, draft) ==
    /\ draft.opener <= Len(sessions[u][p])
    /\ draft.baseEditAt = sessions[u][p][draft.opener].baseEditAt

DraftsKeepTheirBaseline ==
    /\ \A u \in Users, p \in Pages : Held(u, p) => OpenedBySession(u, p, drafts[u][p])
    /\ \A r \in Reqs : reqs[r] # NoReq =>
           OpenedBySession(reqs[r].user, reqs[r].page, reqs[r].draft)

\* The save under way is one of a session.
SavesBySessions ==
    save # NoSave => save.session <= Len(sessions[save.user][save.page])

\* A publish leaves every session before it behind the page it wrote.
EndedSessionsBehindPages ==
    \A u \in Users, p \in Pages :
        /\ ended[u][p] <= Len(sessions[u][p])
        /\ \A i \in 1 .. ended[u][p] :
               ~ Absent(p) /\ sessions[u][p][i].baseEditAt < pages[p].editAt

PublishedPagesHaveEditAt == \A p \in Pages : pages[p].exists => pages[p].editAt > 0

PublishInv ==
    /\ TypeOK
    /\ PublishedPagesHaveEditAt
    /\ SessionsBehindPages
    /\ DraftsKeepTheirBaseline
    /\ SavesBySessions
    /\ EndedSessionsBehindPages

=============================================================================
