---------------------------- MODULE EditBaseline ----------------------------
(***************************************************************************)
(* Which version of a page an edit claims to start from.  The editor loads *)
(* the page once and stays mounted; the store's copy of the page is        *)
(* refreshed by listings and answers; the client remembers the versions    *)
(* its own writes produced.  The body's autosave, the title's save and a   *)
(* rename each pick their baseline among these, and the server keeps the   *)
(* baseline the draft was created with and compares it on publish.         *)
(*                                                                         *)
(* One published page, this client, and another user who publishes to it.  *)
(* A body is a number; the page starts with body 1 at version 1.           *)
(***************************************************************************)
EXTENDS Naturals, Sequences

CONSTANTS
  None,          \* no draft, nothing queued, nothing read
  Refreshes,     \* the store's page may be refreshed while the editor is open
  ActsLoading,   \* the title and Publish may be used before the editor loaded
  MaxEdit,       \* bound on the page's version
  MaxBody        \* bound on bodies written

BaselineAssumption ==
  /\ Refreshes \in BOOLEAN /\ ActsLoading \in BOOLEAN /\ MaxEdit \in Nat /\ MaxBody \in Nat
  /\ None \notin Nat /\ None \notin [base : Nat, body : Nat]

VARIABLES
  page,        \* server: [edit, body]
  draft,       \* server: this user's draft, [base, body] or None; body 0 is unset
  storePage,   \* the version of the page in the client's store
  storeDraft,  \* the draft's baseline in the client's store, or None
  own,         \* own_page_writes: last version this client wrote, 0 if none
  readDraft,   \* useEditorContent: the draft answer, not settled yet
  readPage,    \* useEditorContent: the page answer, not settled yet
  loaded,      \* baseEditAt the editor loaded, 0 before
  editing,     \* edit mode
  queued,      \* the autosave's patch, with the baseline it was queued with
  shown,       \* the body the editor shows
  stems        \* history: the bodies each body written includes

client == <<storePage, storeDraft, own>>
reads == <<readDraft, readPage>>
vars == <<page, draft, storePage, storeDraft, own, readDraft, readPage,
          loaded, editing, queued, shown, stems>>

NotRead == [read |-> FALSE]
Read(x) == [read |-> TRUE, value |-> x]

Init ==
  /\ page = [edit |-> 1, body |-> 1]
  /\ draft = None
  /\ storePage = 1
  /\ storeDraft = None
  /\ own = 0
  /\ readDraft = NotRead /\ readPage = NotRead
  /\ loaded = 0
  /\ editing \in BOOLEAN
  /\ queued = None
  /\ shown = 0
  /\ stems = <<{1}>>

-----------------------------------------------------------------------------
(* Server *)

\* Another user publishes a body of theirs.
OtherPublishes ==
  /\ page.edit < MaxEdit /\ Len(stems) < MaxBody
  /\ stems' = Append(stems, {Len(stems) + 1})
  /\ page' = [edit |-> page.edit + 1, body |-> Len(stems')]
  /\ UNCHANGED <<draft, client, reads, loaded, editing, queued, shown>>

\* Store.upsertDraft on a live page: a missing row is created only at the
\* page's own version; an existing one keeps its baseline.
CanUpsert(base) == draft # None \/ base = page.edit

\* Mutant of Upserted: every save moves the baseline to the page's version.
UpsertedRebased(base, body) ==
  [base |-> page.edit, body |-> IF draft # None /\ body = 0 THEN draft.body ELSE body]

\* The draft after a save; body 0 is a save of the title alone.
Upserted(base, body) ==
  IF draft = None THEN [base |-> base, body |-> body]
  ELSE IF body = 0 THEN draft ELSE [draft EXCEPT !.body = body]

-----------------------------------------------------------------------------
(* Client *)

\* useEditBaseline: the stored draft's baseline, else the version this client
\* wrote last, else the one given.
Baseline(given) ==
  IF storeDraft \notin {None, 0} THEN storeDraft ELSE IF own # 0 THEN own ELSE given

\* useEditorContent asks for the draft and the page at once; the answers are
\* read in either order, and each is put in the store.
ReadDraft ==
  /\ loaded = 0 /\ ~readDraft.read
  /\ readDraft' = Read(draft)
  /\ storeDraft' = IF draft = None THEN storeDraft ELSE draft.base
  /\ UNCHANGED <<page, draft, storePage, own, readPage, loaded, editing, queued, shown, stems>>

ReadPage ==
  /\ loaded = 0 /\ ~readPage.read
  /\ readPage' = Read(page)
  /\ storePage' = page.edit
  /\ UNCHANGED <<page, draft, storeDraft, own, readDraft, loaded, editing, queued, shown, stems>>

\* Both are in: the draft's baseline and body, the page's for what it lacks.
Loaded ==
  /\ readDraft.read /\ readPage.read
  /\ LET d == readDraft.value
     IN /\ loaded' = IF d # None THEN d.base ELSE readPage.value.edit
        /\ shown' = IF d # None /\ d.body # 0 THEN d.body ELSE readPage.value.body
  /\ readDraft' = NotRead /\ readPage' = NotRead
  /\ UNCHANGED <<page, draft, client, editing, queued, stems>>

\* The page is left and opened again; what was queued is sent on the way out.
Reopen ==
  /\ loaded # 0 /\ queued = None
  /\ loaded' = 0
  /\ UNCHANGED <<page, draft, client, reads, editing, queued, shown, stems>>

ToggleEdit ==
  /\ editing' = ~editing
  /\ UNCHANGED <<page, draft, client, reads, loaded, queued, shown, stems>>

\* A listing, a move's answer or another view's fetch brings the page again.
RefreshStore ==
  /\ Refreshes /\ storePage # page.edit
  /\ storePage' = page.edit
  /\ UNCHANGED <<page, draft, storeDraft, own, reads, loaded, editing, queued, shown, stems>>

\* queue: the patch is kept with the baseline of this moment.
TypeBody ==
  /\ editing /\ loaded # 0 /\ Len(stems) < MaxBody
  /\ shown' = Len(stems) + 1
  /\ stems' = Append(stems, stems[shown] \cup {shown'})
  /\ queued' = [base |-> Baseline(loaded), body |-> shown']
  /\ UNCHANGED <<page, draft, client, reads, loaded, editing>>

\* The autosave's write, and its answer.  A refused one leaves the patch queued
\* with its baseline.
SendBody ==
  /\ queued # None /\ CanUpsert(queued.base)
  /\ draft' = Upserted(queued.base, queued.body)
  /\ storeDraft' = draft'.base
  /\ queued' = None
  /\ UNCHANGED <<page, storePage, own, reads, loaded, editing, shown, stems>>

\* The header and the title do not wait for the editor.
Usable == loaded # 0 \/ ActsLoading

\* saveTitle while editing, or with a draft: a draft with a title alone, on
\* the baseline of the store's page.
SaveTitle ==
  /\ Usable
  /\ editing \/ storeDraft # None
  /\ CanUpsert(Baseline(storePage))
  /\ draft' = Upserted(Baseline(storePage), 0)
  /\ storeDraft' = draft'.base
  /\ UNCHANGED <<page, storePage, own, reads, loaded, editing, queued, shown, stems>>

\* The version of the page that this client last wrote, remembered past the
\* draft that carried the baseline.
recordOwnPageWrite(version) == own' = IF own >= version THEN own ELSE version

\* saveTitle out of edit mode: updatePage, on the store's version.
Rename ==
  /\ Usable
  /\ ~editing /\ storeDraft = None
  /\ storePage = page.edit /\ page.edit < MaxEdit
  /\ page' = [page EXCEPT !.edit = @ + 1]
  /\ recordOwnPageWrite(page'.edit)
  /\ storePage' = page'.edit
  /\ UNCHANGED <<draft, storeDraft, reads, loaded, editing, queued, shown, stems>>

\* publishDraft without force, after its flush: the draft's body, when it has
\* one, replaces the page's.
Publish ==
  /\ Usable
  /\ draft # None /\ queued = None
  /\ draft.base = page.edit /\ page.edit < MaxEdit
  /\ page' = [edit |-> page.edit + 1, body |-> IF draft.body = 0 THEN page.body ELSE draft.body]
  /\ draft' = None /\ storeDraft' = None
  /\ recordOwnPageWrite(page'.edit) /\ storePage' = page'.edit
  /\ editing' = FALSE
  /\ UNCHANGED <<reads, loaded, queued, shown, stems>>

Next ==
  \/ OtherPublishes \/ ReadDraft \/ ReadPage \/ Loaded \/ Reopen \/ ToggleEdit
  \/ RefreshStore \/ TypeBody \/ SendBody \/ SaveTitle \/ Rename
  \/ Publish

Spec == Init /\ [][Next]_vars

-----------------------------------------------------------------------------
(* Properties *)

TypeOK ==
  /\ page \in [edit : Nat, body : Nat]
  /\ draft = None \/ draft \in [base : Nat, body : Nat]
  /\ storePage \in Nat /\ own \in Nat /\ loaded \in Nat /\ shown \in Nat
  /\ stems \in Seq(SUBSET Nat)
  /\ storeDraft \in Nat \cup {None}
  /\ readDraft.read \in BOOLEAN /\ readPage.read \in BOOLEAN
  /\ editing \in BOOLEAN
  /\ queued = None \/ queued \in [base : Nat, body : Nat]

\* A body nobody typed here.
Foreign(b) == stems[b] = {b}

\* "The page EditAt the client saw when it opened this page for editing"
\* (server/model/draft.go): another user's body that an unforced publish
\* replaces is one that the body published was written from.
PublishReplacesWhatTheEditorShowed ==
  [][Publish /\ draft.body # 0 /\ Foreign(page.body) => page.body \in stems[draft.body]]_vars

\* "The page EditAt the client saw when it opened this page for editing"
\* (server/model/draft.go): what is typed in an editor that shows the page's
\* current body can be saved.
\* Not kept: another user publishes after this client did, and the version of the
\* own write hides the newer one that the editor loaded.
EditsOfTheCurrentBodyAreSavable ==
  loaded # 0 /\ page.body \in stems[shown] => CanUpsert(Baseline(loaded))

\* The same until another user's publish follows one of this client's own
\* (own_page_writes.ts): the client never conflicts with itself.
NoSelfConflict ==
  loaded # 0 /\ page.body \in stems[shown] /\ own \in {0, page.edit} => CanUpsert(Baseline(loaded))
=============================================================================
