------------------------------- MODULE MCEditor -------------------------------
(***************************************************************************)
(* Model checking of what surrounds a page being edited: its autosave, the *)
(* baseline of its draft, its title field and the presence of its editors. *)
(* A behavior exercises one part, which it names; the others rest in their *)
(* first state, for the parts share no state.                              *)
(***************************************************************************)
EXTENDS DraftAutosave

CONSTANTS
  p1, p2, t1, t2, Untitled, Blank, u1, u2,
  MaxEdit, MaxBody   \* bounds of the baseline's part

TwoPages == {p1, p2}

VARIABLES
  part,
  basePage, draft, storePage, storeDraft, own, readDraft, readPage, loaded,
  baseEditing, queued, shown, stems,
  titlePublished, pageTitle, draftTitle, titleMounted, titleEditing, props, buffer,
  titleInflight, typed, back, due, edits, changes, titleFailures,
  drafts, times, tasks, events, viewing, snapshot, expired, fetch

\* A baseline whose page and draft change under the client's own writes only.
Baseline == INSTANCE EditBaseline WITH
  page <- basePage, editing <- baseEditing,
  Refreshes <- FALSE, ActsLoading <- FALSE

\* Titles change elsewhere, one write fails.
Title == INSTANCE PageTitle WITH
  published <- titlePublished, mounted <- titleMounted, editing <- titleEditing,
  inflight <- titleInflight, failures <- titleFailures,
  Titles <- {t1, t2}, Others <- TRUE, MaxTyped <- 3, MaxChanges <- 1, MaxFailures <- 1

\* One editor whose broadcasts get lost.
Lossy == INSTANCE PagePresence WITH
  Editors <- {u1}, Timeout <- 2, Interval <- 1, MaxStay <- 1, MaxEvents <- 1,
  Ties <- TRUE, Fails <- TRUE, Losses <- TRUE, Overlaps <- FALSE

\* Two editors whose broadcasts may fail but arrive, one at a time.
Session == INSTANCE PagePresence WITH
  Editors <- {u1, u2}, Timeout <- 3, Interval <- 2, MaxStay <- 0, MaxEvents <- 1,
  Ties <- FALSE, Fails <- TRUE, Losses <- FALSE, Overlaps <- FALSE

\* One editor whose broadcasts overtake each other.
Snapshots == INSTANCE PagePresence WITH
  Editors <- {u1}, Timeout <- 2, Interval <- 1, MaxStay <- 1, MaxEvents <- 2,
  Ties <- FALSE, Fails <- FALSE, Losses <- FALSE, Overlaps <- TRUE

ASSUME EditorAssumption ==
  /\ Baseline!BaselineAssumption /\ Title!TitleAssumption
  /\ Lossy!PresenceAssumption /\ Session!PresenceAssumption
  /\ Snapshots!PresenceAssumption

baselineVars == <<basePage, draft, storePage, storeDraft, own, readDraft, readPage, loaded,
                  baseEditing, queued, shown, stems>>
titleVars == <<titlePublished, pageTitle, draftTitle, titleMounted, titleEditing, props,
               buffer, titleInflight, typed, back, due, edits, changes, titleFailures>>
presenceVars == <<drafts, times, tasks, events, viewing, snapshot, expired, fetch>>
editorVars == <<part, vars, baselineVars, titleVars, presenceVars>>

-----------------------------------------------------------------------------

AutosaveRests == Init /\ page = p1 /\ editing
BaselineRests == Baseline!Init /\ baseEditing
TitleRests ==
  Title!Init /\ titleEditing /\ titlePublished /\ pageTitle = Untitled /\ draftTitle = None

EditorInit ==
  \/ /\ part \in {"page", "pages"}
     /\ Init /\ BaselineRests /\ TitleRests /\ Lossy!Init
  \/ /\ part = "baseline"
     /\ Baseline!Init /\ AutosaveRests /\ TitleRests /\ Lossy!Init
  \/ /\ part = "title"
     /\ Title!Init /\ AutosaveRests /\ BaselineRests /\ Lossy!Init
  \/ /\ \/ part = "lossy" /\ Lossy!Init
        \/ part = "session" /\ Session!Init
        \/ part = "snapshots" /\ Snapshots!Init
     /\ AutosaveRests /\ BaselineRests /\ TitleRests

\* The bounds of two pages are smaller than those of one.
Fewer == failures <= 1 /\ asks <= 1 /\ \A p \in Pages : texts[p] \subseteq 1..2

AutosaveStep ==
  /\ Next
  /\ IF part = "page" THEN page' = page ELSE Fewer'
  /\ UNCHANGED <<part, baselineVars, titleVars, presenceVars>>
BaselineStep == Baseline!Next /\ UNCHANGED <<part, vars, titleVars, presenceVars>>
TitleStep == Title!Next /\ UNCHANGED <<part, vars, baselineVars, presenceVars>>
PresenceStep == UNCHANGED <<part, vars, baselineVars, titleVars>>

EditorNext ==
  \/ part \in {"page", "pages"} /\ AutosaveStep
  \/ part = "baseline" /\ BaselineStep
  \/ part = "title" /\ TitleStep
  \/ part = "lossy" /\ Lossy!Next /\ PresenceStep
  \/ part = "session" /\ Session!Next /\ PresenceStep
  \/ part = "snapshots" /\ Snapshots!Next /\ PresenceStep

\* The fairness of PagePresence, while this part is exercised.
LossyFairness ==
  LET lossy == part = "lossy"
  IN /\ WF_presenceVars(lossy /\ Lossy!Tick) /\ WF_presenceVars(lossy /\ Lossy!TimerFires)
     /\ WF_presenceVars(lossy /\ Lossy!Claim(u1))
     /\ WF_presenceVars(lossy /\ Lossy!Announce(u1))
     /\ \A k \in Lossy!Kinds : WF_presenceVars(lossy /\ Lossy!Query(u1, k))
     /\ WF_presenceVars(lossy /\ Lossy!ServeFetch)
     /\ WF_presenceVars(lossy /\ Lossy!FetchArrives)
     /\ WF_presenceVars(lossy /\ \E e \in events : Lossy!EventArrives(e))

\* The other parts that rest have no step that the fairness of their own asks for.
EditorSpec ==
  /\ EditorInit /\ [][EditorNext]_editorVars
  /\ Fairness /\ Title!Fairness /\ LossyFairness

-----------------------------------------------------------------------------
(* Properties *)

TypesOK ==
  /\ TypeOK /\ Baseline!TypeOK /\ Title!TypeOK
  /\ part = "lossy" => Lossy!TypeOK
  /\ part = "session" => Session!TypeOK
  /\ part = "snapshots" => Snapshots!TypeOK

\* While the editor stays on a page, the last text typed is stored, queued or
\* being sent, the indicator says "saved" of nothing else, and a publish that
\* goes on carries every text typed before it was asked for: failures, retries,
\* mode changes and publishes lose nothing (draft_autosave.ts, hooks/drafts.tsx).
NoEditLost ==
  /\ [](part = "page" => NoEditForgotten /\ SavedMeansStored)
  /\ [][part = "page" => PublishCarriesAsk(enabled)]_editorVars

\* What is typed gets through: queued texts are saved unless a save fails or the
\* mode is left first, leaving sends the rest, and a publish that waits on the
\* chain of saves is answered (draft_autosave.ts, hooks/drafts.tsx); a committed
\* title is stored unless a write fails or another title comes (page_content.tsx).
EditsGetThrough ==
  /\ part = "page" => EditsReachTheDraft /\ LeavingSendsTheRest /\ PublishIsAnswered
  /\ Title!CommittedTitleLands

\* The baseline a draft is saved with never makes its own author's publish
\* conflict, and never replaces a body of another user's that the author did not
\* write from (own_page_writes.ts, server/model/draft.go).
BaselineProtects == []Baseline!NoSelfConflict /\ Baseline!PublishReplacesWhatTheEditorShowed

\* A title typed stays in the field or on its way, whatever titles, answers and
\* failures arrive (page_content.tsx).
TypedTitleStays == Title!TypedStays

\* Whatever broadcasts and answers get lost, no editor stays on a viewer's screen
\* for ever without editing (page_presence.go, use_page_active_editors.ts).
NobodyStaysForEver == part = "lossy" => Lossy!NobodyStaysForEver

\* The viewer's list of editors: whoever is kept from announcing again is on it,
\* and nobody is whose session ended, in whatever order the snapshots arrive
\* (page_presence.go, use_page_active_editors.ts).
EditorsShownAreEditing ==
  /\ part = "session" => Session!NobodySuppressedUnseen
  /\ part = "snapshots" => Snapshots!EndedSessionsAreGone

=============================================================================
