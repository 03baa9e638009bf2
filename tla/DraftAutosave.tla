---------------------------- MODULE DraftAutosave ----------------------------
(***************************************************************************)
(* The page editor's autosave: useDraftAutosave with the hooks around it   *)
(* (usePageEditing, useEditorContent, pending_saves, usePublishDraft and   *)
(* the header's controls).  One editor instance shows one page at a time   *)
(* and is reused from page to page.  Typing queues a patch and re-arms the *)
(* debounce timer; writes run one after the other on a promise chain; a    *)
(* failed write is merged back into what was queued since; leaving a page  *)
(* or the editor forces a write; publishing flushes first.                 *)
(*                                                                         *)
(* A text is the number it was typed as: it stands for the whole body.     *)
(* cancel() has no caller in the program, so the generation it bumps and   *)
(* the abort it raises never differ and are left out.                      *)
(***************************************************************************)
EXTENDS Naturals, Sequences, FiniteSetsExt

CONSTANTS
  Pages,         \* pages of the space
  Unpublished,   \* those that start as drafts only
  None,          \* no queued patch, no save in flight
  MaxTexts,      \* bound on texts typed
  MaxRuns,       \* bound on writes waiting on the chain
  MaxFailures,   \* bound on saves that fail
  MaxPublishes   \* bound on publishes asked for

ASSUME AutosaveAssumption ==
  /\ Unpublished \subseteq Pages
  /\ None \notin [page : Pages, text : Nat]
  /\ MaxTexts \in Nat /\ MaxRuns \in Nat
  /\ MaxFailures \in Nat /\ MaxPublishes \in Nat

VARIABLES
  mounted,     \* the editor is on screen
  page,        \* the page it shows
  editing,     \* edit mode (the ?edit=1 query)
  loading,     \* useEditorContent has not settled for this page
  pending,     \* pendingRef: the patch queued
  timer,       \* the debounce timer is armed
  chain,       \* chainRef: writes not finished; the head runs or runs next
  inflight,    \* the save that awaits its answer
  status,      \* the autosave status
  posts,       \* publishes past their flush, awaiting the server
  hasDraft,    \* pages with a draft
  failures,    \* saves failed so far
  asks,        \* publishes asked for so far
  texts,       \* texts typed in each page
  stored,      \* last text of each page that reached its draft
  published    \* text each page was last published with

ui == <<mounted, page, editing, loading>>
server == <<hasDraft, stored, published>>
vars == <<mounted, page, editing, loading, pending, timer, chain, inflight,
          status, posts, hasDraft, failures, asks, texts, stored, published>>

Entry == [page : Pages, text : Nat]

\* A publish waiting on the chain names the page and the last text typed when
\* it was asked for; a plain write has no ask.
Run == [force : BOOLEAN, ask : Entry \cup {None}]

Latest(p) == IF texts[p] = {} THEN 0 ELSE Max(texts[p])
LastTyped == Max({0} \cup UNION {texts[p] : p \in Pages})

enabled == mounted /\ editing /\ ~loading

Init ==
  /\ mounted = TRUE
  /\ page \in Pages
  /\ editing \in BOOLEAN
  /\ loading = TRUE
  /\ pending = None
  /\ timer = FALSE
  /\ chain = <<>>
  /\ inflight = None
  /\ status = "saved"
  /\ posts = {}
  /\ hasDraft = Unpublished
  /\ failures = 0
  /\ asks = 0
  /\ texts = [p \in Pages |-> {}]
  /\ stored = [p \in Pages |-> 0]
  /\ published = [p \in Pages |-> 0]

-----------------------------------------------------------------------------
(* The chain *)

\* Mutant of Chained: the run names the page only.
ChainedForPage(force, ask) ==
  /\ Len(chain) < MaxRuns
  /\ chain' = Append(chain, [force |-> force, ask |-> page])

\* write(): the run is chained behind every write before it.
Chained(force, ask) ==
  /\ Len(chain) < MaxRuns
  /\ chain' = Append(chain, [force |-> force, ask |-> ask])

\* The head settled: a publish that waited on it goes on if it settled true.
Settle(ok) ==
  /\ chain' = Tail(chain)
  /\ posts' = IF ok /\ Head(chain).ask # None THEN posts \cup {Head(chain).ask} ELSE posts

\* A run that can go on does so before any timer, answer or input is handled:
\* it is a microtask of the step that let it.
Quiet == chain = <<>> \/ inflight # None

\* Mutant of RunIdle: a write that is not allowed waits until it is.
RunIdleWhenEmpty ==
  /\ chain # <<>> /\ inflight = None
  /\ pending = None
  /\ Settle(TRUE)
  /\ UNCHANGED <<ui, pending, timer, inflight, status, server, failures, asks, texts>>

\* doWrite with nothing to write, or not allowed to write it: settles true.
RunIdle ==
  /\ chain # <<>> /\ inflight = None
  /\ pending = None \/ (~enabled /\ ~Head(chain).force)
  /\ Settle(TRUE)
  /\ UNCHANGED <<ui, pending, timer, inflight, status, server, failures, asks, texts>>

\* doWrite up to its await: the queued patch is taken and sent.
RunWrite ==
  /\ chain # <<>> /\ inflight = None
  /\ pending # None /\ (enabled \/ Head(chain).force)
  /\ inflight' = pending
  /\ pending' = None
  /\ status' = "saving"
  /\ UNCHANGED <<ui, timer, chain, posts, server, failures, asks, texts>>

\* Mutant of Stores: the text is stored under the page shown.
StoresInPageShown(e) ==
  /\ stored' = [stored EXCEPT ![page] = e.text]
  /\ hasDraft' = hasDraft \cup {page}
  /\ UNCHANGED published

\* The save reaches the draft.
Stores(e) ==
  /\ stored' = [stored EXCEPT ![e.page] = e.text]
  /\ hasDraft' = hasDraft \cup {e.page}
  /\ UNCHANGED published

StatusSaved == IF pending # None THEN "unsaved" ELSE "saved"

\* The save succeeded; a patch queued while it ran leaves the editor unsaved.
SaveOk ==
  /\ inflight # None
  /\ Stores(inflight)
  /\ inflight' = None
  /\ status' = StatusSaved
  /\ Settle(TRUE)
  /\ UNCHANGED <<ui, pending, timer, failures, asks, texts>>

\* Mutant of Merged: what the save carried is dropped.
MergedDropping == pending

\* The patch a failed save leaves queued: its own, under the fields queued
\* since for the same page; a patch queued for another page is left alone.
Merged ==
  IF pending = None THEN inflight ELSE pending

\* The save failed, before or after it reached the server.  Nothing re-arms
\* the timer.
SaveFails ==
  /\ inflight # None
  /\ failures < MaxFailures
  /\ failures' = failures + 1
  /\ Stores(inflight) \/ UNCHANGED server
  /\ pending' = Merged
  /\ inflight' = None
  /\ status' = "unsaved"
  /\ Settle(FALSE)
  /\ UNCHANGED <<ui, timer, asks, texts>>

-----------------------------------------------------------------------------
(* The editor *)

\* onContentChange and queue: what was queued for this page is overwritten
\* field by field, what was queued for another page is replaced outright.
Type ==
  /\ enabled /\ Quiet
  /\ LastTyped < MaxTexts
  /\ LET v == LastTyped + 1
     IN /\ texts' = [texts EXCEPT ![page] = @ \cup {v}]
        /\ pending' = [page |-> page, text |-> v]
  /\ timer' = TRUE
  /\ status' = "unsaved"
  /\ UNCHANGED <<ui, chain, inflight, posts, server, failures, asks>>

\* The debounce is over.
TimerFires ==
  /\ timer /\ Quiet
  /\ timer' = FALSE
  /\ Chained(FALSE, None)
  /\ UNCHANGED <<ui, pending, inflight, status, posts, server, failures, asks, texts>>

\* useEditorContent settles for the page shown.
Loaded ==
  /\ mounted /\ loading /\ Quiet
  /\ loading' = FALSE
  /\ UNCHANGED <<mounted, page, editing, pending, timer, chain, inflight, status,
                 posts, server, failures, asks, texts>>

\* The header's Edit and Close.  Closing writes nothing.
ToggleEdit ==
  /\ mounted /\ Quiet
  /\ editing' = ~editing
  /\ UNCHANGED <<mounted, page, loading, pending, timer, chain, inflight, status,
                 posts, server, failures, asks, texts>>

\* The hook's cleanup when its page changes: a forced write of what is queued.
Leave ==
  /\ timer' = FALSE
  /\ Chained(TRUE, None)

\* The router shows another page, in reading or in edit mode.
Navigate ==
  /\ mounted /\ Quiet
  /\ \E p \in Pages \ {page} : page' = p
  /\ editing' \in BOOLEAN
  /\ loading' = TRUE
  /\ Leave
  /\ UNCHANGED <<mounted, pending, inflight, status, posts, server, failures, asks, texts>>

\* The editor leaves the screen for good.
Unmount ==
  /\ mounted /\ Quiet
  /\ mounted' = FALSE
  /\ Leave
  /\ UNCHANGED <<page, editing, loading, pending, inflight, status, posts, server,
                 failures, asks, texts>>

-----------------------------------------------------------------------------
(* Publishing *)

IsUnpublished(p) == p \in Unpublished /\ published[p] = 0 /\ p \in hasDraft

\* Publish is offered on an unpublished page in either mode, Update only while
\* editing a page with a draft or a save pending.
canCommit ==
  /\ mounted
  /\ \/ IsUnpublished(page)
     \/ editing /\ (page \in hasDraft \/ (enabled /\ status # "saved"))

\* usePublishDraft up to its flush.  Only the header's own controls are
\* disabled while it runs, the editor's send key is not: several may wait.
AskPublish ==
  /\ canCommit /\ Quiet
  /\ asks < MaxPublishes
  /\ asks' = asks + 1
  /\ timer' = FALSE
  /\ Chained(FALSE, [page |-> page, text |-> Latest(page)])
  /\ UNCHANGED <<ui, pending, inflight, status, posts, server, failures, texts>>

\* The server publishes the draft; goToPage shows the page in reading mode,
\* wherever the user went meanwhile.
PublishOk ==
  /\ Quiet
  /\ \E a \in posts :
       /\ a.page \in hasDraft
       /\ posts' = posts \ {a}
       /\ published' = [published EXCEPT ![a.page] = stored[a.page]]
       /\ hasDraft' = hasDraft \ {a.page}
       /\ IF mounted
          THEN /\ page' = a.page /\ editing' = FALSE
               /\ IF page = a.page THEN UNCHANGED <<loading, timer, chain>>
                  ELSE loading' = TRUE /\ Leave
          ELSE UNCHANGED <<page, editing, loading, timer, chain>>
  /\ UNCHANGED <<mounted, pending, inflight, status, failures, asks, texts, stored>>

\* No draft, a conflict or a failure: a notice or the overwrite dialog.
PublishRefused ==
  /\ Quiet
  /\ \E a \in posts : posts' = posts \ {a}
  /\ UNCHANGED <<ui, pending, timer, chain, inflight, status, server, failures,
                 asks, texts>>

Next ==
  \/ RunIdle \/ RunWrite \/ SaveOk \/ SaveFails
  \/ Type \/ TimerFires \/ Loaded \/ ToggleEdit \/ Navigate \/ Unmount
  \/ AskPublish \/ PublishOk \/ PublishRefused

\* The event loop runs timers and settled promises; a request is answered.
Fairness ==
  /\ WF_vars(RunIdle \/ RunWrite)
  /\ WF_vars(SaveOk \/ SaveFails)
  /\ WF_vars(TimerFires)
  /\ WF_vars(PublishOk \/ PublishRefused)

SafeSpec == Init /\ [][Next]_vars
Spec == SafeSpec /\ Fairness

-----------------------------------------------------------------------------
(* Properties *)

TypeOK ==
  /\ mounted \in BOOLEAN /\ page \in Pages /\ editing \in BOOLEAN /\ loading \in BOOLEAN
  /\ pending \in Entry \cup {None}
  /\ timer \in BOOLEAN
  /\ chain \in Seq(Run)
  /\ inflight \in Entry \cup {None}
  /\ status \in {"saved", "saving", "unsaved"}
  /\ posts \subseteq Entry
  /\ hasDraft \subseteq Pages
  /\ failures \in Nat /\ asks \in Nat
  /\ texts \in [Pages -> SUBSET Nat]
  /\ stored \in [Pages -> Nat]
  /\ published \in [Pages -> Nat]

Holds(e, p, v) == e # None /\ e.page = p /\ e.text = v

\* The last text typed in a page is stored, queued or being sent: failures,
\* retries, mode changes and publishes never lose it (draft_autosave.ts).
NoEditForgotten ==
  \A p \in Pages :
    Latest(p) # stored[p] => \/ Holds(pending, p, Latest(p))
                            \/ Holds(inflight, p, Latest(p))

\* The indicator reads "saved" only when the last text typed in every page has
\* reached its draft (draft_autosave.ts, autosave_indicator.tsx).
SavedMeansStored ==
  status = "saved" => \A p \in Pages : Latest(p) = stored[p]

\* "flushes the pending patch to the page being left when the id changes"
\* (draft_autosave.test.tsx): what was typed there is stored or on its way.
\* Not kept: a page is left while a save is in flight, and typing in the next
\* page overwrites the one queued patch before that save is answered.
LeftPageIsFlushed ==
  \A p \in Pages \ {page} :
    Latest(p) # stored[p] => \/ failures > 0
                            \/ Holds(pending, p, Latest(p))
                            \/ Holds(inflight, p, Latest(p))

\* A publish that goes on while the editor is enabled carries every text typed
\* before it was asked for (usePublishDraft).
PublishCarriesAsk(on) ==
  \A a \in posts' \ posts : on => stored'[a.page] >= a.text

\* "publish does not proceed on unsaved content" (draft_autosave.test.tsx).
\* Not kept: edit mode is closed within the debounce and the page published; the
\* flush has nothing it may write and settles true.
PublishNeverOnUnsaved == [][PublishCarriesAsk(TRUE)]_vars

\* What the saves do to the drafts is what TypedTexts promises.
Promise == INSTANCE TypedTexts WITH Texts <- 1..MaxTexts
ImplementsTypedTexts == Promise!Spec

Unsent(p) == Latest(p) # stored[p]

\* A text whose timer is armed reaches its draft unless a save fails or edit
\* mode is left first: the timer then finds the hook disabled and the text
\* stays queued, even when edit mode is entered again (draft_autosave.ts).
EditsReachTheDraft ==
  \A p \in Pages :
    (Unsent(p) /\ timer) ~> (~Unsent(p) \/ ~enabled \/ failures > 0)

\* Leaving the editor sends what is queued (draft_autosave.ts, cleanup).
LeavingSendsTheRest ==
  \A p \in Pages : (Unsent(p) /\ ~mounted) ~> (~Unsent(p) \/ failures > 0)

\* A publish asked for is answered: it waits on the chain, never for ever.
Asked == posts # {} \/ \E i \in DOMAIN chain : chain[i].ask # None
PublishIsAnswered == Asked ~> ~Asked

=============================================================================
