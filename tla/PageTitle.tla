------------------------------- MODULE PageTitle -------------------------------
(***************************************************************************)
(* The title area of a page (PageContent, PageTitleArea, PageTitle): a     *)
(* buffer the user types into, committed by blur, Enter and by leaving     *)
(* edit mode, one write at a time, while titles arrive from the store.     *)
(*                                                                         *)
(* A render and its effects are one step: React 18 flushes the effects of  *)
(* a store update before the promise that made it continues.  A buffer is  *)
(* a text and whether white space surrounds it; the 255 character limit is *)
(* left out.                                                               *)
(***************************************************************************)
EXTENDS Naturals

CONSTANTS
  Titles,       \* titles other than the placeholder
  Untitled,     \* the stored placeholder of an unnamed page
  Blank,        \* the empty text, and the title of a draft that has none
  None,         \* no draft, no write, nothing typed
  Others,       \* whether titles change elsewhere
  MaxTyped,     \* bound on edits of the field
  MaxChanges,   \* bound on changes made outside of the field
  MaxFailures   \* bound on writes that fail

TitleAssumption ==
  /\ {Untitled, Blank, None} \cap Titles = {}
  /\ Untitled # Blank /\ None \notin {Untitled, Blank}
  /\ Others \in BOOLEAN
  /\ MaxTyped \in Nat /\ MaxChanges \in Nat /\ MaxFailures \in Nat

VARIABLES
  published,   \* the page has been published
  pageTitle,   \* its title in the store
  draftTitle,  \* the title of its draft in the store
  mounted,     \* the title area is on screen
  editing,     \* edit mode
  props,       \* subject.title and what saveTitle writes, at the last render
  buffer,      \* titleRef: the text of the field
  inflight,    \* the write that awaits its answer (commitInFlight)
  typed,       \* the last text typed that has not been stored yet
  back,        \* the field came to hold a stored title again (see Noted)
  due,         \* and it is in the field and has been committed since
  edits, changes, failures

store == <<published, pageTitle, draftTitle>>
ghosts == <<typed, back, due>>
counts == <<edits, changes, failures>>
vars == <<store, mounted, editing, props, buffer, inflight, ghosts, counts>>

Stored == Titles \cup {Untitled}
Texts == Titles \cup {Blank}
Buffer == [text : Texts, padded : BOOLEAN]

Plain(text) == [text |-> text, padded |-> FALSE]
asBuffer(title) == Plain(IF title = Untitled THEN Blank ELSE title)

asStored(text) == IF text = Blank THEN Untitled ELSE text

\* subject and saveTitle of PageContent: an edited page shows its draft's title
\* when that has one, and is renamed in its draft; a page read without a draft
\* is renamed outright.
View(isPublished, ofPage, ofDraft, inEdit) ==
  [title  |-> IF ~isPublished THEN ofDraft
              ELSE IF inEdit /\ ofDraft \notin {None, Blank} THEN ofDraft ELSE ofPage,
   target |-> IF isPublished /\ ~inEdit /\ ofDraft = None THEN "page" ELSE "draft"]

Init ==
  /\ published \in BOOLEAN
  /\ pageTitle \in Stored
  /\ IF published THEN draftTitle \in Stored \cup {Blank, None} ELSE draftTitle = Untitled
  /\ mounted = TRUE
  /\ editing \in BOOLEAN
  /\ props = View(published, pageTitle, draftTitle, editing)
  /\ buffer = asBuffer(props.title)
  /\ inflight = None
  /\ typed = None /\ back = FALSE /\ due = FALSE
  /\ edits = 0 /\ changes = 0 /\ failures = 0

-----------------------------------------------------------------------------
(* What the effects and commit do *)

\* Mutant of Followed: a title that arrives always replaces the buffer.
FollowedAlways(b, before, now) ==
  IF before.title = now.title THEN b ELSE asBuffer(now.title)

\* The effect on subject.title: a buffer that holds what was last taken from
\* the store takes the new title.
Followed(b, before, now) ==
  IF b = asBuffer(before.title) THEN asBuffer(now.title) ELSE b

\* commit: a change of title is sent unless a write is under way.
Sent(b, p, write) ==
  IF write # None \/ asStored(b.text) = p.title THEN write
  ELSE [target |-> p.target, title |-> asStored(b.text), text |-> b.text, late |-> FALSE]

\* The end of commit: what was typed during the write is committed.
Continued(b, p, write) ==
  IF b.text # write.text THEN Sent(b, p, None) ELSE None

\* History: the field came to hold a stored title again, without its text
\* being the one under way, before what was typed was stored.
Noted ==
  back' = /\ typed' # None
          /\ \/ back
             \/ /\ buffer'.text = asBuffer(props'.title).text
                /\ inflight' # None => inflight'.text # buffer'.text

-----------------------------------------------------------------------------
(* The field *)

\* The field is typed into.
Type ==
  /\ mounted /\ editing
  /\ edits < MaxTyped
  /\ edits' = edits + 1
  /\ buffer' \in Buffer \ {buffer}
  /\ typed' = IF inflight = None /\ buffer'.text = asBuffer(props.title).text
              THEN None ELSE buffer'.text
  /\ back' = (inflight # None /\ buffer'.text = asBuffer(props.title).text)
  /\ due' = FALSE
  /\ UNCHANGED <<store, mounted, editing, props, inflight, changes, failures>>

\* Escape.
Cancel ==
  /\ mounted /\ editing
  /\ buffer' = asBuffer(props.title)
  /\ typed' = None /\ due' = FALSE
  /\ UNCHANGED <<store, mounted, editing, props, inflight, counts>>
  /\ Noted

\* Enter and blur.
Commit ==
  /\ mounted /\ editing
  /\ buffer' = Plain(buffer.text)
  /\ inflight' = Sent(buffer, props, inflight)
  /\ typed' = typed /\ due' = (typed = buffer.text)
  /\ UNCHANGED <<store, mounted, editing, props, counts>>
  /\ Noted

\* Edit mode is left, by Close, Back or a publish: the cleanup commits with
\* the render in reading mode, then the effect takes the title that shows.
Leave ==
  /\ mounted /\ editing
  /\ editing' = FALSE
  /\ props' = View(published, pageTitle, draftTitle, FALSE)
  /\ inflight' = Sent(buffer, props', inflight)
  /\ buffer' = Followed(Plain(buffer.text), props, props')
  /\ typed' = typed /\ due' = (typed = buffer.text /\ buffer'.text = buffer.text)
  /\ UNCHANGED <<store, mounted, counts>>
  /\ Noted

\* Another page is routed to: the cleanup commits with the last render.
Unmount ==
  /\ mounted
  /\ mounted' = FALSE
  /\ buffer' = IF editing THEN Plain(buffer.text) ELSE buffer
  /\ inflight' = IF editing THEN Sent(buffer, props, inflight) ELSE inflight
  /\ typed' = typed /\ due' = (due \/ (editing /\ typed = buffer.text))
  /\ UNCHANGED <<store, editing, props, counts>>
  /\ Noted

\* The store or the mode changed: the area renders, and the effect runs.
Renders ==
  /\ props' = View(published', pageTitle', draftTitle', editing')
  /\ buffer' = Followed(buffer, props, props')
  /\ typed' = IF inflight = None /\ asBuffer(props'.title).text = typed THEN None ELSE typed
  /\ due' = (due /\ buffer'.text = buffer.text)
  /\ UNCHANGED <<mounted, edits, failures>>
  /\ Noted

Enter ==
  /\ mounted /\ ~editing
  /\ editing' = TRUE
  /\ UNCHANGED <<store, inflight, changes>>
  /\ Renders

-----------------------------------------------------------------------------
(* Answers, and the rest of the program *)

Answered(w, p) ==
  LET b == IF mounted THEN Followed(buffer, props, p) ELSE buffer
  IN /\ props' = p
     /\ inflight' = Continued(b, p, w)
     /\ buffer' = IF b.text # w.text THEN Plain(b.text) ELSE b
     /\ due' = (due /\ b.text = buffer.text)

\* The write is stored, in the draft (which it may create) or in the page.
WriteOk ==
  /\ inflight # None /\ ~inflight.late
  /\ IF inflight.target = "draft"
     THEN draftTitle' = inflight.title /\ UNCHANGED <<published, pageTitle>>
     ELSE pageTitle' = inflight.title /\ UNCHANGED <<published, draftTitle>>
  /\ Answered(inflight, IF mounted THEN View(published', pageTitle', draftTitle', editing)
                        ELSE props)
  /\ typed' = IF typed = inflight.text THEN None ELSE typed
  /\ UNCHANGED <<mounted, editing, counts>>
  /\ Noted

\* The write failed, or the draft it was for is published and the server has
\* refused it: what was typed stays, and a notice shows.
WriteFails ==
  /\ inflight # None
  /\ inflight.late \/ failures < MaxFailures
  /\ failures' = failures + 1
  /\ Answered(inflight, props)
  /\ typed' = typed
  /\ UNCHANGED <<store, mounted, editing, edits, changes>>
  /\ Noted

Elsewhere ==
  /\ mounted
  /\ changes < MaxChanges
  /\ changes' = changes + 1

\* The page is fetched with the title another user gave it.
PageArrives ==
  /\ Others /\ published /\ Elsewhere
  /\ pageTitle' \in Stored \ {pageTitle}
  /\ UNCHANGED <<published, draftTitle, editing, inflight>>
  /\ Renders

\* The draft is loaded, or the first save of the body creates it untitled.
DraftArrives ==
  /\ published /\ draftTitle = None /\ Elsewhere
  /\ draftTitle' \in IF Others THEN Stored \cup {Blank} ELSE {Blank}
  /\ UNCHANGED <<published, pageTitle, editing, inflight>>
  /\ Renders

\* The draft is published, with or without the write under way (the publish
\* flushes the body's saves, not the title's); a draft without a title leaves
\* the page's.
Publish ==
  /\ draftTitle # None /\ Elsewhere
  /\ published' = TRUE
  /\ \/ /\ pageTitle' = IF draftTitle = Blank THEN pageTitle ELSE draftTitle
        /\ inflight' = IF inflight = None THEN None
                       ELSE [inflight EXCEPT !.late = (inflight.target = "draft")]
     \/ /\ inflight # None /\ inflight.target = "draft" /\ ~inflight.late
        /\ pageTitle' = inflight.title
        /\ UNCHANGED inflight
  /\ draftTitle' = None
  /\ UNCHANGED editing
  /\ Renders

Next ==
  \/ Type \/ Cancel \/ Commit \/ Leave \/ Unmount \/ Enter
  \/ WriteOk \/ WriteFails
  \/ PageArrives \/ DraftArrives \/ Publish

\* A write is answered.
Fairness == WF_vars(WriteOk \/ WriteFails)

Spec == Init /\ [][Next]_vars /\ Fairness

-----------------------------------------------------------------------------
(* Properties *)

Write == [target : {"draft", "page"}, title : Stored, text : Texts, late : BOOLEAN]

TypeOK ==
  /\ published \in BOOLEAN /\ pageTitle \in Stored
  /\ draftTitle \in Stored \cup {Blank, None}
  /\ published \/ draftTitle # None
  /\ mounted \in BOOLEAN /\ editing \in BOOLEAN
  /\ props \in [title : Stored \cup {Blank}, target : {"draft", "page"}]
  /\ buffer \in Buffer
  /\ inflight \in Write \cup {None}
  /\ typed \in Texts \cup {None} /\ back \in BOOLEAN /\ due \in BOOLEAN

TypedIsHeld ==
  \/ typed = None \/ buffer.text = typed
  \/ inflight # None /\ inflight.text = typed

\* What was typed stays in the field or on its way until it is stored or
\* cancelled, whatever titles, answers and failures arrive, except when it is
\* a title stored before (page_content.tsx, observedTitle).
TypedStays == back \/ TypedIsHeld

\* "the last thing typed is the one that lands" (page_content.tsx): it is never
\* replaced by the answer of an earlier write.
\* Not kept: a title typed back to the one stored before a write is taken for the
\* stored one when that write is answered.
LastTypedIsKept == TypedIsHeld

Landed == asStored(buffer.text) \in {pageTitle, draftTitle}

\* A committed title gets stored, also when it was committed during another
\* write or by leaving the page, unless a write fails, it is typed over, or a
\* title replaces it (page_content.tsx, commit).
CommittedTitleLands == due ~> (Landed \/ ~due \/ back \/ failures > 0)

Sends == inflight = None /\ inflight' # None

\* "so a blur that beat us here writes once" (page_content.tsx): leaving edit
\* mode sends nothing when everything typed has been stored.
\* Not kept: a title stored in the draft differs from the published one, against
\* which leaving compares it.
LeavingSendsOnlyTyped == [][editing /\ ~editing' /\ Sends => typed # None]_vars

\* Leaving edit mode commits, for it "would otherwise drop what was typed"
\* (page_content.tsx): what was typed and not sent is sent.
\* Not kept: the published title typed back over a drafted one compares equal.
LeavingSendsTyped ==
  [][editing /\ ~editing' /\ inflight = None /\ typed # None => Sends]_vars

\* "a title that only changed by whitespace is not a change worth a write"
\* (page_content.tsx).
\* Not kept: a buffer with white space around it, when the title is renamed
\* elsewhere.
WhitespaceIsNoChange == [][editing /\ editing' /\ Sends => typed' # None]_vars

=============================================================================
