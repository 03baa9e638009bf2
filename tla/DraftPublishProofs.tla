------------------------- MODULE DraftPublishProofs -------------------------
(***************************************************************************)
(* Proofs about DraftPublish, for every set of users, pages and requests    *)
(* and for every bound.                                                     *)
(*                                                                          *)
(* First versions and sessions.  Then which draft rows there are, what they *)
(* hang below, and which row a publish request may take: no draft outlives  *)
(* its page, no pending page loses the page or draft it hangs below, a      *)
(* discarded new page stays discarded, and a publish removes only what it   *)
(* ships.                                                                   *)
(***************************************************************************)
EXTENDS DraftPublish, TLAPS

USE DEF Fits, Held, SpaceLive, Absent, Live, AtStep, Return, Continue

(* nextMonotonic and monotonicBump move a token past its old value. *)
LEMMA NextMonotonicGrows ==
    ASSUME NEW now \in Nat, NEW prev \in Nat
    PROVE  /\ NextMonotonic(now, prev) \in Nat
           /\ NextMonotonic(now, prev) > prev
  BY DEF NextMonotonic

(* The clock values a transaction may stamp are positive. *)
LEMMA ClockReadsPositive ==
    ASSUME clock \in Nat \ {0}
    PROVE  ClockReads \subseteq Nat \ {0}
  BY DEF ClockReads, StaleReads

(* The row a direct or draft edit leaves is a page row, with a later EditAt. *)
LEMMA PatchedRow ==
    ASSUME TypeOK, NEW p \in Pages, NEW text \in Nat
    PROVE  /\ Patched(p, text) \in Page
           /\ Patched(p, text).editAt > pages[p].editAt
           /\ Patched(p, text).text = text
           /\ Patched(p, text).exists = pages[p].exists
           /\ Patched(p, text).deleteAt = pages[p].deleteAt
           /\ Patched(p, text).parentId = pages[p].parentId
  <1> DEFINE prev == Later(pages[p].editAt, pages[p].updateAt)
             now == NextMonotonic(clock, prev)
  <1>1. pages[p] \in Page /\ clock \in Nat
    BY DEF TypeOK
  <1>2. prev \in Nat /\ prev >= pages[p].editAt
    BY <1>1 DEF Later, Page
  <1>3. now \in Nat /\ now > pages[p].editAt
    <2>1. now \in Nat /\ now > prev
      BY <1>1, <1>2, NextMonotonicGrows
    <2> QED
      BY <2>1, <1>1, <1>2 DEF Page
  <1>4. Patched(p, text) = [pages[p] EXCEPT !.text = text, !.editAt = now, !.updateAt = now]
    BY DEF Patched
  <1> HIDE DEF now
  <1> QED
    BY <1>1, <1>3, <1>4 DEF Page

(* Reparenting a row below p keeps it a row; only parent and token change. *)
LEMMA ReparentedRow ==
    ASSUME NEW p, NEW parent \in ParentIds, NEW now \in Nat,
           NEW row \in Draft \cup {NoDraft}
    PROVE  /\ ReparentedBelow(p, parent, row, now) \in Draft \cup {NoDraft}
           /\ row = NoDraft <=> ReparentedBelow(p, parent, row, now) = NoDraft
           /\ row # NoDraft =>
                LET new == ReparentedBelow(p, parent, row, now) IN
                /\ new.baseEditAt = row.baseEditAt
                /\ new.text = row.text
                /\ new.opener = row.opener
                /\ new.writer = row.writer
                /\ new.row = row.row
                /\ new = row \/ new.updateAt > row.updateAt
  <1>1. CASE row # NoDraft /\ row.parentId = p
    <2> DEFINE stamp == NextMonotonic(now, row.updateAt)
               new == [row EXCEPT !.parentId = parent, !.updateAt = stamp]
    <2>1. row \in Draft
      BY <1>1
    <2>2. stamp \in Nat /\ stamp > row.updateAt
      BY <2>1, NextMonotonicGrows DEF Draft
    <2>3. ReparentedBelow(p, parent, row, now) = new
      BY <1>1 DEF ReparentedBelow, Reparented
    <2> HIDE DEF stamp
    <2>4. new \in Draft /\ new # NoDraft
      BY <2>1, <2>2, NoDraftAssumption DEF Draft
    <2> QED
      BY <1>1, <2>1, <2>2, <2>3, <2>4 DEF Draft
  <1>2. CASE ~ (row # NoDraft /\ row.parentId = p)
    BY <1>2 DEF ReparentedBelow
  <1> QED
    BY <1>1, <1>2

(* A save keeps the row, its baseline and its opener, and moves its token. *)
LEMMA MergedRow ==
    ASSUME NEW row \in Draft, NEW i \in Nat \ {0}, NEW text \in Nat, NEW now \in Nat
    PROVE  LET new == Merged(row, i, text, now) IN
           /\ new \in Draft
           /\ new # NoDraft
           /\ new.baseEditAt = row.baseEditAt
           /\ new.opener = row.opener
           /\ new.row = row.row
           /\ new.updateAt > row.updateAt
  <1> DEFINE stamp == NextMonotonic(now, row.updateAt)
             new == [row EXCEPT !.updateAt = stamp,
                                !.text = IF text = 0 THEN row.text ELSE text,
                                !.writer = IF text = 0 THEN row.writer ELSE i]
  <1>1. stamp \in Nat /\ stamp > row.updateAt
    BY NextMonotonicGrows DEF Draft
  <1>2. Merged(row, i, text, now) = new
    BY DEF Merged
  <1> HIDE DEF stamp
  <1>3. new \in Draft /\ new # NoDraft
    BY <1>1, NoDraftAssumption DEF Draft
  <1> QED
    BY <1>1, <1>2, <1>3 DEF Draft

(* What a save keeps, whatever it carries. *)
LEMMA MergedKeeps ==
    ASSUME NEW row \in Draft, NEW i, NEW text, NEW now
    PROVE  /\ Merged(row, i, text, now).opener = row.opener
           /\ Merged(row, i, text, now).baseEditAt = row.baseEditAt
           /\ Merged(row, i, text, now).row = row.row
  BY DEF Merged, Draft

(* What a save inserts, whoever it is by. *)
LEMMA InsertedBy ==
    ASSUME NEW u, NEW p, NEW i, NEW text, NEW now
    PROVE  /\ Inserted(u, p, i, text, now).opener = i
           /\ Inserted(u, p, i, text, now).baseEditAt = sessions[u][p][i].baseEditAt
  BY DEF Inserted

(* Overwriting one cell of a table keyed by user and page. *)
LEMMA CellUpdate ==
    ASSUME NEW R, NEW f \in [Users -> [Pages -> R]],
           NEW u \in Users, NEW p \in Pages, NEW x \in R
    PROVE  LET g == [f EXCEPT ![u][p] = x] IN
           /\ g \in [Users -> [Pages -> R]]
           /\ g[u][p] = x
           /\ \A v \in Users, q \in Pages : v # u \/ q # p => g[v][q] = f[v][q]
  OBVIOUS

-----------------------------------------------------------------------------
(* Type correctness                                                        *)

(* The row a save inserts is a draft row. *)
LEMMA InsertedRow ==
    ASSUME TypeOK, NEW u \in Users, NEW p \in Pages, NEW i \in 1 .. Len(sessions[u][p]),
           NEW text \in Nat, NEW now \in Nat
    PROVE  /\ Inserted(u, p, i, text, now) \in Draft
           /\ Inserted(u, p, i, text, now).updateAt = now
           /\ Inserted(u, p, i, text, now).parentId = NoPage
           /\ Inserted(u, p, i, text, now).opener = i
           /\ Inserted(u, p, i, text, now).baseEditAt = sessions[u][p][i].baseEditAt
           /\ Inserted(u, p, i, text, now).row = rows[u][p] + 1
           /\ rows[u][p] + 1 \in Nat
  <1>1. sessions[u][p][i] \in Session /\ i \in Nat \ {0} /\ rows[u][p] \in Nat
    BY DEF TypeOK
  <1> QED
    BY <1>1 DEF Inserted, Draft, Session, ParentIds

LEMMA InsertType ==
    ASSUME TypeOK, NEW u \in Users, NEW p \in Pages, NEW i \in 1 .. Len(sessions[u][p]),
           NEW text \in Nat, NEW now \in Nat, InsertDraft(u, p, i, text, now)
    PROVE  /\ drafts' \in [Users -> [Pages -> Draft \cup {NoDraft}]]
           /\ rows' \in [Users -> [Pages -> Nat]]
           /\ drafts'[u][p] = Inserted(u, p, i, text, now)
           /\ rows'[u][p] = rows[u][p] + 1
           /\ \A v \in Users, q \in Pages : v # u \/ q # p =>
                  drafts'[v][q] = drafts[v][q] /\ rows'[v][q] = rows[v][q]
  <1>1. Inserted(u, p, i, text, now) \in Draft \cup {NoDraft} /\ rows[u][p] + 1 \in Nat
    BY InsertedRow
  <1>2. /\ drafts' = [drafts EXCEPT ![u][p] = Inserted(u, p, i, text, now)]
        /\ rows' = [rows EXCEPT ![u][p] = rows[u][p] + 1]
    BY DEF InsertDraft
  <1>3. /\ drafts' \in [Users -> [Pages -> Draft \cup {NoDraft}]]
        /\ drafts'[u][p] = Inserted(u, p, i, text, now)
        /\ \A v \in Users, q \in Pages : v # u \/ q # p => drafts'[v][q] = drafts[v][q]
    <2>1. drafts \in [Users -> [Pages -> Draft \cup {NoDraft}]]
      BY DEF TypeOK
    <2> QED
      BY <1>1, <1>2, <2>1, CellUpdate
  <1>4. /\ rows' \in [Users -> [Pages -> Nat]]
        /\ rows'[u][p] = rows[u][p] + 1
        /\ \A v \in Users, q \in Pages : v # u \/ q # p => rows'[v][q] = rows[v][q]
    <2>1. rows \in [Users -> [Pages -> Nat]]
      BY DEF TypeOK
    <2> QED
      BY <1>1, <1>2, <2>1, CellUpdate
  <1> QED
    BY <1>3, <1>4

LEMMA InitType == Init => TypeOK
  BY DEF Init, TypeOK, Page, ParentIds

(* The editor, autosave and discard keep the types. *)
LEMMA DraftStepType ==
    ASSUME TypeOK, NEW u \in Users, NEW p \in Pages, DraftStep(u, p)
    PROVE  TypeOK'
  <1> USE DEF TypeOK
  <1>r. ClockReads \subseteq Nat
    BY ClockReadsPositive
  <1>1. CASE OpenEditor(u, p)
    <2> DEFINE s == [baseEditAt |-> pages[p].editAt, text |-> pages[p].text]
    <2>1. s \in Session
      BY DEF Page, Session
    <2>2. Append(sessions[u][p], s) \in Seq(Session)
      BY <2>1
    <2>3. sessions' = [sessions EXCEPT ![u][p] = Append(sessions[u][p], s)]
      BY <1>1 DEF OpenEditor
    <2>4. sessions' \in [Users -> [Pages -> Seq(Session)]]
      <3> HIDE DEF s
      <3> QED
        BY <2>2, <2>3, CellUpdate
    <2> QED
      BY <2>4, <1>1 DEF OpenEditor
  <1>2. ASSUME NEW now \in ClockReads, DiscardDraft(u, p, now)
        PROVE  TypeOK'
    <2>1. drafts[u][p] \in Draft /\ now \in Nat
      BY <1>2, <1>r DEF DiscardDraft
    <2>2. drafts[u][p].parentId \in ParentIds
      BY <2>1 DEF Draft
    <2>3. \A q \in Pages : ReparentedBelow(p, drafts[u][p].parentId, drafts[u][q], now)
                              \in Draft \cup {NoDraft}
      BY <2>1, <2>2, ReparentedRow
    <2>4. drafts' \in [Users -> [Pages -> Draft \cup {NoDraft}]]
      BY <1>2, <2>3 DEF DiscardDraft
    <2> QED
      BY <1>2, <2>4 DEF DiscardDraft
  <1>3. ASSUME NEW now \in ClockReads, NEW parent \in ParentIds,
               CreateSpaceDraft(u, p, parent, now)
        PROVE  TypeOK'
    <2> DEFINE row == [updateAt |-> now, baseEditAt |-> 0, parentId |-> parent,
                       text |-> texts + 1, opener |-> 1, writer |-> 1,
                       row |-> rows[u][p] + 1]
               s == [baseEditAt |-> 0, text |-> 0]
    <2>1. row \in Draft /\ rows[u][p] + 1 \in Nat
      BY <1>r DEF Draft
    <2>2. <<s>> \in Seq(Session)
      BY DEF Session
    <2>3. /\ drafts' = [drafts EXCEPT ![u][p] = row]
          /\ rows' = [rows EXCEPT ![u][p] = rows[u][p] + 1]
          /\ sessions' = [sessions EXCEPT ![u][p] = <<s>>]
          /\ texts' = texts + 1
          /\ UNCHANGED <<clock, spaceDeleteAt, pages, reqs, save, ended>>
      BY <1>3 DEF CreateSpaceDraft
    <2> HIDE DEF row, s
    <2>4. drafts' \in [Users -> [Pages -> Draft \cup {NoDraft}]]
      BY <2>1, <2>3, CellUpdate
    <2>5. rows' \in [Users -> [Pages -> Nat]]
      BY <2>1, <2>3, CellUpdate
    <2>6. sessions' \in [Users -> [Pages -> Seq(Session)]]
      BY <2>2, <2>3, CellUpdate
    <2> QED
      BY <2>3, <2>4, <2>5, <2>6
  <1>4. ASSUME NEW now \in ClockReads, NEW i \in 1 .. Len(sessions[u][p]),
               NEW text \in {0, texts + 1}, UpdatePageDraft(u, p, i, text, now)
        PROVE  TypeOK'
    <2>0. i \in Nat \ {0} /\ text \in Nat /\ now \in Nat
      BY <1>r
    <2>1. CASE EstablishDraft(u, p, i, text, now)
      BY <1>4, <2>0, <2>1, InsertType DEF UpdatePageDraft, EstablishDraft
    <2>2. CASE FindDraft(u, p, i, text, now)
      <3>1. save' \in Save
        BY <2>0, <2>2 DEF FindDraft, Save
      <3> QED
        BY <1>4, <2>0, <2>2, <3>1 DEF UpdatePageDraft, FindDraft
    <2> QED
      BY <1>4, <2>1, <2>2 DEF UpdatePageDraft
  <1> QED
    BY <1>1, <1>2, <1>3, <1>4 DEF DraftStep, UpdatePageDraft

(* The save under way, and what its write does to the row it found. *)
LEMMA SaveTyped ==
    ASSUME TypeOK, SavesBySessions, save # NoSave
    PROVE  /\ save.user \in Users /\ save.page \in Pages
           /\ save.session \in 1 .. Len(sessions[save.user][save.page])
           /\ save.text \in Nat /\ save.now \in Nat
  <1>1. save \in Save
    BY DEF TypeOK
  <1>2. save.user \in Users /\ save.page \in Pages /\ save.session \in Nat \ {0}
        /\ save.text \in Nat /\ save.now \in Nat
    BY <1>1 DEF Save
  <1>3. Len(sessions[save.user][save.page]) \in Nat
    BY <1>2 DEF TypeOK
  <1> QED
    BY <1>2, <1>3 DEF SavesBySessions

LEMMA FinishSaveType ==
    ASSUME TypeOK, SavesBySessions, FinishSave
    PROVE  TypeOK'
  <1>1. PICK u, p, i, text, now :
            /\ u = save.user /\ p = save.page /\ i = save.session
            /\ text = save.text /\ now = save.now
    OBVIOUS
  <1>2. /\ u \in Users /\ p \in Pages /\ i \in 1 .. Len(sessions[u][p])
        /\ text \in Nat /\ now \in Nat /\ i \in Nat \ {0}
    BY <1>1, SaveTyped DEF FinishSave
  <1>3. UpsertDraft(u, p, i, text, now)
    BY <1>1 DEF FinishSave
  <1>4. CASE ~ Held(u, p) /\ InsertDraft(u, p, i, text, now)
    BY <1>2, <1>3, <1>4, InsertType DEF UpsertDraft, TypeOK
  <1>5. CASE /\ Held(u, p) /\ UNCHANGED rows
             /\ drafts' = [drafts EXCEPT ![u][p] = Merged(drafts[u][p], i, text, now)]
    <2>1. drafts[u][p] \in Draft
      BY <1>2, <1>5 DEF TypeOK
    <2>2. Merged(drafts[u][p], i, text, now) \in Draft
      BY <1>2, <2>1, MergedRow
    <2>3. drafts' \in [Users -> [Pages -> Draft \cup {NoDraft}]]
      BY <1>2, <1>5, <2>2, CellUpdate DEF TypeOK
    <2> QED
      BY <1>3, <1>5, <2>3 DEF UpsertDraft, TypeOK
  <1> QED
    BY <1>3, <1>4, <1>5 DEF UpsertDraft

(* Only UpdatePageDraft starts a save; every other step keeps it or ends it. *)
LEMMA SaveIs ==
    ASSUME [Next]_vars
    PROVE  \/ UNCHANGED save
           \/ FinishSave /\ save' = NoSave
           \/ \E u \in Users, p \in Pages, now \in ClockReads : \E text \in {0, texts + 1} :
                  \E i \in 1 .. Len(sessions[u][p]) :
                    UpdatePageDraft(u, p, i, text, now) /\ FindDraft(u, p, i, text, now)
  <1>1. CASE Tick \/ UNCHANGED vars
    BY <1>1 DEF Tick, vars
  <1>2. CASE FinishSave
    BY <1>2 DEF FinishSave, UpsertDraft
  <1>3. CASE SpaceStep
    BY <1>3 DEF SpaceStep, DeleteSpace, RestoreSpace
  <1>4. ASSUME NEW p \in Pages, PageStep(p) PROVE UNCHANGED save
    BY <1>4 DEF PageStep, UpdatePage, DeletePage, RestorePage
  <1>5. ASSUME NEW r \in Reqs, PublishStep(r) PROVE UNCHANGED save
    BY <1>5 DEF PublishStep, ReadDraft, DeriveTarget, ProbeParent, PublishNew, PublishNewFails,
       PublishEdit, PublishEditFails, DiscardBaselineOnly, ReadWinner, DropOrphan
  <1>6. ASSUME NEW u \in Users, NEW p \in Pages, DraftStep(u, p)
        PROVE  \/ UNCHANGED save
               \/ \E now \in ClockReads, text \in {0, texts + 1} :
                    \E i \in 1 .. Len(sessions[u][p]) :
                      UpdatePageDraft(u, p, i, text, now) /\ FindDraft(u, p, i, text, now)
    <2>1. CASE OpenEditor(u, p)
      BY <2>1 DEF OpenEditor
    <2>2. ASSUME NEW now, DiscardDraft(u, p, now) PROVE UNCHANGED save
      BY <2>2 DEF DiscardDraft
    <2>3. ASSUME NEW now, NEW parent, CreateSpaceDraft(u, p, parent, now) PROVE UNCHANGED save
      BY <2>3 DEF CreateSpaceDraft
    <2>4. ASSUME NEW now, NEW i, NEW text, UpdatePageDraft(u, p, i, text, now)
          PROVE  UNCHANGED save \/ FindDraft(u, p, i, text, now)
      BY <2>4 DEF UpdatePageDraft, EstablishDraft
    <2> QED
      BY <1>6, <2>1, <2>2, <2>3, <2>4 DEF DraftStep
  <1> QED
    BY <1>1, <1>2, <1>3, <1>4, <1>5, <1>6 DEF Next

(* Overwriting one entry of a table keyed by request. *)
LEMMA RequestsType ==
    ASSUME TypeOK, NEW r \in Reqs,
           \/ Return(r)
           \/ reqs[r] # NoReq /\ \E step \in Steps : Continue(r, step)
           \/ \E q \in Request : reqs' = [reqs EXCEPT ![r] = q]
    PROVE  reqs' \in [Reqs -> Request \cup {NoReq}]
  <1>1. CASE Return(r) \/ \E q \in Request : reqs' = [reqs EXCEPT ![r] = q]
    BY <1>1 DEF TypeOK
  <1>2. ASSUME reqs[r] # NoReq, NEW step \in Steps, Continue(r, step)
        PROVE  reqs' \in [Reqs -> Request \cup {NoReq}]
    <2>1. reqs[r] \in Request
      BY <1>2 DEF TypeOK
    <2>2. [reqs[r] EXCEPT !.step = step] \in Request
      BY <2>1 DEF Request
    <2>3. reqs' = [reqs EXCEPT ![r] = [reqs[r] EXCEPT !.step = step]]
      BY <1>2
    <2> QED
      BY <2>2, <2>3 DEF TypeOK
  <1> QED
    BY <1>1, <1>2

(* Removing a row keeps the table of drafts well typed. *)
LEMMA WithoutDraftType ==
    ASSUME TypeOK, NEW u \in Users, NEW p \in Pages
    PROVE  WithoutDraft(u, p) \in [Users -> [Pages -> Draft \cup {NoDraft}]]
  <1>1. NoDraft \in Draft \cup {NoDraft}
    OBVIOUS
  <1> QED
    BY <1>1, CellUpdate DEF TypeOK, WithoutDraft

(* The effects of a committed publish, and of a draft dropped by its token. *)
LEMMA ConsumeType ==
    ASSUME TypeOK, NEW q \in Request, ConsumeDraft(q)
    PROVE  /\ drafts' \in [Users -> [Pages -> Draft \cup {NoDraft}]]
           /\ ended' \in [Users -> [Pages -> Nat]]
  <1>1. q.user \in Users /\ q.page \in Pages
    BY DEF Request
  <1>2. Len(sessions[q.user][q.page]) \in Nat
    BY <1>1 DEF TypeOK
  <1>3. ended' = [ended EXCEPT ![q.user][q.page] = Len(sessions[q.user][q.page])]
    BY DEF ConsumeDraft
  <1>4. ended' \in [Users -> [Pages -> Nat]]
    BY <1>1, <1>2, <1>3, CellUpdate DEF TypeOK
  <1> QED
    BY <1>1, <1>4, WithoutDraftType DEF ConsumeDraft

LEMMA DropType ==
    ASSUME TypeOK, NEW q \in Request, DropVersion(q)
    PROVE  drafts' \in [Users -> [Pages -> Draft \cup {NoDraft}]]
  <1>1. q.user \in Users /\ q.page \in Pages
    BY DEF Request
  <1> QED
    BY <1>1, WithoutDraftType DEF DropVersion, TypeOK

(* Every step of a publish request keeps the types. *)
LEMMA PublishStepType ==
    ASSUME TypeOK, NEW r \in Reqs, PublishStep(r)
    PROVE  TypeOK'
  <1>1. ASSUME NEW u \in Users, NEW p \in Pages, NEW force \in BOOLEAN,
               ReadDraft(r, u, p, force)
        PROVE  TypeOK'
    <2> DEFINE q == [step |-> "target", user |-> u, page |-> p, force |-> force,
                     draft |-> drafts[u][p]]
    <2>1. drafts[u][p] \in Draft
      BY <1>1 DEF ReadDraft, Visible, TypeOK
    <2>2. q \in Request
      BY <2>1 DEF Request, Steps
    <2>3. reqs' = [reqs EXCEPT ![r] = q]
      BY <1>1 DEF ReadDraft
    <2>4. reqs' \in [Reqs -> Request \cup {NoReq}]
      BY <2>2, <2>3, RequestsType
    <2> QED
      BY <1>1, <2>4 DEF ReadDraft, TypeOK
  <1>2. CASE DeriveTarget(r)
    <2>1. reqs' \in [Reqs -> Request \cup {NoReq}]
      BY <1>2, RequestsType DEF DeriveTarget, Steps
    <2> QED
      BY <1>2, <2>1 DEF DeriveTarget, TypeOK
  <1>3. CASE ProbeParent(r)
    <2>1. reqs' \in [Reqs -> Request \cup {NoReq}]
      BY <1>3, RequestsType DEF ProbeParent, Steps
    <2> QED
      BY <1>3, <2>1 DEF ProbeParent, TypeOK
  <1>4. CASE PublishNew(r)
    <2> DEFINE q == reqs[r]
               page == [exists |-> TRUE, deleteAt |-> 0, editAt |-> clock,
                        updateAt |-> clock, parentId |-> q.draft.parentId,
                        text |-> q.draft.text]
    <2>1. q \in Request
      BY <1>4 DEF PublishNew, TypeOK
    <2>2. page \in Page
      BY <2>1 DEF Page, Request, Draft, TypeOK
    <2>3. pages' = [pages EXCEPT ![q.page] = page]
      BY <1>4 DEF PublishNew
    <2>4. pages' \in [Pages -> Page]
      <3> HIDE DEF page
      <3> QED
        BY <2>1, <2>2, <2>3 DEF TypeOK
    <2>5. reqs' \in [Reqs -> Request \cup {NoReq}]
      BY <1>4, RequestsType DEF PublishNew
    <2>6. ConsumeDraft(q)
      BY <1>4 DEF PublishNew
    <2>7. /\ drafts' \in [Users -> [Pages -> Draft \cup {NoDraft}]]
          /\ ended' \in [Users -> [Pages -> Nat]]
      BY <2>1, <2>6, ConsumeType
    <2> QED
      BY <1>4, <2>4, <2>5, <2>7 DEF PublishNew, TypeOK
  <1>5. CASE PublishNewFails(r)
    <2>1. reqs' \in [Reqs -> Request \cup {NoReq}]
      BY <1>5, RequestsType DEF PublishNewFails, Steps
    <2> QED
      BY <1>5, <2>1 DEF PublishNewFails, TypeOK
  <1>6. CASE PublishEdit(r)
    <2> DEFINE q == reqs[r]
    <2>1. q \in Request
      BY <1>6 DEF PublishEdit, TypeOK
    <2>2. q.page \in Pages /\ q.draft.text \in Nat
      BY <2>1 DEF Request, Draft
    <2>3. Patched(q.page, q.draft.text) \in Page
      BY <2>2, PatchedRow
    <2>4. pages' \in [Pages -> Page]
      BY <1>6, <2>2, <2>3 DEF PublishEdit, TypeOK
    <2>5. reqs' \in [Reqs -> Request \cup {NoReq}]
      BY <1>6, RequestsType DEF PublishEdit
    <2>6. ConsumeDraft(q)
      BY <1>6 DEF PublishEdit
    <2>7. /\ drafts' \in [Users -> [Pages -> Draft \cup {NoDraft}]]
          /\ ended' \in [Users -> [Pages -> Nat]]
      BY <2>1, <2>6, ConsumeType
    <2> QED
      BY <1>6, <2>4, <2>5, <2>7 DEF PublishEdit, TypeOK
  <1>7. CASE PublishEditFails(r)
    <2>1. reqs' \in [Reqs -> Request \cup {NoReq}]
      BY <1>7, RequestsType DEF PublishEditFails
    <2> QED
      BY <1>7, <2>1 DEF PublishEditFails, TypeOK
  <1>8. CASE DiscardBaselineOnly(r) \/ DropOrphan(r)
    <2>1. reqs[r] \in Request /\ DropVersion(reqs[r]) /\ Return(r)
      BY <1>8 DEF DiscardBaselineOnly, DropOrphan, TypeOK
    <2>2. drafts' \in [Users -> [Pages -> Draft \cup {NoDraft}]]
      BY <2>1, DropType
    <2>3. reqs' \in [Reqs -> Request \cup {NoReq}]
      BY <2>1, RequestsType
    <2> QED
      BY <1>8, <2>2, <2>3 DEF DiscardBaselineOnly, DropOrphan, TypeOK
  <1>9. CASE ReadWinner(r)
    <2>1. reqs' \in [Reqs -> Request \cup {NoReq}]
      BY <1>9, RequestsType DEF ReadWinner, Steps
    <2> QED
      BY <1>9, <2>1 DEF ReadWinner, TypeOK
  <1> QED
    BY <1>1, <1>2, <1>3, <1>4, <1>5, <1>6, <1>7, <1>8, <1>9 DEF PublishStep

(* A page row stamped with new tokens is a page row of the same content. *)
LEMMA RestampedRow ==
    ASSUME NEW row \in Page, NEW now \in Nat, NEW deleteAt \in Nat
    PROVE  /\ Restamped(row, deleteAt, now) \in Page
           /\ Restamped(row, deleteAt, now).exists = row.exists
           /\ Restamped(row, deleteAt, now).deleteAt = deleteAt
           /\ Restamped(row, deleteAt, now).editAt > row.editAt
           /\ Restamped(row, deleteAt, now).parentId = row.parentId
  <1> DEFINE a == NextMonotonic(now, row.updateAt)
             b == NextMonotonic(now, row.editAt)
             new == [row EXCEPT !.deleteAt = deleteAt, !.updateAt = a, !.editAt = b]
  <1>1. a \in Nat /\ b \in Nat /\ b > row.editAt
    BY NextMonotonicGrows DEF Page
  <1>2. Restamped(row, deleteAt, now) = new
    BY DEF Restamped
  <1> HIDE DEF a, b
  <1>3. /\ new \in Page
        /\ new.exists = row.exists
        /\ new.deleteAt = deleteAt
        /\ new.editAt = b
        /\ new.parentId = row.parentId
    BY <1>1 DEF Page
  <1> QED
    BY <1>1, <1>2, <1>3

(* What a step does to an existing page row, as the readers of the page see it. *)
PageKept(p) ==
    /\ pages'[p].exists
    /\ \/ pages'[p].editAt > pages[p].editAt
       \/ pages'[p].editAt = pages[p].editAt /\ pages'[p].text = pages[p].text

(* The row that DeletePage leaves for q when p is deleted. *)
LEMMA DeletePageRow ==
    ASSUME TypeOK, NEW p \in Pages, NEW now \in Nat, DeletePage(p, now), NEW q \in Pages
    PROVE  /\ pages'[q] \in Page
           /\ pages[q].exists => PageKept(q)
           /\ ~ pages[q].exists => pages'[q] = pages[q]
  <1>0. pages[q] \in Page /\ pages[p] \in Page
    BY DEF TypeOK
  <1>u. pages' = PagesAfterDelete(p, now)
    BY DEF DeletePage
  <1>1. CASE q = p
    <2>1. pages'[q] = Restamped(pages[q], now, now)
      BY <1>1, <1>u DEF PagesAfterDelete
    <2>2. pages[q].exists
      BY <1>1 DEF DeletePage
    <2> QED
      BY <1>0, <2>1, <2>2, RestampedRow DEF PageKept
  <1>2. CASE q # p /\ Live(q) /\ pages[q].parentId = p
    <2> DEFINE stamp == NextMonotonic(now, pages[q].updateAt)
    <2>1. pages'[q] = [pages[q] EXCEPT !.parentId = pages[p].parentId, !.updateAt = stamp]
      BY <1>2, <1>u DEF PagesAfterDelete, Reparented
    <2>2. stamp \in Nat
      BY <1>0, NextMonotonicGrows DEF Page
    <2> HIDE DEF stamp
    <2> QED
      BY <1>0, <1>2, <2>1, <2>2 DEF Page, PageKept
  <1>3. CASE q # p /\ ~ (Live(q) /\ pages[q].parentId = p)
    BY <1>0, <1>3, <1>u DEF PagesAfterDelete, PageKept, Page
  <1> QED
    BY <1>1, <1>2, <1>3

(* The row that RestorePage leaves for the page it restores. *)
LEMMA RestorePageRow ==
    ASSUME TypeOK, NEW p \in Pages, NEW now \in Nat, RestorePage(p, now)
    PROVE  /\ pages' \in [Pages -> Page]
           /\ \A q \in Pages : q # p => pages'[q] = pages[q]
           /\ PageKept(p)
  <1> DEFINE row == Restamped(pages[p], 0, now)
             parent == IF LiveParent(row.parentId) THEN row.parentId ELSE NoPage
             new == [row EXCEPT !.parentId = parent]
  <1>1. pages[p] \in Page /\ pages[p].exists
    BY DEF TypeOK, RestorePage
  <1>2. row \in Page /\ row.exists /\ row.editAt > pages[p].editAt
    BY <1>1, RestampedRow
  <1>3. pages' = [pages EXCEPT ![p] = new]
    BY DEF RestorePage, Revived
  <1> HIDE DEF row
  <1>4. parent \in ParentIds
    BY <1>2 DEF Page, ParentIds
  <1> HIDE DEF parent
  <1>5. new \in Page /\ new.exists /\ new.editAt > pages[p].editAt
    BY <1>2, <1>4 DEF Page
  <1> HIDE DEF new
  <1> QED
    BY <1>3, <1>5 DEF TypeOK, PageKept

(* The rows that DeleteSpace and RestoreSpace leave. *)
LEMMA StampedPages ==
    ASSUME TypeOK, NEW ps, NEW deleteAt \in Nat, NEW stamp \in Nat,
           pages' = Stamped(ps, deleteAt, stamp), \A p \in ps : pages[p].exists
    PROVE  /\ pages' \in [Pages -> Page]
           /\ \A p \in Pages : pages[p].exists => PageKept(p)
           /\ \A p \in Pages : ~ pages[p].exists => pages'[p] = pages[p]
  <1>1. ASSUME NEW p \in Pages
        PROVE  /\ pages'[p] \in Page
               /\ pages[p].exists => PageKept(p)
               /\ ~ pages[p].exists => pages'[p] = pages[p]
    <2>0. pages[p] \in Page
      BY DEF TypeOK
    <2>1. CASE p \in ps
      <3>1. PICK row : row = Restamped(pages[p], deleteAt, stamp)
        OBVIOUS
      <3>2. pages'[p] = row
        BY <2>1, <3>1 DEF Stamped
      <3>3. row \in Page /\ row.exists = pages[p].exists /\ row.editAt > pages[p].editAt
        BY <2>0, <3>1, RestampedRow
      <3> QED
        BY <2>1, <3>2, <3>3 DEF PageKept
    <2>2. CASE p \notin ps
      BY <2>0, <2>2 DEF Stamped, PageKept, Page
    <2> QED
      BY <2>1, <2>2
  <1>2. pages' = [p \in Pages |-> pages'[p]]
    BY DEF Stamped
  <1> QED
    BY <1>1, <1>2

(* The other writers of the page, and the space, keep the types. *)
LEMMA PageStepType ==
    ASSUME TypeOK, NEW p \in Pages, PageStep(p)
    PROVE  TypeOK'
  <1>r. ClockReads \subseteq Nat
    BY ClockReadsPositive DEF TypeOK
  <1>1. ASSUME NEW u \in Users, NEW force \in BOOLEAN, NEW i \in 1 .. Len(sessions[u][p]),
               UpdatePage(u, p, i, force)
        PROVE  TypeOK'
    <2>1. texts + 1 \in Nat
      BY DEF TypeOK
    <2>2. Patched(p, texts + 1) \in Page
      BY <2>1, PatchedRow
    <2>3. pages' \in [Pages -> Page]
      BY <1>1, <2>2 DEF UpdatePage, TypeOK
    <2> QED
      BY <1>1, <2>1, <2>3 DEF UpdatePage, TypeOK
  <1>2. ASSUME NEW now \in ClockReads, DeletePage(p, now)
        PROVE  TypeOK'
    <2>0. now \in Nat
      BY <1>r
    <2>1. pages' \in [Pages -> Page]
      <3>1. \A q \in Pages : pages'[q] \in Page
        BY <1>2, <2>0, DeletePageRow
      <3>2. pages' = [q \in Pages |-> pages'[q]]
        BY <1>2 DEF DeletePage, PagesAfterDelete
      <3> QED
        BY <3>1, <3>2
    <2>2. drafts' \in [Users -> [Pages -> Draft \cup {NoDraft}]]
      <3>1. pages[p].parentId \in ParentIds
        BY DEF TypeOK, Page
      <3>2. \A u \in Users, q \in Pages :
                ReparentedBelow(p, pages[p].parentId, drafts[u][q], now) \in Draft \cup {NoDraft}
        BY <2>0, <3>1, ReparentedRow DEF TypeOK
      <3> QED
        BY <1>2, <3>2 DEF DeletePage, DraftsAfterDelete
    <2> QED
      BY <1>2, <2>1, <2>2 DEF DeletePage, TypeOK
  <1>3. ASSUME NEW now \in ClockReads, RestorePage(p, now)
        PROVE  TypeOK'
    <2>1. pages' \in [Pages -> Page]
      BY <1>3, <1>r, RestorePageRow
    <2> QED
      BY <1>3, <2>1 DEF RestorePage, TypeOK
  <1> QED
    BY <1>1, <1>2, <1>3 DEF PageStep

LEMMA SpaceStepType ==
    ASSUME TypeOK, SpaceStep
    PROVE  TypeOK'
  <1>r. ClockReads \subseteq Nat
    BY ClockReadsPositive DEF TypeOK
  <1>1. ASSUME NEW stamp \in 1 .. MaxStamp, DeleteSpace(stamp)
        PROVE  TypeOK'
    <2> DEFINE ps == {p \in Pages : Live(p)}
    <2>0. stamp \in Nat /\ pages' = Stamped(ps, stamp, stamp) /\ \A p \in ps : pages[p].exists
      BY <1>1, ParamsAssumption DEF DeleteSpace, Live
    <2>1. pages' \in [Pages -> Page]
      <3> HIDE DEF ps
      <3> QED
        BY <2>0, StampedPages
    <2> QED
      BY <1>1, <2>1, ParamsAssumption DEF DeleteSpace, TypeOK
  <1>2. ASSUME NEW now \in ClockReads, RestoreSpace(now)
        PROVE  TypeOK'
    <2> DEFINE ps == {p \in Pages : pages[p].exists /\ pages[p].deleteAt = spaceDeleteAt}
    <2>0. now \in Nat /\ pages' = Stamped(ps, 0, now) /\ \A p \in ps : pages[p].exists
      BY <1>2, <1>r DEF RestoreSpace
    <2>1. pages' \in [Pages -> Page]
      <3> HIDE DEF ps
      <3> QED
        BY <2>0, StampedPages
    <2> QED
      BY <1>2, <2>1 DEF RestoreSpace, TypeOK
  <1> QED
    BY <1>1, <1>2 DEF SpaceStep

LEMMA StepType ==
    ASSUME TypeOK, SavesBySessions, [Next]_vars
    PROVE  TypeOK'
  <1>1. CASE Tick
    BY <1>1 DEF Tick, TypeOK
  <1>2. CASE UNCHANGED vars
    BY <1>2 DEF vars, TypeOK
  <1> QED
    BY <1>1, <1>2, DraftStepType, FinishSaveType, PublishStepType, PageStepType, SpaceStepType
       DEF Next

-----------------------------------------------------------------------------
(* Effects.  The safety of publishing is proved from PublishInv.  Each step *)
(* is first reduced to what it does to one page, one session list, one      *)
(* draft row and one request (StepEffects); the parts of the invariant then *)
(* follow from the effects, without looking at the actions again.           *)

\* A page row is kept, edited past its EditAt, or published for the first time.
PageEffect(p) ==
    IF pages[p].exists THEN PageKept(p)
    ELSE pages'[p] = pages[p] \/ (pages'[p].exists /\ pages'[p].editAt > 0)

Loaded(p) == [baseEditAt |-> pages[p].editAt, text |-> pages[p].text]

NewPageSession == [baseEditAt |-> 0, text |-> 0]

\* A session list is kept, grows by what the page shows, or starts a new page.
SessionEffect(u, p) ==
    \/ sessions'[u][p] = sessions[u][p]
    \/ /\ Live(p) /\ pages' = pages
       /\ sessions'[u][p] = Append(sessions[u][p], Loaded(p))
    \/ /\ Absent(p) /\ pages' = pages
       /\ sessions[u][p] = <<>>
       /\ sessions'[u][p] = <<NewPageSession>>

\* A publish ends all sessions and moves the page past them.
EndedEffect(u, p) ==
    \/ ended'[u][p] = ended[u][p]
    \/ /\ ended'[u][p] = Len(sessions[u][p])
       /\ sessions' = sessions
       /\ drafts'[u][p] = NoDraft
       /\ pages'[p].exists /\ pages'[p].editAt > 0
       /\ pages[p].exists => pages'[p].editAt > pages[p].editAt

\* A stored row keeps its opener and baseline, or is opened by a session that
\* has loaded the page as it is, or by the save that had found another, or by the
\* first session of a new page.
RowEffect(u, p) ==
    drafts'[u][p] # NoDraft =>
        \/ /\ Held(u, p)
           /\ drafts'[u][p].opener = drafts[u][p].opener
           /\ drafts'[u][p].baseEditAt = drafts[u][p].baseEditAt
           /\ ended'[u][p] = ended[u][p]
        \/ /\ pages' = pages /\ sessions' = sessions /\ ended' = ended
           /\ drafts'[u][p].opener \in 1 .. Len(sessions[u][p])
           /\ drafts'[u][p].baseEditAt = sessions[u][p][drafts'[u][p].opener].baseEditAt
           /\ Saving(u, p) \/ drafts'[u][p].baseEditAt = pages[p].editAt
        \/ /\ Absent(p) /\ pages' = pages /\ ended' = ended
           /\ sessions[u][p] = <<>>
           /\ sessions'[u][p] = <<NewPageSession>>
           /\ drafts'[u][p].opener = 1
           /\ drafts'[u][p].baseEditAt = 0

(* A draft row that a step leaves alone. *)
LEMMA RowUntouched ==
    ASSUME NEW u \in Users, NEW p \in Pages,
           drafts'[u][p] = drafts[u][p], ended'[u][p] = ended[u][p]
    PROVE  RowEffect(u, p)
  BY DEF RowEffect

\* A request keeps the draft it has read, or has just read it.
RequestEffect(r) ==
    reqs'[r] # NoReq =>
        \/ /\ reqs[r] # NoReq
           /\ reqs'[r].user = reqs[r].user
           /\ reqs'[r].page = reqs[r].page
           /\ reqs'[r].draft = reqs[r].draft
        \/ /\ Held(reqs'[r].user, reqs'[r].page)
           /\ reqs'[r].draft = drafts[reqs'[r].user][reqs'[r].page]
           /\ sessions' = sessions

Effects ==
    /\ \A p \in Pages : PageEffect(p)
    /\ \A u \in Users, p \in Pages : SessionEffect(u, p) /\ EndedEffect(u, p) /\ RowEffect(u, p)
    /\ \A r \in Reqs : RequestEffect(r)

(* A step that keeps a variable has the trivial effect on it. *)
LEMMA PagesUnchanged ==
    ASSUME UNCHANGED pages
    PROVE  \A p \in Pages : PageEffect(p)
  BY DEF PageEffect, PageKept

LEMMA SessionsUnchanged ==
    ASSUME UNCHANGED sessions
    PROVE  \A u \in Users, p \in Pages : SessionEffect(u, p)
  BY DEF SessionEffect

LEMMA EndedUnchanged ==
    ASSUME UNCHANGED ended
    PROVE  \A u \in Users, p \in Pages : EndedEffect(u, p)
  BY DEF EndedEffect

LEMMA DraftsUnchanged ==
    ASSUME UNCHANGED <<drafts, ended>>
    PROVE  \A u \in Users, p \in Pages : RowEffect(u, p)
  BY DEF RowEffect

LEMMA RequestsUnchanged ==
    ASSUME UNCHANGED reqs
    PROVE  \A r \in Reqs : RequestEffect(r)
  BY DEF RequestEffect

(* A request that returns or goes on to its next step keeps what it has read. *)
LEMMA RequestGoesOn ==
    ASSUME TypeOK, NEW r \in Reqs,
           Return(r) \/ (reqs[r] # NoReq /\ \E step \in Steps : Continue(r, step))
    PROVE  \A s \in Reqs : RequestEffect(s)
  <1>1. CASE Return(r)
    BY <1>1 DEF RequestEffect, TypeOK
  <1>2. ASSUME reqs[r] # NoReq, NEW step \in Steps, Continue(r, step)
        PROVE  \A s \in Reqs : RequestEffect(s)
    <2>1. reqs[r] \in Request
      BY <1>2 DEF TypeOK
    <2>2. reqs'[r] = [reqs[r] EXCEPT !.step = step] /\ \A s \in Reqs \ {r} : reqs'[s] = reqs[s]
      BY <1>2 DEF TypeOK
    <2>3. reqs'[r].user = reqs[r].user /\ reqs'[r].page = reqs[r].page
          /\ reqs'[r].draft = reqs[r].draft
      BY <2>1, <2>2 DEF Request
    <2> QED
      BY <1>2, <2>2, <2>3 DEF RequestEffect
  <1> QED
    BY <1>1, <1>2

(* Removing rows, with the history of publishes kept, is no bad effect. *)
LEMMA RowsRemoved ==
    ASSUME TypeOK, NEW u \in Users, NEW p \in Pages,
           drafts' = WithoutDraft(u, p) \/ drafts' = drafts, UNCHANGED ended
    PROVE  \A v \in Users, q \in Pages : RowEffect(v, q)
  <1>1. CASE drafts' = WithoutDraft(u, p)
    <2>1. \A v \in Users, q \in Pages :
              drafts'[v][q] = NoDraft \/ drafts'[v][q] = drafts[v][q]
      BY <1>1 DEF WithoutDraft, TypeOK
    <2> QED
      BY <2>1 DEF RowEffect
  <1>2. CASE drafts' = drafts
    BY <1>2 DEF RowEffect
  <1> QED
    BY <1>1, <1>2

LEMMA DraftStepEffects ==
    ASSUME TypeOK, NEW u \in Users, NEW p \in Pages, DraftStep(u, p)
    PROVE  Effects
  <1>r. ClockReads \subseteq Nat
    BY ClockReadsPositive DEF TypeOK
  <1>1. CASE OpenEditor(u, p)
    <2>1. UNCHANGED <<pages, drafts, reqs, ended>> /\ Live(p)
          /\ sessions' = [sessions EXCEPT ![u][p] = Append(sessions[u][p], Loaded(p))]
      BY <1>1 DEF OpenEditor, Loaded
    <2>2. \A v \in Users, q \in Pages : SessionEffect(v, q)
      <3>1. /\ sessions'[u][p] = Append(sessions[u][p], Loaded(p))
            /\ \A v \in Users, q \in Pages : v # u \/ q # p => sessions'[v][q] = sessions[v][q]
        BY <2>1 DEF TypeOK
      <3> QED
        BY <2>1, <3>1 DEF SessionEffect
    <2> QED
      BY <2>1, <2>2, PagesUnchanged, EndedUnchanged, DraftsUnchanged, RequestsUnchanged DEF Effects
  <1>2. ASSUME NEW now \in ClockReads, DiscardDraft(u, p, now)
        PROVE  Effects
    <2>1. UNCHANGED <<pages, reqs, sessions, ended>> /\ now \in Nat /\ drafts[u][p] \in Draft
      BY <1>2, <1>r DEF DiscardDraft, TypeOK
    <2>2. ASSUME NEW v \in Users, NEW q \in Pages
          PROVE  RowEffect(v, q)
      <3> DEFINE parent == drafts[u][p].parentId
                 moved == ReparentedBelow(p, parent, drafts[v][q], now)
      <3>1. parent \in ParentIds
        BY <2>1 DEF Draft
      <3>2. moved # NoDraft => /\ Held(v, q)
                               /\ moved.opener = drafts[v][q].opener
                               /\ moved.baseEditAt = drafts[v][q].baseEditAt
        BY <2>1, <3>1, ReparentedRow DEF TypeOK
      <3>3. drafts'[v][q] \in {NoDraft, drafts[v][q], moved}
        BY <1>2 DEF DiscardDraft, TypeOK
      <3> HIDE DEF moved
      <3> QED
        BY <2>1, <3>2, <3>3 DEF RowEffect
    <2> QED
      BY <2>1, <2>2, PagesUnchanged, SessionsUnchanged, EndedUnchanged, RequestsUnchanged DEF Effects
  <1>3. ASSUME NEW now \in ClockReads, NEW parent \in ParentIds,
               CreateSpaceDraft(u, p, parent, now)
        PROVE  Effects
    <2> DEFINE row == [updateAt |-> now, baseEditAt |-> 0, parentId |-> parent,
                       text |-> texts + 1, opener |-> 1, writer |-> 1,
                       row |-> rows[u][p] + 1]
    <2>1. /\ UNCHANGED <<pages, reqs, ended>> /\ Absent(p)
          /\ sessions[u][p] = <<>>
          /\ sessions' = [sessions EXCEPT ![u][p] = <<NewPageSession>>]
          /\ drafts' = [drafts EXCEPT ![u][p] = row]
      BY <1>3 DEF CreateSpaceDraft, NewPageSession
    <2>2. row.opener = 1 /\ row.baseEditAt = 0
      OBVIOUS
    <2> HIDE DEF row
    <2>3. /\ sessions'[u][p] = <<NewPageSession>>
          /\ drafts'[u][p] = row
          /\ \A v \in Users, q \in Pages : v # u \/ q # p =>
                 sessions'[v][q] = sessions[v][q] /\ drafts'[v][q] = drafts[v][q]
      BY <2>1 DEF TypeOK
    <2>4. \A v \in Users, q \in Pages : SessionEffect(v, q)
      BY <2>1, <2>3 DEF SessionEffect
    <2>5. \A v \in Users, q \in Pages : RowEffect(v, q)
      <3>1. RowEffect(u, p)
        BY <2>1, <2>2, <2>3 DEF RowEffect
      <3>2. \A v \in Users, q \in Pages : v # u \/ q # p => RowEffect(v, q)
        BY <2>1, <2>3, RowUntouched
      <3> QED
        BY <3>1, <3>2
    <2> QED
      BY <2>1, <2>4, <2>5, PagesUnchanged, EndedUnchanged, RequestsUnchanged DEF Effects
  <1>4. ASSUME NEW now \in ClockReads, NEW i \in 1 .. Len(sessions[u][p]),
               NEW text \in {0, texts + 1}, UpdatePageDraft(u, p, i, text, now)
        PROVE  Effects
    <2>0. /\ UNCHANGED <<pages, reqs, sessions, ended>>
          /\ now \in Nat /\ text \in Nat /\ i \in Nat \ {0}
      BY <1>4, <1>r DEF UpdatePageDraft, TypeOK
    <2>1. CASE EstablishDraft(u, p, i, text, now)
      <3>1. /\ InsertDraft(u, p, i, text, now)
            /\ MayEstablish(u, p, sessions[u][p][i].baseEditAt)
        BY <2>1 DEF EstablishDraft
      <3>2. sessions[u][p][i] \in Session /\ pages[p] \in Page
        BY DEF TypeOK
      <3>3. sessions[u][p][i].baseEditAt = pages[p].editAt
        <4>1. sessions[u][p][i].baseEditAt \in Nat /\ pages[p].editAt \in Nat
          BY <3>2 DEF Session, Page
        <4> QED
          BY <3>1, <4>1 DEF MayEstablish
      <3>4. /\ drafts'[u][p].opener = i
            /\ drafts'[u][p].baseEditAt = sessions[u][p][i].baseEditAt
            /\ \A v \in Users, q \in Pages : v # u \/ q # p => drafts'[v][q] = drafts[v][q]
        <4>1. /\ drafts'[u][p] = Inserted(u, p, i, text, now)
              /\ \A v \in Users, q \in Pages : v # u \/ q # p => drafts'[v][q] = drafts[v][q]
          BY <2>0, <3>1, InsertType
        <4>2. /\ Inserted(u, p, i, text, now).opener = i
              /\ Inserted(u, p, i, text, now).baseEditAt = sessions[u][p][i].baseEditAt
          BY DEF Inserted
        <4> QED
          BY <4>1, <4>2
      <3>5. \A v \in Users, q \in Pages : RowEffect(v, q)
        <4>1. RowEffect(u, p)
          BY <2>0, <3>3, <3>4 DEF RowEffect
        <4>2. \A v \in Users, q \in Pages : v # u \/ q # p => RowEffect(v, q)
          BY <2>0, <3>4, RowUntouched
        <4> QED
          BY <4>1, <4>2
      <3> QED
        BY <2>0, <3>5, PagesUnchanged, SessionsUnchanged, EndedUnchanged, RequestsUnchanged DEF Effects
    <2>2. CASE FindDraft(u, p, i, text, now)
      BY <2>0, <2>2, PagesUnchanged, SessionsUnchanged, EndedUnchanged, DraftsUnchanged,
         RequestsUnchanged DEF Effects, FindDraft
    <2> QED
      BY <1>4, <2>1, <2>2 DEF UpdatePageDraft
  <1> QED
    BY <1>1, <1>2, <1>3, <1>4 DEF DraftStep

LEMMA FinishSaveEffects ==
    ASSUME TypeOK, SavesBySessions, FinishSave
    PROVE  Effects
  <1>1. PICK u, p, i, text, now :
            /\ u = save.user /\ p = save.page /\ i = save.session
            /\ text = save.text /\ now = save.now
    OBVIOUS
  <1>2. /\ u \in Users /\ p \in Pages /\ i \in 1 .. Len(sessions[u][p])
        /\ text \in Nat /\ now \in Nat /\ i \in Nat \ {0} /\ Saving(u, p)
    BY <1>1, SaveTyped DEF FinishSave, Saving
  <1>3. UpsertDraft(u, p, i, text, now) /\ UNCHANGED <<pages, reqs, sessions, ended>>
    BY <1>1 DEF FinishSave, UpsertDraft
  <1>4. \A v \in Users, q \in Pages : RowEffect(v, q)
    <2>1. CASE ~ Held(u, p) /\ InsertDraft(u, p, i, text, now)
      <3>1. /\ drafts'[u][p].opener = i
            /\ drafts'[u][p].baseEditAt = sessions[u][p][i].baseEditAt
            /\ \A v \in Users, q \in Pages : v # u \/ q # p => drafts'[v][q] = drafts[v][q]
        <4>1. u \in Users /\ p \in Pages /\ i \in 1 .. Len(sessions[u][p])
              /\ text \in Nat /\ now \in Nat /\ InsertDraft(u, p, i, text, now)
          BY <1>2, <2>1
        <4>2. /\ drafts'[u][p] = Inserted(u, p, i, text, now)
              /\ \A v \in Users, q \in Pages : v # u \/ q # p => drafts'[v][q] = drafts[v][q]
          BY <4>1, InsertType
        <4>3. /\ Inserted(u, p, i, text, now).opener = i
              /\ Inserted(u, p, i, text, now).baseEditAt = sessions[u][p][i].baseEditAt
          BY InsertedBy
        <4> QED
          BY <4>2, <4>3
      <3>2. RowEffect(u, p)
        BY <1>2, <1>3, <3>1 DEF RowEffect
      <3>3. \A v \in Users, q \in Pages : v # u \/ q # p => RowEffect(v, q)
        BY <1>3, <3>1, RowUntouched
      <3> QED
        BY <3>2, <3>3
    <2>2. CASE /\ Held(u, p) /\ UNCHANGED rows
               /\ drafts' = [drafts EXCEPT ![u][p] = Merged(drafts[u][p], i, text, now)]
      <3> DEFINE row == Merged(drafts[u][p], i, text, now)
      <3>1. drafts[u][p] \in Draft
        BY <1>2, <2>2 DEF TypeOK
      <3>2. row.opener = drafts[u][p].opener /\ row.baseEditAt = drafts[u][p].baseEditAt
        BY <3>1, MergedKeeps
      <3> HIDE DEF row
      <3>3. /\ drafts'[u][p] = row
            /\ \A v \in Users, q \in Pages : v # u \/ q # p => drafts'[v][q] = drafts[v][q]
        BY <1>2, <2>2 DEF TypeOK, row
      <3> QED
        BY <1>3, <2>2, <3>2, <3>3 DEF RowEffect
    <2> QED
      BY <1>3, <2>1, <2>2 DEF UpsertDraft
  <1> QED
    BY <1>3, <1>4, PagesUnchanged, SessionsUnchanged, EndedUnchanged, RequestsUnchanged DEF Effects

(* The commit of a publish: the draft is consumed, the page moves past it. *)
LEMMA ConsumeEffects ==
    ASSUME TypeOK, NEW q \in Request, ConsumeDraft(q), UNCHANGED sessions,
           pages'[q.page].exists, pages'[q.page].editAt > 0,
           pages[q.page].exists => pages'[q.page].editAt > pages[q.page].editAt
    PROVE  \A u \in Users, p \in Pages : EndedEffect(u, p) /\ RowEffect(u, p)
  <1>1. q.user \in Users /\ q.page \in Pages
    BY DEF Request
  <1>2. /\ drafts'[q.user][q.page] = NoDraft
        /\ ended'[q.user][q.page] = Len(sessions[q.user][q.page])
        /\ \A u \in Users, p \in Pages : u # q.user \/ p # q.page =>
               drafts'[u][p] = drafts[u][p] /\ ended'[u][p] = ended[u][p]
    BY <1>1 DEF ConsumeDraft, WithoutDraft, TypeOK
  <1> QED
    BY <1>1, <1>2 DEF EndedEffect, RowEffect

LEMMA PublishStepEffects ==
    ASSUME TypeOK, NEW r \in Reqs, PublishStep(r)
    PROVE  Effects
  <1>1. ASSUME NEW u \in Users, NEW p \in Pages, NEW force \in BOOLEAN,
               ReadDraft(r, u, p, force)
        PROVE  Effects
    <2> DEFINE q == [step |-> "target", user |-> u, page |-> p, force |-> force,
                     draft |-> drafts[u][p]]
    <2>1. /\ UNCHANGED <<pages, drafts, sessions, ended>>
          /\ Held(u, p)
          /\ reqs' = [reqs EXCEPT ![r] = q]
      BY <1>1 DEF ReadDraft, Visible
    <2>2. q.user = u /\ q.page = p /\ q.draft = drafts[u][p]
      OBVIOUS
    <2> HIDE DEF q
    <2>3. reqs'[r] = q /\ \A s \in Reqs \ {r} : reqs'[s] = reqs[s]
      BY <2>1 DEF TypeOK
    <2>4. \A s \in Reqs : RequestEffect(s)
      BY <2>1, <2>2, <2>3 DEF RequestEffect
    <2> QED
      BY <2>1, <2>4, PagesUnchanged, SessionsUnchanged, EndedUnchanged, DraftsUnchanged DEF Effects
  <1>2. CASE DeriveTarget(r) \/ ProbeParent(r) \/ PublishNewFails(r) \/ PublishEditFails(r)
             \/ ReadWinner(r)
    <2>1. UNCHANGED <<pages, drafts, sessions, ended>>
      BY <1>2 DEF DeriveTarget, ProbeParent, PublishNewFails, PublishEditFails, ReadWinner
    <2>2. Return(r) \/ (reqs[r] # NoReq /\ \E step \in Steps : Continue(r, step))
      <3>1. CASE DeriveTarget(r)
        BY <3>1 DEF DeriveTarget, Steps
      <3>2. CASE ProbeParent(r)
        BY <3>2 DEF ProbeParent, Steps
      <3>3. CASE PublishNewFails(r)
        BY <3>3 DEF PublishNewFails, Steps
      <3>4. CASE PublishEditFails(r)
        BY <3>4 DEF PublishEditFails
      <3>5. CASE ReadWinner(r)
        BY <3>5 DEF ReadWinner, Steps
      <3> QED
        BY <1>2, <3>1, <3>2, <3>3, <3>4, <3>5
    <2>3. \A s \in Reqs : RequestEffect(s)
      BY <2>2, RequestGoesOn
    <2> QED
      BY <2>1, <2>3, PagesUnchanged, SessionsUnchanged, EndedUnchanged, DraftsUnchanged DEF Effects
  <1>3. CASE PublishNew(r)
    <2> DEFINE q == reqs[r]
               page == [exists |-> TRUE, deleteAt |-> 0, editAt |-> clock,
                        updateAt |-> clock, parentId |-> q.draft.parentId,
                        text |-> q.draft.text]
    <2>1. q \in Request /\ q.page \in Pages
      BY <1>3 DEF PublishNew, TypeOK, Request
    <2>2. /\ pages' = [pages EXCEPT ![q.page] = page]
          /\ Absent(q.page) /\ ConsumeDraft(q) /\ Return(r) /\ UNCHANGED sessions
      BY <1>3 DEF PublishNew
    <2>3. page.exists /\ page.editAt > 0
      BY DEF TypeOK
    <2> HIDE DEF page
    <2>4. pages'[q.page] = page /\ \A p \in Pages \ {q.page} : pages'[p] = pages[p]
      BY <2>1, <2>2 DEF TypeOK
    <2>5. \A p \in Pages : PageEffect(p)
      BY <2>2, <2>3, <2>4 DEF PageEffect, PageKept
    <2>6. \A u \in Users, p \in Pages : EndedEffect(u, p) /\ RowEffect(u, p)
      BY <2>1, <2>2, <2>3, <2>4, ConsumeEffects
    <2>7. \A s \in Reqs : RequestEffect(s)
      BY <2>2, RequestGoesOn
    <2> QED
      BY <2>2, <2>5, <2>6, <2>7, SessionsUnchanged DEF Effects
  <1>4. CASE PublishEdit(r)
    <2> DEFINE q == reqs[r]
               page == Patched(q.page, q.draft.text)
    <2>1. q \in Request /\ q.page \in Pages /\ q.draft.text \in Nat
      BY <1>4 DEF PublishEdit, TypeOK, Request, Draft
    <2>2. /\ pages' = [pages EXCEPT ![q.page] = page]
          /\ Live(q.page) /\ ConsumeDraft(q) /\ Return(r) /\ UNCHANGED sessions
      BY <1>4 DEF PublishEdit, MayPatch
    <2>3. page.exists /\ page.editAt > pages[q.page].editAt /\ page.editAt > 0
      <3>1. pages[q.page].editAt \in Nat /\ page.editAt \in Nat
        BY <2>1, PatchedRow DEF TypeOK, Page
      <3> QED
        BY <2>1, <2>2, <3>1, PatchedRow
    <2> HIDE DEF page
    <2>4. pages'[q.page] = page /\ \A p \in Pages \ {q.page} : pages'[p] = pages[p]
      BY <2>1, <2>2 DEF TypeOK
    <2>5. \A p \in Pages : PageEffect(p)
      BY <2>2, <2>3, <2>4 DEF PageEffect, PageKept
    <2>6. \A u \in Users, p \in Pages : EndedEffect(u, p) /\ RowEffect(u, p)
      BY <2>1, <2>2, <2>3, <2>4, ConsumeEffects
    <2>7. \A s \in Reqs : RequestEffect(s)
      BY <2>2, RequestGoesOn
    <2> QED
      BY <2>2, <2>5, <2>6, <2>7, SessionsUnchanged DEF Effects
  <1>5. CASE DiscardBaselineOnly(r) \/ DropOrphan(r)
    <2>1. /\ UNCHANGED <<pages, sessions, ended>>
          /\ reqs[r] # NoReq /\ DropVersion(reqs[r]) /\ Return(r)
      BY <1>5 DEF DiscardBaselineOnly, DropOrphan
    <2>2. reqs[r].user \in Users /\ reqs[r].page \in Pages
      BY <2>1 DEF TypeOK, Request
    <2>3. \A u \in Users, p \in Pages : RowEffect(u, p)
      BY <2>1, <2>2, RowsRemoved DEF DropVersion
    <2>4. \A s \in Reqs : RequestEffect(s)
      BY <2>1, RequestGoesOn
    <2> QED
      BY <2>1, <2>3, <2>4, PagesUnchanged, SessionsUnchanged, EndedUnchanged DEF Effects
  <1> QED
    BY <1>1, <1>2, <1>3, <1>4, <1>5 DEF PublishStep

LEMMA PageStepEffects ==
    ASSUME TypeOK, NEW p \in Pages, PageStep(p)
    PROVE  Effects
  <1>r. ClockReads \subseteq Nat
    BY ClockReadsPositive DEF TypeOK
  <1>1. ASSUME NEW u \in Users, NEW force \in BOOLEAN, NEW i \in 1 .. Len(sessions[u][p]),
               UpdatePage(u, p, i, force)
        PROVE  Effects
    <2> DEFINE page == Patched(p, texts + 1)
    <2>1. /\ UNCHANGED <<drafts, reqs, sessions, ended>> /\ Live(p)
          /\ pages' = [pages EXCEPT ![p] = page]
      BY <1>1 DEF UpdatePage, MayPatch
    <2>2. page.exists /\ page.editAt > pages[p].editAt
      <3>1. texts + 1 \in Nat
        BY DEF TypeOK
      <3> QED
        BY <2>1, <3>1, PatchedRow
    <2> HIDE DEF page
    <2>3. \A q \in Pages : PageEffect(q)
      BY <2>1, <2>2 DEF PageEffect, PageKept, TypeOK
    <2> QED
      BY <2>1, <2>3, SessionsUnchanged, EndedUnchanged, DraftsUnchanged, RequestsUnchanged DEF Effects
  <1>2. ASSUME NEW now \in ClockReads, DeletePage(p, now)
        PROVE  Effects
    <2>1. /\ UNCHANGED <<reqs, sessions, ended>> /\ now \in Nat
          /\ drafts' = DraftsAfterDelete(p, now)
      BY <1>2, <1>r DEF DeletePage
    <2>2. \A q \in Pages : PageEffect(q)
      BY <1>2, <2>1, DeletePageRow DEF PageEffect
    <2>3. ASSUME NEW v \in Users, NEW q \in Pages
          PROVE  RowEffect(v, q)
      <3> DEFINE moved == ReparentedBelow(p, pages[p].parentId, drafts[v][q], now)
      <3>1. pages[p].parentId \in ParentIds /\ drafts[v][q] \in Draft \cup {NoDraft}
        BY DEF TypeOK, Page
      <3>2. moved # NoDraft => /\ Held(v, q)
                               /\ moved.opener = drafts[v][q].opener
                               /\ moved.baseEditAt = drafts[v][q].baseEditAt
        BY <2>1, <3>1, ReparentedRow
      <3>3. drafts'[v][q] \in {NoDraft, moved}
        BY <2>1 DEF DraftsAfterDelete
      <3> HIDE DEF moved
      <3> QED
        BY <2>1, <3>2, <3>3 DEF RowEffect
    <2> QED
      BY <2>1, <2>2, <2>3, SessionsUnchanged, EndedUnchanged, RequestsUnchanged DEF Effects
  <1>3. ASSUME NEW now \in ClockReads, RestorePage(p, now)
        PROVE  Effects
    <2>1. UNCHANGED <<drafts, reqs, sessions, ended>>
      BY <1>3 DEF RestorePage
    <2>2. \A q \in Pages : PageEffect(q)
      <3>1. PageKept(p) /\ \A q \in Pages \ {p} : pages'[q] = pages[q]
        BY <1>3, <1>r, RestorePageRow
      <3>2. pages[p].exists
        BY <1>3 DEF RestorePage
      <3> QED
        BY <3>1, <3>2 DEF PageEffect, PageKept
    <2> QED
      BY <2>1, <2>2, SessionsUnchanged, EndedUnchanged, DraftsUnchanged, RequestsUnchanged DEF Effects
  <1> QED
    BY <1>1, <1>2, <1>3 DEF PageStep

LEMMA SpaceStepEffects ==
    ASSUME TypeOK, SpaceStep
    PROVE  Effects
  <1>r. ClockReads \subseteq Nat
    BY ClockReadsPositive DEF TypeOK
  <1>1. ASSUME NEW ps, NEW deleteAt \in Nat, NEW stamp \in Nat,
               pages' = Stamped(ps, deleteAt, stamp), \A p \in ps : pages[p].exists,
               UNCHANGED <<drafts, reqs, sessions, ended>>
        PROVE  Effects
    <2>1. \A p \in Pages : PageEffect(p)
      BY <1>1, StampedPages DEF PageEffect
    <2> QED
      BY <1>1, <2>1, SessionsUnchanged, EndedUnchanged, DraftsUnchanged, RequestsUnchanged DEF Effects
  <1>2. ASSUME NEW stamp \in 1 .. MaxStamp, DeleteSpace(stamp)
        PROVE  Effects
    <2>1. stamp \in Nat
      BY ParamsAssumption
    <2> QED
      BY <1>1, <1>2, <2>1 DEF DeleteSpace
  <1>3. ASSUME NEW now \in ClockReads, RestoreSpace(now)
        PROVE  Effects
    <2> DEFINE ps == {p \in Pages : pages[p].exists /\ pages[p].deleteAt = spaceDeleteAt}
    <2>1. /\ now \in Nat /\ pages' = Stamped(ps, 0, now) /\ \A p \in ps : pages[p].exists
          /\ UNCHANGED <<drafts, reqs, sessions, ended>>
      BY <1>3, <1>r DEF RestoreSpace
    <2> HIDE DEF ps
    <2> QED
      BY <1>1, <2>1
  <1> QED
    BY <1>2, <1>3 DEF SpaceStep

(* Every step, stuttering included, has only the listed effects. *)
LEMMA StepEffects ==
    ASSUME TypeOK, SavesBySessions, [Next]_vars
    PROVE  Effects
  <1>1. CASE UNCHANGED <<pages, drafts, reqs, sessions, ended>>
    BY <1>1, PagesUnchanged, SessionsUnchanged, EndedUnchanged, DraftsUnchanged,
       RequestsUnchanged DEF Effects
  <1>2. CASE Tick
    BY <1>1, <1>2 DEF Tick
  <1>3. CASE UNCHANGED vars
    BY <1>1, <1>3 DEF vars
  <1> QED
    BY <1>2, <1>3, DraftStepEffects, FinishSaveEffects, PublishStepEffects, PageStepEffects,
       SpaceStepEffects DEF Next

-----------------------------------------------------------------------------
(* The inductive invariant                                                 *)

(* A session that is in the list before a step is in it, unchanged, after. *)
LEMMA SessionStays ==
    ASSUME TypeOK, NEW u \in Users, NEW p \in Pages, SessionEffect(u, p),
           NEW i \in 1 .. Len(sessions[u][p])
    PROVE  /\ i \in 1 .. Len(sessions'[u][p])
           /\ sessions'[u][p][i] = sessions[u][p][i]
           /\ Len(sessions'[u][p]) >= Len(sessions[u][p])
  <1> DEFINE old == sessions[u][p]
             s == Loaded(p)
  <1>1. old \in Seq(Session)
    BY DEF TypeOK
  <1>2. CASE sessions'[u][p] = old
    BY <1>1, <1>2
  <1>3. CASE sessions'[u][p] = Append(old, s)
    <2>1. s \in Session
      BY DEF Loaded, Session, TypeOK, Page
    <2> HIDE DEF s, old
    <2>2. Len(Append(old, s)) = Len(old) + 1 /\ i \in 1 .. Len(old)
      BY <1>1, <2>1 DEF old
    <2>3. Append(old, s)[i] = old[i]
      BY <1>1, <2>1, <2>2
    <2> QED
      BY <1>1, <1>3, <2>2, <2>3 DEF old
  <1>4. CASE old = <<>>
    BY <1>4
  <1> QED
    BY <1>2, <1>3, <1>4 DEF SessionEffect

LEMMA SessionsBehindStep ==
    ASSUME PublishInv, TypeOK', Effects
    PROVE  SessionsBehindPages'
  <1> SUFFICES ASSUME NEW u \in Users, NEW p \in Pages, NEW i \in 1 .. Len(sessions'[u][p])
               PROVE  LET s == sessions'[u][p][i] IN
                      /\ s.baseEditAt <= pages'[p].editAt
                      /\ ~ pages'[p].exists => s.baseEditAt = 0
                      /\ s.baseEditAt # 0 /\ s.baseEditAt = pages'[p].editAt
                             => s.text = pages'[p].text
    BY DEF SessionsBehindPages
  <1>0. /\ SessionEffect(u, p) /\ PageEffect(p)
        /\ pages[p] \in Page /\ pages'[p] \in Page
        /\ sessions[u][p] \in Seq(Session) /\ sessions'[u][p] \in Seq(Session)
    BY DEF Effects, PublishInv, TypeOK
  <1>1. CASE i \in 1 .. Len(sessions[u][p])
    <2> DEFINE s == sessions[u][p][i]
    <2>1. sessions'[u][p][i] = s
      BY <1>0, <1>1, SessionStays DEF PublishInv
    <2>2. s \in Session
      BY <1>0, <1>1
    <2>3. /\ s.baseEditAt <= pages[p].editAt
          /\ Absent(p) => s.baseEditAt = 0
          /\ s.baseEditAt # 0 /\ s.baseEditAt = pages[p].editAt => s.text = pages[p].text
      BY <1>1 DEF PublishInv, SessionsBehindPages
    <2> HIDE DEF s
    <2>4. s.baseEditAt \in Nat /\ pages[p].editAt \in Nat /\ pages'[p].editAt \in Nat
      BY <1>0, <2>2 DEF Page, Session
    <2>5. CASE pages[p].exists
      BY <1>0, <2>1, <2>3, <2>4, <2>5 DEF PageEffect, PageKept
    <2>6. CASE ~ pages[p].exists
      BY <1>0, <2>1, <2>3, <2>4, <2>6
    <2> QED
      BY <2>5, <2>6
  <1>2. CASE i \notin 1 .. Len(sessions[u][p])
    <2>1. CASE Live(p) /\ pages' = pages /\ sessions'[u][p] = Append(sessions[u][p], Loaded(p))
      <3>1. Loaded(p) \in Session
        BY <1>0 DEF Loaded, Session, Page
      <3>2. sessions'[u][p][i] = Loaded(p)
        BY <1>0, <1>2, <2>1, <3>1
      <3> QED
        BY <1>0, <2>1, <3>2 DEF Loaded, Page
    <2>2. CASE pages' = pages /\ sessions'[u][p] = <<NewPageSession>>
      <3>1. sessions'[u][p][i] = NewPageSession
        BY <2>2
      <3> QED
        BY <1>0, <2>2, <3>1 DEF NewPageSession, Page
    <2> QED
      BY <1>0, <1>2, <2>1, <2>2 DEF SessionEffect
  <1> QED
    BY <1>1, <1>2

LEMMA BaselineStep ==
    ASSUME PublishInv, TypeOK', Effects
    PROVE  DraftsKeepTheirBaseline'
  <1>0. TypeOK
    BY DEF PublishInv
  <1>1. ASSUME NEW u \in Users, NEW p \in Pages, NEW draft \in Draft,
               OpenedBySession(u, p, draft)
        PROVE  /\ draft.opener <= Len(sessions'[u][p])
               /\ draft.baseEditAt = sessions'[u][p][draft.opener].baseEditAt
    <2>1. draft.opener \in 1 .. Len(sessions[u][p])
      BY <1>0, <1>1 DEF OpenedBySession, Draft, TypeOK
    <2>2. SessionEffect(u, p) /\ sessions'[u][p] \in Seq(Session)
      BY DEF Effects, TypeOK
    <2> QED
      BY <1>0, <1>1, <2>1, <2>2, SessionStays DEF OpenedBySession
  <1>2. ASSUME NEW u \in Users, NEW p \in Pages, drafts'[u][p] # NoDraft
        PROVE  /\ drafts'[u][p].opener <= Len(sessions'[u][p])
               /\ drafts'[u][p].baseEditAt
                      = sessions'[u][p][drafts'[u][p].opener].baseEditAt
    <2>1. RowEffect(u, p)
      BY DEF Effects
    <2>2. CASE Held(u, p) /\ drafts'[u][p].opener = drafts[u][p].opener
               /\ drafts'[u][p].baseEditAt = drafts[u][p].baseEditAt
      <3>1. drafts[u][p] \in Draft /\ OpenedBySession(u, p, drafts[u][p])
        BY <1>0, <2>2 DEF PublishInv, DraftsKeepTheirBaseline, TypeOK
      <3> QED
        BY <1>1, <2>2, <3>1
    <2>3. CASE /\ sessions' = sessions
               /\ drafts'[u][p].opener \in 1 .. Len(sessions[u][p])
               /\ drafts'[u][p].baseEditAt = sessions[u][p][drafts'[u][p].opener].baseEditAt
      BY <2>3
    <2>4. CASE /\ sessions'[u][p] = <<NewPageSession>>
               /\ drafts'[u][p].opener = 1
               /\ drafts'[u][p].baseEditAt = 0
      BY <2>4 DEF NewPageSession
    <2> QED
      BY <1>2, <2>1, <2>2, <2>3, <2>4 DEF RowEffect
  <1>3. ASSUME NEW r \in Reqs, reqs'[r] # NoReq
        PROVE  LET q == reqs'[r] IN
               /\ q.draft.opener <= Len(sessions'[q.user][q.page])
               /\ q.draft.baseEditAt = sessions'[q.user][q.page][q.draft.opener].baseEditAt
    <2> DEFINE q == reqs'[r]
    <2>1. q \in Request /\ q.user \in Users /\ q.page \in Pages /\ q.draft \in Draft
      BY <1>3 DEF TypeOK, Request
    <2>2. RequestEffect(r)
      BY DEF Effects
    <2>3. OpenedBySession(q.user, q.page, q.draft)
      BY <1>3, <2>1, <2>2 DEF RequestEffect, PublishInv, DraftsKeepTheirBaseline
    <2> HIDE DEF q
    <2>4. /\ q.draft.opener <= Len(sessions'[q.user][q.page])
          /\ q.draft.baseEditAt = sessions'[q.user][q.page][q.draft.opener].baseEditAt
      BY <1>1, <2>1, <2>3
    <2> QED
      BY <2>4 DEF q
  <1> QED
    BY <1>2, <1>3 DEF DraftsKeepTheirBaseline, OpenedBySession

LEMMA EndedStep ==
    ASSUME PublishInv, TypeOK', Effects
    PROVE  EndedSessionsBehindPages'
  <1> SUFFICES ASSUME NEW u \in Users, NEW p \in Pages
               PROVE  /\ ended'[u][p] <= Len(sessions'[u][p])
                      /\ \A i \in 1 .. ended'[u][p] :
                             /\ pages'[p].exists
                             /\ sessions'[u][p][i].baseEditAt < pages'[p].editAt
    BY DEF EndedSessionsBehindPages
  <1>0. /\ TypeOK
        /\ SessionEffect(u, p) /\ PageEffect(p) /\ EndedEffect(u, p)
        /\ pages[p] \in Page /\ pages'[p] \in Page
        /\ sessions[u][p] \in Seq(Session) /\ sessions'[u][p] \in Seq(Session)
        /\ ended[u][p] \in Nat /\ ended'[u][p] \in Nat
    BY DEF Effects, PublishInv, TypeOK
  <1>1. CASE ended'[u][p] = ended[u][p]
    <2>1. ended[u][p] <= Len(sessions[u][p])
      BY DEF PublishInv, EndedSessionsBehindPages
    <2>2. ended[u][p] <= Len(sessions'[u][p])
      <3>1. CASE ended[u][p] = 0
        BY <1>0, <3>1
      <3>2. CASE ended[u][p] # 0
        <4>1. 1 \in 1 .. Len(sessions[u][p])
          BY <1>0, <2>1, <3>2
        <4>2. Len(sessions'[u][p]) >= Len(sessions[u][p])
          BY <1>0, <4>1, SessionStays
        <4> QED
          BY <1>0, <2>1, <4>2
      <3> QED
        BY <3>1, <3>2
    <2>3. ASSUME NEW i \in 1 .. ended[u][p]
          PROVE  pages'[p].exists /\ sessions'[u][p][i].baseEditAt < pages'[p].editAt
      <3>1. i \in 1 .. Len(sessions[u][p])
        BY <1>0, <2>1
      <3>2. sessions'[u][p][i] = sessions[u][p][i] /\ sessions[u][p][i] \in Session
        BY <1>0, <3>1, SessionStays
      <3>3. pages[p].exists /\ sessions[u][p][i].baseEditAt < pages[p].editAt
        BY DEF PublishInv, EndedSessionsBehindPages
      <3>4. /\ sessions[u][p][i].baseEditAt \in Nat
            /\ pages[p].editAt \in Nat /\ pages'[p].editAt \in Nat
        BY <1>0, <3>2 DEF Page, Session
      <3> QED
        BY <1>0, <3>2, <3>3, <3>4 DEF PageEffect, PageKept
    <2> QED
      BY <1>1, <2>2, <2>3
  <1>2. CASE /\ ended'[u][p] = Len(sessions[u][p])
             /\ sessions' = sessions
             /\ pages'[p].exists /\ pages'[p].editAt > 0
             /\ pages[p].exists => pages'[p].editAt > pages[p].editAt
    <2>1. ASSUME NEW i \in 1 .. Len(sessions[u][p])
          PROVE  sessions[u][p][i].baseEditAt < pages'[p].editAt
      <3>1. /\ sessions[u][p][i].baseEditAt <= pages[p].editAt
            /\ Absent(p) => sessions[u][p][i].baseEditAt = 0
        BY DEF PublishInv, SessionsBehindPages
      <3>2. sessions[u][p][i] \in Session
        BY <1>0
      <3>3. /\ sessions[u][p][i].baseEditAt \in Nat
            /\ pages[p].editAt \in Nat /\ pages'[p].editAt \in Nat
        BY <1>0, <3>2 DEF Page, Session
      <3> QED
        BY <1>2, <3>1, <3>3
    <2> QED
      BY <1>0, <1>2, <2>1
  <1> QED
    BY <1>0, <1>1, <1>2 DEF EndedEffect

(* The save that has found its row stays one of a session. *)
LEMMA SavesStep ==
    ASSUME PublishInv, TypeOK', Effects, [Next]_vars
    PROVE  SavesBySessions'
  <1> SUFFICES ASSUME save' # NoSave
               PROVE  save'.session <= Len(sessions'[save'.user][save'.page])
    BY DEF SavesBySessions
  <1>0. TypeOK /\ SavesBySessions
    BY DEF PublishInv
  <1>1. CASE UNCHANGED save
    <2>1. /\ save.user \in Users /\ save.page \in Pages
          /\ save.session \in 1 .. Len(sessions[save.user][save.page])
      BY <1>0, <1>1, SaveTyped
    <2>2. SessionEffect(save.user, save.page)
      BY <2>1 DEF Effects
    <2>3. save.session \in 1 .. Len(sessions'[save.user][save.page])
      BY <1>0, <2>1, <2>2, SessionStays
    <2> QED
      BY <1>1, <2>3
  <1>2. ASSUME NEW u \in Users, NEW p \in Pages, NEW i \in 1 .. Len(sessions[u][p]),
               NEW text, NEW now,
               UpdatePageDraft(u, p, i, text, now), FindDraft(u, p, i, text, now)
        PROVE  save'.session <= Len(sessions'[save'.user][save'.page])
    <2>1. save' = [user |-> u, page |-> p, session |-> i, text |-> text, now |-> now]
      BY <1>2 DEF FindDraft
    <2>2. save'.session = i /\ save'.user = u /\ save'.page = p /\ sessions' = sessions
      BY <1>2, <2>1 DEF UpdatePageDraft
    <2>3. i <= Len(sessions[u][p])
      BY <1>0 DEF TypeOK
    <2> QED
      BY <2>2, <2>3
  <1> QED
    BY <1>1, <1>2, SaveIs

(* Only a session that has loaded the page as it is, or the first one of a new *)
(* page, establishes a row; the save under way is the exception.               *)
LEMMA EstablishedBy ==
    ASSUME PublishInv, Effects, NEW u \in Users, NEW p \in Pages,
           ~ Held(u, p), drafts'[u][p] # NoDraft, ~ Saving(u, p)
    PROVE  drafts'[u][p].opener > ended[u][p]
  <1>0. /\ RowEffect(u, p)
        /\ pages[p] \in Page /\ ended[u][p] \in Nat
        /\ sessions[u][p] \in Seq(Session)
        /\ ended[u][p] <= Len(sessions[u][p])
        /\ \A i \in 1 .. ended[u][p] :
               pages[p].exists /\ sessions[u][p][i].baseEditAt < pages[p].editAt
    BY DEF Effects, PublishInv, TypeOK, EndedSessionsBehindPages
  <1>2. CASE /\ drafts'[u][p].opener \in 1 .. Len(sessions[u][p])
             /\ drafts'[u][p].baseEditAt = sessions[u][p][drafts'[u][p].opener].baseEditAt
             /\ drafts'[u][p].baseEditAt = pages[p].editAt
    <2> DEFINE i == drafts'[u][p].opener
    <2>1. i \in Nat /\ pages[p].editAt \in Nat
      BY <1>0, <1>2 DEF Page
    <2>2. ~ (i \in 1 .. ended[u][p])
      <3>1. sessions[u][p][i].baseEditAt = pages[p].editAt
        BY <1>2
      <3> HIDE DEF i
      <3> QED
        BY <1>0, <2>1, <3>1
    <2> QED
      BY <1>0, <1>2, <2>1, <2>2
  <1>3. CASE sessions[u][p] = <<>> /\ drafts'[u][p].opener = 1
    BY <1>0, <1>3
  <1> QED
    BY <1>0, <1>2, <1>3 DEF RowEffect

LEMMA EditAtStep ==
    ASSUME PublishInv, TypeOK', Effects
    PROVE  PublishedPagesHaveEditAt'
  <1> SUFFICES ASSUME NEW p \in Pages, pages'[p].exists
               PROVE  pages'[p].editAt > 0
    BY DEF PublishedPagesHaveEditAt
  <1>1. PageEffect(p) /\ pages[p] \in Page /\ pages'[p] \in Page
        /\ (pages[p].exists => pages[p].editAt > 0)
    BY DEF Effects, PublishInv, TypeOK, PublishedPagesHaveEditAt
  <1> QED
    BY <1>1 DEF PageEffect, PageKept, Page

LEMMA InitInv == Init => PublishInv
  <1> SUFFICES ASSUME Init PROVE PublishInv
    OBVIOUS
  <1>1. TypeOK
    BY InitType
  <1> QED
    BY <1>1 DEF Init, PublishInv, PublishedPagesHaveEditAt, SessionsBehindPages,
       DraftsKeepTheirBaseline, SavesBySessions, EndedSessionsBehindPages

LEMMA StepInv == PublishInv /\ [Next]_vars => PublishInv'
  <1> SUFFICES ASSUME PublishInv, [Next]_vars PROVE PublishInv'
    OBVIOUS
  <1>1. TypeOK /\ TypeOK'
    BY StepType DEF PublishInv
  <1>2. Effects
    BY <1>1, StepEffects DEF PublishInv
  <1> QED
    BY <1>1, <1>2, SessionsBehindStep, BaselineStep, SavesStep, EndedStep, EditAtStep
       DEF PublishInv

THEOREM InductiveInvariant == Spec => []PublishInv
  BY InitInv, StepInv, PTL DEF Spec

(* Every variable keeps its type, for every number of users, pages and calls. *)
THEOREM TypeCorrect == Spec => []TypeOK
  <1>1. PublishInv => TypeOK
    BY DEF PublishInv
  <1> QED
    BY <1>1, InductiveInvariant, PTL

-----------------------------------------------------------------------------
(* What follows from it                                                    *)

(* The optimistic lock is sound: whoever loaded a page at the EditAt it has *)
(* now has seen the content it has now.                                     *)
THEOREM EditAtIsAVersion == Spec => []EditAtNamesOneText
  <1>1. PublishInv => EditAtNamesOneText
    BY DEF PublishInv, SessionsBehindPages, EditAtNamesOneText
  <1> QED
    BY <1>1, InductiveInvariant, PTL

(* A save of a session that was open at a publish establishes no draft. *)
THEOREM NoResurrection == Spec => EndedSessionsEstablishNothing
  <1>1. PublishInv /\ [Next]_vars =>
            [\A u \in Users, p \in Pages :
                 ~ Held(u, p) /\ drafts'[u][p] # NoDraft /\ ~ Saving(u, p) =>
                     drafts'[u][p].opener > ended[u][p]]_vars
    BY StepEffects, EstablishedBy DEF PublishInv
  <1> QED
    BY <1>1, InductiveInvariant, PTL DEF Spec, EndedSessionsEstablishNothing

(* A page is only changed from the "patch" step, by the commit of that step. *)
LEMMA PatchedByIsPublishEdit ==
    ASSUME TypeOK, [Next]_vars, NEW r \in Reqs, PatchedBy(r)
    PROVE  PublishEdit(r)
  <1>0. reqs[r] # NoReq /\ reqs[r].step = "patch" /\ reqs'[r] = NoReq
        /\ reqs[r].page \in Pages /\ pages'[reqs[r].page] # pages[reqs[r].page]
    BY DEF PatchedBy, TypeOK, Request
  <1>1. ~ UNCHANGED reqs /\ ~ UNCHANGED pages
    BY <1>0
  <1>2. ~ Tick /\ ~ UNCHANGED vars /\ ~ SpaceStep /\ ~ FinishSave
    <2>1. ~ Tick /\ ~ UNCHANGED vars /\ ~ FinishSave
      BY <1>1 DEF Tick, vars, FinishSave, UpsertDraft
    <2>2. \A stamp : ~ DeleteSpace(stamp)
      BY <1>1 DEF DeleteSpace
    <2>3. \A now : ~ RestoreSpace(now)
      BY <1>1 DEF RestoreSpace
    <2> QED
      BY <2>1, <2>2, <2>3 DEF SpaceStep
  <1>3. ~ \E u \in Users, p \in Pages : DraftStep(u, p)
    <2>1. \A u, p : ~ OpenEditor(u, p)
      BY <1>1 DEF OpenEditor
    <2>2. \A u, p, now : ~ DiscardDraft(u, p, now)
      BY <1>1 DEF DiscardDraft
    <2>3. \A u, p, parent, now : ~ CreateSpaceDraft(u, p, parent, now)
      BY <1>1 DEF CreateSpaceDraft
    <2>4. \A u, p, i, text, now : ~ UpdatePageDraft(u, p, i, text, now)
      BY <1>1 DEF UpdatePageDraft
    <2> QED
      BY <2>1, <2>2, <2>3, <2>4 DEF DraftStep
  <1>4. ~ \E p \in Pages : PageStep(p)
    BY <1>1 DEF PageStep, UpdatePage, DeletePage, RestorePage
  <1>5. PICK s \in Reqs : PublishStep(s)
    BY <1>2, <1>3, <1>4 DEF Next
  <1>6. CASE PublishEdit(s)
    <2>1. s = r
      BY <1>0, <1>6 DEF PublishEdit, TypeOK
    <2> QED
      BY <1>6, <2>1
  <1>7. CASE PublishNew(s)
    <2>1. s = r
      BY <1>0, <1>7 DEF PublishNew, TypeOK
    <2> QED
      BY <1>0, <1>7, <2>1 DEF PublishNew
  <1> QED
    BY <1>1, <1>5, <1>6, <1>7 DEF PublishStep, ReadDraft, DeriveTarget, ProbeParent,
       PublishNewFails, PublishEditFails, DiscardBaselineOnly, ReadWinner, DropOrphan

(* Nobody's edit is overwritten unseen: an unforced publish over an existing *)
(* page replaces the text that the opener of the draft had loaded.           *)
THEOREM PublishOverwritesNothingUnseen == Spec => PublishReplacesWhatItsOpenerSaw
  <1>1. ASSUME PublishInv, [Next]_vars, NEW r \in Reqs, PatchedBy(r), ~ reqs[r].force
        PROVE  LET q == reqs[r] IN
               sessions[q.user][q.page][q.draft.opener].text = pages[q.page].text
    <2> DEFINE q == reqs[r]
               s == sessions[q.user][q.page][q.draft.opener]
    <2>1. TypeOK /\ PublishEdit(r)
      BY <1>1, PatchedByIsPublishEdit DEF PublishInv
    <2>2. q # NoReq /\ q \in Request /\ Live(q.page) /\ pages[q.page].editAt = q.draft.baseEditAt
      BY <1>1, <2>1 DEF PublishEdit, MayPatch, TypeOK
    <2>3. q.user \in Users /\ q.page \in Pages /\ q.draft \in Draft
      BY <2>2 DEF Request
    <2>4. OpenedBySession(q.user, q.page, q.draft)
      BY <1>1, <2>2 DEF PublishInv, DraftsKeepTheirBaseline
    <2>5. /\ q.draft.opener \in 1 .. Len(sessions[q.user][q.page])
          /\ s.baseEditAt = pages[q.page].editAt
      <3>1. q.draft.opener \in Nat \ {0} /\ Len(sessions[q.user][q.page]) \in Nat
        BY <2>1, <2>3 DEF Draft, TypeOK
      <3>2. q.draft.opener <= Len(sessions[q.user][q.page]) /\ q.draft.baseEditAt = s.baseEditAt
        BY <2>4 DEF OpenedBySession
      <3> HIDE DEF s
      <3> QED
        BY <2>2, <3>1, <3>2
    <2>6. s.baseEditAt # 0
      <3>1. pages[q.page].editAt > 0 /\ pages[q.page].editAt \in Nat
        BY <1>1, <2>1, <2>2, <2>3 DEF PublishInv, PublishedPagesHaveEditAt, TypeOK, Page
      <3> HIDE DEF s
      <3> QED
        BY <2>5, <3>1
    <2> QED
      BY <1>1, <2>3, <2>5, <2>6 DEF PublishInv, SessionsBehindPages
  <1>2. PublishInv /\ [Next]_vars =>
            [\A r \in Reqs : PatchedBy(r) /\ ~ reqs[r].force =>
                 LET q == reqs[r] IN
                 sessions[q.user][q.page][q.draft.opener].text = pages[q.page].text]_vars
    BY <1>1
  <1> QED
    BY <1>2, InductiveInvariant, PTL DEF Spec, PublishReplacesWhatItsOpenerSaw

(* A direct edit of a page, sent without force, replaces the text its sender *)
(* had loaded.                                                               *)
THEOREM PatchOverwritesNothingUnseen == Spec => PatchReplacesWhatItsSenderSaw
  <1>1. ASSUME PublishInv, NEW u \in Users, NEW p \in Pages,
               NEW i \in 1 .. Len(sessions[u][p]), UpdatePage(u, p, i, FALSE)
        PROVE  sessions[u][p][i].text = pages[p].text
    <2>1. Live(p) /\ pages[p].editAt = sessions[u][p][i].baseEditAt
      BY <1>1 DEF UpdatePage, MayPatch
    <2> QED
      BY <1>1, <2>1 DEF PublishInv, PublishedPagesHaveEditAt, SessionsBehindPages
  <1>2. PublishInv /\ [Next]_vars =>
            [\A u \in Users, p \in Pages : \A i \in 1 .. Len(sessions[u][p]) :
                 UpdatePage(u, p, i, FALSE) => sessions[u][p][i].text = pages[p].text]_vars
    BY <1>1
  <1> QED
    BY <1>2, InductiveInvariant, PTL DEF Spec, PatchReplacesWhatItsSenderSaw

-----------------------------------------------------------------------------
(* The parts of the inductive invariant                                    *)

\* Somebody has drafted or opened the page: its id is taken.
Reserved(p) == \E u \in Users : sessions[u][p] # <<>>

\* The page is live, or becomes live when its deleted space is restored.
Shown(p) == pages[p].exists /\ pages[p].deleteAt = spaceDeleteAt

\* p hangs below x in its page row, in a draft, or in what a request has read.
HangsBelow(p, x) ==
    \/ pages[p].exists /\ pages[p].parentId = x
    \/ \E u \in Users : Held(u, p) /\ drafts[u][p].parentId = x
    \/ \E r \in Reqs : /\ reqs[r] # NoReq /\ reqs[r].page = p
                       /\ reqs[r].draft.parentId = x

\* An id is reserved once, by one user, before any row mentions it.
ReservedIds ==
    /\ \A p \in Pages : pages[p].exists => Reserved(p)
    /\ \A u \in Users, p \in Pages : ~ Reserved(p) => rows[u][p] = 0
    /\ \A u, v \in Users, p \in Pages :
           Absent(p) /\ sessions[u][p] # <<>> /\ sessions[v][p] # <<>> => u = v

\* rank orders the ids as they were reserved: what a row hangs below is older.
Ranks(rank) ==
    \A p, x \in Pages : HangsBelow(p, x) => Reserved(x) /\ rank[x] < rank[p]

\* Every parent is older than its child, so no row hangs below itself, be it
\* through any number of other rows.
ParentsAreOlder == \E rank \in [Pages -> Nat] : Ranks(rank)

\* A deleted space has no live page.
DeletedSpaceIsDead == ~ SpaceLive => \A p \in Pages : ~ Live(p)

\* A draft is of a new page or of one that is shown.
DraftsOfShownPages ==
    \A u \in Users, p \in Pages : Held(u, p) => Absent(p) \/ Shown(p)

\* A shown page hangs below the root or a shown page.
PagesBelowShown ==
    \A p \in Pages : Shown(p) =>
        pages[p].parentId = NoPage \/ Shown(pages[p].parentId)

\* What a draft of u may hang below.
Anchored(u, x) == x = NoPage \/ Shown(x) \/ Held(u, x)

DraftsAnchored ==
    \A u \in Users, p \in Pages : Held(u, p) => Anchored(u, drafts[u][p].parentId)

\* The save under way has found its row, and no more than a DeleteDraftVersion
\* may have come between.
SavesOfShownPages ==
    save # NoSave =>
        \/ Shown(save.page)
        \/ Absent(save.page) /\ Held(save.user, save.page)

Places ==
    /\ ReservedIds
    /\ ParentsAreOlder
    /\ DeletedSpaceIsDead
    /\ DraftsOfShownPages
    /\ PagesBelowShown
    /\ DraftsAnchored
    /\ SavesOfShownPages

PlacesInv == PublishInv /\ Places

\* The rows inserted for a key are numbered in order; an id without a page has
\* had one.
RowNumbers ==
    /\ \A u \in Users, p \in Pages : Held(u, p) => drafts[u][p].row <= rows[u][p]
    /\ \A r \in Reqs : reqs[r] # NoReq =>
           reqs[r].draft.row <= rows[reqs[r].user][reqs[r].page]

\* The row that request r has read is still stored, with the same token or a
\* later one.
RowStored(r) ==
    /\ Held(reqs[r].user, reqs[r].page)
    /\ drafts[reqs[r].user][reqs[r].page].row = reqs[r].draft.row

\* Within the life of a row its token only grows, and names the row's text.
TokensNameTexts ==
    \A r \in Reqs : reqs[r] # NoReq /\ RowStored(r) =>
        LET read == reqs[r].draft
            row == drafts[reqs[r].user][reqs[r].page]
        IN  /\ read.updateAt <= row.updateAt
            /\ read.updateAt = row.updateAt => read.text = row.text

\* What the steps of a request rely on: the write they chose fits the page, and
\* once the page of a new-page publish exists, the row it read is spent.
RequestsKnowTheirPage ==
    \A r \in Reqs : reqs[r] # NoReq =>
        LET q == reqs[r] IN
        /\ q.step = "baseline" => q.draft.text = 0
        /\ q.step \in {"patch", "baseline", "winner", "orphan"} => ~ Absent(q.page)
        /\ q.step \in {"parent", "insert", "winner", "orphan"} /\ ~ Absent(q.page)
               => ~ RowStored(r)

RowsInv ==
    /\ PlacesInv
    /\ RowNumbers
    /\ TokensNameTexts
    /\ RequestsKnowTheirPage
    /\ DiscardedNewPageStaysDiscarded

-----------------------------------------------------------------------------
(* Reserved ids                                                            *)

(* A session list never becomes empty again, so a reserved id stays so. *)
LEMMA ReservedStays ==
    ASSUME TypeOK, Effects, NEW p \in Pages
    PROVE  /\ \A u \in Users : sessions[u][p] # <<>> => sessions'[u][p] # <<>>
           /\ Reserved(p) => Reserved(p)'
  <1>1. ASSUME NEW u \in Users, sessions[u][p] # <<>>
        PROVE  sessions'[u][p] # <<>>
    <2>1. SessionEffect(u, p) /\ sessions[u][p] \in Seq(Session)
      BY DEF Effects, TypeOK
    <2>2. Loaded(p) \in Session
      BY DEF Loaded, Session, TypeOK, Page
    <2>3. Append(sessions[u][p], Loaded(p)) # <<>>
      BY <2>1, <2>2
    <2> QED
      BY <1>1, <2>1, <2>3 DEF SessionEffect
  <1> QED
    BY <1>1 DEF Reserved

(* The id of a draft, and of what a request has read, is reserved. *)
LEMMA DraftsReserve ==
    ASSUME PublishInv
    PROVE  /\ \A u \in Users, p \in Pages : Held(u, p) => sessions[u][p] # <<>> /\ Reserved(p)
           /\ \A r \in Reqs : reqs[r] # NoReq =>
                  sessions[reqs[r].user][reqs[r].page] # <<>> /\ Reserved(reqs[r].page)
  <1>1. ASSUME NEW u \in Users, NEW p \in Pages, NEW draft \in Draft,
               OpenedBySession(u, p, draft)
        PROVE  sessions[u][p] # <<>> /\ Reserved(p)
    <2>1. sessions[u][p] # <<>>
      BY <1>1 DEF OpenedBySession, Draft
    <2> QED
      BY <2>1 DEF Reserved
  <1>2. ASSUME NEW u \in Users, NEW p \in Pages, Held(u, p)
        PROVE  sessions[u][p] # <<>> /\ Reserved(p)
    <2>1. drafts[u][p] \in Draft /\ OpenedBySession(u, p, drafts[u][p])
      BY <1>2 DEF PublishInv, DraftsKeepTheirBaseline, TypeOK
    <2> QED
      BY <1>1, <2>1
  <1>3. ASSUME NEW r \in Reqs, reqs[r] # NoReq
        PROVE  sessions[reqs[r].user][reqs[r].page] # <<>> /\ Reserved(reqs[r].page)
    <2>1. reqs[r] \in Request
      BY <1>3 DEF PublishInv, TypeOK
    <2>2. /\ reqs[r].user \in Users /\ reqs[r].page \in Pages /\ reqs[r].draft \in Draft
          /\ OpenedBySession(reqs[r].user, reqs[r].page, reqs[r].draft)
      BY <1>3, <2>1 DEF PublishInv, DraftsKeepTheirBaseline, Request
    <2> QED
      BY <1>1, <2>2
  <1> QED
    BY <1>2, <1>3

-----------------------------------------------------------------------------
(* What a step does to the places of pages and drafts                      *)

\* No page without a reserved id, no row without one, and an id without a page
\* has the sessions of one user.
IdEffect(p) ==
    /\ pages'[p].exists => pages[p].exists \/ Reserved(p)
    /\ \A u \in Users : rows'[u][p] = rows[u][p] \/ Reserved(p)'
    /\ ~ pages'[p].exists =>
           \/ \A u \in Users : sessions'[u][p] = sessions[u][p]
           \/ \E u \in Users : \A v \in Users : v # u => sessions'[v][p] = <<>>

\* x is above p, directly or over one row between.
Above(x, p) ==
    HangsBelow(p, x) \/ \E y \in Pages : HangsBelow(p, y) /\ HangsBelow(y, x)

\* No page or draft row is hung below anything but what was above it.
EdgesEffect ==
    /\ \A p \in Pages : pages'[p].exists /\ pages'[p].parentId \in Pages =>
           Above(pages'[p].parentId, p)
    /\ \A u \in Users, p \in Pages :
           drafts'[u][p] # NoDraft /\ drafts'[u][p].parentId \in Pages =>
               Above(drafts'[u][p].parentId, p)

\* Pages become live only while their space is, or when it comes back.
LifeEffect ==
    \/ spaceDeleteAt' = 0
    \/ \A p \in Pages : ~ (pages'[p].exists /\ pages'[p].deleteAt = 0)
    \/ /\ spaceDeleteAt' = spaceDeleteAt
       /\ \A p \in Pages : pages'[p].exists /\ pages'[p].deleteAt = 0 => Live(p)

\* What is shown stays where it is, and what comes in is anchored.
PlaceEffect ==
    /\ \A p \in Pages : Shown(p) => Shown(p)' /\ pages'[p].parentId = pages[p].parentId
    /\ \A p \in Pages : Shown(p)' /\ ~ Shown(p) =>
           pages'[p].parentId = NoPage \/ Shown(pages'[p].parentId)
    /\ \A p \in Pages : Absent(p) => ~ pages'[p].exists \/ Shown(p)'
    /\ \A u \in Users, p \in Pages : drafts'[u][p] # NoDraft =>
           \/ Held(u, p) /\ drafts'[u][p].parentId = drafts[u][p].parentId
           \/ (Absent(p) \/ Shown(p)) /\ Anchored(u, drafts'[u][p].parentId)
    /\ \A u \in Users, p \in Pages : Held(u, p) /\ drafts'[u][p] = NoDraft => Shown(p)'

\* A save is kept or ended, or has just found the row of a page it may write.
SaveEffect ==
    save' # NoSave =>
        \/ save' = save
        \/ /\ Held(save'.user, save'.page)
           /\ Absent(save'.page) \/ Shown(save'.page)
           /\ UNCHANGED <<spaceDeleteAt, pages, drafts>>

IdEffects == \A p \in Pages : IdEffect(p)

PlaceEffects == IdEffects /\ EdgesEffect /\ LifeEffect /\ PlaceEffect

(* What follows from the effects on ids and edges.                          *)
LEMMA IdsStep ==
    ASSUME PublishInv, ReservedIds, Effects, TypeOK', IdEffects
    PROVE  ReservedIds'
  <1> SUFFICES ASSUME NEW p \in Pages
               PROVE  /\ pages'[p].exists => Reserved(p)'
                      /\ \A u \in Users : ~ Reserved(p)' => rows'[u][p] = 0
                      /\ \A u, v \in Users :
                             ~ pages'[p].exists /\ sessions'[u][p] # <<>>
                                 /\ sessions'[v][p] # <<>> => u = v
    BY DEF ReservedIds
  <1>1. IdEffect(p) /\ (Reserved(p) => Reserved(p)') /\ (pages[p].exists => Reserved(p))
    BY ReservedStays DEF PublishInv, ReservedIds, IdEffects
  <1>2. pages'[p].exists => Reserved(p)'
    BY <1>1 DEF IdEffect
  <1>3. ASSUME NEW u \in Users, ~ Reserved(p)'
        PROVE  rows'[u][p] = 0
    BY <1>1, <1>3 DEF IdEffect, ReservedIds
  <1>4. ASSUME NEW u \in Users, NEW v \in Users, ~ pages'[p].exists,
               sessions'[u][p] # <<>>, sessions'[v][p] # <<>>
        PROVE  u = v
    <2>1. Absent(p)
      BY <1>4 DEF Effects, PageEffect, PageKept
    <2> QED
      BY <1>1, <1>4, <2>1 DEF IdEffect, ReservedIds
  <1> QED
    BY <1>2, <1>3, <1>4

(* The ranks of a step that only hangs rows below what was above them.      *)
LEMMA RanksStay ==
    ASSUME PublishInv, Effects, TypeOK', EdgesEffect, ParentsAreOlder
    PROVE  ParentsAreOlder'
  <1>1. PICK rank \in [Pages -> Nat] : Ranks(rank)
    BY DEF ParentsAreOlder
  <1>2. ASSUME NEW p \in Pages, NEW x \in Pages, Above(x, p)
        PROVE  Reserved(x)' /\ rank[x] < rank[p]
    <2>1. CASE HangsBelow(p, x)
      BY <1>1, <2>1, ReservedStays DEF Ranks, PublishInv
    <2>2. ASSUME NEW y \in Pages, HangsBelow(p, y), HangsBelow(y, x)
          PROVE  Reserved(x)' /\ rank[x] < rank[p]
      <3>1. rank[y] < rank[p] /\ rank[x] < rank[y] /\ Reserved(x)
        BY <1>1, <2>2 DEF Ranks
      <3> QED
        BY <1>1, <3>1, ReservedStays DEF PublishInv
    <2> QED
      BY <1>2, <2>1, <2>2 DEF Above
  <1>3. ASSUME NEW p \in Pages, NEW x \in Pages, HangsBelow(p, x)'
        PROVE  Above(x, p)
    <2>1. CASE pages'[p].exists /\ pages'[p].parentId = x
      BY <2>1 DEF EdgesEffect
    <2>2. ASSUME NEW u \in Users, drafts'[u][p] # NoDraft, drafts'[u][p].parentId = x
          PROVE  Above(x, p)
      BY <2>2 DEF EdgesEffect
    <2>3. ASSUME NEW r \in Reqs, reqs'[r] # NoReq, reqs'[r].page = p,
                 reqs'[r].draft.parentId = x
          PROVE  Above(x, p)
      <3>1. RequestEffect(r) /\ reqs'[r] \in Request
        BY <2>3 DEF Effects, TypeOK
      <3>2. HangsBelow(p, x)
        BY <2>3, <3>1 DEF RequestEffect, HangsBelow, Request
      <3> QED
        BY <3>2 DEF Above
    <2> QED
      BY <1>3, <2>1, <2>2, <2>3 DEF HangsBelow
  <1>4. Ranks(rank)'
    BY <1>2, <1>3 DEF Ranks
  <1> QED
    BY <1>4 DEF ParentsAreOlder

(* What follows from the effects on places.                                 *)
LEMMA PlacesStep ==
    ASSUME TypeOK, TypeOK', PlaceEffect, DraftsOfShownPages, PagesBelowShown, DraftsAnchored
    PROVE  DraftsOfShownPages' /\ PagesBelowShown' /\ DraftsAnchored'
  <1>1. ASSUME NEW u \in Users, NEW x \in ParentIds, Anchored(u, x)
        PROVE  Anchored(u, x)'
    BY <1>1 DEF PlaceEffect, Anchored, ParentIds, Shown, TypeOK
  <1>2. ASSUME NEW u \in Users, NEW p \in Pages, drafts'[u][p] # NoDraft
        PROVE  (~ pages'[p].exists \/ Shown(p)') /\ Anchored(u, drafts[u][p].parentId)'
    <2>1. /\ Absent(p) \/ Shown(p)
          /\ Anchored(u, drafts'[u][p].parentId)
      BY <1>2 DEF PlaceEffect, DraftsOfShownPages, DraftsAnchored
    <2>2. drafts'[u][p].parentId \in ParentIds
      BY <1>2 DEF TypeOK, Draft
    <2> DEFINE x == drafts'[u][p].parentId
    <2>3. x = NoPage \/ (pages'[x].exists /\ pages'[x].deleteAt = spaceDeleteAt')
            \/ drafts'[u][x] # NoDraft
      <3> HIDE DEF x
      <3>1. Anchored(u, x) /\ x \in ParentIds
        BY <2>1, <2>2 DEF x
      <3> QED
        BY <1>1, <3>1 DEF Anchored, Shown
    <2>4. ~ pages'[p].exists \/ Shown(p)'
      BY <2>1 DEF PlaceEffect
    <2> QED
      BY <2>3, <2>4 DEF Anchored, Shown
  <1>3. ASSUME NEW p \in Pages, Shown(p)'
        PROVE  pages'[p].parentId = NoPage \/ Shown(pages[p].parentId)'
    <2>1. pages'[p].parentId = NoPage \/ Shown(pages'[p].parentId)
      BY <1>3 DEF PlaceEffect, PagesBelowShown
    <2>2. pages'[p].parentId \in Pages \cup {NoPage}
      BY DEF TypeOK, Page, ParentIds
    <2> QED
      BY <2>1, <2>2 DEF PlaceEffect, Shown
  <1>4. DraftsOfShownPages'
    BY <1>2 DEF DraftsOfShownPages
  <1>5. DraftsAnchored'
    BY <1>2 DEF DraftsAnchored
  <1>6. PagesBelowShown'
    BY <1>3 DEF PagesBelowShown
  <1> QED
    BY <1>4, <1>5, <1>6

LEMMA SavesShownStep ==
    ASSUME TypeOK, PlaceEffect, SaveEffect, SavesOfShownPages
    PROVE  SavesOfShownPages'
  <1> SUFFICES ASSUME save' # NoSave
               PROVE  \/ pages'[save'.page].exists
                            /\ pages'[save'.page].deleteAt = spaceDeleteAt'
                      \/ ~ pages'[save'.page].exists /\ drafts'[save'.user][save'.page] # NoDraft
    BY DEF SavesOfShownPages, Shown
  <1>1. CASE save' = save
    <2>1. save.user \in Users /\ save.page \in Pages
      BY <1>1 DEF TypeOK, Save
    <2>2. Shown(save.page) \/ (Absent(save.page) /\ Held(save.user, save.page))
      BY <1>1 DEF SavesOfShownPages
    <2> QED
      BY <1>1, <2>1, <2>2 DEF PlaceEffect, Shown
  <1>2. CASE /\ Held(save'.user, save'.page)
             /\ Absent(save'.page) \/ Shown(save'.page)
             /\ UNCHANGED <<spaceDeleteAt, pages, drafts>>
    BY <1>2 DEF Shown
  <1> QED
    BY <1>1, <1>2 DEF SaveEffect

LEMMA LifeStep ==
    ASSUME LifeEffect, DeletedSpaceIsDead
    PROVE  DeletedSpaceIsDead'
  BY DEF LifeEffect, DeletedSpaceIsDead

(* A step that keeps every page in its place, and every draft that it keeps. *)
LEMMA PlacesKept ==
    ASSUME TypeOK, UNCHANGED spaceDeleteAt,
           \A p \in Pages : /\ pages'[p].exists = pages[p].exists
                            /\ pages'[p].deleteAt = pages[p].deleteAt
                            /\ pages'[p].parentId = pages[p].parentId,
           \A u \in Users, p \in Pages : drafts'[u][p] # NoDraft =>
               Held(u, p) /\ drafts'[u][p].parentId = drafts[u][p].parentId,
           \A u \in Users, p \in Pages : Held(u, p) /\ drafts'[u][p] = NoDraft => Shown(p)
    PROVE  EdgesEffect /\ LifeEffect /\ PlaceEffect
  <1>1. EdgesEffect
    <2>1. ASSUME NEW p \in Pages, pages'[p].exists, pages'[p].parentId \in Pages
          PROVE  Above(pages'[p].parentId, p)
      BY <2>1 DEF Above, HangsBelow
    <2>2. ASSUME NEW u \in Users, NEW p \in Pages, drafts'[u][p] # NoDraft,
                 drafts'[u][p].parentId \in Pages
          PROVE  Above(drafts'[u][p].parentId, p)
      BY <2>2 DEF Above, HangsBelow
    <2> QED
      BY <2>1, <2>2 DEF EdgesEffect
  <1>2. LifeEffect
    BY DEF LifeEffect
  <1>3. PlaceEffect
    <2>1. \A p \in Pages : Shown(p)' <=> Shown(p)
      BY DEF Shown
    <2> QED
      BY <2>1 DEF PlaceEffect
  <1> QED
    BY <1>1, <1>2, <1>3

(* A step that reserves nothing. *)
LEMMA IdsKept ==
    ASSUME UNCHANGED <<sessions, rows>>, \A p \in Pages : pages'[p].exists => pages[p].exists
    PROVE  IdEffects
  BY DEF IdEffects, IdEffect

(* What a step does to the save under way. *)
LEMMA SaveEffects ==
    ASSUME [Next]_vars
    PROVE  SaveEffect
  <1>1. ASSUME NEW u \in Users, NEW p \in Pages, NEW now, NEW text, NEW i,
               UpdatePageDraft(u, p, i, text, now), FindDraft(u, p, i, text, now)
        PROVE  SaveEffect
    <2>1. save' = [user |-> u, page |-> p, session |-> i, text |-> text, now |-> now]
          /\ Held(u, p) /\ (Absent(p) \/ Live(p)) /\ SpaceLive
          /\ UNCHANGED <<spaceDeleteAt, pages, drafts>>
      BY <1>1 DEF UpdatePageDraft, FindDraft
    <2>2. save'.user = u /\ save'.page = p
      BY <2>1
    <2> QED
      BY <2>1, <2>2 DEF SaveEffect, Shown
  <1> QED
    BY <1>1, SaveIs DEF SaveEffect

(* The places in the steps of the editor and of autosave. *)
LEMMA OpenEditorPlaces ==
    ASSUME PublishInv, Effects, NEW u \in Users, NEW p \in Pages, OpenEditor(u, p)
    PROVE  PlaceEffects
  <1>0. TypeOK /\ UNCHANGED <<spaceDeleteAt, pages, drafts, rows>> /\ Live(p)
    BY DEF PublishInv, OpenEditor
  <1>1. EdgesEffect /\ LifeEffect /\ PlaceEffect
    BY <1>0, PlacesKept
  <1>2. \A v \in Users, q \in Pages : q # p => sessions'[v][q] = sessions[v][q]
    BY <1>0 DEF OpenEditor, TypeOK
  <1>3. IdEffects
    BY <1>0, <1>2 DEF IdEffects, IdEffect
  <1> QED
    BY <1>1, <1>3 DEF PlaceEffects

LEMMA InsertPlaces ==
    ASSUME PublishInv, NEW u \in Users, NEW p \in Pages, NEW now \in Nat,
           NEW i \in 1 .. Len(sessions[u][p]), NEW text \in Nat,
           InsertDraft(u, p, i, text, now), Shown(p),
           UNCHANGED <<spaceDeleteAt, pages, sessions>>
    PROVE  PlaceEffects
  <1>0. TypeOK
    BY DEF PublishInv
  <1>1. /\ drafts'[u][p] # NoDraft /\ drafts'[u][p].parentId = NoPage
        /\ \A v \in Users, q \in Pages : v # u \/ q # p =>
               drafts'[v][q] = drafts[v][q] /\ rows'[v][q] = rows[v][q]
    BY <1>0, InsertedRow, InsertType, NoDraftAssumption
  <1>2. IdEffects
    <2>1. sessions[u][p] # <<>>
      OBVIOUS
    <2>2. Reserved(p)'
      BY <2>1 DEF Reserved
    <2> QED
      BY <1>1, <2>2 DEF IdEffects, IdEffect
  <1>3. EdgesEffect
    BY <1>1, NoPageAssumption DEF EdgesEffect, Above, HangsBelow
  <1>4. LifeEffect
    BY DEF LifeEffect
  <1>5. PlaceEffect
    <2>1. \A q \in Pages : Shown(q)' <=> Shown(q)
      BY DEF Shown
    <2> QED
      BY <1>1, <2>1 DEF PlaceEffect, Anchored
  <1> QED
    BY <1>2, <1>3, <1>4, <1>5 DEF PlaceEffects

(* A step that touches no page, draft or session. *)
LEMMA RequestOnlyPlaces ==
    ASSUME PublishInv, UNCHANGED <<spaceDeleteAt, pages, drafts, sessions, rows>>
    PROVE  PlaceEffects
  <1>1. EdgesEffect /\ LifeEffect /\ PlaceEffect
    BY PlacesKept DEF PublishInv
  <1> QED
    BY <1>1, IdsKept DEF PlaceEffects

LEMMA SavePlaces ==
    ASSUME PublishInv, NEW u \in Users, NEW p \in Pages, NEW now \in Nat,
           NEW i \in 1 .. Len(sessions[u][p]), NEW text \in Nat,
           UpdatePageDraft(u, p, i, text, now)
    PROVE  PlaceEffects
  <1>1. UNCHANGED <<spaceDeleteAt, pages, sessions>> /\ SpaceLive
    BY DEF UpdatePageDraft
  <1>2. CASE EstablishDraft(u, p, i, text, now)
    <2>1. InsertDraft(u, p, i, text, now) /\ Shown(p)
      BY <1>1, <1>2 DEF EstablishDraft, MayEstablish, Shown
    <2> QED
      BY <1>1, <2>1, InsertPlaces
  <1>3. CASE FindDraft(u, p, i, text, now)
    BY <1>1, <1>3, RequestOnlyPlaces DEF FindDraft
  <1> QED
    BY <1>2, <1>3 DEF UpdatePageDraft

LEMMA FinishSavePlaces ==
    ASSUME PublishInv, SavesOfShownPages, FinishSave
    PROVE  PlaceEffects
  <1>1. PICK u, p, i, text, now :
            /\ u = save.user /\ p = save.page /\ i = save.session
            /\ text = save.text /\ now = save.now
    OBVIOUS
  <1>2. /\ TypeOK /\ u \in Users /\ p \in Pages /\ i \in 1 .. Len(sessions[u][p])
        /\ text \in Nat /\ now \in Nat /\ i \in Nat \ {0}
        /\ Shown(p) \/ Held(u, p)
    BY <1>1, SaveTyped DEF FinishSave, PublishInv, SavesOfShownPages
  <1>3. UpsertDraft(u, p, i, text, now) /\ UNCHANGED <<spaceDeleteAt, pages, sessions>>
    BY <1>1 DEF FinishSave, UpsertDraft
  <1>4. CASE ~ Held(u, p) /\ InsertDraft(u, p, i, text, now)
    BY <1>2, <1>3, <1>4, InsertPlaces
  <1>5. CASE /\ Held(u, p) /\ UNCHANGED rows
             /\ drafts' = [drafts EXCEPT ![u][p] = Merged(drafts[u][p], i, text, now)]
    <2> DEFINE row == Merged(drafts[u][p], i, text, now)
    <2>1. drafts[u][p] \in Draft
      BY <1>2, <1>5 DEF TypeOK
    <2>2. row.parentId = drafts[u][p].parentId /\ row # NoDraft
      <3>1. text \in Nat /\ now \in Nat /\ i \in Nat \ {0}
        BY <1>2
      <3>2. row \in Draft
        BY <2>1, <3>1, MergedRow
      <3>3. row.parentId = drafts[u][p].parentId
        BY <2>1 DEF Merged, Draft
      <3> QED
        BY <3>2, <3>3, NoDraftAssumption
    <2> HIDE DEF row
    <2>3. drafts'[u][p] = row /\ \A v \in Users, q \in Pages : v # u \/ q # p =>
              drafts'[v][q] = drafts[v][q]
      BY <1>2, <1>5 DEF TypeOK, row
    <2>4. EdgesEffect /\ LifeEffect /\ PlaceEffect
      BY <1>2, <1>3, <1>5, <2>2, <2>3, PlacesKept
    <2> QED
      BY <1>3, <1>5, <2>4, IdsKept DEF PlaceEffects
  <1> QED
    BY <1>3, <1>4, <1>5 DEF UpsertDraft

(* The places in the steps of a publish request. *)
LEMMA DropPlaces ==
    ASSUME PublishInv, DraftsOfShownPages, NEW q \in Request, DropVersion(q),
           ~ Absent(q.page), UNCHANGED <<spaceDeleteAt, pages, sessions, rows>>
    PROVE  PlaceEffects
  <1>1. TypeOK /\ q.user \in Users /\ q.page \in Pages
    BY DEF PublishInv, Request
  <1>2. CASE HoldsVersion(q)
    <2>1. drafts' = WithoutDraft(q.user, q.page) /\ Held(q.user, q.page)
      BY <1>2 DEF DropVersion, HoldsVersion
    <2>2. /\ drafts'[q.user][q.page] = NoDraft
          /\ \A u \in Users, p \in Pages : u # q.user \/ p # q.page =>
                 drafts'[u][p] = drafts[u][p]
      BY <1>1, <2>1 DEF WithoutDraft, TypeOK
    <2>3. Shown(q.page)
      BY <1>1, <2>1 DEF DraftsOfShownPages
    <2>4. EdgesEffect /\ LifeEffect /\ PlaceEffect
      BY <1>1, <2>2, <2>3, PlacesKept
    <2> QED
      BY <2>4, IdsKept DEF PlaceEffects
  <1>3. CASE ~ HoldsVersion(q)
    BY <1>3, RequestOnlyPlaces DEF DropVersion
  <1> QED
    BY <1>2, <1>3

LEMMA PublishEditPlaces ==
    ASSUME PublishInv, DraftsOfShownPages, NEW r \in Reqs, PublishEdit(r)
    PROVE  PlaceEffects
  <1> DEFINE q == reqs[r]
  <1>1. TypeOK /\ q \in Request /\ q.user \in Users /\ q.page \in Pages /\ q.draft.text \in Nat
    BY DEF PublishInv, PublishEdit, TypeOK, Request, Draft
  <1>2. /\ pages' = [pages EXCEPT ![q.page] = Patched(q.page, q.draft.text)]
        /\ drafts' = WithoutDraft(q.user, q.page)
        /\ UNCHANGED <<spaceDeleteAt, sessions, rows>>
        /\ Live(q.page) /\ Held(q.user, q.page)
    BY DEF PublishEdit, MayPatch, ConsumeDraft, HoldsVersion
  <1> HIDE DEF q
  <1>3. \A p \in Pages : /\ pages'[p].exists = pages[p].exists
                         /\ pages'[p].deleteAt = pages[p].deleteAt
                         /\ pages'[p].parentId = pages[p].parentId
    <2>1. LET new == Patched(q.page, q.draft.text) IN
          /\ new.exists = pages[q.page].exists
          /\ new.deleteAt = pages[q.page].deleteAt
          /\ new.parentId = pages[q.page].parentId
      BY <1>1, PatchedRow
    <2> QED
      BY <1>1, <1>2, <2>1 DEF TypeOK
  <1>4. /\ drafts'[q.user][q.page] = NoDraft
        /\ \A u \in Users, p \in Pages : u # q.user \/ p # q.page =>
               drafts'[u][p] = drafts[u][p]
    BY <1>1, <1>2 DEF WithoutDraft, TypeOK
  <1>5. Shown(q.page)
    BY <1>1, <1>2 DEF DraftsOfShownPages
  <1>6. EdgesEffect /\ LifeEffect /\ PlaceEffect
    BY <1>1, <1>2, <1>3, <1>4, <1>5, PlacesKept
  <1> QED
    BY <1>2, <1>3, <1>6, IdsKept DEF PlaceEffects

LEMMA PublishNewPlaces ==
    ASSUME PublishInv, NEW r \in Reqs, PublishNew(r)
    PROVE  PlaceEffects
  <1> DEFINE q == reqs[r]
             page == [exists |-> TRUE, deleteAt |-> 0, editAt |-> clock,
                      updateAt |-> clock, parentId |-> q.draft.parentId,
                      text |-> q.draft.text]
  <1>1. TypeOK /\ q # NoReq /\ q \in Request /\ q.user \in Users /\ q.page \in Pages
        /\ q.draft.parentId \in ParentIds
    BY DEF PublishInv, PublishNew, TypeOK, Request, Draft
  <1>2. /\ pages' = [pages EXCEPT ![q.page] = page]
        /\ drafts' = WithoutDraft(q.user, q.page)
        /\ UNCHANGED <<spaceDeleteAt, sessions, rows>>
        /\ SpaceLive /\ LiveParent(q.draft.parentId) /\ Absent(q.page) /\ Held(q.user, q.page)
    BY DEF PublishNew, ConsumeDraft, HoldsVersion
  <1>3. page.exists /\ page.deleteAt = 0 /\ page.parentId = q.draft.parentId
    OBVIOUS
  <1> HIDE DEF page
  <1>4. pages'[q.page] = page /\ \A p \in Pages \ {q.page} : pages'[p] = pages[p]
    BY <1>1, <1>2 DEF TypeOK
  <1>5. /\ drafts'[q.user][q.page] = NoDraft
        /\ \A u \in Users, p \in Pages : u # q.user \/ p # q.page =>
               drafts'[u][p] = drafts[u][p]
    BY <1>1, <1>2 DEF WithoutDraft, TypeOK
  <1>6. IdEffects
    <2>1. Reserved(q.page)
      BY <1>1, DraftsReserve
    <2> QED
      BY <1>2, <1>4, <2>1 DEF IdEffects, IdEffect
  <1>7. EdgesEffect
    <2>1. HangsBelow(q.page, q.draft.parentId)
      BY <1>1 DEF HangsBelow
    <2>2. ASSUME NEW p \in Pages, pages'[p].exists, pages'[p].parentId \in Pages
          PROVE  Above(pages'[p].parentId, p)
      BY <1>3, <1>4, <2>1, <2>2 DEF Above, HangsBelow
    <2>3. ASSUME NEW u \in Users, NEW p \in Pages, drafts'[u][p] # NoDraft,
                 drafts'[u][p].parentId \in Pages
          PROVE  Above(drafts'[u][p].parentId, p)
      BY <1>5, <2>3 DEF Above, HangsBelow
    <2> QED
      BY <2>2, <2>3 DEF EdgesEffect
  <1>8. LifeEffect
    BY <1>2 DEF LifeEffect
  <1>9. PlaceEffect
    <2>1. \A p \in Pages : p = q.page => Shown(p)' /\ ~ Shown(p)
      BY <1>1, <1>2, <1>3, <1>4 DEF Shown
    <2>2. \A p \in Pages \ {q.page} : Shown(p)' <=> Shown(p)
      BY <1>2, <1>4 DEF Shown
    <2>3. q.draft.parentId = NoPage \/ Shown(q.draft.parentId)
      BY <1>1, <1>2 DEF LiveParent, Shown
    <2> HIDE DEF q
    <2> QED
      BY <1>1, <1>2, <1>3, <1>4, <1>5, <2>1, <2>2, <2>3 DEF PlaceEffect
  <1> QED
    BY <1>6, <1>7, <1>8, <1>9 DEF PlaceEffects

(* The places in the other steps that write pages.                          *)
LEMMA UpdatePagePlaces ==
    ASSUME PublishInv, NEW u \in Users, NEW p \in Pages, NEW force \in BOOLEAN,
           NEW i \in 1 .. Len(sessions[u][p]), UpdatePage(u, p, i, force)
    PROVE  PlaceEffects
  <1> DEFINE page == Patched(p, texts + 1)
  <1>1. /\ TypeOK /\ UNCHANGED <<spaceDeleteAt, drafts, sessions, rows>>
        /\ pages' = [pages EXCEPT ![p] = page]
    BY DEF PublishInv, UpdatePage
  <1>2. /\ page.exists = pages[p].exists
        /\ page.deleteAt = pages[p].deleteAt
        /\ page.parentId = pages[p].parentId
    <2>1. texts + 1 \in Nat
      BY <1>1 DEF TypeOK
    <2> QED
      BY <1>1, <2>1, PatchedRow
  <1> HIDE DEF page
  <1>3. \A q \in Pages : /\ pages'[q].exists = pages[q].exists
                         /\ pages'[q].deleteAt = pages[q].deleteAt
                         /\ pages'[q].parentId = pages[q].parentId
    BY <1>1, <1>2 DEF TypeOK
  <1>4. EdgesEffect /\ LifeEffect /\ PlaceEffect
    BY <1>1, <1>3, PlacesKept
  <1> QED
    BY <1>1, <1>3, <1>4, IdsKept DEF PlaceEffects

LEMMA RestorePagePlaces ==
    ASSUME PublishInv, NEW p \in Pages, NEW now \in Nat, RestorePage(p, now)
    PROVE  PlaceEffects
  <1> DEFINE row == Restamped(pages[p], 0, now)
             parent == IF LiveParent(row.parentId) THEN row.parentId ELSE NoPage
             new == [row EXCEPT !.parentId = parent]
  <1>1. /\ TypeOK /\ UNCHANGED <<spaceDeleteAt, drafts, sessions, rows>>
        /\ SpaceLive /\ ~ Absent(p) /\ ~ Live(p)
        /\ pages[p] \in Page
        /\ pages' = [pages EXCEPT ![p] = new]
    BY DEF PublishInv, RestorePage, Revived, TypeOK
  <1>2. row \in Page /\ row.exists /\ row.deleteAt = 0 /\ row.parentId = pages[p].parentId
    BY <1>1, RestampedRow
  <1> HIDE DEF row
  <1>3. (parent = pages[p].parentId /\ LiveParent(parent)) \/ parent = NoPage
    BY <1>2
  <1> HIDE DEF parent
  <1>4. new.exists /\ new.deleteAt = 0 /\ new.parentId = parent
    BY <1>2 DEF Page
  <1> HIDE DEF new
  <1>5. pages'[p] = new /\ \A q \in Pages \ {p} : pages'[q] = pages[q]
    BY <1>1 DEF TypeOK
  <1>6. IdEffects
    BY <1>1, <1>5, IdsKept
  <1>7. EdgesEffect
    <2>1. ASSUME NEW q \in Pages, pages'[q].exists, pages'[q].parentId \in Pages
          PROVE  Above(pages'[q].parentId, q)
      BY <1>1, <1>3, <1>4, <1>5, <2>1, NoPageAssumption DEF Above, HangsBelow
    <2>2. ASSUME NEW u \in Users, NEW q \in Pages, drafts'[u][q] # NoDraft,
                 drafts'[u][q].parentId \in Pages
          PROVE  Above(drafts'[u][q].parentId, q)
      BY <1>1, <2>2 DEF Above, HangsBelow
    <2> QED
      BY <2>1, <2>2 DEF EdgesEffect
  <1>8. LifeEffect
    BY <1>1 DEF LifeEffect
  <1>9. PlaceEffect
    <2>1. Shown(p)' /\ ~ Shown(p) /\ ~ Absent(p)
      BY <1>1, <1>4, <1>5 DEF Shown
    <2>2. \A q \in Pages \ {p} : Shown(q)' <=> Shown(q)
      BY <1>1, <1>5 DEF Shown
    <2>3. parent = NoPage \/ Shown(parent)
      BY <1>1, <1>3 DEF LiveParent, Shown
    <2> QED
      BY <1>1, <1>4, <1>5, <2>1, <2>2, <2>3 DEF PlaceEffect
  <1> QED
    BY <1>6, <1>7, <1>8, <1>9 DEF PlaceEffects

(* The rows that DeleteSpace and RestoreSpace stamp stay in their place. *)
LEMMA StampedPlaces ==
    ASSUME TypeOK, NEW ps, NEW deleteAt \in Nat, NEW stamp \in Nat,
           pages' = Stamped(ps, deleteAt, stamp)
    PROVE  \A p \in Pages :
               /\ pages'[p].exists = pages[p].exists
               /\ pages'[p].deleteAt = IF p \in ps THEN deleteAt ELSE pages[p].deleteAt
               /\ pages'[p].parentId = pages[p].parentId
  <1> SUFFICES ASSUME NEW p \in Pages
               PROVE  /\ pages'[p].exists = pages[p].exists
                      /\ pages'[p].deleteAt = IF p \in ps THEN deleteAt ELSE pages[p].deleteAt
                      /\ pages'[p].parentId = pages[p].parentId
    OBVIOUS
  <1>1. pages[p] \in Page
    BY DEF TypeOK
  <1>2. CASE p \in ps
    <2>1. pages'[p] = Restamped(pages[p], deleteAt, stamp)
      BY <1>2 DEF Stamped
    <2> QED
      BY <1>1, <1>2, <2>1, RestampedRow
  <1>3. CASE p \notin ps
    BY <1>3 DEF Stamped
  <1> QED
    BY <1>2, <1>3

(* A step of the space: what it shows, or would show, is what it showed. *)
LEMMA SpaceShowsTheSame ==
    ASSUME PublishInv, UNCHANGED <<drafts, sessions, rows>>,
           \A p \in Pages : /\ pages'[p].exists = pages[p].exists
                            /\ pages'[p].parentId = pages[p].parentId
                            /\ Shown(p)' <=> Shown(p)
    PROVE  IdEffects /\ EdgesEffect /\ PlaceEffect
  <1>1. EdgesEffect
    <2>1. ASSUME NEW q \in Pages, pages'[q].exists, pages'[q].parentId \in Pages
          PROVE  Above(pages'[q].parentId, q)
      BY <2>1 DEF Above, HangsBelow
    <2>2. ASSUME NEW u \in Users, NEW q \in Pages, drafts'[u][q] # NoDraft,
                 drafts'[u][q].parentId \in Pages
          PROVE  Above(drafts'[u][q].parentId, q)
      BY <2>2 DEF Above, HangsBelow
    <2> QED
      BY <2>1, <2>2 DEF EdgesEffect
  <1>2. PlaceEffect
    BY DEF PlaceEffect
  <1> QED
    BY <1>1, <1>2, IdsKept

LEMMA DeleteSpacePlaces ==
    ASSUME PublishInv, NEW stamp \in Nat \ {0}, DeleteSpace(stamp)
    PROVE  PlaceEffects
  <1> DEFINE ps == {p \in Pages : Live(p)}
  <1>1. /\ TypeOK /\ UNCHANGED <<drafts, sessions, rows>> /\ SpaceLive
        /\ pages' = Stamped(ps, stamp, stamp) /\ spaceDeleteAt' = stamp
        /\ \A p \in Pages : pages[p].deleteAt < stamp
    BY DEF PublishInv, DeleteSpace
  <1>2. \A p \in Pages : /\ pages'[p].exists = pages[p].exists
                         /\ pages'[p].deleteAt = IF p \in ps THEN stamp ELSE pages[p].deleteAt
                         /\ pages'[p].parentId = pages[p].parentId
    <2> HIDE DEF ps
    <2> QED
      BY <1>1, StampedPlaces
  <1>3. ASSUME NEW p \in Pages
        PROVE  Shown(p)' <=> Shown(p)
    <2>1. pages[p].deleteAt \in Nat /\ pages[p].deleteAt # stamp
      BY <1>1 DEF TypeOK, Page
    <2> QED
      BY <1>1, <1>2, <2>1 DEF Shown
  <1>4. IdEffects /\ EdgesEffect /\ PlaceEffect
    BY <1>1, <1>2, <1>3, SpaceShowsTheSame
  <1>5. LifeEffect
    BY <1>2 DEF LifeEffect
  <1> QED
    BY <1>4, <1>5 DEF PlaceEffects

LEMMA RestoreSpacePlaces ==
    ASSUME PublishInv, DeletedSpaceIsDead, NEW now \in Nat, RestoreSpace(now)
    PROVE  PlaceEffects
  <1> DEFINE ps == {p \in Pages : pages[p].exists /\ pages[p].deleteAt = spaceDeleteAt}
  <1>1. /\ TypeOK /\ UNCHANGED <<drafts, sessions, rows>> /\ ~ SpaceLive
        /\ pages' = Stamped(ps, 0, now) /\ spaceDeleteAt' = 0
    BY DEF PublishInv, RestoreSpace
  <1>2. \A p \in Pages : /\ pages'[p].exists = pages[p].exists
                         /\ pages'[p].deleteAt = IF p \in ps THEN 0 ELSE pages[p].deleteAt
                         /\ pages'[p].parentId = pages[p].parentId
    <2> HIDE DEF ps
    <2> QED
      BY <1>1, StampedPlaces
  <1>3. \A p \in Pages : Shown(p)' <=> Shown(p)
    BY <1>1, <1>2 DEF Shown, DeletedSpaceIsDead
  <1>4. IdEffects /\ EdgesEffect /\ PlaceEffect
    BY <1>1, <1>2, <1>3, SpaceShowsTheSame
  <1>5. LifeEffect
    BY <1>1 DEF LifeEffect
  <1> QED
    BY <1>4, <1>5 DEF PlaceEffects

(* The effects keep the invariant.                                          *)
LEMMA PlacesFromEffects ==
    ASSUME PlacesInv, TypeOK', Effects, PlaceEffects, SaveEffect
    PROVE  Places'
  <1>0. TypeOK /\ PublishInv /\ Places
    BY DEF PlacesInv, PublishInv
  <1>1. ReservedIds'
    BY <1>0, IdsStep DEF Places, PlaceEffects
  <1>2. ParentsAreOlder'
    BY <1>0, RanksStay DEF Places, PlaceEffects
  <1>3. DeletedSpaceIsDead'
    BY <1>0, LifeStep DEF Places, PlaceEffects
  <1>4. DraftsOfShownPages' /\ PagesBelowShown' /\ DraftsAnchored'
    BY <1>0, PlacesStep DEF Places, PlaceEffects
  <1>5. SavesOfShownPages'
    BY <1>0, SavesShownStep DEF Places, PlaceEffects
  <1> QED
    BY <1>1, <1>2, <1>3, <1>4, <1>5 DEF Places

(* Nothing hangs below itself.                                              *)
LEMMA NoSelfParent ==
    ASSUME ParentsAreOlder, NEW p \in Pages
    PROVE  ~ HangsBelow(p, p)
  <1>1. PICK rank \in [Pages -> Nat] : Ranks(rank)
    BY DEF ParentsAreOlder
  <1>2. rank[p] \in Nat
    BY <1>1
  <1> QED
    BY <1>1, <1>2 DEF Ranks

(* A new draft is the youngest: nothing mentions its id before.             *)
LEMMA CreatePlaces ==
    ASSUME PlacesInv, TypeOK', Effects, NEW u \in Users, NEW p \in Pages, NEW now \in Nat,
           NEW parent \in ParentIds \ {p}, CreateSpaceDraft(u, p, parent, now)
    PROVE  Places'
  <1> DEFINE row == [updateAt |-> now, baseEditAt |-> 0, parentId |-> parent,
                     text |-> texts + 1, opener |-> 1, writer |-> 1,
                     row |-> rows[u][p] + 1]
  <1>0. TypeOK /\ PublishInv /\ Places
    BY DEF PlacesInv, PublishInv
  <1>1. /\ UNCHANGED <<spaceDeleteAt, pages, reqs>> /\ SpaceLive /\ Absent(p)
        /\ ~ Reserved(p)
        /\ DraftParentOK(u, parent)
        /\ sessions' = [sessions EXCEPT ![u][p] = <<[baseEditAt |-> 0, text |-> 0]>>]
        /\ rows' = [rows EXCEPT ![u][p] = rows[u][p] + 1]
        /\ drafts' = [drafts EXCEPT ![u][p] = row]
    BY DEF CreateSpaceDraft, Reserved
  <1>2. row.parentId = parent /\ ~ Held(u, p)
    BY <1>0, <1>1, DraftsReserve
  <1> HIDE DEF row
  <1>3. /\ drafts'[u][p] = row /\ sessions'[u][p] # <<>>
        /\ \A v \in Users, q \in Pages : v # u \/ q # p =>
               /\ drafts'[v][q] = drafts[v][q]
               /\ sessions'[v][q] = sessions[v][q]
               /\ rows'[v][q] = rows[v][q]
    <2> DEFINE s == <<[baseEditAt |-> 0, text |-> 0]>>
    <2>1. s # <<>> /\ sessions' = [sessions EXCEPT ![u][p] = s]
      BY <1>1
    <2> HIDE DEF s
    <2>2. \A v \in Users, q \in Pages : v # u \/ q # p => sessions'[v][q] = sessions[v][q]
      BY <1>0, <2>1 DEF TypeOK
    <2>3. sessions'[u][p] # <<>>
      BY <1>0, <2>1 DEF TypeOK
    <2>4. \A v \in Users, q \in Pages : v # u \/ q # p => rows'[v][q] = rows[v][q]
      BY <1>0, <1>1 DEF TypeOK
    <2>5. drafts'[u][p] = row /\ \A v \in Users, q \in Pages : v # u \/ q # p =>
              drafts'[v][q] = drafts[v][q]
      BY <1>0, <1>1 DEF TypeOK
    <2> QED
      BY <2>2, <2>3, <2>4, <2>5
  <1>4. Reserved(p)' /\ \A v \in Users : v # u => sessions'[v][p] = <<>>
    BY <1>1, <1>3 DEF Reserved
  <1>5. IdEffects
    BY <1>1, <1>3, <1>4 DEF IdEffects, IdEffect
  <1>6. parent = NoPage \/ Shown(parent) \/ Held(u, parent)
    BY <1>1 DEF DraftParentOK, LiveParent, Visible, Shown
  <1>7. PlaceEffect
    <2>1. \A q \in Pages : Shown(q)' <=> Shown(q)
      BY <1>1 DEF Shown
    <2>2. Anchored(u, drafts'[u][p].parentId)
      BY <1>2, <1>3, <1>6 DEF Anchored
    <2> QED
      BY <1>1, <1>2, <1>3, <2>1, <2>2 DEF PlaceEffect
  <1>8. LifeEffect
    BY <1>1 DEF LifeEffect
  <1>9. ParentsAreOlder'
    <2>1. PICK rank \in [Pages -> Nat] : Ranks(rank)
      BY <1>0 DEF Places, ParentsAreOlder
    <2>2. PICK n \in Nat : parent \in Pages => n > rank[parent]
      <3>1. CASE parent \in Pages
        <4>1. rank[parent] + 1 \in Nat /\ rank[parent] + 1 > rank[parent]
          BY <2>1, <3>1
        <4> QED
          BY <4>1
      <3> QED
        BY <3>1
    <2> DEFINE younger == [rank EXCEPT ![p] = n]
    <2>3. /\ younger \in [Pages -> Nat] /\ younger[p] = n
          /\ \A q \in Pages \ {p} : younger[q] = rank[q]
      BY <2>1, <2>2
    <2> HIDE DEF younger
    <2>4. \A q, x \in Pages : HangsBelow(q, x) => Reserved(x) /\ rank[x] < rank[q]
      BY <2>1 DEF Ranks
    <2>5. \A x \in Pages : ~ HangsBelow(p, x)
      <3>1. \A v \in Users : ~ Held(v, p)
        BY <1>0, <1>1, DraftsReserve
      <3>2. \A r \in Reqs : reqs[r] # NoReq => reqs[r].page # p
        BY <1>0, <1>1, DraftsReserve
      <3> QED
        BY <1>1, <3>1, <3>2 DEF HangsBelow
    <2>6. ASSUME NEW q \in Pages, NEW x \in Pages, HangsBelow(q, x)'
          PROVE  HangsBelow(q, x) \/ (q = p /\ x = parent)
      BY <1>1, <1>2, <1>3, <2>6 DEF HangsBelow
    <2>7. parent \in Pages => Reserved(parent) /\ parent # p
      <3>1. ASSUME parent \in Pages, Shown(parent)
            PROVE  Reserved(parent)
        BY <1>0, <3>1 DEF Places, ReservedIds, Shown
      <3>2. ASSUME parent \in Pages, Held(u, parent)
            PROVE  Reserved(parent)
        BY <1>0, <3>2, DraftsReserve
      <3> QED
        BY <1>6, <3>1, <3>2, NoPageAssumption
    <2>8. ASSUME NEW q \in Pages, NEW x \in Pages, HangsBelow(q, x)'
          PROVE  Reserved(x)' /\ younger[x] < younger[q]
      <3>1. CASE q = p /\ x = parent
        <4>1. Reserved(x)'
          BY <1>0, <2>7, <3>1, ReservedStays
        <4>2. younger[x] = rank[parent] /\ younger[q] = n
          BY <2>3, <2>7, <3>1
        <4> QED
          BY <2>2, <3>1, <4>1, <4>2
      <3>2. CASE HangsBelow(q, x)
        <4>1. Reserved(x) /\ rank[x] < rank[q] /\ q # p
          BY <2>4, <2>5, <3>2
        <4>2. x # p
          BY <1>1, <4>1
        <4> QED
          BY <1>0, <2>3, <4>1, <4>2, ReservedStays
      <3> QED
        BY <2>6, <2>8, <3>1, <3>2
    <2>9. Ranks(younger)'
      BY <2>8 DEF Ranks
    <2> QED
      BY <2>3, <2>9 DEF ParentsAreOlder
  <1>10. ReservedIds'
    BY <1>0, <1>5, IdsStep DEF Places
  <1>11. DeletedSpaceIsDead'
    BY <1>0, <1>8, LifeStep DEF Places
  <1>12. DraftsOfShownPages' /\ PagesBelowShown' /\ DraftsAnchored'
    BY <1>0, <1>7, PlacesStep DEF Places
  <1>s. SavesOfShownPages'
    BY DEF CreateSpaceDraft, SpaceUnlocked, SavesOfShownPages
  <1> QED
    BY <1>9, <1>10, <1>11, <1>12, <1>s DEF Places

(* The parent of a draft row that was handed up from below p. *)
LEMMA ReparentedParent ==
    ASSUME NEW p, NEW parent \in ParentIds, NEW now \in Nat, NEW row \in Draft
    PROVE  ReparentedBelow(p, parent, row, now).parentId
               = IF row.parentId = p THEN parent ELSE row.parentId
  <1>1. CASE row.parentId = p
    BY <1>1, NoDraftAssumption DEF ReparentedBelow, Reparented, Draft
  <1>2. CASE row.parentId # p
    BY <1>2 DEF ReparentedBelow
  <1> QED
    BY <1>1, <1>2

(* Drafts handed up from below p, of which nothing is left, stay anchored. *)
LEMMA HandedUp ==
    ASSUME PlacesInv, NEW p \in Pages, NEW parent \in ParentIds, NEW now \in Nat,
           HangsBelow(p, parent), NEW u \in Users, NEW q \in Pages, Held(u, q),
           Anchored(u, parent)
    PROVE  LET x == ReparentedBelow(p, parent, drafts[u][q], now).parentId IN
           /\ x \in ParentIds /\ x # p
           /\ Anchored(u, x)
           /\ x \in Pages => Above(x, q)
  <1> DEFINE x == ReparentedBelow(p, parent, drafts[u][q], now).parentId
  <1>1. drafts[u][q] \in Draft /\ drafts[u][q].parentId \in ParentIds
    BY DEF PlacesInv, PublishInv, TypeOK, Draft
  <1>2. x = IF drafts[u][q].parentId = p THEN parent ELSE drafts[u][q].parentId
    BY <1>1, ReparentedParent
  <1>3. parent # p
    BY NoSelfParent DEF PlacesInv, Places
  <1>4. Anchored(u, drafts[u][q].parentId)
    BY DEF PlacesInv, Places, DraftsAnchored
  <1>5. x \in Pages => Above(x, q)
    <2>1. HangsBelow(q, drafts[u][q].parentId)
      BY DEF HangsBelow
    <2> HIDE DEF x
    <2> QED
      BY <1>2, <2>1 DEF Above
  <1> HIDE DEF x
  <1>6. x \in ParentIds /\ x # p /\ Anchored(u, x) /\ (x \in Pages => Above(x, q))
    BY <1>1, <1>2, <1>3, <1>4, <1>5
  <1> QED
    BY <1>6 DEF x

(* Discarding a draft hands what was below it to what it was below. *)
LEMMA DiscardPlaces ==
    ASSUME PlacesInv, TypeOK', Effects, NEW u \in Users, NEW p \in Pages, NEW now \in Nat,
           DiscardDraft(u, p, now)
    PROVE  Places'
  <1> DEFINE parent == drafts[u][p].parentId
             moved(q) == ReparentedBelow(p, parent, drafts[u][q], now)
  <1>0. TypeOK /\ PublishInv /\ Places
    BY DEF PlacesInv, PublishInv
  <1>1. /\ UNCHANGED <<spaceDeleteAt, pages, sessions, rows>> /\ SpaceLive
        /\ Held(u, p) /\ drafts[u][p] \in Draft /\ parent \in ParentIds
    BY <1>0 DEF DiscardDraft, TypeOK, Draft
  <1>2. /\ drafts'[u][p] = NoDraft
        /\ \A q \in Pages \ {p} :
               drafts'[u][q] = IF Live(p) THEN drafts[u][q] ELSE moved(q)
        /\ \A v \in Users \ {u}, q \in Pages : drafts'[v][q] = drafts[v][q]
    BY <1>0 DEF DiscardDraft, TypeOK
  <1>3. HangsBelow(p, parent) /\ Anchored(u, parent)
    BY <1>0, <1>1 DEF HangsBelow, Places, DraftsAnchored
  <1>4. ASSUME NEW q \in Pages, Held(u, q)
        PROVE  LET x == moved(q).parentId IN
               /\ moved(q) # NoDraft
               /\ x \in ParentIds /\ x # p
               /\ Anchored(u, x)
               /\ x \in Pages => Above(x, q)
    <2>1. drafts[u][q] \in Draft \cup {NoDraft}
      BY <1>0 DEF TypeOK
    <2>2. moved(q) # NoDraft
      BY <1>1, <1>4, <2>1, ReparentedRow
    <2> QED
      BY <1>1, <1>3, <1>4, <2>2, HandedUp
  <1>5. \A q \in Pages : drafts[u][q] = NoDraft => moved(q) = NoDraft
    BY DEF ReparentedBelow
  <1> HIDE DEF moved, parent
  <1>6. \A v \in Users, q \in Pages : drafts'[v][q] # NoDraft => Held(v, q)
    BY <1>2, <1>5
  <1>7. IdEffects
    BY <1>1, IdsKept
  <1>8. EdgesEffect
    <2>1. ASSUME NEW q \in Pages, pages'[q].exists, pages'[q].parentId \in Pages
          PROVE  Above(pages'[q].parentId, q)
      BY <1>1, <2>1 DEF Above, HangsBelow
    <2>2. ASSUME NEW v \in Users, NEW q \in Pages, drafts'[v][q] # NoDraft,
                 drafts'[v][q].parentId \in Pages
          PROVE  Above(drafts'[v][q].parentId, q)
      <3>1. CASE drafts'[v][q] = drafts[v][q]
        BY <2>2, <3>1 DEF Above, HangsBelow
      <3>2. CASE v = u /\ drafts'[v][q] = moved(q)
        BY <1>4, <1>6, <2>2, <3>2
      <3> QED
        BY <1>2, <2>2, <3>1, <3>2
    <2> QED
      BY <2>1, <2>2 DEF EdgesEffect
  <1>9. LifeEffect
    BY <1>1 DEF LifeEffect
  <1>10. \A q \in Pages : Shown(q)' <=> Shown(q)
    BY <1>1 DEF Shown
  <1>11. DraftsOfShownPages'
    BY <1>0, <1>1, <1>6, <1>10 DEF Places, DraftsOfShownPages
  <1>12. PagesBelowShown'
    BY <1>0, <1>1 DEF Places, PagesBelowShown, Shown
  <1>13. DraftsAnchored'
    <2> SUFFICES ASSUME NEW v \in Users, NEW q \in Pages, drafts'[v][q] # NoDraft
                 PROVE  LET x == drafts'[v][q].parentId IN
                        x = NoPage \/ Shown(x) \/ drafts'[v][x] # NoDraft
      BY <1>1 DEF DraftsAnchored, Anchored, Shown
    <2> DEFINE x == drafts'[v][q].parentId
    <2>1. Held(v, q) /\ drafts[v][q] \in Draft
      BY <1>0, <1>6 DEF TypeOK
    <2>2. ASSUME NEW y \in Pages, Held(v, y), v # u \/ y # p
          PROVE  drafts'[v][y] # NoDraft
      BY <1>2, <1>4, <2>2
    <2>3. CASE drafts'[v][q] = drafts[v][q] /\ v # u
      <3>1. Anchored(v, x) /\ x \in ParentIds
        BY <1>0, <2>1, <2>3 DEF Places, DraftsAnchored, Draft
      <3> HIDE DEF x
      <3>2. x = NoPage \/ Shown(x) \/ drafts'[v][x] # NoDraft
        BY <2>2, <2>3, <3>1 DEF Anchored, ParentIds
      <3> QED
        BY <3>2 DEF x
    <2>4. CASE v = u /\ Live(p) /\ drafts'[v][q] = drafts[v][q]
      <3>1. Anchored(v, x) /\ x \in ParentIds
        BY <1>0, <2>1, <2>4 DEF Places, DraftsAnchored, Draft
      <3>2. Shown(p)
        BY <1>1, <2>4 DEF Shown
      <3> HIDE DEF x
      <3>3. x = NoPage \/ Shown(x) \/ drafts'[v][x] # NoDraft
        BY <2>2, <3>1, <3>2 DEF Anchored, ParentIds
      <3> QED
        BY <3>3 DEF x
    <2>5. CASE v = u /\ drafts'[v][q] = moved(q)
      <3>1. Anchored(v, x) /\ x \in ParentIds /\ x # p
        BY <1>4, <2>1, <2>5
      <3> HIDE DEF x
      <3>2. x = NoPage \/ Shown(x) \/ drafts'[v][x] # NoDraft
        BY <2>2, <3>1 DEF Anchored, ParentIds
      <3> QED
        BY <3>2 DEF x
    <2> QED
      BY <1>2, <2>3, <2>4, <2>5
  <1>14. ReservedIds' /\ ParentsAreOlder' /\ DeletedSpaceIsDead'
    BY <1>0, <1>7, <1>8, <1>9, IdsStep, RanksStay, LifeStep DEF Places
  <1>s. SavesOfShownPages'
    BY DEF DiscardDraft, SpaceUnlocked, SavesOfShownPages
  <1> QED
    BY <1>11, <1>12, <1>13, <1>14, <1>s DEF Places

(* The places of the rows that DeletePage leaves. *)
LEMMA DeletePageRows ==
    ASSUME TypeOK, NEW p \in Pages, NEW now \in Nat, DeletePage(p, now), NEW q \in Pages
    PROVE  /\ pages'[q].exists = pages[q].exists
           /\ pages'[q].deleteAt = IF q = p THEN now ELSE pages[q].deleteAt
           /\ pages'[q].parentId = IF q # p /\ Live(q) /\ pages[q].parentId = p
                                   THEN pages[p].parentId ELSE pages[q].parentId
  <1>0. pages[q] \in Page /\ pages[p] \in Page
    BY DEF TypeOK
  <1>u. pages' = PagesAfterDelete(p, now)
    BY DEF DeletePage
  <1>1. CASE q = p
    <2>1. pages'[q] = Restamped(pages[q], now, now)
      BY <1>1, <1>u DEF PagesAfterDelete
    <2> QED
      BY <1>0, <1>1, <2>1, RestampedRow
  <1>2. CASE q # p /\ Live(q) /\ pages[q].parentId = p
    <2> DEFINE stamp == NextMonotonic(now, pages[q].updateAt)
    <2>1. pages'[q] = [pages[q] EXCEPT !.parentId = pages[p].parentId, !.updateAt = stamp]
      BY <1>2, <1>u DEF PagesAfterDelete, Reparented
    <2> HIDE DEF stamp
    <2> QED
      BY <1>0, <1>2, <2>1 DEF Page
  <1>3. CASE q # p /\ ~ (Live(q) /\ pages[q].parentId = p)
    BY <1>3, <1>u DEF PagesAfterDelete
  <1> QED
    BY <1>1, <1>2, <1>3

(* Deleting a page takes its drafts, and hands the pages and drafts below it *)
(* to what it was below.                                                     *)
LEMMA DeletePagePlaces ==
    ASSUME PlacesInv, TypeOK', Effects, NEW p \in Pages, NEW now \in Nat \ {0},
           DeletePage(p, now)
    PROVE  Places'
  <1> DEFINE parent == pages[p].parentId
             moved(u, q) == ReparentedBelow(p, parent, drafts[u][q], now)
  <1>0. TypeOK /\ PublishInv /\ Places
    BY DEF PlacesInv, PublishInv
  <1>1. /\ UNCHANGED <<spaceDeleteAt, sessions, rows>> /\ SpaceLive /\ Live(p)
        /\ pages[p] \in Page /\ parent \in ParentIds
        /\ drafts' = DraftsAfterDelete(p, now)
    BY <1>0 DEF DeletePage, TypeOK, Page
  <1>2. \A u \in Users, q \in Pages :
            drafts'[u][q] = IF q = p THEN NoDraft ELSE moved(u, q)
    BY <1>1 DEF DraftsAfterDelete
  <1>3. \A q \in Pages :
            /\ pages'[q].exists = pages[q].exists
            /\ pages'[q].deleteAt = IF q = p THEN now ELSE pages[q].deleteAt
            /\ pages'[q].parentId = IF q # p /\ Live(q) /\ pages[q].parentId = p
                                    THEN parent ELSE pages[q].parentId
    BY <1>0, DeletePageRows
  <1>4. HangsBelow(p, parent) /\ (parent = NoPage \/ Shown(parent)) /\ parent # p
    <2>1. HangsBelow(p, parent) /\ Shown(p)
      BY <1>1 DEF HangsBelow, Shown
    <2> QED
      BY <1>0, <2>1, NoSelfParent DEF Places, PagesBelowShown
  <1>5. ASSUME NEW u \in Users, NEW q \in Pages, Held(u, q)
        PROVE  LET x == moved(u, q).parentId IN
               /\ moved(u, q) # NoDraft
               /\ x \in ParentIds /\ x # p
               /\ Anchored(u, x)
               /\ x \in Pages => Above(x, q)
    <2>1. drafts[u][q] \in Draft \cup {NoDraft}
      BY <1>0 DEF TypeOK
    <2>2. moved(u, q) # NoDraft
      BY <1>1, <1>5, <2>1, ReparentedRow
    <2>3. Anchored(u, parent)
      BY <1>4 DEF Anchored
    <2> QED
      BY <1>1, <1>4, <1>5, <2>2, <2>3, HandedUp
  <1>6. \A u \in Users, q \in Pages : drafts[u][q] = NoDraft => moved(u, q) = NoDraft
    BY DEF ReparentedBelow
  <1> HIDE DEF moved, parent
  <1>7. \A u \in Users, q \in Pages : drafts'[u][q] # NoDraft => Held(u, q) /\ q # p
    BY <1>2, <1>6
  <1>8. IdEffects
    BY <1>1, <1>3, IdsKept
  <1>9. EdgesEffect
    <2>1. ASSUME NEW q \in Pages, pages'[q].exists, pages'[q].parentId \in Pages
          PROVE  Above(pages'[q].parentId, q)
      <3>1. pages[q].exists /\ HangsBelow(q, pages[q].parentId)
        BY <1>3, <2>1 DEF HangsBelow
      <3> QED
        BY <1>3, <1>4, <2>1, <3>1 DEF Above
    <2>2. ASSUME NEW u \in Users, NEW q \in Pages, drafts'[u][q] # NoDraft,
                 drafts'[u][q].parentId \in Pages
          PROVE  Above(drafts'[u][q].parentId, q)
      BY <1>2, <1>5, <1>7, <2>2
    <2> QED
      BY <2>1, <2>2 DEF EdgesEffect
  <1>10. LifeEffect
    BY <1>1 DEF LifeEffect
  <1>11. \A q \in Pages : (pages'[q].exists /\ pages'[q].deleteAt = spaceDeleteAt')
                              <=> (Shown(q) /\ q # p)
    BY <1>1, <1>3 DEF Shown
  <1>12. DraftsOfShownPages'
    BY <1>0, <1>3, <1>7, <1>11 DEF Places, DraftsOfShownPages, Shown
  <1>13. PagesBelowShown'
    <2> SUFFICES ASSUME NEW q \in Pages, Shown(q), q # p
                 PROVE  LET x == pages'[q].parentId IN
                        x = NoPage \/ (pages'[x].exists /\ pages'[x].deleteAt = spaceDeleteAt')
      BY <1>11 DEF PagesBelowShown, Shown
    <2> DEFINE x == pages'[q].parentId
    <2>1. Live(q)
      BY <1>1 DEF Shown
    <2>2. x = IF pages[q].parentId = p THEN parent ELSE pages[q].parentId
      BY <1>3, <2>1
    <2>3. pages[q].parentId = NoPage \/ Shown(pages[q].parentId)
      BY <1>0 DEF Places, PagesBelowShown
    <2>4. x \in ParentIds
      BY DEF TypeOK, Page
    <2> HIDE DEF x
    <2>5. x = NoPage \/ (Shown(x) /\ x # p)
      BY <1>4, <2>2, <2>3
    <2>6. x = NoPage \/ (pages'[x].exists /\ pages'[x].deleteAt = spaceDeleteAt')
      BY <1>11, <2>4, <2>5 DEF ParentIds
    <2> QED
      BY <2>6 DEF x
  <1>14. DraftsAnchored'
    <2> SUFFICES ASSUME NEW u \in Users, NEW q \in Pages, drafts'[u][q] # NoDraft
                 PROVE  LET x == drafts'[u][q].parentId IN
                        \/ x = NoPage
                        \/ pages'[x].exists /\ pages'[x].deleteAt = spaceDeleteAt'
                        \/ drafts'[u][x] # NoDraft
      BY DEF DraftsAnchored, Anchored, Shown
    <2> DEFINE x == drafts'[u][q].parentId
    <2>1. x \in ParentIds /\ x # p /\ Anchored(u, x)
      BY <1>2, <1>5, <1>7
    <2> HIDE DEF x
    <2>2. ASSUME x \in Pages, Held(u, x)
          PROVE  drafts'[u][x] # NoDraft
      BY <1>2, <1>5, <2>1, <2>2
    <2>3. \/ x = NoPage
          \/ pages'[x].exists /\ pages'[x].deleteAt = spaceDeleteAt'
          \/ drafts'[u][x] # NoDraft
      BY <1>11, <2>1, <2>2 DEF Anchored, ParentIds
    <2> QED
      BY <2>3 DEF x
  <1>15. ReservedIds' /\ ParentsAreOlder' /\ DeletedSpaceIsDead'
    BY <1>0, <1>8, <1>9, <1>10, IdsStep, RanksStay, LifeStep DEF Places
  <1>s. SavesOfShownPages'
    BY DEF DeletePage, SpaceUnlocked, SavesOfShownPages
  <1> QED
    BY <1>12, <1>13, <1>14, <1>15, <1>s DEF Places

-----------------------------------------------------------------------------
(* What a step does to the history of a draft row and to a request         *)

\* A stored row is the old one, with a later token if its text has changed, or
\* the next one of its key: over a page that exists, or the first of a new id.
RowHistory(u, p) ==
    /\ rows'[u][p] >= rows[u][p]
    /\ drafts'[u][p] # NoDraft =>
        \/ /\ Held(u, p)
           /\ drafts'[u][p].row = drafts[u][p].row
           /\ \/ drafts'[u][p].updateAt > drafts[u][p].updateAt
              \/ /\ drafts'[u][p].updateAt = drafts[u][p].updateAt
                 /\ drafts'[u][p].text = drafts[u][p].text
        \/ /\ drafts'[u][p].row = rows[u][p] + 1
           /\ rows'[u][p] = rows[u][p] + 1
           /\ (~ Absent(p) /\ pages' = pages) \/ ~ Reserved(p)

\* The publish that brings a page into being leaves no draft of it.
Birth(p) ==
    Absent(p) /\ pages'[p].exists => \A u \in Users : drafts'[u][p] = NoDraft

\* How a request may go on.
Transition(q, step) ==
    \/ step \in {"parent", "insert"} /\ q.step = "target" /\ Absent(q.page) /\ pages' = pages
    \/ step = "patch" /\ Live(q.page)
    \/ step = "baseline" /\ Live(q.page) /\ q.draft.text = 0
    \/ step = "insert" /\ q.step = "parent"
    \/ step = "winner" /\ q.step = "insert" /\ ~ Absent(q.page)
    \/ step = "orphan" /\ q.step = "winner"

RequestStep(r) ==
    reqs'[r] # NoReq =>
        \/ /\ reqs'[r].step = "target"
           /\ reqs'[r].draft = drafts[reqs'[r].user][reqs'[r].page]
           /\ Held(reqs'[r].user, reqs'[r].page)
           /\ drafts' = drafts /\ rows' = rows
        \/ /\ reqs[r] # NoReq
           /\ reqs'[r].user = reqs[r].user
           /\ reqs'[r].page = reqs[r].page
           /\ reqs'[r].draft = reqs[r].draft
           /\ reqs'[r].step = reqs[r].step \/ Transition(reqs[r], reqs'[r].step)

HistoryEffects ==
    /\ \A u \in Users, p \in Pages : RowHistory(u, p)
    /\ \A p \in Pages : Birth(p)
    /\ \A r \in Reqs : RequestStep(r)

(* What follows from these effects.                                         *)
LEMMA RowNumbersStep ==
    ASSUME TypeOK, TypeOK', HistoryEffects, RowNumbers
    PROVE  RowNumbers'
  <1>1. ASSUME NEW u \in Users, NEW p \in Pages, drafts'[u][p] # NoDraft
        PROVE  drafts'[u][p].row <= rows'[u][p]
    <2>1. RowHistory(u, p) /\ rows[u][p] \in Nat /\ rows'[u][p] \in Nat
          /\ drafts'[u][p].row \in Nat
      BY <1>1 DEF HistoryEffects, TypeOK, Draft
    <2>2. Held(u, p) => drafts[u][p].row <= rows[u][p]
      BY DEF RowNumbers
    <2> QED
      BY <1>1, <2>1, <2>2 DEF RowHistory
  <1>2. ASSUME NEW r \in Reqs, reqs'[r] # NoReq
        PROVE  reqs'[r].draft.row <= rows'[reqs'[r].user][reqs'[r].page]
    <2> DEFINE q == reqs'[r]
    <2>1. q.user \in Users /\ q.page \in Pages /\ q.draft.row \in Nat
      BY <1>2 DEF TypeOK, Request, Draft
    <2>2. RequestStep(r) /\ RowHistory(q.user, q.page)
          /\ rows[q.user][q.page] \in Nat /\ rows'[q.user][q.page] \in Nat
      BY <2>1 DEF HistoryEffects, TypeOK
    <2>3. q.draft.row <= rows[q.user][q.page]
      BY <1>2, <2>1, <2>2 DEF RequestStep, RowNumbers
    <2>4. rows'[q.user][q.page] >= rows[q.user][q.page]
      BY <2>2 DEF RowHistory
    <2> HIDE DEF q
    <2>5. q.draft.row <= rows'[q.user][q.page]
      BY <2>1, <2>2, <2>3, <2>4
    <2> QED
      BY <2>5 DEF q
  <1> QED
    BY <1>1, <1>2 DEF RowNumbers

(* A row that a request has read is in store after a step only if it was. *)
LEMMA StoredBefore ==
    ASSUME TypeOK, TypeOK', HistoryEffects, RowNumbers, NEW r \in Reqs,
           reqs[r] # NoReq, reqs'[r] # NoReq,
           reqs'[r].user = reqs[r].user, reqs'[r].page = reqs[r].page,
           reqs'[r].draft = reqs[r].draft, RowStored(r)'
    PROVE  LET q == reqs[r]
               old == drafts[q.user][q.page]
               new == drafts'[q.user][q.page]
           IN  /\ RowStored(r)
               /\ \/ new.updateAt > old.updateAt
                  \/ new.updateAt = old.updateAt /\ new.text = old.text
  <1> DEFINE q == reqs[r]
             old == drafts[q.user][q.page]
             new == drafts'[q.user][q.page]
  <1>1. q.user \in Users /\ q.page \in Pages /\ q.draft.row \in Nat
    BY DEF TypeOK, Request, Draft
  <1>2. RowHistory(q.user, q.page) /\ rows[q.user][q.page] \in Nat
    BY <1>1 DEF HistoryEffects, TypeOK
  <1>3. new # NoDraft /\ new.row = q.draft.row
    BY DEF RowStored
  <1>4. q.draft.row <= rows[q.user][q.page]
    BY DEF RowNumbers
  <1> HIDE DEF q
  <1>5. new.row # rows[q.user][q.page] + 1
    BY <1>1, <1>2, <1>3, <1>4
  <1>6. /\ Held(q.user, q.page) /\ new.row = old.row
        /\ \/ new.updateAt > old.updateAt
           \/ new.updateAt = old.updateAt /\ new.text = old.text
    BY <1>2, <1>3, <1>5 DEF RowHistory
  <1>7. RowStored(r)
    BY <1>3, <1>6 DEF RowStored, q
  <1> QED
    BY <1>6, <1>7 DEF q

LEMMA TokensStep ==
    ASSUME TypeOK, TypeOK', HistoryEffects, RowNumbers, TokensNameTexts
    PROVE  TokensNameTexts'
  <1> SUFFICES ASSUME NEW r \in Reqs, reqs'[r] # NoReq, RowStored(r)'
               PROVE  LET q == reqs'[r]
                          row == drafts'[q.user][q.page]
                      IN  /\ q.draft.updateAt <= row.updateAt
                          /\ q.draft.updateAt = row.updateAt => q.draft.text = row.text
    BY DEF TokensNameTexts
  <1> DEFINE q == reqs'[r]
             old == drafts[q.user][q.page]
             row == drafts'[q.user][q.page]
  <1>1. /\ q.user \in Users /\ q.page \in Pages /\ q.draft \in Draft
        /\ row \in Draft /\ RequestStep(r)
    BY DEF TypeOK, Request, RowStored, HistoryEffects
  <1>2. CASE q.draft = drafts[q.user][q.page] /\ drafts' = drafts
    <2>1. row = q.draft /\ row.updateAt \in Nat
      BY <1>1, <1>2 DEF Draft
    <2> HIDE DEF q, row
    <2>2. q.draft.updateAt <= row.updateAt /\ q.draft.text = row.text
      BY <2>1
    <2> QED
      BY <2>2 DEF q, row
  <1>3. CASE /\ reqs[r] # NoReq
             /\ q.user = reqs[r].user
             /\ q.page = reqs[r].page
             /\ q.draft = reqs[r].draft
    <2>1. /\ RowStored(r)
          /\ \/ row.updateAt > old.updateAt
             \/ row.updateAt = old.updateAt /\ row.text = old.text
      BY <1>3, StoredBefore
    <2>2. /\ q.draft.updateAt <= old.updateAt
          /\ q.draft.updateAt = old.updateAt => q.draft.text = old.text
      BY <1>3, <2>1 DEF TokensNameTexts
    <2>3. old \in Draft
      BY <1>1, <1>3, <2>1 DEF TypeOK, RowStored
    <2>4. row.updateAt \in Nat /\ old.updateAt \in Nat /\ q.draft.updateAt \in Nat
      BY <1>1, <2>3 DEF Draft
    <2> HIDE DEF q, old, row
    <2>5. /\ q.draft.updateAt <= row.updateAt
          /\ q.draft.updateAt = row.updateAt => q.draft.text = row.text
      BY <2>1, <2>2, <2>4
    <2> QED
      BY <2>5 DEF q, row
  <1> QED
    BY <1>1, <1>2, <1>3 DEF RequestStep

LEMMA RequestsKnowStep ==
    ASSUME TypeOK, TypeOK', Effects, HistoryEffects, RowNumbers, RequestsKnowTheirPage
    PROVE  RequestsKnowTheirPage'
  <1> SUFFICES ASSUME NEW r \in Reqs, reqs'[r] # NoReq
               PROVE  LET q == reqs'[r] IN
                      /\ q.step = "baseline" => q.draft.text = 0
                      /\ q.step \in {"patch", "baseline", "winner", "orphan"}
                             => pages'[q.page].exists
                      /\ q.step \in {"parent", "insert", "winner", "orphan"}
                             /\ pages'[q.page].exists => ~ RowStored(r)'
    BY DEF RequestsKnowTheirPage
  <1> DEFINE q == reqs'[r]
  <1>1. q.user \in Users /\ q.page \in Pages /\ RequestStep(r) /\ Birth(q.page)
        /\ PageEffect(q.page)
    BY DEF TypeOK, Request, HistoryEffects, Effects
  <1>2. pages[q.page].exists => pages'[q.page].exists
    BY <1>1 DEF PageEffect, PageKept
  <1>3. CASE q.step = "target"
    BY <1>3
  <1>4. CASE /\ reqs[r] # NoReq
             /\ q.user = reqs[r].user
             /\ q.page = reqs[r].page
             /\ q.draft = reqs[r].draft
             /\ q.step = reqs[r].step \/ Transition(reqs[r], q.step)
    <2>0. /\ reqs[r].step = "baseline" => reqs[r].draft.text = 0
          /\ reqs[r].step \in {"patch", "baseline", "winner", "orphan"} => ~ Absent(q.page)
          /\ reqs[r].step \in {"parent", "insert", "winner", "orphan"} /\ ~ Absent(q.page)
                 => ~ RowStored(r)
      BY <1>4 DEF RequestsKnowTheirPage
    <2>1. q.step = "baseline" => q.draft.text = 0
      BY <1>4, <2>0 DEF Transition
    <2>2. q.step \in {"patch", "baseline", "winner", "orphan"} => ~ Absent(q.page)
      BY <1>4, <2>0 DEF Transition
    <2>3. ASSUME q.step \in {"parent", "insert", "winner", "orphan"}, pages'[q.page].exists,
                 RowStored(r)'
          PROVE  FALSE
      <3>1. CASE Absent(q.page)
        <4>1. drafts'[q.user][q.page] = NoDraft
          BY <1>1, <2>3, <3>1 DEF Birth
        <4> QED
          BY <2>3, <4>1 DEF RowStored
      <3>2. CASE ~ Absent(q.page)
        <4>1. RowStored(r)
          BY <1>4, <2>3, StoredBefore
        <4>2. reqs[r].step \in {"parent", "insert", "winner", "orphan"}
          BY <1>4, <2>3, <3>2 DEF Transition
        <4> QED
          BY <2>0, <3>2, <4>1, <4>2
      <3> QED
        BY <3>1, <3>2
    <2> QED
      BY <1>2, <2>1, <2>2, <2>3
  <1> QED
    BY <1>1, <1>3, <1>4 DEF RequestStep

LEMMA DiscardedStep ==
    ASSUME TypeOK, TypeOK', Effects, HistoryEffects, ReservedIds,
           DiscardedNewPageStaysDiscarded
    PROVE  DiscardedNewPageStaysDiscarded'
  <1> SUFFICES ASSUME NEW u \in Users, NEW p \in Pages, drafts'[u][p] # NoDraft,
                      ~ pages'[p].exists
               PROVE  drafts'[u][p].row = 1
    BY DEF DiscardedNewPageStaysDiscarded
  <1>1. RowHistory(u, p) /\ PageEffect(p)
    BY DEF HistoryEffects, Effects
  <1>2. Absent(p)
    BY <1>1 DEF PageEffect, PageKept
  <1>3. Held(u, p) => drafts[u][p].row = 1
    BY <1>2 DEF DiscardedNewPageStaysDiscarded
  <1>4. ~ Reserved(p) => rows[u][p] = 0
    BY DEF ReservedIds
  <1> QED
    BY <1>1, <1>2, <1>3, <1>4 DEF RowHistory

(* The parts of a step that leave the history alone. *)
LEMMA HistoryKept ==
    ASSUME TypeOK, UNCHANGED rows,
           \A u \in Users, p \in Pages : drafts'[u][p] # NoDraft =>
               /\ Held(u, p)
               /\ drafts'[u][p].row = drafts[u][p].row
               /\ \/ drafts'[u][p].updateAt > drafts[u][p].updateAt
                  \/ /\ drafts'[u][p].updateAt = drafts[u][p].updateAt
                     /\ drafts'[u][p].text = drafts[u][p].text
    PROVE  \A u \in Users, p \in Pages : RowHistory(u, p)
  <1>1. \A u \in Users, p \in Pages : rows'[u][p] >= rows[u][p]
    BY DEF TypeOK
  <1> QED
    BY <1>1 DEF RowHistory

LEMMA RowsDropped ==
    ASSUME TypeOK, UNCHANGED rows,
           drafts' = drafts \/ \E u \in Users, p \in Pages : drafts' = WithoutDraft(u, p)
    PROVE  \A u \in Users, p \in Pages : RowHistory(u, p)
  <1>1. \A v \in Users, q \in Pages : drafts'[v][q] # NoDraft => drafts'[v][q] = drafts[v][q]
    <2>1. ASSUME NEW u \in Users, NEW p \in Pages, drafts' = WithoutDraft(u, p)
          PROVE  \A v \in Users, q \in Pages :
                     drafts'[v][q] # NoDraft => drafts'[v][q] = drafts[v][q]
      BY <2>1 DEF WithoutDraft, TypeOK
    <2> QED
      BY <2>1
  <1> QED
    BY <1>1, HistoryKept

LEMMA NoBirth ==
    ASSUME \A p \in Pages : pages'[p].exists => pages[p].exists
    PROVE  \A p \in Pages : Birth(p)
  BY DEF Birth

LEMMA RequestsKept ==
    ASSUME UNCHANGED reqs
    PROVE  \A r \in Reqs : RequestStep(r)
  BY DEF RequestStep

LEMMA RequestMoves ==
    ASSUME TypeOK, NEW r \in Reqs,
           \/ Return(r)
           \/ reqs[r] # NoReq /\ \E step \in Steps : Continue(r, step) /\ Transition(reqs[r], step)
    PROVE  \A s \in Reqs : RequestStep(s)
  <1>1. CASE Return(r)
    BY <1>1 DEF RequestStep, TypeOK
  <1>2. ASSUME reqs[r] # NoReq, NEW step \in Steps, Continue(r, step),
               Transition(reqs[r], step)
        PROVE  \A s \in Reqs : RequestStep(s)
    <2>1. reqs[r] \in Request
      BY <1>2 DEF TypeOK
    <2>2. reqs'[r] = [reqs[r] EXCEPT !.step = step] /\ \A s \in Reqs \ {r} : reqs'[s] = reqs[s]
      BY <1>2 DEF TypeOK
    <2>3. reqs'[r].user = reqs[r].user /\ reqs'[r].page = reqs[r].page
          /\ reqs'[r].draft = reqs[r].draft /\ reqs'[r].step = step
      BY <2>1, <2>2 DEF Request
    <2> QED
      BY <1>2, <2>2, <2>3 DEF RequestStep
  <1> QED
    BY <1>1, <1>2

(* A row inserted over a page that exists is the next one of its key. *)
LEMMA InsertHistory ==
    ASSUME TypeOK, NEW u \in Users, NEW p \in Pages, NEW now \in Nat,
           NEW i \in 1 .. Len(sessions[u][p]), NEW text \in Nat,
           InsertDraft(u, p, i, text, now), ~ Absent(p), UNCHANGED pages
    PROVE  \A v \in Users, q \in Pages : RowHistory(v, q)
  <1>1. /\ drafts'[u][p].row = rows[u][p] + 1 /\ rows'[u][p] = rows[u][p] + 1
        /\ \A v \in Users, q \in Pages : v # u \/ q # p =>
               rows'[v][q] = rows[v][q] /\ drafts'[v][q] = drafts[v][q]
    BY InsertedRow, InsertType
  <1>2. \A v \in Users, q \in Pages : rows[v][q] \in Nat
    BY DEF TypeOK
  <1>3. RowHistory(u, p)
    BY <1>1, <1>2 DEF RowHistory
  <1>4. \A v \in Users, q \in Pages : v # u \/ q # p => RowHistory(v, q)
    BY <1>1, <1>2 DEF RowHistory
  <1> QED
    BY <1>3, <1>4

(* The history in the steps of the editor, of autosave and of discard. *)
LEMMA DraftStepHistory ==
    ASSUME PlacesInv, NEW u \in Users, NEW p \in Pages, DraftStep(u, p)
    PROVE  HistoryEffects
  <1>t. TypeOK
    BY DEF PlacesInv, PublishInv
  <1>r. ClockReads \subseteq Nat
    BY <1>t, ClockReadsPositive DEF TypeOK
  <1>1. CASE OpenEditor(u, p)
    <2>1. UNCHANGED <<pages, drafts, reqs, rows>>
      BY <1>1 DEF OpenEditor
    <2> QED
      BY <1>t, <2>1, RowsDropped, NoBirth, RequestsKept DEF HistoryEffects
  <1>2. ASSUME NEW now \in ClockReads, DiscardDraft(u, p, now)
        PROVE  HistoryEffects
    <2>1. UNCHANGED <<pages, reqs, rows>> /\ now \in Nat /\ drafts[u][p] \in Draft
      BY <1>t, <1>2, <1>r DEF DiscardDraft, TypeOK
    <2>2. ASSUME NEW v \in Users, NEW q \in Pages, drafts'[v][q] # NoDraft
          PROVE  /\ Held(v, q)
                 /\ drafts'[v][q].row = drafts[v][q].row
                 /\ \/ drafts'[v][q].updateAt > drafts[v][q].updateAt
                    \/ /\ drafts'[v][q].updateAt = drafts[v][q].updateAt
                       /\ drafts'[v][q].text = drafts[v][q].text
      <3> DEFINE parent == drafts[u][p].parentId
                 moved == ReparentedBelow(p, parent, drafts[v][q], now)
      <3>1. parent \in ParentIds
        BY <2>1 DEF Draft
      <3>2. moved # NoDraft =>
                /\ Held(v, q) /\ moved.row = drafts[v][q].row
                /\ moved = drafts[v][q] \/ moved.updateAt > drafts[v][q].updateAt
        BY <1>t, <2>1, <3>1, ReparentedRow DEF TypeOK
      <3>3. drafts'[v][q] \in {NoDraft, drafts[v][q], moved}
        BY <1>t, <1>2 DEF DiscardDraft, TypeOK
      <3> HIDE DEF moved
      <3> QED
        BY <2>2, <3>2, <3>3
    <2>3. \A v \in Users, q \in Pages : RowHistory(v, q)
      BY <1>t, <2>1, <2>2, HistoryKept
    <2> QED
      BY <2>1, <2>3, NoBirth, RequestsKept DEF HistoryEffects
  <1>3. ASSUME NEW now \in ClockReads, NEW parent \in ParentIds,
               CreateSpaceDraft(u, p, parent, now)
        PROVE  HistoryEffects
    <2> DEFINE row == [updateAt |-> now, baseEditAt |-> 0, parentId |-> parent,
                       text |-> texts + 1, opener |-> 1, writer |-> 1,
                       row |-> rows[u][p] + 1]
    <2>1. /\ UNCHANGED <<pages, reqs>> /\ ~ Reserved(p)
          /\ drafts' = [drafts EXCEPT ![u][p] = row]
          /\ rows' = [rows EXCEPT ![u][p] = rows[u][p] + 1]
      BY <1>3 DEF CreateSpaceDraft, Reserved
    <2>2. row.row = rows[u][p] + 1
      OBVIOUS
    <2> HIDE DEF row
    <2>3. /\ drafts'[u][p] = row /\ rows'[u][p] = rows[u][p] + 1
          /\ \A v \in Users, q \in Pages : v # u \/ q # p =>
                 rows'[v][q] = rows[v][q] /\ drafts'[v][q] = drafts[v][q]
      BY <1>t, <2>1 DEF TypeOK
    <2>4. \A v \in Users, q \in Pages : RowHistory(v, q)
      <3>1. \A v \in Users, q \in Pages : rows[v][q] \in Nat
        BY <1>t DEF TypeOK
      <3>2. RowHistory(u, p)
        BY <2>1, <2>2, <2>3, <3>1 DEF RowHistory
      <3>3. \A v \in Users, q \in Pages : v # u \/ q # p => RowHistory(v, q)
        BY <2>3, <3>1 DEF RowHistory
      <3> QED
        BY <3>2, <3>3
    <2> QED
      BY <2>1, <2>4, NoBirth, RequestsKept DEF HistoryEffects
  <1>4. ASSUME NEW now \in ClockReads, NEW i \in 1 .. Len(sessions[u][p]),
               NEW text \in {0, texts + 1}, UpdatePageDraft(u, p, i, text, now)
        PROVE  HistoryEffects
    <2>0. /\ UNCHANGED <<pages, reqs>>
          /\ now \in Nat /\ text \in Nat /\ i \in Nat \ {0}
      BY <1>t, <1>4, <1>r DEF UpdatePageDraft, TypeOK
    <2>1. CASE EstablishDraft(u, p, i, text, now)
      <3>1. InsertDraft(u, p, i, text, now) /\ ~ Absent(p)
        BY <2>1 DEF EstablishDraft, MayEstablish
      <3>2. \A v \in Users, q \in Pages : RowHistory(v, q)
        BY <1>t, <2>0, <3>1, InsertHistory
      <3> QED
        BY <2>0, <3>2, NoBirth, RequestsKept DEF HistoryEffects
    <2>2. CASE FindDraft(u, p, i, text, now)
      BY <1>t, <2>0, <2>2, RowsDropped, NoBirth, RequestsKept DEF HistoryEffects, FindDraft
    <2> QED
      BY <1>4, <2>1, <2>2 DEF UpdatePageDraft
  <1> QED
    BY <1>1, <1>2, <1>3, <1>4 DEF DraftStep

(* The history in the write of a save. *)
LEMMA FinishSaveHistory ==
    ASSUME PlacesInv, FinishSave
    PROVE  HistoryEffects
  <1>1. PICK u, p, i, text, now :
            /\ u = save.user /\ p = save.page /\ i = save.session
            /\ text = save.text /\ now = save.now
    OBVIOUS
  <1>2. /\ TypeOK /\ u \in Users /\ p \in Pages /\ i \in 1 .. Len(sessions[u][p])
        /\ text \in Nat /\ now \in Nat /\ i \in Nat \ {0}
        /\ Shown(p) \/ Held(u, p)
    BY <1>1, SaveTyped DEF FinishSave, PlacesInv, PublishInv, Places, SavesOfShownPages
  <1>3. UpsertDraft(u, p, i, text, now) /\ UNCHANGED <<pages, reqs>>
    BY <1>1 DEF FinishSave, UpsertDraft
  <1>4. CASE ~ Held(u, p) /\ InsertDraft(u, p, i, text, now)
    <2>1. ~ Absent(p)
      BY <1>2, <1>4 DEF Shown
    <2>2. \A v \in Users, q \in Pages : RowHistory(v, q)
      BY <1>2, <1>3, <1>4, <2>1, InsertHistory
    <2> QED
      BY <1>3, <2>2, NoBirth, RequestsKept DEF HistoryEffects
  <1>5. CASE /\ Held(u, p) /\ UNCHANGED rows
             /\ drafts' = [drafts EXCEPT ![u][p] = Merged(drafts[u][p], i, text, now)]
    <2> DEFINE row == Merged(drafts[u][p], i, text, now)
    <2>1. drafts[u][p] \in Draft
      BY <1>2, <1>5 DEF TypeOK
    <2>2. row.row = drafts[u][p].row /\ row.updateAt > drafts[u][p].updateAt
      <3>1. text \in Nat /\ now \in Nat /\ i \in Nat \ {0}
        BY <1>2
      <3> QED
        BY <2>1, <3>1, MergedRow
    <2> HIDE DEF row
    <2>3. /\ drafts'[u][p] = row
          /\ \A v \in Users, q \in Pages : v # u \/ q # p => drafts'[v][q] = drafts[v][q]
      BY <1>2, <1>5 DEF TypeOK, row
    <2>4. \A v \in Users, q \in Pages : RowHistory(v, q)
      BY <1>2, <1>5, <2>2, <2>3, HistoryKept
    <2> QED
      BY <1>3, <2>4, NoBirth, RequestsKept DEF HistoryEffects
  <1> QED
    BY <1>3, <1>4, <1>5 DEF UpsertDraft

(* The history in the steps of a publish request. *)
LEMMA PublishStepHistory ==
    ASSUME PlacesInv, NEW r \in Reqs, PublishStep(r)
    PROVE  HistoryEffects
  <1>t. TypeOK
    BY DEF PlacesInv, PublishInv
  <1>1. ASSUME NEW u \in Users, NEW p \in Pages, NEW force \in BOOLEAN,
               ReadDraft(r, u, p, force)
        PROVE  HistoryEffects
    <2> DEFINE q == [step |-> "target", user |-> u, page |-> p, force |-> force,
                     draft |-> drafts[u][p]]
    <2>1. UNCHANGED <<pages, drafts, rows>> /\ Held(u, p) /\ reqs' = [reqs EXCEPT ![r] = q]
      BY <1>1 DEF ReadDraft, Visible
    <2>2. q.step = "target" /\ q.user = u /\ q.page = p /\ q.draft = drafts[u][p]
      OBVIOUS
    <2> HIDE DEF q
    <2>3. reqs'[r] = q /\ \A s \in Reqs \ {r} : reqs'[s] = reqs[s]
      BY <1>t, <2>1 DEF TypeOK
    <2>4. \A s \in Reqs : RequestStep(s)
      BY <2>1, <2>2, <2>3 DEF RequestStep
    <2> QED
      BY <1>t, <2>1, <2>4, RowsDropped, NoBirth DEF HistoryEffects
  <1>2. CASE DeriveTarget(r) \/ ProbeParent(r) \/ PublishNewFails(r) \/ PublishEditFails(r)
             \/ ReadWinner(r)
    <2>1. UNCHANGED <<pages, drafts, rows>>
      BY <1>2 DEF DeriveTarget, ProbeParent, PublishNewFails, PublishEditFails, ReadWinner
    <2>2. \/ Return(r)
          \/ reqs[r] # NoReq /\ \E step \in Steps : Continue(r, step) /\ Transition(reqs[r], step)
      <3>1. CASE DeriveTarget(r)
        BY <3>1 DEF DeriveTarget, Steps, Transition
      <3>2. CASE ProbeParent(r)
        BY <3>2 DEF ProbeParent, Steps, Transition
      <3>3. CASE PublishNewFails(r)
        BY <3>3 DEF PublishNewFails, Steps, Transition
      <3>4. CASE PublishEditFails(r)
        BY <3>4 DEF PublishEditFails
      <3>5. CASE ReadWinner(r)
        BY <3>5 DEF ReadWinner, Steps, Transition
      <3> QED
        BY <1>2, <3>1, <3>2, <3>3, <3>4, <3>5
    <2>3. \A s \in Reqs : RequestStep(s)
      BY <1>t, <2>2, RequestMoves
    <2> QED
      BY <1>t, <2>1, <2>3, RowsDropped, NoBirth DEF HistoryEffects
  <1>3. CASE PublishNew(r)
    <2> DEFINE q == reqs[r]
    <2>1. q # NoReq /\ q.user \in Users /\ q.page \in Pages
      BY <1>t, <1>3 DEF PublishNew, TypeOK, Request
    <2>2. /\ \A p \in Pages \ {q.page} : pages'[p] = pages[p]
          /\ Absent(q.page) /\ drafts' = WithoutDraft(q.user, q.page)
          /\ Return(r) /\ UNCHANGED rows
      BY <1>t, <1>3, <2>1 DEF PublishNew, ConsumeDraft, TypeOK
    <2>3. \A p \in Pages : Birth(p)
      <3>1. ASSUME NEW u \in Users, Held(u, q.page)
            PROVE  u = q.user
        <4>1. sessions[u][q.page] # <<>> /\ sessions[q.user][q.page] # <<>>
          BY <2>1, <3>1, DraftsReserve DEF PlacesInv
        <4> QED
          BY <2>1, <2>2, <4>1 DEF PlacesInv, Places, ReservedIds
      <3>2. \A u \in Users : drafts'[u][q.page] = NoDraft
        BY <1>t, <2>1, <2>2, <3>1 DEF WithoutDraft, TypeOK
      <3> QED
        BY <2>2, <3>2 DEF Birth
    <2>4. \A s \in Reqs : RequestStep(s)
      BY <1>t, <2>2, RequestMoves
    <2>5. \A u \in Users, p \in Pages : RowHistory(u, p)
      BY <1>t, <2>1, <2>2, RowsDropped
    <2> QED
      BY <2>3, <2>4, <2>5 DEF HistoryEffects
  <1>4. CASE PublishEdit(r)
    <2> DEFINE q == reqs[r]
    <2>1. q \in Request /\ q.user \in Users /\ q.page \in Pages /\ q.draft.text \in Nat
      BY <1>t, <1>4 DEF PublishEdit, TypeOK, Request, Draft
    <2>2. /\ pages' = [pages EXCEPT ![q.page] = Patched(q.page, q.draft.text)]
          /\ drafts' = WithoutDraft(q.user, q.page) /\ Return(r) /\ UNCHANGED rows
      BY <1>4 DEF PublishEdit, ConsumeDraft
    <2>3. Patched(q.page, q.draft.text).exists = pages[q.page].exists
      BY <1>t, <2>1, PatchedRow
    <2>4. \A p \in Pages : pages'[p].exists => pages[p].exists
      BY <1>t, <2>1, <2>2, <2>3 DEF TypeOK
    <2>5. \A s \in Reqs : RequestStep(s)
      BY <1>t, <2>2, RequestMoves
    <2>6. \A u \in Users, p \in Pages : RowHistory(u, p)
      BY <1>t, <2>1, <2>2, RowsDropped
    <2> QED
      BY <2>4, <2>5, <2>6, NoBirth DEF HistoryEffects
  <1>5. CASE DiscardBaselineOnly(r) \/ DropOrphan(r)
    <2>1. UNCHANGED <<pages, rows>> /\ reqs[r] # NoReq /\ DropVersion(reqs[r]) /\ Return(r)
      BY <1>5 DEF DiscardBaselineOnly, DropOrphan
    <2>2. reqs[r].user \in Users /\ reqs[r].page \in Pages
      BY <1>t, <2>1 DEF TypeOK, Request
    <2>3. \A s \in Reqs : RequestStep(s)
      BY <1>t, <2>1, RequestMoves
    <2>4. \A u \in Users, p \in Pages : RowHistory(u, p)
      BY <1>t, <2>1, <2>2, RowsDropped DEF DropVersion
    <2> QED
      BY <2>1, <2>3, <2>4, NoBirth DEF HistoryEffects
  <1> QED
    BY <1>1, <1>2, <1>3, <1>4, <1>5 DEF PublishStep

(* The history in the other steps: only a delete of a page touches drafts. *)
LEMMA PageStepHistory ==
    ASSUME TypeOK, NEW p \in Pages, PageStep(p)
    PROVE  HistoryEffects
  <1>r. ClockReads \subseteq Nat
    BY ClockReadsPositive DEF TypeOK
  <1>e. UNCHANGED <<reqs, rows>> /\ (UNCHANGED drafts \/ \E now \in ClockReads : DeletePage(p, now))
    BY DEF PageStep, UpdatePage, RestorePage, DeletePage
  <1>1. \A q \in Pages : pages'[q].exists => pages[q].exists
    <2>1. ASSUME NEW u \in Users, NEW force \in BOOLEAN, NEW i \in 1 .. Len(sessions[u][p]),
                 UpdatePage(u, p, i, force)
          PROVE  \A q \in Pages : pages'[q].exists => pages[q].exists
      BY <2>1 DEF UpdatePage, MayPatch, TypeOK
    <2>2. ASSUME NEW now \in ClockReads, DeletePage(p, now)
          PROVE  \A q \in Pages : pages'[q].exists => pages[q].exists
      BY <2>2, <1>r, DeletePageRows
    <2>3. ASSUME NEW now \in ClockReads, RestorePage(p, now)
          PROVE  \A q \in Pages : pages'[q].exists => pages[q].exists
      BY <2>3 DEF RestorePage, TypeOK
    <2> QED
      BY <2>1, <2>2, <2>3 DEF PageStep
  <1>2. \A u \in Users, q \in Pages : RowHistory(u, q)
    <2>1. CASE UNCHANGED drafts
      BY <1>e, <2>1, RowsDropped
    <2>2. ASSUME NEW now \in ClockReads, DeletePage(p, now)
          PROVE  \A u \in Users, q \in Pages : RowHistory(u, q)
      <3>1. ASSUME NEW v \in Users, NEW q \in Pages, drafts'[v][q] # NoDraft
            PROVE  /\ Held(v, q)
                   /\ drafts'[v][q].row = drafts[v][q].row
                   /\ \/ drafts'[v][q].updateAt > drafts[v][q].updateAt
                      \/ /\ drafts'[v][q].updateAt = drafts[v][q].updateAt
                         /\ drafts'[v][q].text = drafts[v][q].text
        <4> DEFINE moved == ReparentedBelow(p, pages[p].parentId, drafts[v][q], now)
        <4>1. pages[p].parentId \in ParentIds /\ drafts[v][q] \in Draft \cup {NoDraft}
              /\ now \in Nat
          <5>1. pages[p] \in Page /\ drafts[v][q] \in Draft \cup {NoDraft}
            BY DEF TypeOK
          <5> QED
            BY <1>r, <5>1 DEF Page
        <4>2. moved # NoDraft =>
                  /\ Held(v, q) /\ moved.row = drafts[v][q].row
                  /\ moved = drafts[v][q] \/ moved.updateAt > drafts[v][q].updateAt
          BY <4>1, ReparentedRow
        <4>3. drafts'[v][q] \in {NoDraft, moved}
          BY <2>2 DEF DeletePage, DraftsAfterDelete
        <4> HIDE DEF moved
        <4> QED
          BY <3>1, <4>2, <4>3
      <3> QED
        BY <1>e, <3>1, HistoryKept
    <2> QED
      BY <1>e, <2>1, <2>2
  <1> QED
    BY <1>e, <1>1, <1>2, NoBirth, RequestsKept DEF HistoryEffects

LEMMA SpaceStepHistory ==
    ASSUME TypeOK, SpaceStep
    PROVE  HistoryEffects
  <1>1. UNCHANGED <<drafts, reqs, rows>>
    BY DEF SpaceStep, DeleteSpace, RestoreSpace
  <1>2. \A p \in Pages : pages'[p].exists => pages[p].exists
    <2>1. ASSUME NEW ps, NEW deleteAt, NEW stamp, pages' = Stamped(ps, deleteAt, stamp),
                 NEW p \in Pages, pages'[p].exists
          PROVE  pages[p].exists
      <3>1. pages[p] \in Page
        BY DEF TypeOK
      <3>2. pages'[p] = IF p \in ps THEN Restamped(pages[p], deleteAt, stamp) ELSE pages[p]
        BY <2>1 DEF Stamped
      <3> QED
        BY <2>1, <3>1, <3>2 DEF Restamped, Page
    <2> QED
      BY <2>1 DEF SpaceStep, DeleteSpace, RestoreSpace
  <1> QED
    BY <1>1, <1>2, RowsDropped, NoBirth, RequestsKept DEF HistoryEffects

-----------------------------------------------------------------------------
(* The inductive invariant                                                 *)

(* Every step keeps the places. *)
LEMMA StepPlaces ==
    ASSUME RowsInv, TypeOK', Effects, [Next]_vars
    PROVE  Places'
  <1>0. PlacesInv /\ PublishInv /\ Places /\ TypeOK /\ SaveEffect
    BY SaveEffects DEF RowsInv, PlacesInv, PublishInv
  <1>r. ClockReads \subseteq Nat \ {0}
    BY <1>0, ClockReadsPositive DEF TypeOK
  <1>1. CASE Tick \/ UNCHANGED vars
    <2>1. UNCHANGED <<spaceDeleteAt, pages, drafts, sessions, rows>>
      BY <1>1 DEF Tick, vars
    <2> QED
      BY <1>0, <2>1, RequestOnlyPlaces, PlacesFromEffects
  <1>2. ASSUME NEW u \in Users, NEW p \in Pages, DraftStep(u, p)
        PROVE  Places'
    <2>1. CASE OpenEditor(u, p)
      BY <1>0, <2>1, OpenEditorPlaces, PlacesFromEffects
    <2>2. ASSUME NEW now \in ClockReads, DiscardDraft(u, p, now)
          PROVE  Places'
      BY <1>0, <1>r, <2>2, DiscardPlaces
    <2>3. ASSUME NEW now \in ClockReads, NEW parent \in ParentIds \ {p},
                 CreateSpaceDraft(u, p, parent, now)
          PROVE  Places'
      BY <1>0, <1>r, <2>3, CreatePlaces
    <2>4. ASSUME NEW now \in ClockReads, NEW i \in 1 .. Len(sessions[u][p]),
                 NEW text \in {0, texts + 1}, UpdatePageDraft(u, p, i, text, now)
          PROVE  Places'
      <3>1. now \in Nat /\ i \in Nat \ {0} /\ text \in Nat
        BY <1>0, <1>r DEF TypeOK
      <3>2. PlaceEffects
        BY <1>0, <2>4, <3>1, SavePlaces
      <3> QED
        BY <1>0, <3>2, PlacesFromEffects
    <2> QED
      BY <1>2, <2>1, <2>2, <2>3, <2>4 DEF DraftStep
  <1>3. ASSUME NEW r \in Reqs, PublishStep(r)
        PROVE  Places'
    <2>1. CASE PublishNew(r)
      BY <1>0, <2>1, PublishNewPlaces, PlacesFromEffects
    <2>2. CASE PublishEdit(r)
      BY <1>0, <2>2, PublishEditPlaces, PlacesFromEffects DEF Places
    <2>3. CASE DiscardBaselineOnly(r) \/ DropOrphan(r)
      <3>1. /\ reqs[r] \in Request /\ DropVersion(reqs[r])
            /\ UNCHANGED <<spaceDeleteAt, pages, sessions, rows>>
        BY <1>0, <2>3 DEF DiscardBaselineOnly, DropOrphan, TypeOK
      <3>2. ~ Absent(reqs[r].page)
        BY <2>3 DEF DiscardBaselineOnly, DropOrphan, RowsInv, RequestsKnowTheirPage
      <3>3. PlaceEffects
        BY <1>0, <3>1, <3>2, DropPlaces DEF Places
      <3> QED
        BY <1>0, <3>3, PlacesFromEffects
    <2>4. CASE ~ (PublishNew(r) \/ PublishEdit(r) \/ DiscardBaselineOnly(r) \/ DropOrphan(r))
      <3>1. UNCHANGED <<spaceDeleteAt, pages, drafts, sessions, rows>>
        BY <1>3, <2>4 DEF PublishStep, ReadDraft, DeriveTarget, ProbeParent, PublishNewFails,
           PublishEditFails, ReadWinner
      <3> QED
        BY <1>0, <3>1, RequestOnlyPlaces, PlacesFromEffects
    <2> QED
      BY <2>1, <2>2, <2>3, <2>4
  <1>4. ASSUME NEW p \in Pages, PageStep(p)
        PROVE  Places'
    <2>1. ASSUME NEW u \in Users, NEW force \in BOOLEAN, NEW i \in 1 .. Len(sessions[u][p]),
                 UpdatePage(u, p, i, force)
          PROVE  Places'
      BY <1>0, <2>1, UpdatePagePlaces, PlacesFromEffects
    <2>2. ASSUME NEW now \in ClockReads, DeletePage(p, now)
          PROVE  Places'
      BY <1>0, <1>r, <2>2, DeletePagePlaces
    <2>3. ASSUME NEW now \in ClockReads, RestorePage(p, now)
          PROVE  Places'
      BY <1>0, <1>r, <2>3, RestorePagePlaces, PlacesFromEffects
    <2> QED
      BY <1>4, <2>1, <2>2, <2>3 DEF PageStep
  <1>5. CASE SpaceStep
    <2>1. ASSUME NEW stamp \in 1 .. MaxStamp, DeleteSpace(stamp)
          PROVE  Places'
      <3>1. stamp \in Nat \ {0}
        BY ParamsAssumption
      <3> QED
        BY <1>0, <2>1, <3>1, DeleteSpacePlaces, PlacesFromEffects
    <2>2. ASSUME NEW now \in ClockReads, RestoreSpace(now)
          PROVE  Places'
      BY <1>0, <1>r, <2>2, RestoreSpacePlaces, PlacesFromEffects DEF Places
    <2> QED
      BY <1>5, <2>1, <2>2 DEF SpaceStep
  <1>6. CASE FinishSave
    BY <1>0, <1>6, FinishSavePlaces, PlacesFromEffects DEF Places
  <1> QED
    BY <1>1, <1>2, <1>3, <1>4, <1>5, <1>6 DEF Next

(* Every step has only the listed effects on the history. *)
LEMMA StepHistory ==
    ASSUME PlacesInv, [Next]_vars
    PROVE  HistoryEffects
  <1>0. TypeOK
    BY DEF PlacesInv, PublishInv
  <1>1. CASE Tick \/ UNCHANGED vars
    <2>1. UNCHANGED <<pages, drafts, reqs, rows>>
      BY <1>1 DEF Tick, vars
    <2> QED
      BY <1>0, <2>1, RowsDropped, NoBirth, RequestsKept DEF HistoryEffects
  <1> QED
    BY <1>0, <1>1, DraftStepHistory, FinishSaveHistory, PublishStepHistory, PageStepHistory,
       SpaceStepHistory DEF Next

LEMMA InitRows == Init => RowsInv
  <1> SUFFICES ASSUME Init PROVE RowsInv
    OBVIOUS
  <1>1. PublishInv
    BY InitInv
  <1>2. ParentsAreOlder
    <2>1. [p \in Pages |-> 0] \in [Pages -> Nat]
      OBVIOUS
    <2>2. \A p, x \in Pages : ~ HangsBelow(p, x)
      BY DEF Init, HangsBelow
    <2> QED
      BY <2>1, <2>2 DEF ParentsAreOlder, Ranks
  <1>3. ReservedIds
    BY DEF Init, ReservedIds
  <1>4. /\ DeletedSpaceIsDead /\ DraftsOfShownPages /\ PagesBelowShown /\ DraftsAnchored
        /\ SavesOfShownPages
    BY DEF Init, DeletedSpaceIsDead, DraftsOfShownPages, PagesBelowShown, DraftsAnchored, Shown,
       SavesOfShownPages
  <1>5. RowNumbers /\ TokensNameTexts /\ RequestsKnowTheirPage /\ DiscardedNewPageStaysDiscarded
    BY DEF Init, RowNumbers, TokensNameTexts, RequestsKnowTheirPage,
       DiscardedNewPageStaysDiscarded
  <1> QED
    BY <1>1, <1>2, <1>3, <1>4, <1>5 DEF RowsInv, PlacesInv, Places

LEMMA StepRows == RowsInv /\ [Next]_vars => RowsInv'
  <1> SUFFICES ASSUME RowsInv, [Next]_vars PROVE RowsInv'
    OBVIOUS
  <1>1. PlacesInv /\ PublishInv /\ Places /\ TypeOK /\ SavesBySessions
    BY DEF RowsInv, PlacesInv, PublishInv
  <1>2. PublishInv' /\ TypeOK'
    BY <1>1, StepInv, StepType
  <1>3. Effects /\ HistoryEffects
    BY <1>1, StepEffects, StepHistory
  <1>4. Places'
    BY <1>2, <1>3, StepPlaces
  <1>5. RowNumbers' /\ TokensNameTexts' /\ RequestsKnowTheirPage'
    BY <1>1, <1>2, <1>3, RowNumbersStep, TokensStep, RequestsKnowStep DEF RowsInv
  <1>6. DiscardedNewPageStaysDiscarded'
    BY <1>1, <1>2, <1>3, DiscardedStep DEF RowsInv, Places
  <1> QED
    BY <1>2, <1>4, <1>5, <1>6 DEF RowsInv, PlacesInv

(* Pages and drafts keep their places, and requests know what they have read, *)
(* through every interleaving of autosaves, publishes, deletes and restores.  *)
THEOREM RowsInvariant == Spec => []RowsInv
  BY InitRows, StepRows, PTL DEF Spec

-----------------------------------------------------------------------------
(* What follows from it                                                    *)

(* While the space is live no save is stranded on a deleted page.           *)
THEOREM DraftsOutliveNoPage == Spec => []NoDraftOfDeletedPage
  <1>1. RowsInv => NoDraftOfDeletedPage
    BY DEF RowsInv, PlacesInv, Places, DraftsOfShownPages, NoDraftOfDeletedPage, Shown, Visible
  <1> QED
    BY <1>1, RowsInvariant, PTL

(* A pending page always hangs below the root, a live page or a draft of its *)
(* owner.                                                                    *)
THEOREM PendingPagesAreReachable == Spec => []DraftParentsLive
  <1>1. RowsInv => DraftParentsLive
    <2> SUFFICES ASSUME RowsInv, SpaceLive, NEW u \in Users, NEW p \in Pages, Held(u, p)
                 PROVE  DraftParentOK(u, drafts[u][p].parentId)
      BY DEF DraftParentsLive
    <2> DEFINE x == drafts[u][p].parentId
    <2>1. Anchored(u, x) /\ x \in ParentIds
      BY DEF RowsInv, PlacesInv, Places, DraftsAnchored, PublishInv, TypeOK, Draft
    <2>2. x \in Pages /\ Held(u, x) => Absent(x) \/ Shown(x)
      BY DEF RowsInv, PlacesInv, Places, DraftsOfShownPages
    <2> HIDE DEF x
    <2>3. DraftParentOK(u, x)
      BY <2>1, <2>2 DEF DraftParentOK, LiveParent, Visible, Anchored, Shown, ParentIds
    <2> QED
      BY <2>3 DEF x
  <1> QED
    BY <1>1, RowsInvariant, PTL

(* The discarded draft of a new page never comes back.                      *)
THEOREM DiscardIsFinal == Spec => []DiscardedNewPageStaysDiscarded
  <1>1. RowsInv => DiscardedNewPageStaysDiscarded
    BY DEF RowsInv
  <1> QED
    BY <1>1, RowsInvariant, PTL

(* Only a step of the request itself takes a row on its behalf. *)
LEMMA TakenByIsPublishStep ==
    ASSUME TypeOK, [Next]_vars, NEW r \in Reqs, NEW u, NEW p, TakenBy(r, u, p)
    PROVE  PublishStep(r) /\ drafts' # drafts
  <1>1. reqs'[r] # reqs[r] /\ drafts' # drafts
    BY DEF TakenBy
  <1>2. ~ UNCHANGED reqs
    BY <1>1
  <1>3. ~ Tick /\ ~ UNCHANGED vars /\ ~ SpaceStep /\ ~ FinishSave
    BY <1>1, <1>2 DEF Tick, vars, SpaceStep, DeleteSpace, RestoreSpace, FinishSave, UpsertDraft
  <1>4. ~ \E v \in Users, q \in Pages : DraftStep(v, q)
    <2>1. \A v, q : ~ OpenEditor(v, q)
      BY <1>2 DEF OpenEditor
    <2>2. \A v, q, now : ~ DiscardDraft(v, q, now)
      BY <1>2 DEF DiscardDraft
    <2>3. \A v, q, parent, now : ~ CreateSpaceDraft(v, q, parent, now)
      BY <1>2 DEF CreateSpaceDraft
    <2>4. \A v, q, i, text, now : ~ UpdatePageDraft(v, q, i, text, now)
      BY <1>2 DEF UpdatePageDraft
    <2> QED
      BY <2>1, <2>2, <2>3, <2>4 DEF DraftStep
  <1>5. ~ \E q \in Pages : PageStep(q)
    BY <1>2 DEF PageStep, UpdatePage, DeletePage, RestorePage
  <1>6. PICK s \in Reqs : PublishStep(s)
    BY <1>3, <1>4, <1>5 DEF Next
  <1>7. CASE s # r
    <2>1. \A q \in Request \cup {NoReq} : reqs' = [reqs EXCEPT ![s] = q] => reqs'[r] = reqs[r]
      BY <1>7 DEF TypeOK
    <2>2. \A step : Continue(s, step) => reqs'[r] = reqs[r]
      BY <1>7 DEF TypeOK
    <2>3. Return(s) => reqs'[r] = reqs[r]
      BY <1>7 DEF TypeOK
    <2>4. \A v \in Users, q \in Pages, force \in BOOLEAN : ~ ReadDraft(s, v, q, force)
      BY <1>1 DEF ReadDraft
    <2> QED
      BY <1>1, <1>6, <2>2, <2>3, <2>4 DEF PublishStep, DeriveTarget, ProbeParent, PublishNew,
         PublishNewFails, PublishEdit, PublishEditFails, DiscardBaselineOnly, ReadWinner, DropOrphan
  <1> QED
    BY <1>1, <1>6, <1>7

(* A publish call loses no save: the row it removes, if it is the row it read, *)
(* is empty or is what the page now shows.                                     *)
THEOREM PublishLosesNoSave == Spec => PublishKeepsNewerSaves
  <1>1. ASSUME RowsInv, [Next]_vars, NEW r \in Reqs, NEW u \in Users, NEW p \in Pages,
               TakenBy(r, u, p), reqs[r].draft.row = drafts[u][p].row
        PROVE  Shipped(u, p)
    <2> DEFINE q == reqs[r]
    <2>0. TypeOK /\ PublishStep(r) /\ drafts' # drafts
      BY <1>1, TakenByIsPublishStep DEF RowsInv, PlacesInv, PublishInv
    <2>1. /\ q # NoReq /\ q \in Request /\ q.user = u /\ q.page = p
          /\ Held(u, p) /\ drafts'[u][p] = NoDraft
      BY <1>1, <2>0 DEF TakenBy, TypeOK
    <2>2. RowStored(r)
      BY <1>1, <2>1 DEF RowStored
    <2>3. HoldsVersion(q) => q.draft.text = drafts[u][p].text
      BY <1>1, <2>1, <2>2 DEF HoldsVersion, RowsInv, TokensNameTexts
    <2>4. CASE PublishNew(r)
      <3>1. pages'[p].text = q.draft.text /\ HoldsVersion(q)
        BY <2>0, <2>1, <2>4 DEF PublishNew, TypeOK
      <3> QED
        BY <2>3, <3>1 DEF Shipped
    <2>5. CASE PublishEdit(r)
      <3>1. q.draft.text \in Nat
        BY <2>1 DEF Request, Draft
      <3>2. Patched(p, q.draft.text).text = q.draft.text
        BY <2>0, <2>1, <3>1, PatchedRow
      <3>3. pages' = [pages EXCEPT ![p] = Patched(p, q.draft.text)] /\ HoldsVersion(q)
        BY <2>1, <2>5 DEF PublishEdit
      <3>4. pages'[p].text = q.draft.text
        BY <2>0, <3>2, <3>3 DEF TypeOK
      <3> QED
        BY <2>3, <3>3, <3>4 DEF Shipped
    <2>6. CASE DiscardBaselineOnly(r)
      <3>1. q.draft.text = 0
        BY <1>1, <2>1, <2>6 DEF DiscardBaselineOnly, RowsInv, RequestsKnowTheirPage
      <3>2. HoldsVersion(q)
        BY <2>0, <2>6 DEF DiscardBaselineOnly, DropVersion
      <3> QED
        BY <2>3, <3>1, <3>2 DEF Shipped
    <2>7. CASE DropOrphan(r)
      <3>1. q.step = "orphan"
        BY <2>7 DEF DropOrphan
      <3>2. ~ RowStored(r)
        BY <1>1, <2>1, <3>1 DEF RowsInv, RequestsKnowTheirPage
      <3> QED
        BY <2>2, <3>2
    <2> QED
      BY <2>0, <2>4, <2>5, <2>6, <2>7 DEF PublishStep, ReadDraft, DeriveTarget, ProbeParent,
         PublishNewFails, PublishEditFails, ReadWinner
  <1>2. RowsInv /\ [Next]_vars =>
            [\A r \in Reqs, u \in Users, p \in Pages :
                 TakenBy(r, u, p) /\ reqs[r].draft.row = drafts[u][p].row => Shipped(u, p)]_vars
    BY <1>1
  <1> QED
    BY <1>2, RowsInvariant, PTL DEF Spec, PublishKeepsNewerSaves

=============================================================================
