---------------------------- MODULE EditorProofs ----------------------------
(***************************************************************************)
(* Proofs about DraftAutosave, for any pages and any number of texts,      *)
(* writes on the chain, failures and publishes; and what they and the      *)
(* proofs about the baselines and presence say of the editor as MCEditor   *)
(* composes it.                                                            *)
(***************************************************************************)
EXTENDS MCEditor, TLAPS

-----------------------------------------------------------------------------
(* The autosave: texts, and what is stored, queued and sent *)

(* Texts are numbered from 1 as they are typed, whatever page they are typed  *)
(* in, and the last one of a page is its latest.                              *)
NumberedTo(n) == UNION {texts[p] : p \in Pages} = 1..n
TextsNumbered ==
  /\ \E n \in Nat : NumberedTo(n)
  /\ \A p \in Pages : texts[p] # {} => \E m \in texts[p] : \A v \in texts[p] : m >= v

(* What is stored, queued or being sent was typed in its own page, and is never *)
(* older than what it will replace: a failed save merges under what was queued  *)
(* since, and the text queued is sent only after it.                            *)
StoredWasTyped == \A p \in Pages : stored[p] \in {0} \cup texts[p]
MovesOn(e) == e # None => e.text \in texts[e.page] /\ e.text >= stored[e.page]
SavesMoveOn == MovesOn(pending) /\ MovesOn(inflight)
SavesInOrder ==
  pending # None /\ inflight # None /\ pending.page = inflight.page =>
    pending.text >= inflight.text

TextsInv == TextsNumbered /\ StoredWasTyped /\ SavesMoveOn /\ SavesInOrder

LEMMA LatestIsTyped ==
    ASSUME TypeOK, TextsNumbered, NEW p \in Pages
    PROVE  /\ Latest(p) \in {0} \cup texts[p] /\ Latest(p) \in Nat
           /\ \A v \in texts[p] : Latest(p) >= v
  <1>1. texts[p] \subseteq Nat
    BY DEF TypeOK
  <1>2. CASE texts[p] = {}
    BY <1>2 DEF Latest
  <1>3. CASE texts[p] # {}
    <2>1. \E m \in texts[p] : \A v \in texts[p] : m >= v
      BY <1>3 DEF TextsNumbered
    <2>2. Max(texts[p]) \in texts[p] /\ \A v \in texts[p] : Max(texts[p]) >= v
      BY <2>1, Zenon DEF Max
    <2> QED
      BY <1>1, <1>3, <2>2 DEF Latest
  <1> QED
    BY <1>2, <1>3

LEMMA LastTypedIsLast ==
    ASSUME NEW n \in Nat, NumberedTo(n)
    PROVE  LastTyped = n
  <1> DEFINE S == {0} \cup (1..n)
  <1>1. n \in S /\ \A y \in S : n >= y
    OBVIOUS
  <1>2. \A x \in S : (\A y \in S : x >= y) => x = n
    BY <1>1
  <1>3. Max(S) \in S /\ \A y \in S : Max(S) >= y
    BY <1>1, Zenon DEF Max
  <1>4. LastTyped = Max(S)
    BY DEF LastTyped, NumberedTo
  <1> QED
    BY <1>2, <1>3, <1>4

-----------------------------------------------------------------------------
(* Types *)

LEMMA ChainedTyped ==
    ASSUME TypeOK, NEW force \in BOOLEAN, NEW ask \in Entry \cup {None}, Chained(force, ask)
    PROVE  chain' \in Seq(Run) /\ chain' # <<>>
  <1>1. [force |-> force, ask |-> ask] \in Run
    BY DEF Run
  <1> QED
    BY <1>1 DEF TypeOK, Chained

LEMMA SettleTyped ==
    ASSUME TypeOK, chain # <<>>, NEW ok, Settle(ok)
    PROVE  chain' \in Seq(Run) /\ posts' \subseteq Entry
  <1>1. Head(chain) \in Run /\ Tail(chain) \in Seq(Run)
    BY DEF TypeOK
  <1> QED
    BY <1>1 DEF TypeOK, Settle, Run

LEMMA StoresTyped ==
    ASSUME TypeOK, NEW e \in Entry, Stores(e)
    PROVE  stored' \in [Pages -> Nat] /\ hasDraft' \subseteq Pages /\ published' = published
  BY DEF TypeOK, Stores, Entry

(* A save that awaits its answer is the head of the chain. *)
HeadIsSending == inflight # None => chain # <<>>

LEMMA StepTyped ==
    ASSUME TypeOK, HeadIsSending, TextsNumbered, [Next]_vars
    PROVE  TypeOK' /\ HeadIsSending'
  <1>0. None \notin Entry
    BY AutosaveAssumption DEF Entry
  <1>a. \A p \in Pages : Latest(p) \in Nat
    BY LatestIsTyped
  <1>1. CASE RunIdle
    <2>1. chain' \in Seq(Run) /\ posts' \subseteq Entry
      BY <1>1, SettleTyped DEF RunIdle
    <2> QED
      BY <1>1, <2>1 DEF TypeOK, HeadIsSending, RunIdle, ui, server
  <1>2. CASE RunWrite
    BY <1>2 DEF TypeOK, HeadIsSending, RunWrite, ui, server
  <1>3. CASE SaveOk
    <2>1. chain' \in Seq(Run) /\ posts' \subseteq Entry
      BY <1>3, SettleTyped DEF SaveOk, HeadIsSending
    <2>2. stored' \in [Pages -> Nat] /\ hasDraft' \subseteq Pages /\ published' = published
      BY <1>3, StoresTyped DEF TypeOK, SaveOk
    <2> QED
      BY <1>3, <2>1, <2>2 DEF TypeOK, HeadIsSending, SaveOk, StatusSaved, ui
  <1>4. CASE SaveFails
    <2>1. chain' \in Seq(Run) /\ posts' \subseteq Entry
      BY <1>4, SettleTyped DEF SaveFails, HeadIsSending
    <2>2. stored' \in [Pages -> Nat] /\ hasDraft' \subseteq Pages /\ published' \in [Pages -> Nat]
      BY <1>4, StoresTyped DEF TypeOK, SaveFails, server
    <2>3. pending' \in Entry \cup {None} /\ failures' \in Nat
      BY <1>4 DEF TypeOK, SaveFails, Merged
    <2> QED
      BY <1>4, <2>1, <2>2, <2>3 DEF TypeOK, HeadIsSending, SaveFails, ui
  <1>5. CASE Type
    <2>1. LastTyped \in Nat
      BY LastTypedIsLast DEF TextsNumbered
    <2>2. texts' \in [Pages -> SUBSET Nat] /\ pending' \in Entry
      BY <1>5, <2>1 DEF TypeOK, Type, Entry
    <2> QED
      BY <1>5, <2>2 DEF TypeOK, HeadIsSending, Type, ui, server
  <1>6. CASE TimerFires
    <2>1. chain' \in Seq(Run) /\ chain' # <<>>
      <3>1. Chained(FALSE, None)
        BY <1>6 DEF TimerFires
      <3> QED
        BY <3>1, ChainedTyped
    <2> QED
      BY <1>6, <2>1 DEF TypeOK, HeadIsSending, TimerFires, ui, server
  <1>7. CASE Loaded \/ ToggleEdit
    BY <1>7 DEF TypeOK, HeadIsSending, Loaded, ToggleEdit, server
  <1>8. CASE Navigate \/ Unmount
    <2>1. chain' \in Seq(Run) /\ chain' # <<>> /\ timer' = FALSE
      <3>1. Chained(TRUE, None) /\ timer' = FALSE
        BY <1>8 DEF Navigate, Unmount, Leave
      <3> QED
        BY <3>1, ChainedTyped
    <2> QED
      BY <1>8, <2>1 DEF TypeOK, HeadIsSending, Navigate, Unmount, ui, server
  <1>9. CASE AskPublish
    <2>1. [page |-> page, text |-> Latest(page)] \in Entry
      BY <1>a DEF TypeOK, Entry
    <2>2. chain' \in Seq(Run) /\ chain' # <<>>
      <3>1. Chained(FALSE, [page |-> page, text |-> Latest(page)])
        BY <1>9 DEF AskPublish
      <3> QED
        BY <2>1, <3>1, ChainedTyped
    <2>3. /\ asks' = asks + 1 /\ timer' = FALSE
          /\ UNCHANGED <<ui, pending, inflight, status, posts, server, failures, texts>>
      BY <1>9 DEF AskPublish
    <2>4. asks' \in Nat
      BY <2>3 DEF TypeOK
    <2>5. timer' \in BOOLEAN
      BY <2>3, Zenon
    <2>6. /\ mounted' \in BOOLEAN /\ page' \in Pages /\ editing' \in BOOLEAN /\ loading' \in BOOLEAN
          /\ pending' \in Entry \cup {None} /\ inflight' \in Entry \cup {None}
      BY <2>3 DEF TypeOK, ui
    <2>7. /\ status' \in {"saved", "saving", "unsaved"} /\ posts' \subseteq Entry
               /\ hasDraft' \subseteq Pages
          /\ failures' \in Nat /\ texts' \in [Pages -> SUBSET Nat]
          /\ stored' \in [Pages -> Nat] /\ published' \in [Pages -> Nat]
      BY <2>3 DEF TypeOK, server
    <2> QED
      BY <2>2, <2>4, <2>5, <2>6, <2>7 DEF TypeOK, HeadIsSending
  <1>10. CASE PublishOk
    <2>1. PICK a \in posts :
            /\ posts' = posts \ {a}
            /\ published' = [published EXCEPT ![a.page] = stored[a.page]]
            /\ hasDraft' = hasDraft \ {a.page}
            /\ IF mounted
               THEN /\ page' = a.page /\ editing' = FALSE
                    /\ IF page = a.page THEN UNCHANGED <<loading, timer, chain>>
                       ELSE loading' = TRUE /\ Leave
               ELSE UNCHANGED <<page, editing, loading, timer, chain>>
      BY <1>10 DEF PublishOk
    <2>2. a.page \in Pages
      BY DEF TypeOK, Entry
    <2>3. /\ chain' \in Seq(Run) /\ (chain # <<>> => chain' # <<>>) /\ timer' \in BOOLEAN
          /\ page' \in Pages /\ editing' \in BOOLEAN /\ loading' \in BOOLEAN
      <3>1. CASE mounted /\ page # a.page
        <4>1. Leave /\ page' = a.page /\ editing' = FALSE /\ loading' = TRUE
          BY <2>1, <3>1
        <4>2. chain' \in Seq(Run) /\ chain' # <<>>
          BY <4>1, ChainedTyped DEF Leave
        <4> QED
          BY <2>2, <4>1, <4>2 DEF Leave
      <3>2. CASE mounted /\ page = a.page
        BY <2>1, <3>2 DEF TypeOK
      <3>3. CASE ~mounted
        BY <2>1, <3>3 DEF TypeOK
      <3> QED
        BY <3>1, <3>2, <3>3
    <2>4. published' \in [Pages -> Nat] /\ hasDraft' \subseteq Pages /\ posts' \subseteq Entry
      BY <2>1, <2>2 DEF TypeOK
    <2> QED
      BY <1>10, <2>3, <2>4 DEF TypeOK, HeadIsSending, PublishOk
  <1>11. CASE PublishRefused
    BY <1>11 DEF TypeOK, HeadIsSending, PublishRefused, ui, server
  <1>12. CASE UNCHANGED vars
    BY <1>12 DEF TypeOK, HeadIsSending, vars
  <1> QED
    BY <1>1, <1>2, <1>3, <1>4, <1>5, <1>6, <1>7, <1>8, <1>9, <1>10, <1>11, <1>12 DEF Next

-----------------------------------------------------------------------------
(* Texts *)

(* A step that leaves the texts and the saves alone. *)
SavesUnchanged == UNCHANGED <<texts, stored, pending, inflight>>

LEMMA SavesUnchangedKeep ==
    ASSUME TextsInv, SavesUnchanged
    PROVE  TextsInv'
  BY DEF TextsInv, SavesUnchanged, TextsNumbered, NumberedTo, StoredWasTyped, SavesMoveOn,
         MovesOn, SavesInOrder

(* The save that reaches its draft is the later one of its page. *)
LEMMA StoresMoveOn ==
    ASSUME TypeOK, TextsInv, inflight # None, Stores(inflight)
    PROVE  /\ inflight.text >= stored[inflight.page]
           /\ inflight.text \in texts[inflight.page] /\ inflight.page \in Pages
           /\ stored' = [stored EXCEPT ![inflight.page] = inflight.text]
  BY DEF TypeOK, TextsInv, SavesMoveOn, MovesOn, Stores, Entry

LEMMA StoresKeeps ==
    ASSUME TypeOK, TextsInv, inflight # None, Stores(inflight), texts' = texts
    PROVE  /\ TextsNumbered' /\ StoredWasTyped'
           /\ inflight.text \in texts'[inflight.page] /\ inflight.text >= stored'[inflight.page]
           /\ pending # None => /\ pending.text \in texts'[pending.page]
                               /\ pending.text >= stored'[pending.page]
  <1>1. /\ inflight.text \in texts[inflight.page] /\ inflight.page \in Pages
        /\ stored' = [stored EXCEPT ![inflight.page] = inflight.text]
    BY StoresMoveOn
  <1>2. inflight.text \in Nat /\ stored \in [Pages -> Nat]
    BY DEF TypeOK, Entry
  <1>3. TextsNumbered'
    BY DEF TextsInv, TextsNumbered, NumberedTo
  <1>4. StoredWasTyped'
    BY <1>1, <1>2 DEF TextsInv, StoredWasTyped
  <1>5. ASSUME pending # None
        PROVE  pending.text \in texts'[pending.page] /\ pending.text >= stored'[pending.page]
    <2>1. pending.text \in texts[pending.page] /\ pending.text >= stored[pending.page]
      BY <1>5 DEF TextsInv, SavesMoveOn, MovesOn
    <2>2. pending.page = inflight.page => pending.text >= inflight.text
      BY <1>5 DEF TextsInv, SavesInOrder
    <2>3. pending.page \in Pages
      BY <1>5 DEF TypeOK, Entry
    <2> QED
      BY <1>1, <1>2, <2>1, <2>2, <2>3
  <1> QED
    BY <1>1, <1>2, <1>3, <1>4, <1>5

(* A text just typed is later than any other. *)
LEMMA TypeKeeps ==
    ASSUME TypeOK, TextsInv, Type
    PROVE  TextsInv'
  <1>1. PICK n \in Nat : NumberedTo(n)
    BY DEF TextsInv, TextsNumbered
  <1>2. LastTyped = n
    BY <1>1, LastTypedIsLast
  <1>3. /\ texts' = [texts EXCEPT ![page] = texts[page] \cup {n + 1}]
        /\ pending' = [page |-> page, text |-> n + 1]
        /\ stored' = stored /\ inflight' = inflight
    BY <1>2 DEF Type, server
  <1>4. page \in Pages /\ texts \in [Pages -> SUBSET Nat] /\ stored \in [Pages -> Nat]
    BY DEF TypeOK
  <1>5. \A p \in Pages : \A v \in texts[p] : v \in 1..n
    BY <1>1 DEF NumberedTo
  <1>6. \A p \in Pages : texts[p] \subseteq texts'[p]
    BY <1>3, <1>4
  <1>7. TextsNumbered'
    <2>1. UNION {texts'[p] : p \in Pages} = (UNION {texts[p] : p \in Pages}) \cup {n + 1}
      BY <1>3, <1>4
    <2>2. (1..n) \cup {n + 1} = 1..(n + 1)
      OBVIOUS
    <2>3. NumberedTo(n + 1)'
      BY <1>1, <2>1, <2>2 DEF NumberedTo
    <2>4. ASSUME NEW p \in Pages, texts'[p] # {}
          PROVE  \E m \in texts'[p] : \A v \in texts'[p] : m >= v
      <3>1. CASE p = page
        <4>1. texts'[p] = texts[p] \cup {n + 1}
          BY <1>3, <1>4, <3>1
        <4>2. \A v \in texts'[p] : n + 1 >= v
          BY <1>5, <4>1
        <4> QED
          BY <4>1, <4>2
      <3>2. CASE p # page
        <4>1. texts'[p] = texts[p]
          BY <1>3, <1>4, <3>2
        <4> QED
          BY <2>4, <4>1 DEF TextsInv, TextsNumbered
      <3> QED
        BY <3>1, <3>2
    <2> QED
      BY <2>3, <2>4 DEF TextsNumbered
  <1>8. StoredWasTyped'
    BY <1>3, <1>6 DEF TextsInv, StoredWasTyped
  <1>9. SavesMoveOn'
    <2>1. n + 1 \in texts'[page] /\ n + 1 >= stored'[page]
      <3>1. stored[page] \in 0..n
        BY <1>4, <1>5 DEF TextsInv, StoredWasTyped
      <3> QED
        BY <1>3, <1>4, <3>1
    <2>2. MovesOn(inflight)'
      <3> SUFFICES ASSUME inflight # None
                   PROVE  inflight.text \in texts'[inflight.page]
                          /\ inflight.text >= stored'[inflight.page]
        BY <1>3 DEF MovesOn
      <3>1. inflight.page \in Pages
        BY DEF TypeOK, Entry
      <3>2. inflight.text \in texts[inflight.page] /\ inflight.text >= stored[inflight.page]
        BY DEF TextsInv, SavesMoveOn, MovesOn
      <3> QED
        BY <1>3, <1>6, <3>1, <3>2
    <2> QED
      BY <1>3, <2>1, <2>2 DEF SavesMoveOn, MovesOn
  <1>10. SavesInOrder'
    <2> SUFFICES ASSUME inflight # None, inflight.page = page
                 PROVE  n + 1 >= inflight.text
      BY <1>3 DEF SavesInOrder
    <2>1. inflight.text \in texts[page]
      BY DEF TextsInv, SavesMoveOn, MovesOn
    <2> QED
      BY <1>4, <1>5, <2>1
  <1> QED
    BY <1>7, <1>8, <1>9, <1>10 DEF TextsInv

LEMMA StepKeepsTexts ==
    ASSUME TypeOK, TextsInv, [Next]_vars
    PROVE  TextsInv'
  <1>0. None \notin Entry
    BY AutosaveAssumption DEF Entry
  <1>1. CASE \/ RunIdle \/ TimerFires \/ Loaded \/ ToggleEdit \/ Navigate \/ Unmount
             \/ AskPublish \/ PublishOk \/ PublishRefused \/ UNCHANGED vars
    <2>1. SavesUnchanged
      BY <1>1 DEF SavesUnchanged, RunIdle, TimerFires, Loaded, ToggleEdit, Navigate, Unmount,
                  AskPublish, PublishOk, PublishRefused, vars, server
    <2> QED
      BY <2>1, SavesUnchangedKeep
  <1>2. CASE RunWrite
    <2>1. /\ inflight' = pending /\ pending' = None
          /\ texts' = texts /\ stored' = stored
      BY <1>2 DEF RunWrite, server
    <2> QED
      BY <2>1 DEF TextsInv, TextsNumbered, NumberedTo, StoredWasTyped, SavesMoveOn, MovesOn,
                  SavesInOrder
  <1>3. CASE SaveOk
    <2>1. /\ inflight # None /\ Stores(inflight) /\ texts' = texts
          /\ inflight' = None /\ pending' = pending
      BY <1>3 DEF SaveOk
    <2> QED
      BY <2>1, StoresKeeps DEF TextsInv, SavesMoveOn, MovesOn, SavesInOrder
  <1>4. CASE SaveFails
    <2>1. /\ inflight # None /\ texts' = texts /\ inflight' = None /\ pending' = Merged
          /\ Stores(inflight) \/ stored' = stored
      BY <1>4 DEF SaveFails, server
    <2>2. CASE Stores(inflight)
      BY <2>1, <2>2, StoresKeeps DEF TextsInv, SavesMoveOn, MovesOn, SavesInOrder, Merged
    <2>3. CASE stored' = stored
      BY <2>1, <2>3 DEF TextsInv, TextsNumbered, NumberedTo, StoredWasTyped, SavesMoveOn,
                        MovesOn, SavesInOrder, Merged
    <2> QED
      BY <2>1, <2>2, <2>3
  <1>5. CASE Type
    BY <1>5, TypeKeeps
  <1> QED
    BY <1>1, <1>2, <1>3, <1>4, <1>5 DEF Next

-----------------------------------------------------------------------------

AutosaveInv == TypeOK /\ HeadIsSending /\ TextsInv

(* Every reachable state is well typed, and what is stored, queued or being   *)
(* sent was typed in its own page and never goes back to an older text.       *)
THEOREM AutosaveInvariant == SafeSpec => []AutosaveInv
  <1>1. Init => AutosaveInv
    <2> SUFFICES ASSUME Init PROVE AutosaveInv
      OBVIOUS
    <2>1. TypeOK /\ HeadIsSending
      <3>1. page \in Pages /\ editing \in BOOLEAN /\ Unpublished \subseteq Pages
        BY AutosaveAssumption DEF Init
      <3>2. /\ mounted \in BOOLEAN /\ loading \in BOOLEAN /\ timer \in BOOLEAN
                 /\ hasDraft \subseteq Pages
            /\ pending = None /\ inflight = None /\ status = "saved" /\ posts = {}
        BY <3>1 DEF Init
      <3>3. chain \in Seq(Run) /\ failures \in Nat /\ asks \in Nat
        BY DEF Init
      <3>4. /\ texts \in [Pages -> SUBSET Nat]
            /\ stored \in [Pages -> Nat] /\ published \in [Pages -> Nat]
        BY DEF Init
      <3> QED
        BY <3>1, <3>2, <3>3, <3>4 DEF TypeOK, HeadIsSending
    <2>2. TextsNumbered
      <3>1. NumberedTo(0)
        BY DEF Init, NumberedTo
      <3> QED
        BY <3>1 DEF Init, TextsNumbered
    <2> QED
      BY <2>1, <2>2 DEF Init, AutosaveInv, TextsInv, StoredWasTyped, SavesMoveOn, MovesOn,
                        SavesInOrder
  <1>2. AutosaveInv /\ [Next]_vars => AutosaveInv'
    BY StepTyped, StepKeepsTexts DEF AutosaveInv, TextsInv
  <1> QED
    BY <1>1, <1>2, PTL DEF SafeSpec

(* A step of the autosave is a step of what it promises, or none.             *)
LEMMA StepIsPromised ==
    ASSUME AutosaveInv, [Next]_vars
    PROVE  [Promise!Next]_<<texts, stored, published>>
  <1>1. CASE \/ RunIdle \/ RunWrite \/ TimerFires \/ Loaded \/ ToggleEdit \/ Navigate
             \/ Unmount \/ AskPublish \/ PublishRefused \/ UNCHANGED vars
    <2>1. UNCHANGED <<texts, stored, published>>
      BY <1>1 DEF RunIdle, RunWrite, TimerFires, Loaded, ToggleEdit, Navigate, Unmount,
                  AskPublish, PublishRefused, vars, server
    <2> QED
      BY <2>1
  <1>2. CASE SaveOk \/ SaveFails
    <2>1. CASE Stores(inflight)
      <3>1. inflight # None /\ texts' = texts
        BY <1>2 DEF SaveOk, SaveFails
      <3>2. /\ inflight.text >= stored[inflight.page]
            /\ inflight.text \in texts[inflight.page] /\ inflight.page \in Pages
            /\ stored' = [stored EXCEPT ![inflight.page] = inflight.text]
        BY <2>1, <3>1, StoresMoveOn DEF AutosaveInv
      <3>3. published' = published
        BY <2>1 DEF Stores
      <3>4. stored \in [Pages -> Nat] /\ inflight.text \in Nat
        BY <3>1 DEF AutosaveInv, TypeOK, Entry
      <3>5. CASE inflight.text = stored[inflight.page]
        BY <3>1, <3>2, <3>3, <3>4, <3>5
      <3>6. CASE inflight.text > stored[inflight.page]
        <4>1. Promise!Store(inflight.page)
          BY <3>1, <3>2, <3>3, <3>6 DEF Promise!Store
        <4> QED
          BY <3>2, <4>1 DEF Promise!Next
      <3> QED
        BY <3>2, <3>4, <3>5, <3>6
    <2>2. CASE ~Stores(inflight)
      BY <1>2, <2>2 DEF SaveOk, SaveFails, server
    <2> QED
      BY <2>1, <2>2
  <1>3. CASE Type
    <2>1. PICK n \in Nat : NumberedTo(n)
      BY DEF AutosaveInv, TextsInv, TextsNumbered
    <2>2. LastTyped = n
      BY <2>1, LastTypedIsLast
    <2>3. n + 1 \in 1..MaxTexts
      BY <1>3, <2>2, AutosaveAssumption DEF Type
    <2>4. \A q \in Pages : n + 1 \notin texts[q]
      <3>1. \A q \in Pages : texts[q] \subseteq 1..n
        BY <2>1 DEF NumberedTo
      <3>2. n + 1 \notin 1..n
        BY <2>1
      <3> QED
        BY <3>1, <3>2
    <2>5. texts' = [texts EXCEPT ![page] = @ \cup {n + 1}] /\ UNCHANGED <<stored, published>>
      BY <1>3, <2>2 DEF Type, server
    <2>6. Promise!Type(page)
      BY <2>3, <2>4, <2>5 DEF Promise!Type
    <2> QED
      BY <2>6 DEF AutosaveInv, TypeOK, Promise!Next
  <1>4. CASE PublishOk
    <2>1. PICK a \in posts : published' = [published EXCEPT ![a.page] = stored[a.page]]
      BY <1>4 DEF PublishOk
    <2>2. a.page \in Pages
      BY DEF AutosaveInv, TypeOK, Entry
    <2>3. Promise!Publish(a.page)
      BY <1>4, <2>1 DEF PublishOk, Promise!Publish
    <2> QED
      BY <2>2, <2>3 DEF Promise!Next
  <1> QED
    BY <1>1, <1>2, <1>3, <1>4 DEF Next

(* DraftAutosave implements TypedTexts: whatever is debounced, chained, failed,  *)
(* retried, left or flushed, each draft holds a text typed in its page and only  *)
(* moves on to a later one.                                                      *)
THEOREM AutosaveImplementsTypedTexts == SafeSpec => ImplementsTypedTexts
  <1>1. Init => Promise!Init
    BY DEF Init, Promise!Init
  <1> QED
    BY <1>1, StepIsPromised, AutosaveInvariant, PTL DEF SafeSpec, ImplementsTypedTexts, Promise!Spec

-----------------------------------------------------------------------------
(* The editor stays on one page *)

(* All that is typed, queued or being sent is of the page on screen, and when *)
(* the indicator reads "saved" nothing is queued or being sent.               *)
OnThisPage ==
  /\ \A q \in Pages \ {page} : texts[q] = {}
  /\ pending # None => pending.page = page
  /\ inflight # None => inflight.page = page
SavedMeansIdle == status = "saved" => pending = None /\ inflight = None

StayInv == OnThisPage /\ SavedMeansIdle /\ NoEditForgotten

LEMMA SavesUnchangedStay ==
    ASSUME StayInv, SavesUnchanged, page' = page, status' = status
    PROVE  StayInv'
  BY DEF StayInv, SavesUnchanged, OnThisPage, SavedMeansIdle, NoEditForgotten, Holds, Latest

(* What a save carries was typed in its page, so it is not later than the latest. *)
LEMMA CarriedIsTyped ==
    ASSUME TypeOK, TextsInv, NEW e \in {pending, inflight}, e # None
    PROVE  /\ e.page \in Pages /\ e.text \in Nat /\ e.text \in texts[e.page]
           /\ Latest(e.page) >= e.text /\ e.text >= stored[e.page]
           /\ Latest(e.page) \in Nat /\ stored[e.page] \in Nat
  <1>1. e \in Entry
    BY DEF TypeOK
  <1>2. e.page \in Pages /\ e.text \in Nat
    BY <1>1 DEF Entry
  <1>3. e.text \in texts[e.page] /\ e.text >= stored[e.page]
    BY DEF TextsInv, SavesMoveOn, MovesOn
  <1>4. Latest(e.page) \in Nat /\ Latest(e.page) >= e.text
    BY <1>2, <1>3, LatestIsTyped DEF TextsInv
  <1> QED
    BY <1>2, <1>3, <1>4 DEF TypeOK

(* A text typed is later than all before it, and the latest of its page. *)
LEMMA TypedIsLatest ==
    ASSUME AutosaveInv, Type
    PROVE  /\ LastTyped \in Nat /\ \A v \in texts[page] : v \in 1..LastTyped
           /\ Latest(page)' = LastTyped + 1
  <1>0. page \in Pages /\ texts \in [Pages -> SUBSET Nat]
    BY DEF AutosaveInv, TypeOK
  <1>1. PICK n \in Nat : NumberedTo(n)
    BY DEF AutosaveInv, TextsInv, TextsNumbered
  <1>2. LastTyped = n
    BY <1>1, LastTypedIsLast
  <1>3. page' = page /\ texts' = [texts EXCEPT ![page] = texts[page] \cup {n + 1}]
    BY <1>2 DEF Type, ui
  <1>4. texts'[page] = texts[page] \cup {n + 1}
    BY <1>0, <1>3
  <1>5. \A v \in texts[page] : v \in 1..n
    BY <1>0, <1>1 DEF NumberedTo
  <1>6. n + 1 \in texts'[page] /\ \A v \in texts'[page] : v \in Nat /\ n + 1 >= v
    BY <1>4, <1>5
  <1>7. Max(texts'[page]) \in texts'[page] /\ \A v \in texts'[page] : Max(texts'[page]) >= v
    BY <1>6, Zenon DEF Max
  <1>8. Latest(page)' = n + 1
    <2>1. Max(texts'[page]) = n + 1 /\ texts'[page] # {} /\ page' = page
      BY <1>3, <1>6, <1>7
    <2> QED
      BY <2>1 DEF Latest
  <1> QED
    BY <1>2, <1>5, <1>8

LEMMA StepStays ==
    ASSUME AutosaveInv, AutosaveInv', StayInv, [Next]_vars, page' = page
    PROVE  StayInv'
  <1> USE DEF AutosaveInv
  <1>0. None \notin Entry /\ page \in Pages
    BY AutosaveAssumption DEF Entry, TypeOK
  <1>1. CASE \/ RunIdle \/ TimerFires \/ Loaded \/ ToggleEdit \/ Navigate \/ Unmount
             \/ AskPublish \/ PublishOk \/ PublishRefused \/ UNCHANGED vars
    <2>1. SavesUnchanged /\ status' = status
      BY <1>1 DEF SavesUnchanged, RunIdle, TimerFires, Loaded, ToggleEdit, Navigate, Unmount,
                  AskPublish, PublishOk, PublishRefused, vars, server
    <2> QED
      BY <2>1, SavesUnchangedStay
  <1>2. CASE RunWrite
    <2>1. /\ inflight' = pending /\ pending' = None /\ inflight = None /\ status' = "saving"
          /\ texts' = texts /\ stored' = stored
      BY <1>2 DEF RunWrite, server
    <2> QED
      BY <2>1 DEF StayInv, OnThisPage, SavedMeansIdle, NoEditForgotten, Holds, Latest
  <1>3. CASE SaveOk \/ SaveFails
    <2>1. inflight # None /\ texts' = texts /\ inflight' = None
      BY <1>3 DEF SaveOk, SaveFails
    <2>2. /\ inflight.page = page /\ inflight.text \in Nat
          /\ Latest(page) >= inflight.text /\ inflight.text >= stored[page]
          /\ Latest(page) \in Nat /\ stored[page] \in Nat
      BY <2>1, CarriedIsTyped DEF StayInv, OnThisPage
    <2>3. \/ stored' = [stored EXCEPT ![page] = inflight.text]
          \/ stored' = stored /\ SaveFails
      BY <1>3, <2>2 DEF SaveOk, SaveFails, Stores, server
    <2>4. SaveOk => pending' = pending /\ (status' = "saved" => pending = None)
      BY DEF SaveOk, StatusSaved
    <2>5. SaveFails => /\ pending' = (IF pending = None THEN inflight ELSE pending)
                       /\ status' = "unsaved"
      BY DEF SaveFails, Merged
    <2>6. OnThisPage' /\ SavedMeansIdle'
      BY <1>3, <2>1, <2>2, <2>4, <2>5 DEF StayInv, OnThisPage, SavedMeansIdle
    <2>7. pending # None => /\ pending.page = page /\ pending.text \in Nat
                            /\ Latest(page) >= pending.text /\ pending.text >= inflight.text
      BY <2>1, <2>2, CarriedIsTyped DEF StayInv, OnThisPage, TextsInv, SavesInOrder
    <2>8. ASSUME NEW q \in Pages, Latest(q)' # stored'[q]
          PROVE  Holds(pending, q, Latest(q))'
      <3>1. Latest(q)' = Latest(q)
        BY <2>1 DEF Latest
      <3>2. CASE q # page
        <4>1. texts[q] = {} /\ stored'[q] = stored[q]
          BY <2>3, <3>2 DEF StayInv, OnThisPage, TypeOK
        <4>2. Latest(q) = 0 /\ stored[q] = 0
          BY <4>1 DEF Latest, TextsInv, StoredWasTyped
        <4> QED
          BY <2>8, <3>1, <4>1, <4>2
      <3>3. CASE q = page
        <4>1. CASE Holds(pending, page, Latest(page))
          <5>1. pending' = pending
            BY <1>3, <2>4, <2>5, <4>1 DEF Holds
          <5> QED
            BY <3>1, <3>3, <4>1, <5>1 DEF Holds
        <4>2. CASE Latest(page) = inflight.text
          <5>1. SaveFails
            BY <1>3, <2>3, <2>8, <3>1, <3>3, <4>2 DEF TypeOK
          <5>2. CASE pending = None
            BY <2>1, <2>2, <2>5, <3>1, <3>3, <4>2, <5>1, <5>2 DEF Holds
          <5>3. CASE pending # None
            <6>1. pending.text = Latest(page)
              BY <2>2, <2>7, <4>2, <5>3
            <6> QED
              BY <2>5, <2>7, <3>1, <3>3, <5>1, <5>3, <6>1 DEF Holds
          <5> QED
            BY <5>2, <5>3
        <4>3. CASE Latest(page) = stored[page]
          <5>1. Latest(page) = inflight.text
            BY <2>2, <4>3
          <5> QED
            BY <4>2, <5>1
        <4> QED
          BY <4>1, <4>2, <4>3, <1>0 DEF StayInv, NoEditForgotten, Holds
      <3> QED
        BY <3>2, <3>3
    <2> QED
      BY <2>6, <2>8 DEF StayInv, NoEditForgotten
  <1>4. CASE Type
    <2>1. PICK n \in Nat : NumberedTo(n)
      BY DEF TextsInv, TextsNumbered
    <2>2. LastTyped = n
      BY <2>1, LastTypedIsLast
    <2>3. /\ texts' = [texts EXCEPT ![page] = texts[page] \cup {n + 1}]
          /\ pending' = [page |-> page, text |-> n + 1]
          /\ stored' = stored /\ inflight' = inflight /\ status' = "unsaved"
      BY <1>4, <2>2 DEF Type, server
    <2>4. texts \in [Pages -> SUBSET Nat]
      BY DEF TypeOK
    <2>5. OnThisPage' /\ SavedMeansIdle'
      BY <2>3, <2>4 DEF StayInv, OnThisPage, SavedMeansIdle
    <2>6. Latest(page)' = n + 1
      BY <1>4, <2>2, TypedIsLatest
    <2>7. pending' # None
      <3>1. pending' \in Entry
        BY <1>0, <2>3 DEF Entry
      <3> QED
        BY <1>0, <3>1
    <2>8. ASSUME NEW q \in Pages, Latest(q)' # stored'[q]
          PROVE  Holds(pending, q, Latest(q))'
      <3>1. CASE q = page
        BY <2>3, <2>6, <2>7, <3>1 DEF Holds
      <3>2. CASE q # page
        <4>1. texts[q] = {} /\ texts'[q] = texts[q]
          BY <2>3, <2>4, <3>2 DEF StayInv, OnThisPage
        <4>2. Latest(q)' = 0 /\ stored[q] = 0
          BY <4>1 DEF Latest, TextsInv, StoredWasTyped
        <4> QED
          BY <2>3, <2>8, <4>2
      <3> QED
        BY <3>1, <3>2
    <2> QED
      BY <2>5, <2>8 DEF StayInv, NoEditForgotten
  <1> QED
    BY <1>1, <1>2, <1>3, <1>4 DEF Next

(* While the editor stays on a page, the last text typed is stored, queued or *)
(* being sent, and the indicator reads "saved" of nothing else: debouncing,   *)
(* failures, retries, mode changes and publishes lose no edit.                *)
THEOREM NoEditForgottenOnAPage ==
    SafeSpec /\ [][page' = page]_vars => [](NoEditForgotten /\ SavedMeansStored)
  <1>1. Init /\ AutosaveInv => StayInv
    BY DEF Init, StayInv, OnThisPage, SavedMeansIdle, NoEditForgotten, Latest
  <1>2. StayInv /\ AutosaveInv /\ AutosaveInv' /\ [Next]_vars /\ [page' = page]_vars => StayInv'
    BY StepStays DEF vars
  <1>3. StayInv => NoEditForgotten /\ SavedMeansStored
    BY DEF StayInv, SavedMeansIdle, NoEditForgotten, SavedMeansStored, Holds
  <1> QED
    BY <1>1, <1>2, <1>3, AutosaveInvariant, PTL DEF SafeSpec

-----------------------------------------------------------------------------
(* Publishes asked for while the editor stays on one page *)

\* The publishes that wait on the chain.
Waiting == {chain[i].ask : i \in DOMAIN chain} \ {None}

\* A publish waiting on the chain is of this page and of a text typed by now; the
\* save that the first one waits for carries that text or a later one.
AsksInv ==
  /\ \A a \in Waiting : a.page = page /\ a.text <= Latest(page)
  /\ inflight # None /\ Head(chain).ask # None => inflight.text >= Head(chain).ask.text

LEMMA ChainedWaits ==
    ASSUME TypeOK, NEW force \in BOOLEAN, NEW ask \in Entry \cup {None}, Chained(force, ask)
    PROVE  /\ Waiting' \subseteq Waiting \cup ({ask} \ {None})
           /\ chain # <<>> => Head(chain') = Head(chain)
  <1>1. [force |-> force, ask |-> ask] \in Run
    BY DEF Run
  <1> DEFINE run == [force |-> force, ask |-> ask]
  <1>2. chain \in Seq(Run) /\ chain' = Append(chain, run) /\ run.ask = ask
    BY DEF Chained, TypeOK
  <1> HIDE DEF run
  <1>3. /\ DOMAIN chain' = DOMAIN chain \cup {Len(chain) + 1}
        /\ chain'[Len(chain) + 1] = run
        /\ \A i \in DOMAIN chain : chain'[i] = chain[i]
    BY <1>1, <1>2 DEF run
  <1>4. chain # <<>> => Head(chain') = Head(chain)
    BY <1>1, <1>2 DEF run
  <1> QED
    BY <1>2, <1>3, <1>4 DEF Waiting

LEMMA SettleWaits ==
    ASSUME TypeOK, chain # <<>>, NEW ok, Settle(ok)
    PROVE  /\ Waiting' \subseteq Waiting
           /\ Head(chain).ask \in Waiting \cup {None}
           /\ posts' \ posts \subseteq (IF ok THEN {Head(chain).ask} \ {None} ELSE {})
  <1>1. chain \in Seq(Run) /\ chain' = Tail(chain)
    BY DEF TypeOK, Settle
  <1>2. /\ \A i \in DOMAIN chain' : i + 1 \in DOMAIN chain /\ chain'[i] = chain[i + 1]
        /\ 1 \in DOMAIN chain /\ Head(chain) = chain[1]
    BY <1>1
  <1> QED
    BY <1>2 DEF Waiting, Settle

LEMMA WaitingTyped ==
    ASSUME TypeOK
    PROVE  Waiting \subseteq Entry
  <1>1. chain \in Seq(Run)
    BY DEF TypeOK
  <1>2. \A i \in DOMAIN chain : chain[i] \in Run
    BY <1>1
  <1> QED
    BY <1>2 DEF Waiting, Run

(* All that was typed is stored once nothing is queued or under way. *)
LEMMA NothingLeftMeansStored ==
    ASSUME AutosaveInv, StayInv, inflight = None
    PROVE  /\ pending = None => stored[page] = Latest(page)
           /\ pending # None => pending.text = Latest(page)
  <1>1. page \in Pages /\ TypeOK /\ TextsInv
    BY DEF AutosaveInv, TypeOK
  <1>2. CASE Latest(page) = stored[page]
    <2>1. pending # None => /\ pending.page = page
                            /\ Latest(page) >= pending.text /\ pending.text >= stored[page]
                            /\ pending.text \in Nat /\ Latest(page) \in Nat
      BY <1>1, CarriedIsTyped DEF StayInv, OnThisPage
    <2> QED
      BY <1>2, <2>1
  <1> QED
    BY <1>1, <1>2 DEF StayInv, NoEditForgotten, Holds

(* A run that settles true while the editor is enabled has stored what the publish *)
(* that waits on it was asked with.                                               *)
LEMMA PublishCarries ==
    ASSUME AutosaveInv, StayInv, AsksInv, [Next]_vars
    PROVE  PublishCarriesAsk(enabled)
  <1> SUFFICES ASSUME enabled, NEW a \in posts' \ posts
               PROVE  stored'[a.page] >= a.text
    BY DEF PublishCarriesAsk
  <1>1. TypeOK /\ TextsInv /\ page \in Pages /\ HeadIsSending
    BY DEF AutosaveInv, TypeOK
  <1>2. CASE RunIdle
    <2>1. a \in Waiting
      BY <1>1, <1>2, SettleWaits DEF RunIdle
    <2>2. pending = None /\ inflight = None /\ stored' = stored
      BY <1>2 DEF RunIdle, server
    <2>3. stored[page] = Latest(page)
      BY <2>2, NothingLeftMeansStored
    <2>4. a.page = page /\ a.text <= Latest(page) /\ a.text \in Nat /\ Latest(page) \in Nat
      BY <1>1, <2>1, WaitingTyped, LatestIsTyped DEF AsksInv, Entry, TextsInv
    <2> QED
      BY <2>2, <2>3, <2>4
  <1>3. CASE SaveOk
    <2>1. inflight # None /\ chain # <<>> /\ Settle(TRUE) /\ Stores(inflight)
      BY <1>1, <1>3 DEF SaveOk, HeadIsSending
    <2>2. a = Head(chain).ask /\ a \in Waiting
      BY <1>1, <2>1, SettleWaits
    <2>3. a # None /\ a.page = page /\ inflight.page = page /\ inflight.text >= a.text
      BY <2>1, <2>2 DEF AsksInv, StayInv, OnThisPage, Waiting
    <2>4. stored'[page] = inflight.text
      BY <1>1, <2>1, <2>3 DEF Stores, TypeOK
    <2> QED
      BY <2>3, <2>4
  <1>4. CASE SaveFails
    <2>1. chain # <<>> /\ Settle(FALSE)
      BY <1>1, <1>4 DEF SaveFails, HeadIsSending
    <2> QED
      BY <1>1, <2>1, SettleWaits
  <1>5. CASE \/ RunWrite \/ Type \/ TimerFires \/ Loaded \/ ToggleEdit \/ Navigate \/ Unmount
             \/ AskPublish \/ PublishOk \/ PublishRefused \/ UNCHANGED vars
    <2>1. posts' \subseteq posts
      BY <1>5 DEF RunWrite, Type, TimerFires, Loaded, ToggleEdit, Navigate, Unmount, AskPublish,
                  PublishOk, PublishRefused, vars
    <2> QED
      BY <2>1
  <1> QED
    BY <1>2, <1>3, <1>4, <1>5 DEF Next

LEMMA AskStep ==
    ASSUME AutosaveInv, AutosaveInv', StayInv, AsksInv, [Next]_vars, page' = page
    PROVE  AsksInv'
  <1>1. TypeOK /\ TextsInv /\ page \in Pages /\ HeadIsSending /\ TypeOK' /\ TextsInv'
    BY DEF AutosaveInv, TypeOK
  <1>2. /\ Waiting \subseteq Entry /\ Latest(page) \in Nat
        /\ \A v \in texts[page] : Latest(page) >= v
    BY <1>1, WaitingTyped, LatestIsTyped DEF TextsInv
  <1>3. CASE RunIdle \/ SaveOk \/ SaveFails
    <2>1. chain # <<>> /\ inflight' = None /\ texts' = texts /\ \E ok : Settle(ok)
      BY <1>1, <1>3 DEF RunIdle, SaveOk, SaveFails, HeadIsSending
    <2>2. Waiting' \subseteq Waiting
      BY <1>1, <2>1, SettleWaits
    <2> QED
      BY <2>1, <2>2 DEF AsksInv, Latest
  <1>4. CASE RunWrite
    <2>1. /\ chain # <<>> /\ inflight = None /\ pending # None /\ inflight' = pending
          /\ chain' = chain /\ texts' = texts
      BY <1>4 DEF RunWrite
    <2>2. pending.text = Latest(page)
      BY <2>1, NothingLeftMeansStored
    <2>3. Head(chain).ask # None => Head(chain).ask \in Waiting
      <3>1. 1 \in DOMAIN chain /\ Head(chain) = chain[1]
        BY <1>1, <2>1 DEF TypeOK
      <3> QED
        BY <3>1 DEF Waiting
    <2>4. Head(chain).ask # None =>
             Head(chain).ask.text <= Latest(page) /\ Head(chain).ask.text \in Nat
      BY <1>2, <2>3 DEF AsksInv, Entry
    <2> QED
      BY <1>2, <2>1, <2>2, <2>4 DEF AsksInv, Latest, Waiting
  <1>5. CASE Type
    <2>1. /\ chain' = chain /\ inflight' = inflight /\ texts[page] \subseteq texts'[page]
      BY <1>1, <1>5 DEF Type, TypeOK
    <2>2. Latest(page)' >= Latest(page) /\ Latest(page)' \in Nat
      <3>1. Latest(page) \in {0} \cup texts[page]
        BY <1>1, LatestIsTyped DEF TextsInv
      <3> QED
        BY <1>5, <3>1, TypedIsLatest
    <2>3. \A a \in Waiting : a.text \in Nat
      BY <1>2 DEF Entry
    <2>4. \A a \in Waiting : a.text <= Latest(page)'
      BY <1>2, <2>2, <2>3 DEF AsksInv
    <2> QED
      BY <2>1, <2>4 DEF AsksInv, Waiting
  <1>6. CASE TimerFires \/ Navigate \/ Unmount \/ AskPublish \/ PublishOk
    <2>1. inflight' = inflight /\ texts' = texts
      BY <1>6 DEF TimerFires, Navigate, Unmount, AskPublish, PublishOk
    <2>2. /\ Waiting' \subseteq Waiting \cup {[page |-> page, text |-> Latest(page)]}
          /\ chain # <<>> => Head(chain') = Head(chain)
      <3>1. [page |-> page, text |-> Latest(page)] \in Entry
        BY <1>1, <1>2 DEF Entry
      <3>2. \/ chain' = chain
            \/ \E force \in BOOLEAN : Chained(force, None)
            \/ Chained(FALSE, [page |-> page, text |-> Latest(page)])
        BY <1>6 DEF TimerFires, Navigate, Unmount, AskPublish, PublishOk, Leave
      <3>3. CASE chain' = chain
        BY <3>3 DEF Waiting
      <3>4. CASE \E force \in BOOLEAN : Chained(force, None)
        BY <1>1, <3>4, ChainedWaits
      <3>5. CASE Chained(FALSE, [page |-> page, text |-> Latest(page)])
        BY <1>1, <3>1, <3>5, ChainedWaits
      <3> QED
        BY <3>2, <3>3, <3>4, <3>5
    <2>3. \A a \in Waiting' : a.page = page /\ a.text <= Latest(page)
      BY <1>2, <2>2 DEF AsksInv
    <2> QED
      BY <1>1, <2>1, <2>2, <2>3 DEF AsksInv, Latest, HeadIsSending
  <1>7. CASE Loaded \/ ToggleEdit \/ PublishRefused \/ UNCHANGED vars
    BY <1>7 DEF Loaded, ToggleEdit, PublishRefused, vars, AsksInv, Waiting, Latest, ui
  <1> QED
    BY <1>3, <1>4, <1>5, <1>6, <1>7 DEF Next

(* While the editor stays on a page, a publish that goes on in an enabled      *)
(* editor carries every text typed before it was asked for, however many saves *)
(* wait before it and whichever of them fail.                                  *)
THEOREM PublishCarriesWhatWasTyped ==
    SafeSpec /\ [][page' = page]_vars => [][PublishCarriesAsk(enabled)]_vars
  <1>1. Init /\ AutosaveInv => StayInv /\ AsksInv
    BY DEF Init, StayInv, OnThisPage, SavedMeansIdle, NoEditForgotten, Latest, AsksInv, Waiting
  <1>2. StayInv /\ AsksInv /\ AutosaveInv /\ AutosaveInv' /\ [Next]_vars /\ [page' = page]_vars
           => (StayInv /\ AsksInv)'
    BY StepStays, AskStep DEF vars
  <1>3. StayInv /\ AsksInv /\ AutosaveInv /\ [Next]_vars => [PublishCarriesAsk(enabled)]_vars
    BY PublishCarries
  <1> QED
    BY <1>1, <1>2, <1>3, AutosaveInvariant, PTL DEF SafeSpec

-----------------------------------------------------------------------------
(* The editor *)

\* The theorems about baselines, titles and presence, for the variables of the
\* editor and each part of presence.
SessionTheorems == INSTANCE EditingPartsProofs WITH
  page <- basePage, editing <- baseEditing,
  Refreshes <- FALSE, ActsLoading <- FALSE,
  Titles <- {t1, t2}, Others <- TRUE, MaxTyped <- 3, MaxChanges <- 1, MaxFailures <- 1,
  Editors <- {u1, u2}, Timeout <- 3, Interval <- 2, MaxStay <- 0, MaxEvents <- 1,
  Ties <- FALSE, Fails <- TRUE, Losses <- FALSE, Overlaps <- FALSE

SnapshotsTheorems == INSTANCE EditingPartsProofs WITH
  page <- basePage, editing <- baseEditing,
  Refreshes <- FALSE, ActsLoading <- FALSE,
  Titles <- {t1, t2}, Others <- TRUE, MaxTyped <- 3, MaxChanges <- 1, MaxFailures <- 1,
  Editors <- {u1}, Timeout <- 2, Interval <- 1, MaxStay <- 1, MaxEvents <- 2,
  Ties <- FALSE, Fails <- FALSE, Losses <- FALSE, Overlaps <- TRUE

LossyTheorems == INSTANCE EditingPartsProofs WITH
  page <- basePage, editing <- baseEditing,
  Refreshes <- FALSE, ActsLoading <- FALSE,
  Titles <- {t1, t2}, Others <- TRUE, MaxTyped <- 3, MaxChanges <- 1, MaxFailures <- 1,
  Editors <- {u1}, Timeout <- 2, Interval <- 1, MaxStay <- 1, MaxEvents <- 1,
  Ties <- TRUE, Fails <- TRUE, Losses <- TRUE, Overlaps <- FALSE

-----------------------------------------------------------------------------
(* A behavior of the editor is one of each part *)

LEMMA AutosaveOfEditor == EditorSpec => SafeSpec
  <1>1. EditorInit => Init
    BY DEF EditorInit, AutosaveRests
  <1>2. [EditorNext]_editorVars => [Next]_vars
    BY DEF EditorNext, AutosaveStep, BaselineStep, TitleStep, PresenceStep, editorVars
  <1> QED
    BY <1>1, <1>2, PTL DEF EditorSpec, SafeSpec

(* The part's actions are those the theorems are about. *)
LEMMA SameActions ==
    ASSUME Baseline!Next
    PROVE  SessionTheorems!Baseline!Next
  <1>1. Baseline!OtherPublishes => SessionTheorems!Baseline!OtherPublishes
    BY DEF Baseline!OtherPublishes, SessionTheorems!Baseline!OtherPublishes, Baseline!client,
           SessionTheorems!Baseline!client, Baseline!reads, SessionTheorems!Baseline!reads
  <1>2. Baseline!ReadDraft => SessionTheorems!Baseline!ReadDraft
    BY DEF Baseline!ReadDraft, SessionTheorems!Baseline!ReadDraft, Baseline!Read,
           SessionTheorems!Baseline!Read
  <1>3. Baseline!ReadPage => SessionTheorems!Baseline!ReadPage
    BY DEF Baseline!ReadPage, SessionTheorems!Baseline!ReadPage, Baseline!Read,
           SessionTheorems!Baseline!Read
  <1>4. Baseline!Loaded => SessionTheorems!Baseline!Loaded
    BY DEF Baseline!Loaded, SessionTheorems!Baseline!Loaded, Baseline!NotRead,
           SessionTheorems!Baseline!NotRead, Baseline!client, SessionTheorems!Baseline!client
  <1>5. Baseline!Reopen => SessionTheorems!Baseline!Reopen
    BY DEF Baseline!Reopen, SessionTheorems!Baseline!Reopen, Baseline!client,
           SessionTheorems!Baseline!client, Baseline!reads, SessionTheorems!Baseline!reads
  <1>6. Baseline!ToggleEdit => SessionTheorems!Baseline!ToggleEdit
    BY DEF Baseline!ToggleEdit, SessionTheorems!Baseline!ToggleEdit, Baseline!client,
           SessionTheorems!Baseline!client, Baseline!reads, SessionTheorems!Baseline!reads
  <1>7. Baseline!RefreshStore => SessionTheorems!Baseline!RefreshStore
    BY DEF Baseline!RefreshStore, SessionTheorems!Baseline!RefreshStore, Baseline!reads,
           SessionTheorems!Baseline!reads
  <1>8. Baseline!TypeBody => SessionTheorems!Baseline!TypeBody
    BY DEF Baseline!TypeBody, SessionTheorems!Baseline!TypeBody, Baseline!client,
           SessionTheorems!Baseline!client, Baseline!reads, SessionTheorems!Baseline!reads,
           Baseline!Baseline, SessionTheorems!Baseline!Baseline
  <1>9. Baseline!SendBody => SessionTheorems!Baseline!SendBody
    BY DEF Baseline!SendBody, SessionTheorems!Baseline!SendBody, Baseline!CanUpsert,
           SessionTheorems!Baseline!CanUpsert, Baseline!Upserted, SessionTheorems!Baseline!Upserted,
           Baseline!reads, SessionTheorems!Baseline!reads
  <1>10. Baseline!SaveTitle => SessionTheorems!Baseline!SaveTitle
    BY DEF Baseline!SaveTitle, SessionTheorems!Baseline!SaveTitle, Baseline!Usable,
           SessionTheorems!Baseline!Usable, Baseline!CanUpsert, SessionTheorems!Baseline!CanUpsert,
           Baseline!Upserted, SessionTheorems!Baseline!Upserted, Baseline!Baseline,
           SessionTheorems!Baseline!Baseline, Baseline!reads, SessionTheorems!Baseline!reads
  <1>11. Baseline!Rename => SessionTheorems!Baseline!Rename
    BY DEF Baseline!Rename, SessionTheorems!Baseline!Rename, Baseline!Usable,
           SessionTheorems!Baseline!Usable, Baseline!recordOwnPageWrite,
           SessionTheorems!Baseline!recordOwnPageWrite, Baseline!reads,
             SessionTheorems!Baseline!reads
  <1>12. Baseline!Publish => SessionTheorems!Baseline!Publish
    BY DEF Baseline!Publish, SessionTheorems!Baseline!Publish, Baseline!Usable,
           SessionTheorems!Baseline!Usable, Baseline!recordOwnPageWrite,
           SessionTheorems!Baseline!recordOwnPageWrite, Baseline!reads,
             SessionTheorems!Baseline!reads
  <1> QED
    BY <1>1, <1>2, <1>3, <1>4, <1>5, <1>6, <1>7, <1>8, <1>9, <1>10, <1>11, <1>12
    DEF Baseline!Next, SessionTheorems!Baseline!Next

LEMMA BaselineOfEditor == EditorSpec => SessionTheorems!Baseline!Spec
  <1>1. EditorInit => SessionTheorems!Baseline!Init
    BY DEF EditorInit, BaselineRests, Baseline!Init, Baseline!NotRead,
           SessionTheorems!Baseline!Init, SessionTheorems!Baseline!NotRead
  <1>2. [EditorNext]_editorVars => [Baseline!Next]_baselineVars
    BY DEF EditorNext, AutosaveStep, BaselineStep, TitleStep, PresenceStep, editorVars
  <1>3. [EditorNext]_editorVars => [SessionTheorems!Baseline!Next]_(SessionTheorems!Baseline!vars)
    BY <1>2, SameActions
    DEF baselineVars, SessionTheorems!Baseline!vars, SessionTheorems!Baseline!client,
      SessionTheorems!Baseline!reads
  <1> QED
    BY <1>1, <1>3, PTL DEF EditorSpec, SessionTheorems!Baseline!Spec

LEMMA PartStays ==
    ASSUME [EditorNext]_editorVars
    PROVE  part' = part /\ (part = "page" => [page' = page]_vars)
  BY DEF EditorNext, AutosaveStep, BaselineStep, TitleStep, PresenceStep, editorVars, vars

(* While the editor stays on a page, no text typed is forgotten, "saved" is   *)
(* shown of what is stored, and a publish carries what was typed before it.   *)
THEOREM EditorLosesNoEdit == EditorSpec => NoEditLost
  <1>1. EditorSpec => [][EditorNext]_editorVars
    BY DEF EditorSpec
  <1>2. part = "page" /\ [EditorNext]_editorVars => (part = "page")' /\ [page' = page]_vars
    BY PartStays
  <1>3. ~(part = "page") /\ [EditorNext]_editorVars => ~(part = "page")'
    BY PartStays
  <1>4. EditorSpec /\ part = "page" => [](NoEditForgotten /\ SavedMeansStored)
                                   /\ [][PublishCarriesAsk(enabled)]_vars
    BY <1>1, <1>2, AutosaveOfEditor, NoEditForgottenOnAPage, PublishCarriesWhatWasTyped, PTL
  <1>5. EditorSpec /\ ~(part = "page") => []~(part = "page")
    BY <1>1, <1>3, PTL
  <1>6. [PublishCarriesAsk(enabled)]_vars
           => [part = "page" => PublishCarriesAsk(enabled)]_editorVars
    BY DEF PublishCarriesAsk, vars
  <1>7. ~(part = "page") => [part = "page" => PublishCarriesAsk(enabled)]_editorVars
    OBVIOUS
  <1> QED
    BY <1>4, <1>5, <1>6, <1>7, PTL DEF NoEditLost

(* The saves that the editor makes are those TypedTexts promises, on one page *)
(* and from page to page.                                                     *)
THEOREM EditorImplementsTypedTexts == EditorSpec => ImplementsTypedTexts
  BY AutosaveOfEditor, AutosaveImplementsTypedTexts, PTL

(* An author's own saves and renames never make a publish of his conflict, and a *)
(* body of another user's is replaced only by one written from it, whatever the   *)
(* versions and bodies.                                                           *)
THEOREM BaselinesProtect == EditorSpec => BaselineProtects
  <1>1. SessionTheorems!Baseline!BaselineAssumption
    BY EditorAssumption DEF Baseline!BaselineAssumption, SessionTheorems!Baseline!BaselineAssumption
  <1>2. SessionTheorems!Baseline!Spec => []SessionTheorems!Baseline!NoSelfConflict
    BY <1>1, SessionTheorems!NeverConflictsWithItself
  <1>3. SessionTheorems!Baseline!Spec => SessionTheorems!Baseline!PublishReplacesWhatTheEditorShowed
    BY <1>1, SessionTheorems!NothingReplacedUnseen
  <1>4. SessionTheorems!Baseline!NoSelfConflict => Baseline!NoSelfConflict
    BY DEF Baseline!NoSelfConflict, SessionTheorems!Baseline!NoSelfConflict, Baseline!CanUpsert,
           SessionTheorems!Baseline!CanUpsert, Baseline!Baseline, SessionTheorems!Baseline!Baseline
  <1>5. [SessionTheorems!Baseline!Publish /\ draft.body # 0
          /\ SessionTheorems!Baseline!Foreign(basePage.body)
            => basePage.body \in stems[draft.body]]_(SessionTheorems!Baseline!vars)
        => [Baseline!Publish /\ draft.body # 0 /\ Baseline!Foreign(basePage.body)
            => basePage.body \in stems[draft.body]]_(Baseline!vars)
    BY DEF Baseline!Foreign, SessionTheorems!Baseline!Foreign, Baseline!Publish,
           SessionTheorems!Baseline!Publish, Baseline!Usable, SessionTheorems!Baseline!Usable,
           Baseline!recordOwnPageWrite, SessionTheorems!Baseline!recordOwnPageWrite,
           Baseline!vars, SessionTheorems!Baseline!vars, Baseline!client,
             SessionTheorems!Baseline!client,
           Baseline!reads, SessionTheorems!Baseline!reads
  <1> QED
    BY <1>2, <1>3, <1>4, <1>5, BaselineOfEditor, PTL
    DEF BaselineProtects, Baseline!PublishReplacesWhatTheEditorShowed,
        SessionTheorems!Baseline!PublishReplacesWhatTheEditorShowed

-----------------------------------------------------------------------------
(* Who is editing *)

LEMMA SameSession ==
    ASSUME Session!Next
    PROVE  SessionTheorems!Next
  <1>1. Session!Cardinality(events) = SessionTheorems!Cardinality(events)
    BY DEF Session!Cardinality, SessionTheorems!Cardinality
  <1> QED
    BY <1>1, ZenonT(120)
    DEF Session!server, SessionTheorems!server, Session!viewer, SessionTheorems!viewer,
        Session!Kinds, SessionTheorems!Kinds, Session!Old, SessionTheorems!Old, Session!Ages,
        SessionTheorems!Ages, Session!NewTask, SessionTheorems!NewTask, Session!NewFetch,
        SessionTheorems!NewFetch, Session!Active, SessionTheorems!Active, Session!Older,
        SessionTheorems!Older, Session!Aged, SessionTheorems!Aged, Session!IsLate,
        SessionTheorems!IsLate, Session!Tick, SessionTheorems!Tick, Session!Stamped,
        SessionTheorems!Stamped, Session!StampedNow, SessionTheorems!StampedNow, Session!MayStamp,
        SessionTheorems!MayStamp, Session!MayAsk, SessionTheorems!MayAsk, Session!Put,
        SessionTheorems!Put, Session!Save, SessionTheorems!Save, Session!End, SessionTheorems!End,
        Session!Suppressed, SessionTheorems!Suppressed, Session!Claim, SessionTheorems!Claim,
        Session!Cleared, SessionTheorems!Cleared, Session!Announce, SessionTheorems!Announce,
        Session!Released, SessionTheorems!Released, Session!Query, SessionTheorems!Query,
        Session!ServeFetch, SessionTheorems!ServeFetch, Session!Shows, SessionTheorems!Shows,
        Session!OpenPage, SessionTheorems!OpenPage, Session!LeavePage, SessionTheorems!LeavePage,
        Session!FetchArrives, SessionTheorems!FetchArrives, Session!IsNewer,
        SessionTheorems!IsNewer, Session!EventArrives, SessionTheorems!EventArrives,
        Session!Expires, SessionTheorems!Expires, Session!TimerFires, SessionTheorems!TimerFires,
        Session!Lose, SessionTheorems!Lose, Session!Next, SessionTheorems!Next

LEMMA SameSnapshots ==
    ASSUME Snapshots!Next
    PROVE  SnapshotsTheorems!Next
  <1>1. Snapshots!Cardinality(events) = SnapshotsTheorems!Cardinality(events)
    BY DEF Snapshots!Cardinality, SnapshotsTheorems!Cardinality
  <1> QED
    BY <1>1, ZenonT(120)
    DEF Snapshots!server, SnapshotsTheorems!server, Snapshots!viewer, SnapshotsTheorems!viewer,
        Snapshots!Kinds, SnapshotsTheorems!Kinds, Snapshots!Old, SnapshotsTheorems!Old,
        Snapshots!Ages, SnapshotsTheorems!Ages, Snapshots!NewTask, SnapshotsTheorems!NewTask,
        Snapshots!NewFetch, SnapshotsTheorems!NewFetch, Snapshots!Active,
        SnapshotsTheorems!Active, Snapshots!Older, SnapshotsTheorems!Older, Snapshots!Aged,
        SnapshotsTheorems!Aged, Snapshots!IsLate, SnapshotsTheorems!IsLate, Snapshots!Tick,
        SnapshotsTheorems!Tick, Snapshots!Stamped, SnapshotsTheorems!Stamped,
        Snapshots!StampedNow, SnapshotsTheorems!StampedNow, Snapshots!MayStamp,
        SnapshotsTheorems!MayStamp, Snapshots!MayAsk, SnapshotsTheorems!MayAsk, Snapshots!Put,
        SnapshotsTheorems!Put, Snapshots!Save, SnapshotsTheorems!Save, Snapshots!End,
        SnapshotsTheorems!End, Snapshots!Suppressed, SnapshotsTheorems!Suppressed,
        Snapshots!Claim, SnapshotsTheorems!Claim, Snapshots!Cleared, SnapshotsTheorems!Cleared,
        Snapshots!Announce, SnapshotsTheorems!Announce, Snapshots!Released,
        SnapshotsTheorems!Released, Snapshots!Query, SnapshotsTheorems!Query,
        Snapshots!ServeFetch, SnapshotsTheorems!ServeFetch, Snapshots!Shows,
        SnapshotsTheorems!Shows, Snapshots!OpenPage, SnapshotsTheorems!OpenPage,
        Snapshots!LeavePage, SnapshotsTheorems!LeavePage, Snapshots!FetchArrives,
        SnapshotsTheorems!FetchArrives, Snapshots!IsNewer, SnapshotsTheorems!IsNewer,
        Snapshots!EventArrives, SnapshotsTheorems!EventArrives, Snapshots!Expires,
        SnapshotsTheorems!Expires, Snapshots!TimerFires, SnapshotsTheorems!TimerFires,
        Snapshots!Lose, SnapshotsTheorems!Lose, Snapshots!Next, SnapshotsTheorems!Next

LEMMA PresencePartStays ==
    ASSUME [EditorNext]_editorVars
    PROVE  /\ part' = part
           /\ part = "session" => Session!Next \/ UNCHANGED presenceVars
           /\ part = "snapshots" => Snapshots!Next \/ UNCHANGED presenceVars
  BY DEF EditorNext, AutosaveStep, BaselineStep, TitleStep, PresenceStep, editorVars

LEMMA SessionOfEditor == EditorSpec /\ part = "session" => SessionTheorems!Spec
  <1>1. EditorInit /\ part = "session" => SessionTheorems!Init
    BY DEF EditorInit, Session!Init, SessionTheorems!Init, Session!Kinds, SessionTheorems!Kinds
  <1>2. part = "session" /\ [EditorNext]_editorVars
          => (part = "session")' /\ [SessionTheorems!Next]_(SessionTheorems!vars)
    BY PresencePartStays, SameSession
    DEF presenceVars, SessionTheorems!vars, SessionTheorems!server, SessionTheorems!viewer
  <1> QED
    BY <1>1, <1>2, PTL DEF EditorSpec, SessionTheorems!Spec

LEMMA SnapshotsOfEditor == EditorSpec /\ part = "snapshots" => SnapshotsTheorems!Spec
  <1>1. EditorInit /\ part = "snapshots" => SnapshotsTheorems!Init
    BY DEF EditorInit, Snapshots!Init, SnapshotsTheorems!Init, Snapshots!Kinds,
      SnapshotsTheorems!Kinds
  <1>2. part = "snapshots" /\ [EditorNext]_editorVars
          => (part = "snapshots")' /\ [SnapshotsTheorems!Next]_(SnapshotsTheorems!vars)
    BY PresencePartStays, SameSnapshots
    DEF presenceVars, SnapshotsTheorems!vars, SnapshotsTheorems!server, SnapshotsTheorems!viewer
  <1> QED
    BY <1>1, <1>2, PTL DEF EditorSpec, SnapshotsTheorems!Spec

(* Whoever's saves are not announced again is on the viewer's screen, and nobody  *)
(* is whose session ended, in whatever order the snapshots arrive.                *)
THEOREM EditorsOnScreen == EditorSpec => []EditorsShownAreEditing
  <1>1. SessionTheorems!Spec => []SessionTheorems!NobodySuppressedUnseen
    <2>1. SessionTheorems!PresenceAssumption
      BY EditorAssumption DEF Session!PresenceAssumption, SessionTheorems!PresenceAssumption
    <2>2. 2 + 0 <= 3 + 1
      OBVIOUS
    <2> QED
      BY <2>1, <2>2, SessionTheorems!SuppressedAreSeen
  <1>2. SnapshotsTheorems!Spec => []SnapshotsTheorems!EndedSessionsAreGone
    <2>1. SnapshotsTheorems!PresenceAssumption
      BY EditorAssumption DEF Snapshots!PresenceAssumption, SnapshotsTheorems!PresenceAssumption
    <2>2. 1 <= 2
      OBVIOUS
    <2> QED
      BY <2>1, <2>2, SnapshotsTheorems!EndedSessionsLeave
  <1>3. SessionTheorems!NobodySuppressedUnseen => Session!NobodySuppressedUnseen
    BY DEF SessionTheorems!NobodySuppressedUnseen, Session!NobodySuppressedUnseen,
           SessionTheorems!Quiet, Session!Quiet, SessionTheorems!Active, Session!Active,
           SessionTheorems!Suppressed, Session!Suppressed, SessionTheorems!Shown, Session!Shown,
           SessionTheorems!Kinds, Session!Kinds
  <1>4. SnapshotsTheorems!EndedSessionsAreGone => Snapshots!EndedSessionsAreGone
    BY DEF SnapshotsTheorems!EndedSessionsAreGone, Snapshots!EndedSessionsAreGone,
           SnapshotsTheorems!Quiet, Snapshots!Quiet, SnapshotsTheorems!Shown, Snapshots!Shown,
           SnapshotsTheorems!Kinds, Snapshots!Kinds
  <1>5. /\ ~(part = "session") /\ [EditorNext]_editorVars => ~(part = "session")'
        /\ ~(part = "snapshots") /\ [EditorNext]_editorVars => ~(part = "snapshots")'
    BY PresencePartStays
  <1>6. EditorSpec => [](part = "session" => Session!NobodySuppressedUnseen)
    <2>1. EditorSpec /\ part = "session" => []Session!NobodySuppressedUnseen
      BY <1>1, <1>3, SessionOfEditor, PTL
    <2>2. EditorSpec /\ ~(part = "session") => []~(part = "session")
      BY <1>5, PTL DEF EditorSpec
    <2> QED
      BY <2>1, <2>2, PTL
  <1>7. EditorSpec => [](part = "snapshots" => Snapshots!EndedSessionsAreGone)
    <2>1. EditorSpec /\ part = "snapshots" => []Snapshots!EndedSessionsAreGone
      BY <1>2, <1>4, SnapshotsOfEditor, PTL
    <2>2. EditorSpec /\ ~(part = "snapshots") => []~(part = "snapshots")
      BY <1>5, PTL DEF EditorSpec
    <2> QED
      BY <2>1, <2>2, PTL
  <1> QED
    BY <1>6, <1>7, PTL DEF EditorsShownAreEditing

-----------------------------------------------------------------------------
(* The title field *)

LEMMA SameTitle == Title!Next => SessionTheorems!Title!Next
  BY ZenonT(120)
  DEF Title!store, SessionTheorems!Title!store, Title!ghosts, SessionTheorems!Title!ghosts,
      Title!counts, SessionTheorems!Title!counts, Title!Stored, SessionTheorems!Title!Stored,
      Title!Texts, SessionTheorems!Title!Texts, Title!Buffer, SessionTheorems!Title!Buffer,
      Title!Plain, SessionTheorems!Title!Plain, Title!asBuffer, SessionTheorems!Title!asBuffer,
      Title!asStored, SessionTheorems!Title!asStored, Title!View, SessionTheorems!Title!View,
      Title!Followed, SessionTheorems!Title!Followed, Title!Sent, SessionTheorems!Title!Sent,
      Title!Continued, SessionTheorems!Title!Continued, Title!Noted, SessionTheorems!Title!Noted,
      Title!Type, SessionTheorems!Title!Type, Title!Cancel, SessionTheorems!Title!Cancel,
      Title!Commit, SessionTheorems!Title!Commit, Title!Leave, SessionTheorems!Title!Leave,
      Title!Unmount, SessionTheorems!Title!Unmount, Title!Renders, SessionTheorems!Title!Renders,
      Title!Enter, SessionTheorems!Title!Enter, Title!Answered, SessionTheorems!Title!Answered,
      Title!WriteOk, SessionTheorems!Title!WriteOk, Title!WriteFails,
      SessionTheorems!Title!WriteFails, Title!Elsewhere, SessionTheorems!Title!Elsewhere,
      Title!PageArrives, SessionTheorems!Title!PageArrives, Title!DraftArrives,
      SessionTheorems!Title!DraftArrives, Title!Publish, SessionTheorems!Title!Publish,
      Title!Next, SessionTheorems!Title!Next

LEMMA TitleOfEditor == EditorSpec => SessionTheorems!TitleSafeSpec
  <1>1. EditorInit => Title!Init
    BY DEF EditorInit, TitleRests
  <1>2. Title!Init => SessionTheorems!Title!Init
    BY DEF Title!Init, SessionTheorems!Title!Init, Title!Stored, SessionTheorems!Title!Stored,
           Title!View, SessionTheorems!Title!View, Title!asBuffer, SessionTheorems!Title!asBuffer,
           Title!Plain, SessionTheorems!Title!Plain
  <1>3. [EditorNext]_editorVars => [Title!Next]_titleVars
    BY DEF EditorNext, AutosaveStep, BaselineStep, TitleStep, PresenceStep, editorVars
  <1>4. [EditorNext]_editorVars
          => [SessionTheorems!Title!Next]_(SessionTheorems!Title!vars)
    BY <1>3, SameTitle
    DEF titleVars, SessionTheorems!Title!vars, SessionTheorems!Title!store,
        SessionTheorems!Title!ghosts, SessionTheorems!Title!counts
  <1> QED
    BY <1>1, <1>2, <1>4, PTL DEF EditorSpec, SessionTheorems!TitleSafeSpec

LEMMA SameTitleAssumption == SessionTheorems!Title!TitleAssumption
  BY EditorAssumption DEF Title!TitleAssumption, SessionTheorems!Title!TitleAssumption

(* A title typed stays in the field or on its way until it is stored or         *)
(* cancelled, whatever titles, answers and failures arrive.                     *)
THEOREM TypedTitlesStay == EditorSpec => []TypedTitleStays
  <1>1. SessionTheorems!Title!TypedStays => TypedTitleStays
    BY DEF TypedTitleStays, Title!TypedStays, SessionTheorems!Title!TypedStays, Title!TypedIsHeld,
           SessionTheorems!Title!TypedIsHeld
  <1> QED
    BY <1>1, TitleOfEditor, SameTitleAssumption, SessionTheorems!WhatIsTypedStays, PTL

-----------------------------------------------------------------------------
(* Types *)

LEMMA SameLossy ==
    ASSUME Lossy!Next
    PROVE  LossyTheorems!Next
  <1>1. Lossy!Cardinality(events) = LossyTheorems!Cardinality(events)
    BY DEF Lossy!Cardinality, LossyTheorems!Cardinality
  <1> QED
    BY <1>1, ZenonT(120)
    DEF Lossy!server, LossyTheorems!server, Lossy!viewer, LossyTheorems!viewer, Lossy!Kinds,
        LossyTheorems!Kinds, Lossy!Old, LossyTheorems!Old, Lossy!Ages, LossyTheorems!Ages,
        Lossy!NewTask, LossyTheorems!NewTask, Lossy!NewFetch, LossyTheorems!NewFetch,
        Lossy!Active, LossyTheorems!Active, Lossy!Older, LossyTheorems!Older, Lossy!Aged,
        LossyTheorems!Aged, Lossy!IsLate, LossyTheorems!IsLate, Lossy!Tick, LossyTheorems!Tick,
        Lossy!Stamped, LossyTheorems!Stamped, Lossy!StampedNow, LossyTheorems!StampedNow,
        Lossy!MayStamp, LossyTheorems!MayStamp, Lossy!MayAsk, LossyTheorems!MayAsk, Lossy!Put,
        LossyTheorems!Put, Lossy!Save, LossyTheorems!Save, Lossy!End, LossyTheorems!End,
        Lossy!Suppressed, LossyTheorems!Suppressed, Lossy!Claim, LossyTheorems!Claim,
        Lossy!Cleared, LossyTheorems!Cleared, Lossy!Announce, LossyTheorems!Announce,
        Lossy!Released, LossyTheorems!Released, Lossy!Query, LossyTheorems!Query,
        Lossy!ServeFetch, LossyTheorems!ServeFetch, Lossy!Shows, LossyTheorems!Shows,
        Lossy!OpenPage, LossyTheorems!OpenPage, Lossy!LeavePage, LossyTheorems!LeavePage,
        Lossy!FetchArrives, LossyTheorems!FetchArrives, Lossy!IsNewer, LossyTheorems!IsNewer,
        Lossy!EventArrives, LossyTheorems!EventArrives, Lossy!Expires, LossyTheorems!Expires,
        Lossy!TimerFires, LossyTheorems!TimerFires, Lossy!Lose, LossyTheorems!Lose, Lossy!Next,
        LossyTheorems!Next

LEMMA LossyOfEditor == EditorSpec /\ part = "lossy" => LossyTheorems!Spec
  <1>1. EditorInit /\ part = "lossy" => LossyTheorems!Init
    BY DEF EditorInit, Lossy!Init, LossyTheorems!Init, Lossy!Kinds, LossyTheorems!Kinds
  <1>2. part = "lossy" /\ [EditorNext]_editorVars
          => (part = "lossy")' /\ [LossyTheorems!Next]_(LossyTheorems!vars)
    <2>1. ASSUME part = "lossy", [EditorNext]_editorVars
          PROVE  part' = part /\ (Lossy!Next \/ UNCHANGED presenceVars)
      BY <2>1 DEF EditorNext, AutosaveStep, BaselineStep, TitleStep, PresenceStep, editorVars
    <2> QED
      BY <2>1, SameLossy
      DEF presenceVars, LossyTheorems!vars, LossyTheorems!server, LossyTheorems!viewer
  <1> QED
    BY <1>1, <1>2, PTL DEF EditorSpec, LossyTheorems!Spec

(* Each part of the editor stays well typed. *)
THEOREM EditorTypes == EditorSpec => []TypesOK
  <1>1. /\ ~(part = "lossy") /\ [EditorNext]_editorVars => ~(part = "lossy")'
        /\ ~(part = "session") /\ [EditorNext]_editorVars => ~(part = "session")'
        /\ ~(part = "snapshots") /\ [EditorNext]_editorVars => ~(part = "snapshots")'
    BY PartStays
  <1>2. EditorSpec => []TypeOK
    <2>1. AutosaveInv => TypeOK
      BY DEF AutosaveInv
    <2> QED
      BY <2>1, AutosaveOfEditor, AutosaveInvariant, PTL
  <1>3. EditorSpec => []Baseline!TypeOK
    <2>1. SessionTheorems!Baseline!BaselineAssumption
      BY EditorAssumption
      DEF Baseline!BaselineAssumption, SessionTheorems!Baseline!BaselineAssumption
    <2>2. SessionTheorems!Baseline!TypeOK => Baseline!TypeOK
      BY DEF SessionTheorems!Baseline!TypeOK, Baseline!TypeOK
    <2> QED
      BY <2>1, <2>2, BaselineOfEditor, SessionTheorems!BaselineTypes, PTL
  <1>4. EditorSpec => []Title!TypeOK
    <2>1. SessionTheorems!TitleInv => Title!TypeOK
      BY DEF SessionTheorems!TitleInv, Title!TypeOK, SessionTheorems!Title!TypeOK, Title!Stored,
             SessionTheorems!Title!Stored, Title!Texts, SessionTheorems!Title!Texts, Title!Buffer,
             SessionTheorems!Title!Buffer, Title!Write, SessionTheorems!Title!Write
    <2> QED
      BY <2>1, TitleOfEditor, SameTitleAssumption, SessionTheorems!TitleInvariant, PTL
  <1>5. EditorSpec => [](part = "lossy" => Lossy!TypeOK)
    <2>1. LossyTheorems!PresenceAssumption
      BY EditorAssumption DEF Lossy!PresenceAssumption, LossyTheorems!PresenceAssumption
    <2>2. LossyTheorems!TypeOK => Lossy!TypeOK
      <3>1. Lossy!Cardinality(events) = LossyTheorems!Cardinality(events)
        BY DEF Lossy!Cardinality, LossyTheorems!Cardinality
      <3> QED
        BY <3>1
        DEF Lossy!TypeOK, LossyTheorems!TypeOK, Lossy!Kinds, LossyTheorems!Kinds, Lossy!Old,
            LossyTheorems!Old, Lossy!Ages, LossyTheorems!Ages, Lossy!Stamped,
            LossyTheorems!Stamped
    <2>3. EditorSpec /\ part = "lossy" => []Lossy!TypeOK
      BY <2>1, <2>2, LossyOfEditor, LossyTheorems!PresenceTypes, PTL
    <2>4. EditorSpec /\ ~(part = "lossy") => []~(part = "lossy")
      BY <1>1, PTL DEF EditorSpec
    <2> QED
      BY <2>3, <2>4, PTL
  <1>6. EditorSpec => [](part = "session" => Session!TypeOK)
    <2>1. SessionTheorems!PresenceAssumption
      BY EditorAssumption DEF Session!PresenceAssumption, SessionTheorems!PresenceAssumption
    <2>2. SessionTheorems!TypeOK => Session!TypeOK
      <3>1. Session!Cardinality(events) = SessionTheorems!Cardinality(events)
        BY DEF Session!Cardinality, SessionTheorems!Cardinality
      <3> QED
        BY <3>1
        DEF Session!TypeOK, SessionTheorems!TypeOK, Session!Kinds, SessionTheorems!Kinds,
            Session!Old, SessionTheorems!Old, Session!Ages, SessionTheorems!Ages, Session!Stamped,
            SessionTheorems!Stamped
    <2>3. EditorSpec /\ part = "session" => []Session!TypeOK
      BY <2>1, <2>2, SessionOfEditor, SessionTheorems!PresenceTypes, PTL
    <2>4. EditorSpec /\ ~(part = "session") => []~(part = "session")
      BY <1>1, PTL DEF EditorSpec
    <2> QED
      BY <2>3, <2>4, PTL
  <1>7. EditorSpec => [](part = "snapshots" => Snapshots!TypeOK)
    <2>1. SnapshotsTheorems!PresenceAssumption
      BY EditorAssumption DEF Snapshots!PresenceAssumption, SnapshotsTheorems!PresenceAssumption
    <2>2. SnapshotsTheorems!TypeOK => Snapshots!TypeOK
      <3>1. Snapshots!Cardinality(events) = SnapshotsTheorems!Cardinality(events)
        BY DEF Snapshots!Cardinality, SnapshotsTheorems!Cardinality
      <3> QED
        BY <3>1
        DEF Snapshots!TypeOK, SnapshotsTheorems!TypeOK, Snapshots!Kinds, SnapshotsTheorems!Kinds,
            Snapshots!Old, SnapshotsTheorems!Old, Snapshots!Ages, SnapshotsTheorems!Ages,
            Snapshots!Stamped, SnapshotsTheorems!Stamped
    <2>3. EditorSpec /\ part = "snapshots" => []Snapshots!TypeOK
      BY <2>1, <2>2, SnapshotsOfEditor, SnapshotsTheorems!PresenceTypes, PTL
    <2>4. EditorSpec /\ ~(part = "snapshots") => []~(part = "snapshots")
      BY <1>1, PTL DEF EditorSpec
    <2> QED
      BY <2>3, <2>4, PTL
  <1> QED
    BY <1>2, <1>3, <1>4, <1>5, <1>6, <1>7, PTL DEF TypesOK

=============================================================================
