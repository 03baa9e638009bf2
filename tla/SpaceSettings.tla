--------------------------- MODULE SpaceSettings ---------------------------
(***************************************************************************)
(* The space settings modal.  Its fields are copied from the space when it *)
(* opens, its idea of what is saved is read live from the store, a save    *)
(* writes every managed field under the version the store holds at that    *)
(* moment, and closing is guarded while there are unsaved edits.  Another  *)
(* member saves the same space; the team's list, read earlier, may arrive  *)
(* at any time; the same modal archives the space.                         *)
(***************************************************************************)
EXTENDS Naturals

CONSTANTS
  Values,       \* titles, landing pages and other props
  Blank,        \* the empty title
  None,         \* nothing in flight, no form
  Gone,         \* the store holds no such space
  Refreshes,    \* a listing may arrive while the modal is open
  Archives,     \* the modal's archive tab is used
  MaxVersion    \* bound on the space's version

Managed == {"title", "landing"}
Rows == [title : Values \ {Blank}, landing : Values, extra : Values, version : 1..MaxVersion]

Forms == [Managed -> Values]
Patches == [title : Values \ {Blank}, landing : Values, extra : Values]
Saves == [patch : Patches, base : 1..MaxVersion, since : 1..MaxVersion, answer : Rows \cup {None}]

SettingsAssumption ==
  /\ Blank \in Values /\ MaxVersion \in Nat \ {0}
  /\ {Refreshes, Archives} \subseteq BOOLEAN
  /\ None # Gone /\ None \notin Forms \cup Rows \cup Saves /\ Gone \notin Rows

VARIABLES
  row,         \* server: [title, landing, extra, version]; extra is another prop
  archived,    \* server: the space is archived
  changed,     \* history: the version at which another member last changed a field
  store,       \* entities.spaces' copy of the space, or Gone
  pruned,      \* history: this client's archive took the space out of its store
  listing,     \* a listing's answer on its way: a row, Gone or None
  dialog,      \* the modal: "none", "open", "closing" (its exit runs) or "hidden"
  form,        \* the Info tab's fields [title, landing], None when unmounted
  since,       \* history: the version whose fields the form was last set from
  discarding,  \* the discard prompt is asked for
  saving,      \* updateSpace under way, or None
  archiving    \* deleteSpace under way: "no", "asked" or "done"

server == <<row, archived, changed>>
modal == <<dialog, form, since, discarding>>
vars == <<server, store, pruned, listing, modal, saving, archiving>>

Init ==
  /\ row \in {r \in Rows : r.version = 1 /\ r.landing = Blank /\ r.extra = Blank}
  /\ archived = FALSE
  /\ changed = [f \in Managed |-> 1]
  /\ store = row
  /\ pruned = FALSE
  /\ listing = None
  /\ dialog = "none" /\ form = None /\ since = 0 /\ discarding = FALSE
  /\ saving = None
  /\ archiving = "no"

Shown(r) == [f \in Managed |-> r[f]]

-----------------------------------------------------------------------------
(* The modal *)

\* Opened again only when the requests of the last time are answered.
Open ==
  /\ dialog = "none" /\ store # Gone
  /\ saving = None /\ archiving = "no"
  /\ dialog' = "open"
  /\ form' = Shown(store)
  /\ since' = store.version
  /\ UNCHANGED <<server, store, pruned, listing, discarding, saving, archiving>>

Edit(f, v) ==
  /\ dialog = "open" /\ form[f] # v
  /\ form' = [form EXCEPT ![f] = v]
  /\ UNCHANGED <<server, store, pruned, listing, dialog, since, discarding, saving, archiving>>

\* The form against the live space.  An open modal's space is always in the
\* store here: only the modal's own archive takes it out, and closes it.
Dirty == form # None /\ form # Shown(store)

Reset ==
  /\ dialog = "open" /\ Dirty /\ saving = None
  /\ form' = Shown(store)
  /\ since' = store.version
  /\ UNCHANGED <<server, store, pruned, listing, dialog, discarding, saving, archiving>>

\* Every managed field, touched or not, with the props merged onto the live map.
Patch == [title |-> form.title, landing |-> form.landing, extra |-> store.extra]

\* Mutant of Expected: the server's own version, as a forced write has it.
ExpectedAny == row.version

\* updateSpace's expectedUpdateAt, read from the store at the call.
Expected == store.version

Save ==
  /\ dialog = "open" /\ Dirty /\ form.title # Blank /\ saving = None
  /\ saving' = [patch |-> Patch, base |-> Expected, since |-> since, answer |-> None]
  /\ UNCHANGED <<server, store, pruned, listing, modal, archiving>>

\* Backdrop, Escape or the close button: the dialog's exit starts at once.
Dismiss ==
  /\ dialog = "open"
  /\ dialog' = "closing"
  /\ UNCHANGED <<server, store, pruned, listing, form, since, discarding, saving, archiving>>

CloseModal == dialog' = "none" /\ form' = None

\* handleClose: unsaved edits ask for the prompt, and the modal stays mounted.
\* By now the dialog it would be drawn in is closed.
HandleClose ==
  IF Dirty THEN dialog' = "hidden" /\ discarding' = TRUE /\ UNCHANGED form
  ELSE CloseModal /\ UNCHANGED discarding

\* The exit has finished and only now the owner hears of the dismissal.
ExitComplete ==
  /\ dialog = "closing"
  /\ HandleClose
  /\ UNCHANGED <<server, store, pruned, listing, since, saving, archiving>>

-----------------------------------------------------------------------------
(* Saving and archiving *)

CanWrite(base) == ~archived /\ base = row.version

\* Store.UpdateSpace takes a patch on the current version.
ServerSaves ==
  /\ saving # None /\ saving.answer = None
  /\ CanWrite(saving.base) /\ row.version < MaxVersion
  /\ row' = [title |-> saving.patch.title, landing |-> saving.patch.landing,
             extra |-> saving.patch.extra, version |-> row.version + 1]
  /\ saving' = [saving EXCEPT !.answer = row']
  /\ UNCHANGED <<archived, changed, store, pruned, listing, modal, archiving>>

SaveAnswered ==
  /\ saving # None /\ saving.answer # None
  /\ store' = saving.answer
  /\ since' = IF form = None THEN since ELSE saving.answer.version
  /\ saving' = None
  /\ UNCHANGED <<server, pruned, listing, dialog, form, discarding, archiving>>

\* Refused as stale, or failed on the way there or back: the store is not
\* touched and the save bar shows the reason.
SaveFails ==
  /\ saving # None
  /\ saving.answer = None => ~CanWrite(saving.base)
  /\ saving' = None
  /\ UNCHANGED <<server, store, pruned, listing, modal, archiving>>

\* The archive tab's confirmation; it closes before it acts.
Archive ==
  /\ Archives
  /\ dialog = "open" /\ archiving = "no"
  /\ archiving' = "asked"
  /\ UNCHANGED <<server, store, pruned, listing, modal, saving>>

ServerArchives ==
  /\ archiving = "asked" /\ ~archived
  /\ archived' = TRUE
  /\ archiving' = "done"
  /\ UNCHANGED <<row, changed, store, pruned, listing, modal, saving>>

\* DELETED_SPACE, then the modal closes whatever its form holds.
ArchiveAnswered ==
  /\ archiving = "done"
  /\ store' = Gone
  /\ pruned' = TRUE
  /\ archiving' = "no"
  /\ CloseModal
  /\ UNCHANGED <<server, listing, since, discarding, saving>>

ArchiveFails ==
  /\ archiving # "no" /\ (archiving = "asked" => archived)
  /\ archiving' = "no"
  /\ UNCHANGED <<server, store, pruned, listing, modal, saving>>

-----------------------------------------------------------------------------
(* Others *)

OtherSaves(f, v) ==
  /\ ~archived /\ row.version < MaxVersion /\ row[f] # v
  /\ row' = [row EXCEPT ![f] = v, !.version = @ + 1]
  /\ changed' = IF f \in Managed THEN [changed EXCEPT ![f] = row'.version] ELSE changed
  /\ UNCHANGED <<archived, store, pruned, listing, modal, saving, archiving>>

\* A team listing is read; RECEIVED_SPACES merges what it holds.
ReadListing ==
  /\ listing = None
  /\ listing' = IF archived THEN Gone ELSE row
  /\ UNCHANGED <<server, store, pruned, modal, saving, archiving>>

ListingArrives ==
  /\ listing # None
  /\ Refreshes \/ dialog = "none"
  /\ store' = IF listing = Gone THEN store ELSE listing
  /\ listing' = None
  /\ UNCHANGED <<server, pruned, modal, saving, archiving>>

Next ==
  \/ Open \/ Reset \/ Save \/ Dismiss \/ ExitComplete
  \/ \E f \in Managed, v \in Values : Edit(f, v)
  \/ ServerSaves \/ SaveAnswered \/ SaveFails
  \/ Archive \/ ServerArchives \/ ArchiveAnswered \/ ArchiveFails
  \/ \E v \in Values \ {Blank} : OtherSaves("title", v) \/ OtherSaves("extra", v)
  \/ ReadListing \/ ListingArrives

Spec == Init /\ [][Next]_vars

-----------------------------------------------------------------------------
(* Properties *)

TypeOK ==
  /\ row \in Rows /\ archived \in BOOLEAN /\ pruned \in BOOLEAN
  /\ changed \in [Managed -> 1..MaxVersion]
  /\ store \in Rows \cup {Gone}
  /\ listing \in Rows \cup {None, Gone}
  /\ dialog \in {"none", "open", "closing", "hidden"}
  /\ form \in Forms \cup {None}
  /\ saving \in Saves \cup {None}
  /\ form = None <=> dialog = "none"
  /\ since \in 0..MaxVersion /\ discarding \in BOOLEAN
  /\ archiving \in {"no", "asked", "done"}

\* "Props replace wholesale server-side, so merge onto the live map to avoid
\* dropping keys this UI doesn't manage" (space_settings_modal.tsx): whatever
\* other members did meanwhile, a save the server takes leaves them alone.
LeavesTheRest == ServerSaves => row'.extra = row.extra

\* "Reads the current update_at for optimistic concurrency (the server rejects
\* a stale write)" (store/actions.ts): another member's change to a managed
\* field is only written over from a form that was set from it.
OverwritesOnlyShown ==
  ServerSaves => \A f \in Managed : saving.patch[f] = row[f] \/ changed[f] <= saving.since

\* "Guard the close affordances (backdrop, Esc, the cross) when there are
\* unsaved edits": the form is dropped only clean, or with its space.
DropsClean == form # None /\ form' = None => ~Dirty \/ store' = Gone

\* "... confirming a discard before actually closing"
\* (space_settings_modal.tsx): the prompt asked for is drawn, inside the open
\* dialog it is a child of.
\* Not kept: the dialog is closed by the time the prompt is asked for.
PromptIsDrawn == discarding => dialog = "open"

\* "Archives (soft-deletes) a space and prunes it from the store"
\* (store/actions.ts): a space this client archived is not in its store again.
\* Not kept: a listing asked for before the archive arrives after it.
ArchivedStaysPruned == pruned => store = Gone
=============================================================================
