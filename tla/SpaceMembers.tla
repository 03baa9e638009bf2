---------------------------- MODULE SpaceMembers ----------------------------
(***************************************************************************)
(* A space's members: the server's guarded removal, the roster the client  *)
(* keeps, and the share modal / permissions tab that change it.  Each      *)
(* surface has one busy flag for all its mutations; a batch of additions   *)
(* is one request per person, answered in any order; removing and leaving  *)
(* are confirmed first; the roster is read again whenever the space's view *)
(* mounts.                                                                 *)
(***************************************************************************)
EXTENDS Naturals, FiniteSets, FiniteSetsExt

CONSTANTS
  Users, Me,
  Outsiders,      \* users the server does not let in: not in the team
  None,           \* no roster loaded, no listing under way
  CommitOnSelect, \* the share modal; FALSE is the permissions tab
  Overlaps,       \* the roster may be read while a mutation is under way
  Reopens,        \* the surface may be closed and opened with requests under way
  Others,         \* another member removes members too
  MaxCalls        \* bound on the requests sent

MembersAssumption ==
  /\ IsFiniteSet(Users) /\ Me \in Users /\ Outsiders \subseteq Users \ {Me}
  /\ {CommitOnSelect, Overlaps, Reopens, Others} \subseteq BOOLEAN /\ MaxCalls \in Nat
  /\ None # {}

VARIABLES
  members,  \* server: the backing channel's members
  roster,   \* entities.spaceMembers, None before it is loaded
  listing,  \* fetchSpaceMembers under way: the members read, {} before, or None
  calls,    \* requests under way, [op, user, by, phase]
  sent,     \* how many were sent
  open,     \* the surface is mounted
  busy,     \* its flag
  batch,    \* the people of its running add
  failed,   \* those of them refused so far
  chips,    \* pending
  asking,   \* the user whose removal is being confirmed, or None
  left      \* the current user left

surface == <<open, busy, batch, failed, chips, asking>>
vars == <<members, roster, listing, calls, sent, surface, left>>

Init ==
  /\ members \in {m \in SUBSET (Users \ Outsiders) : Me \in m}
  /\ roster = None
  /\ listing = None
  /\ calls = {} /\ sent = 0
  /\ open = FALSE /\ busy = FALSE /\ batch = {} /\ failed = {} /\ chips = {} /\ asking = None
  /\ left = FALSE

Call(op, u, by) == [op |-> op, user |-> u, by |-> by, phase |-> "sent"]
Mine == {c \in calls : c.by = Me}
Moved(c, phase) == calls' = (calls \ {c}) \cup {[c EXCEPT !.phase = phase]}

-----------------------------------------------------------------------------
(* Server *)

\* AddSpaceMember: an upsert of the channel's member.
ServerAdds(c) ==
  /\ c.op = "add" /\ c.phase = "sent" /\ c.user \notin Outsiders /\ Me \in members
  /\ members' = members \cup {c.user}
  /\ Moved(c, "done")
  /\ UNCHANGED <<roster, listing, sent, surface, left>>

\* Mutant of LockHeld: the guard and the removal are not one unit.
LockHeldNever == FALSE
LockHeld == \E c \in calls : c.phase = "guarded"

\* RemoveSpaceMember takes the space's membership lock, and looks for another
\* member.
ServerGuards(c) ==
  /\ c.op # "add" /\ c.phase = "sent" /\ c.by \in members /\ ~LockHeld
  /\ Moved(c, IF members \ {c.user} = {} THEN "failed" ELSE "guarded")
  /\ UNCHANGED <<members, roster, listing, sent, surface, left>>

ServerRemoves(c) ==
  /\ c.phase = "guarded"
  /\ members' = members \ {c.user}
  /\ Moved(c, IF c.user \in members THEN "done" ELSE "failed")
  /\ UNCHANGED <<roster, listing, sent, surface, left>>

\* Refused, timed out on the lock, or lost on the way.
ServerRefuses(c) ==
  /\ c.phase = "sent"
  /\ Moved(c, "failed")
  /\ UNCHANGED <<members, roster, listing, sent, surface, left>>

OtherRemoves(by, u) ==
  /\ Others /\ sent < MaxCalls
  /\ by \in members \ {Me} /\ u \in members /\ Call("remove", u, by) \notin calls
  /\ calls' = calls \cup {Call("remove", u, by)}
  /\ sent' = sent + 1
  /\ UNCHANGED <<members, roster, listing, surface, left>>

OtherAnswered(c) ==
  /\ c.by # Me /\ c.phase \in {"done", "failed"}
  /\ calls' = calls \ {c}
  /\ UNCHANGED <<members, roster, listing, sent, surface, left>>

-----------------------------------------------------------------------------
(* The roster *)

Quiet == Overlaps \/ Mine = {}

Fetch ==
  /\ listing = None /\ Quiet /\ ~left
  /\ listing' = {}
  /\ UNCHANGED <<members, roster, calls, sent, surface, left>>

ReadMembers ==
  /\ listing = {} /\ Me \in members
  /\ listing' = members
  /\ UNCHANGED <<members, roster, calls, sent, surface, left>>

\* RECEIVED_SPACE_MEMBERS replaces the roster.
ListingArrives ==
  /\ listing \notin {None, {}}
  /\ roster' = listing
  /\ listing' = None
  /\ UNCHANGED <<members, calls, sent, surface, left>>

FetchFails ==
  /\ listing # None
  /\ listing' = None
  /\ UNCHANGED <<members, roster, calls, sent, surface, left>>

\* ADDED_SPACE_MEMBER on a roster that was loaded.
Added(u) == IF roster = None THEN None ELSE roster \cup {u}
Removed(u) == IF roster = None THEN None ELSE roster \ {u}

-----------------------------------------------------------------------------
(* The surface *)

Listed == IF roster = None THEN {} ELSE roster

Mount ==
  /\ ~open /\ ~left /\ (Reopens \/ Mine = {})
  /\ open' = TRUE
  /\ UNCHANGED <<members, roster, listing, calls, sent, busy, batch, failed, chips, asking, left>>

\* Closing forgets the flag, the chips and the batch; the requests go on.
Reset == busy' = FALSE /\ batch' = {} /\ failed' = {} /\ chips' = {} /\ asking' = None

Unmount ==
  /\ open /\ asking = None /\ (Reopens \/ Mine = {})
  /\ open' = FALSE /\ Reset
  /\ UNCHANGED <<members, roster, listing, calls, sent, left>>

Usable == open /\ asking = None /\ ~busy /\ (Overlaps \/ listing = None)

\* addSpaceMembers: one request per person at once.
StartBatch(us) ==
  /\ us # {} /\ sent + Cardinality(us) <= MaxCalls
  /\ calls' = calls \cup {Call("add", u, Me) : u \in us}
  /\ sent' = sent + Cardinality(us)
  /\ busy' = TRUE /\ batch' = us /\ failed' = {}

NoBatch == UNCHANGED <<calls, sent, busy, batch, failed>>

\* onValueChange: the share modal commits whatever is then selected.
Select(us) ==
  /\ chips' = us
  /\ IF CommitOnSelect /\ us # {} THEN StartBatch(us) ELSE NoBatch
  /\ UNCHANGED <<members, roster, listing, open, asking, left>>

\* The picker offers nobody already listed or selected.
Pick(u) == Usable /\ u \notin Listed \cup chips /\ Select(chips \cup {u})
RemoveChip(u) == Usable /\ u \in chips /\ Select(chips \ {u})

Add ==
  /\ Usable /\ ~CommitOnSelect /\ StartBatch(chips)
  /\ UNCHANGED <<members, roster, listing, open, chips, asking, left>>

\* A row's menu: Remove for others, Leave on one's own row.
Ask(u) ==
  /\ Usable /\ u \in Listed
  /\ asking' = u
  /\ UNCHANGED <<members, roster, listing, calls, sent, open, busy, batch, failed, chips, left>>

Confirm ==
  /\ asking # None /\ sent < MaxCalls /\ (Overlaps \/ listing = None)
  /\ calls' = calls \cup {Call(IF asking = Me THEN "leave" ELSE "remove", asking, Me)}
  /\ sent' = sent + 1
  /\ busy' = TRUE /\ asking' = None
  /\ UNCHANGED <<members, roster, listing, open, batch, failed, chips, left>>

CancelConfirm ==
  /\ asking # None
  /\ asking' = None
  /\ UNCHANGED <<members, roster, listing, calls, sent, open, busy, batch, failed, chips, left>>

\* Mutant of Answered: the last answer of the surface does not free it ...
\* the first one does.
AnsweredFirst(c) == busy' = FALSE

\* The promise of this surface's mutation settles once all its requests have.
Answered(c) == busy' = (busy /\ c.op = "add" /\ \E d \in Mine : d # c /\ d.op = "add" /\ d.user \in batch)

\* setPending of what addMembers returned.
Kept(fs) == fs

\* Mutant of Settled: the failures outlive their batch.
SettledKeeping(fs) == failed' = fs /\ batch' = {} /\ chips' = Kept(fs)
Settled(fs) == failed' = {} /\ batch' = {} /\ chips' = Kept(fs)

AddAnswered(c) ==
  /\ c \in Mine /\ c.op = "add" /\ c.phase \in {"done", "failed"}
  /\ calls' = calls \ {c}
  /\ roster' = IF c.phase = "done" THEN Added(c.user) ELSE roster
  /\ IF c.user \in batch
     THEN LET fs == failed \cup (IF c.phase = "failed" THEN {c.user} ELSE {})
          IN /\ Answered(c)
             /\ IF \E d \in Mine : d # c /\ d.op = "add" /\ d.user \in batch
                THEN failed' = fs /\ UNCHANGED <<batch, chips>>
                ELSE Settled(fs)
     ELSE UNCHANGED <<busy, batch, failed, chips>>
  /\ UNCHANGED <<members, listing, sent, open, asking, left>>

RemoveAnswered(c) ==
  /\ c \in Mine /\ c.op = "remove" /\ c.phase \in {"done", "failed"}
  /\ calls' = calls \ {c}
  /\ roster' = IF c.phase = "done" THEN Removed(c.user) ELSE roster
  /\ busy' = (busy /\ batch # {})
  /\ UNCHANGED <<members, listing, sent, open, batch, failed, chips, asking, left>>

\* DELETED_SPACE drops the roster, and the surface closes with its space.
LeaveAnswered(c) ==
  /\ c \in Mine /\ c.op = "leave" /\ c.phase \in {"done", "failed"}
  /\ calls' = calls \ {c}
  /\ IF c.phase = "done"
     THEN left' = TRUE /\ roster' = None /\ open' = FALSE /\ Reset
     ELSE busy' = (busy /\ batch # {}) /\ UNCHANGED <<left, roster, open, batch, failed, chips, asking>>
  /\ UNCHANGED <<members, listing, sent>>

Next ==
  \/ \E c \in calls :
       \/ ServerAdds(c) \/ ServerGuards(c) \/ ServerRemoves(c) \/ ServerRefuses(c)
       \/ OtherAnswered(c) \/ AddAnswered(c) \/ RemoveAnswered(c) \/ LeaveAnswered(c)
  \/ \E u, v \in Users : OtherRemoves(u, v)
  \/ Fetch \/ ReadMembers \/ ListingArrives \/ FetchFails
  \/ Mount \/ Unmount \/ Add \/ Confirm \/ CancelConfirm
  \/ \E u \in Users : Pick(u) \/ RemoveChip(u) \/ Ask(u)

Spec == Init /\ [][Next]_vars

-----------------------------------------------------------------------------
(* Properties *)

TypeOK ==
  /\ members \subseteq Users
  /\ roster = None \/ roster \subseteq Users
  /\ listing = None \/ listing \subseteq Users
  /\ calls \subseteq [op : {"add", "remove", "leave"}, user : Users, by : Users,
                      phase : {"sent", "guarded", "done", "failed"}]
  /\ sent \in 0..MaxCalls
  /\ {open, busy, left} \subseteq BOOLEAN
  /\ batch \subseteq Users /\ failed \subseteq batch /\ chips \subseteq Users
  /\ asking \in Users \cup {None}

\* "The space-scoped advisory lock serializes the guard and the removal as one
\* unit" (server/app/space.go): however removals and leaves meet, someone is
\* still a member.
SomeoneRemains == members # {}

\* "A mutation is in flight; write affordances should be disabled"
\* (hooks/space_members.ts).
BusyWhileInFlight == open /\ Mine # {} => busy

\* "Resolves to the users that FAILED, so a caller can restore exactly those
\* chips" (hooks/space_members.ts): whoever was picked is a member or a chip.
PicksKept == batch # {} /\ batch' = {} /\ open' => \A u \in batch : u \in chips' \/ u \in members'

\* "... so the store is right even for a batch that partly failed"
\* (store/actions.ts): with nothing under way the roster is the server's.
RosterIsRight == calls = {} /\ listing = None => roster \in {None, members}

\* "Commit each selection immediately instead of collecting chips"
\* (add_members_field.tsx): only a pick sends anything.
\* Not kept: the removal of one chip that a failure left commits the others.
OnlyPicksCommit ==
  [][CommitOnSelect /\ batch = {} /\ batch' # {} => \E u \in batch' : u \notin chips]_vars
=============================================================================
