--------------------------- MODULE PanelPartsProofs ---------------------------
(***************************************************************************)
(* Proofs about SpaceMembers, for any users, any number of requests and    *)
(* either surface; about SpaceSettings, for any values and versions; about *)
(* SidebarWidth, for any limits, snap distance, step and places of the     *)
(* pointer, on either side; and about PageRows and PageTreePanel, for any  *)
(* pages, cap on their depth, gestures and number of changes by others.    *)
(***************************************************************************)
EXTENDS SpaceMembers, Sequences, FiniteSetTheorems, WellFoundedInduction, TLAPS

CONSTANTS MinWidth, MaxWidth, DefaultWidth, SnapDistance, Step, Pointers, Edge, Side, Unset,
          Strays, Interrupts, Values, Blank, Gone, Refreshes, Archives, MaxVersion,
          Root, MaxDepth, Pages, Body, Away, Gestures, MaxChanges

VARIABLES
  row, archived, changed, store, pruned, settingsListing, dialog, form, since, discarding,
  saving, archiving,
  width, saved, panelOpen, dragging, startX, startWidth, lastWidth, resizing,
  tree, collapsed, focusedId, focusIndex, owns, at, dropped, changes

Settings == INSTANCE SpaceSettings WITH listing <- settingsListing
Width == INSTANCE SidebarWidth WITH open <- panelOpen
Panel == INSTANCE PageTreePanel

-----------------------------------------------------------------------------
(* Members *)

Phases == {"sent", "guarded", "done", "failed"}
Requests == [op : {"add", "remove", "leave"}, user : Users, by : Users, phase : Phases]

LEMMA MovedRequests ==
    ASSUME TypeOK, NEW c \in calls, NEW phase \in Phases, Moved(c, phase)
    PROVE  calls' \subseteq Requests
  BY DEF TypeOK, Moved, Requests, Phases

LEMMA BatchTyped ==
    ASSUME MembersAssumption, TypeOK, NEW us \in SUBSET Users, StartBatch(us)
    PROVE  /\ calls' \subseteq Requests /\ sent' \in 0..MaxCalls
           /\ busy' \in BOOLEAN /\ batch' \subseteq Users /\ failed' \subseteq batch'
  <1>1. Cardinality(us) \in Nat
    BY FS_Subset, FS_CardinalityType DEF MembersAssumption
  <1>2. sent + Cardinality(us) \in 0..MaxCalls
    BY <1>1 DEF MembersAssumption, TypeOK, StartBatch
  <1>3. {Call("add", u, Me) : u \in us} \subseteq Requests
    BY DEF MembersAssumption, Call, Requests, Phases
  <1> QED
    BY <1>2, <1>3 DEF TypeOK, StartBatch, Requests, Phases

LEMMA SelectTyped ==
    ASSUME MembersAssumption, TypeOK, NEW us \in SUBSET Users, Select(us)
    PROVE  TypeOK'
  <1>1. CASE StartBatch(us)
    BY <1>1, BatchTyped DEF TypeOK, Select, Requests, Phases
  <1>2. CASE NoBatch
    BY <1>2 DEF TypeOK, Select, NoBatch
  <1> QED
    BY <1>1, <1>2 DEF Select

(* Every step of the space keeps the types.                                   *)
LEMMA StepTyped ==
    ASSUME MembersAssumption, TypeOK, [Next]_vars
    PROVE  TypeOK'
  <1> USE DEF Requests, Phases
  <1>1. ASSUME NEW c \in calls, ServerAdds(c) PROVE TypeOK'
    <2>1. calls' \subseteq Requests
      BY <1>1, MovedRequests DEF ServerAdds
    <2> QED
      BY <1>1, <2>1 DEF TypeOK, ServerAdds, surface
  <1>2. ASSUME NEW c \in calls, ServerGuards(c) PROVE TypeOK'
    <2>1. calls' \subseteq Requests
      BY <1>2, MovedRequests DEF ServerGuards
    <2> QED
      BY <1>2, <2>1 DEF TypeOK, ServerGuards, surface
  <1>3. ASSUME NEW c \in calls, ServerRemoves(c) PROVE TypeOK'
    <2>1. calls' \subseteq Requests
      BY <1>3, MovedRequests DEF ServerRemoves
    <2> QED
      BY <1>3, <2>1 DEF TypeOK, ServerRemoves, surface
  <1>4. ASSUME NEW c \in calls, ServerRefuses(c) PROVE TypeOK'
    <2>1. calls' \subseteq Requests
      BY <1>4, MovedRequests DEF ServerRefuses
    <2> QED
      BY <1>4, <2>1 DEF TypeOK, ServerRefuses, surface
  <1>5. ASSUME NEW c \in calls, OtherAnswered(c) PROVE TypeOK'
    BY <1>5 DEF TypeOK, OtherAnswered, surface
  <1>6. ASSUME NEW c \in calls, AddAnswered(c) PROVE TypeOK'
    <2>1. calls' \subseteq calls /\ c.user \in Users
      BY <1>6 DEF TypeOK, AddAnswered
    <2>2. roster' = None \/ roster' \subseteq Users
      BY <1>6, <2>1 DEF TypeOK, AddAnswered, Added
    <2>3. CASE c.user \in batch
      <3> DEFINE fs == failed \cup (IF c.phase = "failed" THEN {c.user} ELSE {})
      <3>1. fs \subseteq batch /\ batch \subseteq Users
        BY <2>3 DEF TypeOK
      <3>2. busy' \in BOOLEAN
        BY <1>6, <2>3 DEF TypeOK, AddAnswered, Answered
      <3>3. \/ failed' = fs /\ UNCHANGED <<batch, chips>>
            \/ Settled(fs)
        BY <1>6, <2>3, Zenon DEF AddAnswered
      <3>4. failed' \subseteq batch' /\ batch' \subseteq Users /\ chips' \subseteq Users
        BY <3>1, <3>3 DEF TypeOK, Settled, Kept
      <3> QED
        BY <1>6, <2>1, <2>2, <3>2, <3>4 DEF TypeOK, AddAnswered
    <2>4. CASE c.user \notin batch
      BY <1>6, <2>1, <2>2, <2>4 DEF TypeOK, AddAnswered
    <2> QED
      BY <2>3, <2>4
  <1>7. ASSUME NEW c \in calls, RemoveAnswered(c) PROVE TypeOK'
    BY <1>7 DEF TypeOK, RemoveAnswered, Removed
  <1>8. ASSUME NEW c \in calls, LeaveAnswered(c) PROVE TypeOK'
    BY <1>8 DEF TypeOK, LeaveAnswered, Reset
  <1>9. ASSUME NEW u \in Users, NEW v \in Users, OtherRemoves(u, v) PROVE TypeOK'
    BY <1>9 DEF MembersAssumption, TypeOK, OtherRemoves, Call, surface
  <1>10. CASE Fetch \/ ReadMembers \/ ListingArrives \/ FetchFails
    BY <1>10 DEF TypeOK, Fetch, ReadMembers, ListingArrives, FetchFails, surface
  <1>11. CASE Mount \/ Unmount \/ CancelConfirm
    BY <1>11 DEF TypeOK, Mount, Unmount, CancelConfirm, Reset
  <1>12. CASE Add
    <2>1. chips \in SUBSET Users /\ StartBatch(chips)
      BY <1>12 DEF TypeOK, Add
    <2> QED
      BY <1>12, <2>1, BatchTyped DEF TypeOK, Add
  <1>13. CASE Confirm
    BY <1>13 DEF MembersAssumption, TypeOK, Confirm, Call
  <1>14. ASSUME NEW u \in Users, Pick(u) PROVE TypeOK'
    <2>1. chips \cup {u} \in SUBSET Users /\ Select(chips \cup {u})
      BY <1>14 DEF TypeOK, Pick
    <2> QED
      BY <2>1, SelectTyped
  <1>15. ASSUME NEW u \in Users, RemoveChip(u) PROVE TypeOK'
    <2>1. chips \ {u} \in SUBSET Users /\ Select(chips \ {u})
      BY <1>15 DEF TypeOK, RemoveChip
    <2> QED
      BY <2>1, SelectTyped
  <1>16. ASSUME NEW u \in Users, Ask(u) PROVE TypeOK'
    BY <1>16 DEF TypeOK, Ask
  <1>17. CASE UNCHANGED vars
    BY <1>17 DEF TypeOK, vars, surface
  <1> HIDE DEF Requests, Phases
  <1> QED
    BY <1>1, <1>2, <1>3, <1>4, <1>5, <1>6, <1>7, <1>8, <1>9, <1>10, <1>11, <1>12,
       <1>13, <1>14, <1>15, <1>16, <1>17 DEF Next

(* The members, the roster, the requests and the surface are well typed,      *)
(* whatever is answered in whatever order.                                    *)
THEOREM MembersTypeCorrect ==
    ASSUME MembersAssumption
    PROVE  Spec => []TypeOK
  <1>1. Init => TypeOK
    <2> SUFFICES ASSUME Init PROVE TypeOK
      OBVIOUS
    <2>1. members \subseteq Users /\ sent \in 0..MaxCalls
      BY DEF MembersAssumption, Init
    <2>2. calls = {} /\ batch = {} /\ failed = {} /\ chips = {} /\ asking = None
      BY DEF Init
    <2>3. open = FALSE /\ busy = FALSE /\ left = FALSE /\ roster = None /\ listing = None
      BY DEF Init
    <2>4. {open, busy, left} \subseteq BOOLEAN
      BY <2>3
    <2> QED
      BY <2>1, <2>2, <2>3, <2>4 DEF TypeOK
  <1> QED
    BY <1>1, StepTyped, PTL DEF Spec

-----------------------------------------------------------------------------

Guarded == {c \in calls : c.phase = "guarded"}

(* The lock admits one removal between its guard and its write, and what the  *)
(* guard saw stays true until the write: somebody other than the removed      *)
(* person is a member.                                                        *)
GuardStaysTrue ==
  /\ \A c, d \in Guarded : c = d
  /\ \A c \in Guarded : members \ {c.user} # {}

MembersInv == SomeoneRemains /\ GuardStaysTrue

LEMMA FewerGuarded ==
    ASSUME MembersInv, Guarded' \subseteq Guarded, members \subseteq members'
    PROVE  MembersInv'
  BY DEF MembersInv, SomeoneRemains, GuardStaysTrue

(* A request that moves on to any other phase is not guarded any more. *)
LEMMA MovedUnguarded ==
    ASSUME TypeOK, NEW c \in calls, NEW phase, phase # "guarded", Moved(c, phase)
    PROVE  Guarded' \subseteq Guarded \ {c}
  <1>1. [c EXCEPT !.phase = phase].phase = phase
    BY DEF TypeOK
  <1> QED
    BY <1>1 DEF Guarded, Moved

(* The guard looks for another member while nobody else holds the lock.       *)
LEMMA GuardsAlone ==
    ASSUME TypeOK, MembersInv, NEW c \in calls, ServerGuards(c)
    PROVE  MembersInv'
  <1>1. Guarded = {} /\ members' = members
    BY DEF ServerGuards, LockHeld, Guarded
  <1>2. CASE members \ {c.user} = {}
    <2>1. Guarded' \subseteq Guarded
      BY <1>2, MovedUnguarded DEF ServerGuards
    <2> QED
      BY <1>1, <2>1, FewerGuarded
  <1>3. CASE members \ {c.user} # {}
    <2> DEFINE d == [c EXCEPT !.phase = "guarded"]
    <2>1. calls' = (calls \ {c}) \cup {d}
      BY <1>3 DEF ServerGuards, Moved
    <2>2. d.user = c.user
      BY DEF TypeOK
    <2>3. Guarded' \subseteq {d}
      BY <1>1, <2>1 DEF Guarded
    <2> QED
      BY <1>1, <1>3, <2>2, <2>3 DEF MembersInv, SomeoneRemains, GuardStaysTrue
  <1> QED
    BY <1>2, <1>3

LEMMA RemovesOne ==
    ASSUME TypeOK, MembersInv, NEW c \in calls, ServerRemoves(c)
    PROVE  MembersInv'
  <1>1. c \in Guarded /\ Guarded \subseteq {c} /\ members \ {c.user} # {}
    BY DEF ServerRemoves, MembersInv, GuardStaysTrue, Guarded
  <1>2. Guarded' \subseteq Guarded \ {c}
    BY MovedUnguarded DEF ServerRemoves
  <1> QED
    BY <1>1, <1>2 DEF ServerRemoves, MembersInv, SomeoneRemains, GuardStaysTrue

LEMMA StepKeepsMembers ==
    ASSUME TypeOK, MembersInv, [Next]_vars
    PROVE  MembersInv'
  <1>1. ASSUME NEW c \in calls, ServerAdds(c) \/ ServerRefuses(c) PROVE MembersInv'
    <2>1. Guarded' \subseteq Guarded
      BY <1>1, MovedUnguarded DEF ServerAdds, ServerRefuses
    <2>2. members \subseteq members'
      BY <1>1 DEF ServerAdds, ServerRefuses
    <2> QED
      BY <2>1, <2>2, FewerGuarded
  <1>2. ASSUME NEW c \in calls, ServerGuards(c) PROVE MembersInv'
    BY <1>2, GuardsAlone
  <1>3. ASSUME NEW c \in calls, ServerRemoves(c) PROVE MembersInv'
    BY <1>3, RemovesOne
  <1>4. ASSUME NEW c \in calls,
               OtherAnswered(c) \/ AddAnswered(c) \/ RemoveAnswered(c) \/ LeaveAnswered(c)
        PROVE  MembersInv'
    <2>1. Guarded' \subseteq Guarded /\ members' = members
      BY <1>4 DEF OtherAnswered, AddAnswered, RemoveAnswered, LeaveAnswered, Guarded
    <2> QED
      BY <2>1, FewerGuarded
  <1>5. ASSUME NEW u \in Users, NEW v \in Users, OtherRemoves(u, v) PROVE MembersInv'
    <2>1. Guarded' \subseteq Guarded /\ members' = members
      BY <1>5 DEF OtherRemoves, Guarded, Call
    <2> QED
      BY <2>1, FewerGuarded
  <1>6. CASE Confirm
    <2>1. Guarded' \subseteq Guarded /\ members' = members
      BY <1>6 DEF Confirm, Guarded, Call
    <2> QED
      BY <2>1, FewerGuarded
  <1>7. ASSUME NEW us, StartBatch(us), members' = members PROVE MembersInv'
    <2>1. Guarded' \subseteq Guarded
      BY <1>7 DEF StartBatch, Guarded, Call
    <2> QED
      BY <1>7, <2>1, FewerGuarded
  <1>8. CASE UNCHANGED <<calls, members>>
    <2>1. Guarded' \subseteq Guarded /\ members' = members
      BY <1>8 DEF Guarded
    <2> QED
      BY <2>1, FewerGuarded
  <1>9. ASSUME NEW us, Select(us) PROVE MembersInv'
    BY <1>7, <1>8, <1>9 DEF Select, NoBatch
  <1>10. CASE Add
    BY <1>7, <1>10 DEF Add
  <1>11. ASSUME NEW u \in Users, Pick(u) \/ RemoveChip(u) PROVE MembersInv'
    BY <1>9, <1>11 DEF Pick, RemoveChip
  <1>12. CASE Fetch \/ ReadMembers \/ ListingArrives \/ FetchFails \/ Mount \/ Unmount
              \/ CancelConfirm \/ (\E u \in Users : Ask(u)) \/ UNCHANGED vars
    <2>1. UNCHANGED <<calls, members>>
      BY <1>12 DEF Fetch, ReadMembers, ListingArrives, FetchFails, Mount, Unmount,
                   CancelConfirm, Ask, vars
    <2> QED
      BY <1>8, <2>1
  <1> QED
    BY <1>1, <1>2, <1>3, <1>4, <1>5, <1>6, <1>10, <1>11, <1>12 DEF Next

(* "The space-scoped advisory lock serializes the guard and the removal as    *)
(* one unit" (server/app/space.go): however many removals and leaves meet,    *)
(* the last member is never removed.                                          *)
THEOREM TheLastMemberStays ==
    ASSUME MembersAssumption
    PROVE  Spec => []SomeoneRemains
  <1>1. Init => MembersInv
    BY DEF Init, MembersInv, SomeoneRemains, GuardStaysTrue, Guarded
  <1>2. MembersInv => SomeoneRemains
    BY DEF MembersInv
  <1> QED
    BY <1>1, <1>2, MembersTypeCorrect, StepKeepsMembers, PTL DEF Spec

-----------------------------------------------------------------------------
(* The surface of the members *)

\* One mutation at a time: a batch of additions, or one removal.
SurfaceInv ==
  /\ Mine # {} => busy /\ open
  /\ asking # None => open /\ Mine = {}
  /\ batch # {} => Mine # {}
  /\ \A c \in Mine : IF c.op = "add" THEN c.user \in batch ELSE batch = {} /\ Mine = {c}

LEMMA MovedTo ==
    ASSUME TypeOK, NEW c \in calls, NEW phase \in Phases, Moved(c, phase)
    PROVE  \E d : /\ calls' = (calls \ {c}) \cup {d}
                  /\ d.op = c.op /\ d.user = c.user /\ d.by = c.by /\ d.phase = phase
  <1>1. c \in Requests
    BY DEF TypeOK, Requests, Phases
  <1> WITNESS [c EXCEPT !.phase = phase]
  <1> QED
    BY <1>1 DEF Moved, Requests

LEMMA MovedOnSurface ==
    ASSUME TypeOK, SurfaceInv, NEW c \in calls, NEW phase \in Phases, Moved(c, phase),
           UNCHANGED <<busy, open, asking, batch>>
    PROVE  SurfaceInv'
  <1>1. PICK d : /\ calls' = (calls \ {c}) \cup {d}
                 /\ d.op = c.op /\ d.user = c.user /\ d.by = c.by /\ d.phase = phase
    BY MovedTo
  <1>2. CASE c.by # Me
    <2>1. Mine' = Mine
      BY <1>1, <1>2 DEF Mine
    <2> QED
      BY <2>1 DEF SurfaceInv
  <1>3. CASE c.by = Me
    <2>1. Mine' = (Mine \ {c}) \cup {d} /\ c \in Mine
      BY <1>1, <1>3 DEF Mine
    <2> QED
      BY <1>1, <2>1 DEF SurfaceInv
  <1> QED
    BY <1>2, <1>3

LEMMA BatchOnSurface ==
    ASSUME SurfaceInv, NEW us, StartBatch(us), open, asking = None, ~busy,
           UNCHANGED <<open, asking>>
    PROVE  SurfaceInv'
  <1>1. Mine = {} /\ us # {}
    BY DEF SurfaceInv, StartBatch
  <1>2. Mine' = {Call("add", u, Me) : u \in us}
    BY <1>1 DEF Mine, StartBatch, Call
  <1>3. \A u \in us : Call("add", u, Me).op = "add" /\ Call("add", u, Me).user = u
    BY DEF Call
  <1>4. Mine' # {} /\ \A c \in Mine' : c.op = "add" /\ c.user \in us
    BY <1>1, <1>2, <1>3
  <1> QED
    BY <1>4 DEF SurfaceInv, StartBatch

LEMMA SurfaceStep ==
    ASSUME ~Reopens, TypeOK, SurfaceInv, [Next]_vars
    PROVE  SurfaceInv'
  <1>1. ASSUME NEW c \in calls,
               ServerAdds(c) \/ ServerGuards(c) \/ ServerRemoves(c) \/ ServerRefuses(c)
        PROVE  SurfaceInv'
    <2>1. UNCHANGED <<busy, open, asking, batch>>
      BY <1>1 DEF ServerAdds, ServerGuards, ServerRemoves, ServerRefuses, surface
    <2>2. \E phase \in Phases : Moved(c, phase)
      BY <1>1 DEF ServerAdds, ServerGuards, ServerRemoves, ServerRefuses, Phases
    <2> QED
      BY <2>1, <2>2, MovedOnSurface
  <1>2. ASSUME Mine' = Mine, UNCHANGED <<busy, open, asking, batch>> PROVE SurfaceInv'
    BY <1>2 DEF SurfaceInv
  <1>3. ASSUME NEW c \in calls, OtherAnswered(c) PROVE SurfaceInv'
    <2>1. Mine' = Mine
      BY <1>3 DEF OtherAnswered, Mine
    <2> QED
      BY <1>2, <1>3, <2>1 DEF OtherAnswered, surface
  <1>4. ASSUME NEW u \in Users, NEW v \in Users, OtherRemoves(u, v) PROVE SurfaceInv'
    <2>1. Call("remove", v, u).by # Me
      BY <1>4 DEF OtherRemoves, Call
    <2>2. Mine' = Mine
      BY <1>4, <2>1 DEF OtherRemoves, Mine
    <2> QED
      BY <1>2, <1>4, <2>2 DEF OtherRemoves, surface
  <1>5. ASSUME NEW c \in calls, AddAnswered(c) PROVE SurfaceInv'
    <2>1. c \in Mine /\ c.op = "add" /\ c.user \in batch /\ Mine' = Mine \ {c}
      BY <1>5 DEF AddAnswered, Mine, SurfaceInv
    <2>2. \A e \in Mine : e.op = "add" /\ e.user \in batch
      BY <2>1 DEF SurfaceInv
    <2>3. busy /\ open /\ asking = None /\ open' = open /\ asking' = asking
      BY <1>5, <2>1 DEF AddAnswered, SurfaceInv
    <2>4. CASE \E d \in Mine : d # c /\ d.op = "add" /\ d.user \in batch
      <3>1. busy' = TRUE /\ batch' = batch /\ Mine' # {}
        BY <1>5, <2>1, <2>3, <2>4 DEF AddAnswered, Answered
      <3> QED
        BY <2>1, <2>2, <2>3, <3>1 DEF SurfaceInv
    <2>5. CASE ~\E d \in Mine : d # c /\ d.op = "add" /\ d.user \in batch
      <3>1. batch' = {} /\ Mine' = {}
        BY <1>5, <2>1, <2>2, <2>5 DEF AddAnswered, Settled
      <3> QED
        BY <2>3, <3>1 DEF SurfaceInv
    <2> QED
      BY <2>4, <2>5
  <1>6. ASSUME NEW c \in calls, RemoveAnswered(c) \/ LeaveAnswered(c) PROVE SurfaceInv'
    <2>1. c \in Mine /\ c.op # "add"
      BY <1>6 DEF RemoveAnswered, LeaveAnswered
    <2>2. batch = {} /\ Mine = {c} /\ asking = None
      BY <2>1 DEF SurfaceInv
    <2>3. Mine' = {} /\ batch' = {} /\ asking' = None
      BY <1>6, <2>2 DEF RemoveAnswered, LeaveAnswered, Reset, Mine
    <2> QED
      BY <2>3 DEF SurfaceInv
  <1>7. ASSUME NEW us, Select(us), Usable PROVE SurfaceInv'
    <2>1. CASE StartBatch(us)
      BY <1>7, <2>1, BatchOnSurface DEF Select, Usable
    <2>2. CASE NoBatch
      <3>1. Mine' = Mine
        BY <2>2 DEF NoBatch, Mine
      <3> QED
        BY <1>2, <1>7, <2>2, <3>1 DEF Select, NoBatch
    <2> QED
      BY <1>7, <2>1, <2>2 DEF Select
  <1>8. ASSUME NEW u \in Users, Pick(u) \/ RemoveChip(u) PROVE SurfaceInv'
    BY <1>7, <1>8 DEF Pick, RemoveChip
  <1>9. CASE Add
    BY <1>9, BatchOnSurface DEF Add, Usable
  <1>10. CASE Confirm
    <2>1. Mine = {} /\ batch = {} /\ open
      BY <1>10 DEF Confirm, SurfaceInv
    <2>2. PICK d : /\ calls' = calls \cup {d}
                   /\ d = Call(IF asking = Me THEN "leave" ELSE "remove", asking, Me)
      BY <1>10 DEF Confirm
    <2>3. d.op # "add" /\ d.by = Me
      BY <2>2 DEF Call
    <2>4. Mine' = {d}
      BY <2>1, <2>2, <2>3 DEF Mine
    <2> QED
      BY <1>10, <2>1, <2>3, <2>4 DEF Confirm, SurfaceInv
  <1>11. ASSUME NEW u \in Users, Ask(u) PROVE SurfaceInv'
    <2>1. Mine' = Mine /\ Mine = {} /\ open
      BY <1>11 DEF Ask, Usable, SurfaceInv, Mine
    <2> QED
      BY <1>11, <2>1 DEF Ask, SurfaceInv
  <1>12. CASE Mount \/ Unmount
    <2>1. Mine' = {} /\ Mine = {}
      BY <1>12 DEF Mount, Unmount, Mine
    <2>2. batch' = {} /\ asking' = None
      BY <1>12, <2>1 DEF Mount, Unmount, SurfaceInv, Reset
    <2> QED
      BY <2>1, <2>2 DEF SurfaceInv
  <1>13. CASE CancelConfirm
    <2>1. Mine' = Mine
      BY <1>13 DEF CancelConfirm, Mine
    <2> QED
      BY <1>13, <2>1 DEF CancelConfirm, SurfaceInv
  <1>14. CASE Fetch \/ ReadMembers \/ ListingArrives \/ FetchFails \/ UNCHANGED vars
    <2>1. calls' = calls /\ UNCHANGED <<busy, open, asking, batch>>
      BY <1>14 DEF Fetch, ReadMembers, ListingArrives, FetchFails, vars, surface
    <2>2. Mine' = Mine
      BY <2>1 DEF Mine
    <2> QED
      BY <1>2, <2>1, <2>2
  <1> QED
    BY <1>1, <1>3, <1>4, <1>5, <1>6, <1>8, <1>9, <1>10, <1>11, <1>12, <1>13, <1>14 DEF Next

(* "A mutation is in flight; write affordances should be disabled"            *)
(* (hooks/space_members.ts): while a surface stays mounted for as long as its *)
(* requests are under way, its flag is set for all of them, whoever else      *)
(* removes members and whenever the roster is read.                           *)
THEOREM BusyCoversEveryRequest ==
    ASSUME MembersAssumption, ~Reopens
    PROVE  Spec => [](SurfaceInv /\ BusyWhileInFlight)
  <1>1. Init => SurfaceInv
    BY DEF Init, SurfaceInv, Mine
  <1>2. TypeOK /\ SurfaceInv /\ [Next]_vars => SurfaceInv'
    BY SurfaceStep
  <1>3. SurfaceInv => BusyWhileInFlight
    BY DEF SurfaceInv, BusyWhileInFlight
  <1> QED
    BY <1>1, <1>2, <1>3, MembersTypeCorrect, PTL DEF Spec

\* Nobody else has requests under way.
OwnCalls == calls = Mine

\* Whoever was picked has failed, is a member or is being added, and what a
\* request has done stays done.
BatchInv ==
  /\ \A u \in batch : u \in failed \cup members \/ \E c \in calls : c.op = "add" /\ c.user = u
  /\ \A c \in calls : /\ c.phase = "done" => (c.op = "add" <=> c.user \in members)
                      /\ c.phase = "guarded" => c.op # "add"

MutationInv == SurfaceInv /\ OwnCalls /\ BatchInv

LEMMA OwnCallsStay ==
    ASSUME ~Others, TypeOK, OwnCalls, [Next]_vars
    PROVE  OwnCalls'
  <1>1. ASSUME NEW c \in calls,
               ServerAdds(c) \/ ServerGuards(c) \/ ServerRemoves(c) \/ ServerRefuses(c)
        PROVE  OwnCalls'
    <2>1. PICK phase \in Phases : Moved(c, phase)
      BY <1>1 DEF ServerAdds, ServerGuards, ServerRemoves, ServerRefuses, Phases
    <2>2. PICK d : calls' = (calls \ {c}) \cup {d} /\ d.by = c.by
      BY <2>1, MovedTo
    <2> QED
      BY <2>2 DEF OwnCalls, Mine
  <1>2. ASSUME calls' \subseteq calls PROVE OwnCalls'
    BY <1>2 DEF OwnCalls, Mine
  <1>3. ASSUME NEW us, StartBatch(us) PROVE OwnCalls'
    BY <1>3 DEF StartBatch, OwnCalls, Mine, Call
  <1>4. ASSUME NEW us, Select(us) PROVE OwnCalls'
    BY <1>2, <1>3, <1>4 DEF Select, NoBatch
  <1>5. CASE Confirm
    BY <1>5 DEF Confirm, OwnCalls, Mine, Call
  <1>6. CASE Add \/ \E u \in Users : Pick(u) \/ RemoveChip(u)
    BY <1>3, <1>4, <1>6 DEF Add, Pick, RemoveChip
  <1>7. ASSUME NEW c \in calls,
               OtherAnswered(c) \/ AddAnswered(c) \/ RemoveAnswered(c) \/ LeaveAnswered(c)
        PROVE  OwnCalls'
    BY <1>2, <1>7 DEF OtherAnswered, AddAnswered, RemoveAnswered, LeaveAnswered
  <1>8. CASE Fetch \/ ReadMembers \/ ListingArrives \/ FetchFails \/ Mount \/ Unmount
             \/ CancelConfirm \/ (\E u \in Users : Ask(u)) \/ UNCHANGED vars
    BY <1>2, <1>8 DEF Fetch, ReadMembers, ListingArrives, FetchFails, Mount, Unmount,
                      CancelConfirm, Ask, vars
  <1> QED
    BY <1>1, <1>5, <1>6, <1>7, <1>8 DEF Next, OtherRemoves

(* What the requests under way can be. *)
LEMMA OneMutation ==
    ASSUME MutationInv, NEW c \in calls
    PROVE  /\ c \in Mine
           /\ c.op = "add" => \A e \in calls : e.op = "add" /\ e.user \in batch
           /\ c.op # "add" => calls = {c} /\ batch = {}
  BY DEF MutationInv, SurfaceInv, OwnCalls

LEMMA ServerKeepsBatch ==
    ASSUME TypeOK, MutationInv, NEW c \in calls,
           ServerAdds(c) \/ ServerGuards(c) \/ ServerRemoves(c) \/ ServerRefuses(c)
    PROVE  BatchInv'
  <1>0. UNCHANGED <<batch, failed>>
    BY DEF ServerAdds, ServerGuards, ServerRemoves, ServerRefuses, surface
  <1>1. CASE ServerAdds(c)
    <2>1. PICK d : /\ calls' = (calls \ {c}) \cup {d}
                   /\ d.op = c.op /\ d.user = c.user /\ d.by = c.by /\ d.phase = "done"
      BY <1>1, MovedTo DEF ServerAdds, Phases
    <2>2. c.op = "add" /\ members' = members \cup {c.user}
      BY <1>1 DEF ServerAdds
    <2>3. \A e \in calls : e.op = "add"
      BY <2>2, OneMutation
    <2> QED
      BY <1>0, <2>1, <2>2, <2>3 DEF MutationInv, BatchInv
  <1>2. CASE ServerGuards(c)
    <2>1. PICK phase \in {"failed", "guarded"} : Moved(c, phase)
      BY <1>2 DEF ServerGuards
    <2>2. PICK d : /\ calls' = (calls \ {c}) \cup {d}
                   /\ d.op = c.op /\ d.user = c.user /\ d.by = c.by /\ d.phase = phase
      BY <2>1, MovedTo DEF Phases
    <2>3. calls = {c} /\ batch = {} /\ c.op # "add" /\ members' = members
      BY <1>2, OneMutation DEF ServerGuards
    <2> QED
      BY <1>0, <2>1, <2>2, <2>3 DEF BatchInv
  <1>3. CASE ServerRemoves(c)
    <2>1. PICK phase \in {"done", "failed"} :
            Moved(c, phase) /\ (phase = "done" <=> c.user \in members)
      BY <1>3 DEF ServerRemoves
    <2>2. PICK d : /\ calls' = (calls \ {c}) \cup {d}
                   /\ d.op = c.op /\ d.user = c.user /\ d.by = c.by /\ d.phase = phase
      BY <2>1, MovedTo DEF Phases
    <2>3. c.op # "add" /\ members' = members \ {c.user}
      BY <1>3 DEF ServerRemoves, MutationInv, BatchInv
    <2>4. calls = {c} /\ batch = {}
      BY <2>3, OneMutation
    <2> QED
      BY <1>0, <2>1, <2>2, <2>3, <2>4 DEF BatchInv
  <1>4. CASE ServerRefuses(c)
    <2>1. PICK d : /\ calls' = (calls \ {c}) \cup {d}
                   /\ d.op = c.op /\ d.user = c.user /\ d.by = c.by /\ d.phase = "failed"
      BY <1>4, MovedTo DEF ServerRefuses, Phases
    <2>2. members' = members
      BY <1>4 DEF ServerRefuses
    <2> QED
      BY <1>0, <2>1, <2>2 DEF MutationInv, BatchInv
  <1> QED
    BY <1>1, <1>2, <1>3, <1>4

(* The answer of an addition: of those that remain somebody is asked for, or  *)
(* the batch is over and each has failed or is a member.                      *)
LEMMA AnswerKeepsBatch ==
    ASSUME TypeOK, MutationInv, NEW c \in calls, AddAnswered(c)
    PROVE  /\ BatchInv'
           /\ batch' = {} => batch \subseteq chips' \cup members'
  <1>1. /\ c \in Mine /\ c.op = "add" /\ c.user \in batch
        /\ calls' = calls \ {c} /\ members' = members
        /\ c.phase \in {"done", "failed"}
    BY OneMutation DEF AddAnswered
  <1>2. \A e \in calls : e.op = "add" /\ e.user \in batch /\ e \in Mine
    BY <1>1, OneMutation
  <1> DEFINE fs == failed \cup (IF c.phase = "failed" THEN {c.user} ELSE {})
  <1>3. c.user \in fs \cup members
    BY <1>1 DEF MutationInv, BatchInv
  <1>4. \A u \in batch : u \in fs \cup members \/ \E e \in calls' : e.op = "add" /\ e.user = u
    BY <1>1, <1>3 DEF MutationInv, BatchInv
  <1>5. CASE \E e \in Mine : e # c /\ e.op = "add" /\ e.user \in batch
    <2>1. failed' = fs /\ batch' = batch
      BY <1>1, <1>5 DEF AddAnswered
    <2>2. batch' # {}
      BY <1>1, <2>1
    <2> QED
      BY <1>1, <1>4, <2>1, <2>2 DEF MutationInv, BatchInv
  <1>6. CASE ~\E e \in Mine : e # c /\ e.op = "add" /\ e.user \in batch
    <2>1. batch' = {} /\ chips' = fs
      BY <1>1, <1>6 DEF AddAnswered, Settled, Kept
    <2>2. calls' = {}
      BY <1>1, <1>2, <1>6
    <2> QED
      BY <1>1, <1>4, <2>1, <2>2 DEF BatchInv
  <1> QED
    BY <1>5, <1>6

LEMMA BatchStep ==
    ASSUME ~Others, ~Reopens, TypeOK, MutationInv, [Next]_vars
    PROVE  BatchInv' /\ PicksKept
  <1> USE DEF PicksKept
  <1>1. ASSUME NEW c \in calls,
               ServerAdds(c) \/ ServerGuards(c) \/ ServerRemoves(c) \/ ServerRefuses(c)
        PROVE  BatchInv' /\ PicksKept
    <2>1. batch' = batch
      BY <1>1 DEF ServerAdds, ServerGuards, ServerRemoves, ServerRefuses, surface
    <2> QED
      BY <1>1, <2>1, ServerKeepsBatch
  <1>2. ASSUME NEW c \in calls, AddAnswered(c) PROVE BatchInv' /\ PicksKept
    <2>1. BatchInv' /\ (batch' = {} => batch \subseteq chips' \cup members')
      BY <1>2, AnswerKeepsBatch
    <2> QED
      BY <2>1
  <1>3. ASSUME calls' \subseteq calls, members' = members, batch = {}, batch' = {}
        PROVE  BatchInv' /\ PicksKept
    BY <1>3 DEF MutationInv, BatchInv
  <1>4. ASSUME UNCHANGED <<calls, members, batch, failed>>
        PROVE  BatchInv' /\ PicksKept
    BY <1>4 DEF MutationInv, BatchInv
  <1>5. ASSUME NEW c \in calls, RemoveAnswered(c) \/ LeaveAnswered(c)
        PROVE  BatchInv' /\ PicksKept
    <2>1. batch = {}
      BY <1>5, OneMutation DEF RemoveAnswered, LeaveAnswered
    <2>2. calls' \subseteq calls /\ members' = members /\ batch' = {}
      BY <1>5, <2>1 DEF RemoveAnswered, LeaveAnswered, Reset
    <2> QED
      BY <1>3, <2>1, <2>2
  <1>6. ASSUME NEW us, StartBatch(us), Usable, members' = members PROVE BatchInv' /\ PicksKept
    <2>1. calls = {} /\ batch = {}
      BY <1>6 DEF Usable, MutationInv, SurfaceInv, OwnCalls
    <2>2. calls' = {Call("add", u, Me) : u \in us} /\ batch' = us
      BY <1>6, <2>1 DEF StartBatch
    <2>3. \A u \in us : /\ Call("add", u, Me).op = "add" /\ Call("add", u, Me).user = u
                        /\ Call("add", u, Me).phase = "sent"
      BY DEF Call
    <2> QED
      BY <2>1, <2>2, <2>3 DEF BatchInv
  <1>7. ASSUME NEW us, Select(us), Usable PROVE BatchInv' /\ PicksKept
    BY <1>4, <1>6, <1>7 DEF Select, NoBatch
  <1>8. ASSUME NEW u \in Users, Pick(u) \/ RemoveChip(u) PROVE BatchInv' /\ PicksKept
    BY <1>7, <1>8 DEF Pick, RemoveChip
  <1>9. CASE Add
    BY <1>6, <1>9 DEF Add
  <1>10. CASE Confirm
    <2>1. calls = {} /\ batch = {} /\ batch' = {} /\ members' = members
      BY <1>10 DEF Confirm, MutationInv, SurfaceInv, OwnCalls
    <2>2. PICK d : calls' = calls \cup {d} /\ d = Call(IF asking = Me THEN "leave" ELSE "remove",
                                                     asking, Me)
      BY <1>10 DEF Confirm
    <2>3. calls' = {d} /\ d.phase = "sent"
      BY <2>1, <2>2 DEF Call
    <2> QED
      BY <2>1, <2>3 DEF BatchInv
  <1>11. CASE Unmount
    <2>1. Mine = {} /\ batch = {}
      BY <1>11 DEF Unmount, MutationInv, SurfaceInv
    <2> QED
      BY <1>3, <1>11, <2>1 DEF Unmount, Reset
  <1>12. ASSUME NEW c \in calls, OtherAnswered(c) PROVE FALSE
    BY <1>12, OneMutation DEF OtherAnswered, Mine
  <1>13. CASE Fetch \/ ReadMembers \/ ListingArrives \/ FetchFails \/ Mount
              \/ CancelConfirm \/ (\E u \in Users : Ask(u)) \/ UNCHANGED vars
    BY <1>4, <1>13 DEF Fetch, ReadMembers, ListingArrives, FetchFails, Mount, CancelConfirm,
                       Ask, vars, surface
  <1> QED
    BY <1>1, <1>2, <1>5, <1>8, <1>9, <1>10, <1>11, <1>12, <1>13 DEF Next, OtherRemoves

LEMMA MutationsInvariant ==
    ASSUME MembersAssumption, ~Others, ~Reopens
    PROVE  Spec => []MutationInv
  <1>1. Init => MutationInv
    BY DEF Init, MutationInv, SurfaceInv, OwnCalls, BatchInv, Mine
  <1>2. TypeOK /\ MutationInv /\ [Next]_vars => MutationInv'
    <2> SUFFICES ASSUME TypeOK, MutationInv, [Next]_vars PROVE MutationInv'
      OBVIOUS
    <2>1. SurfaceInv' /\ OwnCalls' /\ BatchInv'
      BY SurfaceStep, OwnCallsStay, BatchStep DEF MutationInv
    <2> QED
      BY <2>1 DEF MutationInv
  <1> QED
    BY <1>1, <1>2, MembersTypeCorrect, PTL DEF Spec

(* "Resolves to the users that FAILED, so a caller can restore exactly those  *)
(* chips" (hooks/space_members.ts): in whatever order the requests of a batch *)
(* are served, refused and answered, at its end everybody picked is a member  *)
(* or a chip again, unless the surface is closed or others remove members.    *)
THEOREM NobodyPickedIsLost ==
    ASSUME MembersAssumption, ~Others, ~Reopens
    PROVE  Spec => [][PicksKept]_vars
  <1>1. TypeOK /\ MutationInv /\ [Next]_vars => [PicksKept]_vars
    BY BatchStep
  <1> QED
    BY <1>1, MembersTypeCorrect, MutationsInvariant, PTL DEF Spec

\* The roster is read when nothing changes it, and differs from the members only
\* by what a request has done and not answered yet.
RosterInv ==
  /\ calls # {} => listing = None
  /\ listing \notin {None, {}} => listing = members
  /\ roster # None =>
       /\ \A u \in members \ roster :
            \E c \in calls : c.op = "add" /\ c.phase = "done" /\ c.user = u
       /\ \A u \in roster \ members :
            \E c \in calls : c.op # "add" /\ c.phase = "done" /\ c.user = u

LEMMA ServerKeepsRoster ==
    ASSUME TypeOK, MutationInv, RosterInv, NEW c \in calls,
           ServerAdds(c) \/ ServerGuards(c) \/ ServerRemoves(c) \/ ServerRefuses(c)
    PROVE  RosterInv'
  <1>0. UNCHANGED <<roster, listing>> /\ listing = None
    BY DEF ServerAdds, ServerGuards, ServerRemoves, ServerRefuses, RosterInv
  <1>1. CASE ServerAdds(c)
    <2>1. PICK d : /\ calls' = (calls \ {c}) \cup {d}
                   /\ d.op = c.op /\ d.user = c.user /\ d.by = c.by /\ d.phase = "done"
      BY <1>1, MovedTo DEF ServerAdds, Phases
    <2>2. c.op = "add" /\ c.phase # "done" /\ members' = members \cup {c.user}
      BY <1>1 DEF ServerAdds
    <2> QED
      BY <1>0, <2>1, <2>2 DEF RosterInv
  <1>2. CASE ServerGuards(c)
    <2>1. PICK phase \in {"failed", "guarded"} : Moved(c, phase)
      BY <1>2 DEF ServerGuards
    <2>2. PICK d : calls' = (calls \ {c}) \cup {d}
      BY <2>1, MovedTo DEF Phases
    <2>3. c.phase # "done" /\ members' = members
      BY <1>2 DEF ServerGuards
    <2> QED
      BY <1>0, <2>2, <2>3 DEF RosterInv
  <1>3. CASE ServerRemoves(c)
    <2>1. PICK phase \in {"done", "failed"} :
            Moved(c, phase) /\ (phase = "done" <=> c.user \in members)
      BY <1>3 DEF ServerRemoves
    <2>2. PICK d : /\ calls' = (calls \ {c}) \cup {d}
                   /\ d.op = c.op /\ d.user = c.user /\ d.by = c.by /\ d.phase = phase
      BY <2>1, MovedTo DEF Phases
    <2>3. c.op # "add" /\ c.phase # "done" /\ members' = members \ {c.user}
      BY <1>3 DEF ServerRemoves, MutationInv, BatchInv
    <2> QED
      BY <1>0, <2>1, <2>2, <2>3 DEF RosterInv
  <1>4. CASE ServerRefuses(c)
    <2>1. PICK d : calls' = (calls \ {c}) \cup {d}
      BY <1>4, MovedTo DEF ServerRefuses, Phases
    <2>2. c.phase # "done" /\ members' = members
      BY <1>4 DEF ServerRefuses
    <2> QED
      BY <1>0, <2>1, <2>2 DEF RosterInv
  <1> QED
    BY <1>1, <1>2, <1>3, <1>4

LEMMA AnswersKeepRoster ==
    ASSUME TypeOK, MutationInv, RosterInv, NEW c \in calls,
           AddAnswered(c) \/ RemoveAnswered(c) \/ LeaveAnswered(c)
    PROVE  RosterInv'
  <1>0. calls' = calls \ {c} /\ members' = members /\ listing' = listing /\ listing = None
    BY DEF AddAnswered, RemoveAnswered, LeaveAnswered, RosterInv
  <1>a. c.phase = "done" => (c.op = "add" <=> c.user \in members)
    BY DEF MutationInv, BatchInv
  <1>b. \A e \in calls : (e.op = "add" /\ e.phase = "done" => e.user \in members)
                          /\ (e.op # "add" /\ e.phase = "done" => e.user \notin members)
    BY DEF MutationInv, BatchInv
  <1>1. CASE AddAnswered(c)
    <2>1. CASE c.phase = "done"
      <3>1. c.op = "add" /\ roster' = IF roster = None THEN None ELSE roster \cup {c.user}
        BY <1>1, <2>1 DEF AddAnswered, Added
      <3> QED
        BY <1>0, <1>a, <1>b, <2>1, <3>1 DEF RosterInv
    <2>2. CASE c.phase # "done"
      BY <1>0, <1>1, <2>2 DEF AddAnswered, RosterInv
    <2> QED
      BY <2>1, <2>2
  <1>2. CASE RemoveAnswered(c)
    <2>1. CASE c.phase = "done"
      <3>1. c.op # "add" /\ roster' = IF roster = None THEN None ELSE roster \ {c.user}
        BY <1>2, <2>1 DEF RemoveAnswered, Removed
      <3> QED
        BY <1>0, <1>a, <1>b, <2>1, <3>1 DEF RosterInv
    <2>2. CASE c.phase # "done"
      BY <1>0, <1>2, <2>2 DEF RemoveAnswered, RosterInv
    <2> QED
      BY <2>1, <2>2
  <1>3. CASE LeaveAnswered(c)
    BY <1>0, <1>3 DEF LeaveAnswered, RosterInv
  <1> QED
    BY <1>1, <1>2, <1>3

LEMMA RosterStep ==
    ASSUME MembersAssumption, ~Overlaps, ~Others, ~Reopens, TypeOK, MutationInv, RosterInv,
           [Next]_vars
    PROVE  RosterInv'
  <1>1. ASSUME UNCHANGED <<calls, members, roster, listing>> PROVE RosterInv'
    BY <1>1 DEF RosterInv
  <1>2. ASSUME calls = {}, listing = None, UNCHANGED <<members, roster, listing>>
        PROVE  RosterInv'
    BY <1>2 DEF RosterInv
  <1>3. ASSUME NEW us, StartBatch(us), Usable, UNCHANGED <<members, roster, listing>>
        PROVE  RosterInv'
    <2>1. calls = {} /\ listing = None
      BY <1>3 DEF Usable, MutationInv, SurfaceInv, OwnCalls
    <2> QED
      BY <1>2, <1>3, <2>1
  <1>4. ASSUME NEW us, Select(us), Usable PROVE RosterInv'
    BY <1>1, <1>3, <1>4 DEF Select, NoBatch
  <1>5. CASE Add \/ \E u \in Users : Pick(u) \/ RemoveChip(u)
    BY <1>3, <1>4, <1>5 DEF Add, Pick, RemoveChip
  <1>6. CASE Confirm
    <2>1. calls = {} /\ listing = None
      BY <1>6 DEF Confirm, MutationInv, SurfaceInv, OwnCalls
    <2> QED
      BY <1>2, <1>6, <2>1 DEF Confirm
  <1>7. CASE Fetch
    <2>1. calls = {}
      BY <1>7 DEF Fetch, Quiet, MutationInv, OwnCalls
    <2> QED
      BY <1>7, <2>1 DEF Fetch, RosterInv
  <1>8. CASE ReadMembers
    <2>1. listing # None
      BY <1>8 DEF ReadMembers, MembersAssumption
    <2>2. calls = {}
      BY <2>1 DEF RosterInv
    <2> QED
      BY <1>8, <2>2 DEF ReadMembers, RosterInv
  <1>9. CASE ListingArrives
    BY <1>9 DEF ListingArrives, RosterInv
  <1>10. CASE FetchFails
    BY <1>10 DEF FetchFails, RosterInv
  <1>11. ASSUME NEW c \in calls, OtherAnswered(c) PROVE FALSE
    BY <1>11, OneMutation DEF OtherAnswered, Mine
  <1>12. CASE Mount \/ Unmount \/ CancelConfirm \/ (\E u \in Users : Ask(u)) \/ UNCHANGED vars
    BY <1>1, <1>12 DEF Mount, Unmount, CancelConfirm, Ask, vars
  <1> QED
    BY <1>5, <1>6, <1>7, <1>8, <1>9, <1>10, <1>11, <1>12, ServerKeepsRoster, AnswersKeepRoster
    DEF Next, OtherRemoves

(* "... so the store is right even for a batch that partly failed"            *)
(* (store/actions.ts): with nothing under way the roster is the server's,     *)
(* whatever was added, removed and refused, unless listings overlap requests  *)
(* or others remove members.                                                  *)
THEOREM TheRosterIsRight ==
    ASSUME MembersAssumption, ~Overlaps, ~Others, ~Reopens
    PROVE  Spec => []RosterIsRight
  <1>1. Init => RosterInv
    BY DEF Init, RosterInv
  <1>2. TypeOK /\ MutationInv /\ RosterInv /\ [Next]_vars => RosterInv'
    BY RosterStep
  <1>3. TypeOK /\ RosterInv => RosterIsRight
    BY DEF TypeOK, RosterInv, RosterIsRight
  <1> QED
    BY <1>1, <1>2, <1>3, MembersTypeCorrect, MutationsInvariant, PTL DEF Spec

-----------------------------------------------------------------------------
(* The width of a panel *)

(* The divider of a drag lies where the drag began, and its width is allowed. *)
DragBegan == dragging => startX = Width!Handle(startWidth) /\ startWidth \in Width!Widths

WidthInv == Width!TypeOK /\ DragBegan

LEMMA ClampStays ==
    ASSUME Width!WidthAssumption
    PROVE  /\ \A w \in Int : Width!Clamp(w) \in Width!Widths
           /\ \A w \in Width!Widths : Width!Clamp(w) = w
           /\ DefaultWidth \in Width!Widths /\ Width!Widths \subseteq Int
                /\ Unset \notin Width!Widths
  BY DEF Width!WidthAssumption, Width!Widths, Width!Clamp

LEMMA SnapIsInt ==
    ASSUME Width!WidthAssumption, NEW w \in Int
    PROVE  Width!Snap(w) \in Int
  BY DEF Width!WidthAssumption, Width!Snap

LEMMA RestoredAllowed ==
    ASSUME Width!WidthAssumption, saved \in Width!Widths \cup {Unset}
    PROVE  Width!Restored \in Width!Widths /\ (saved \in Width!Widths => Width!Restored = saved)
  BY ClampStays DEF Width!Restored

LEMMA WidthForAllowed ==
    ASSUME Width!WidthAssumption, NEW x \in Int, Width!TypeOK
    PROVE  Width!WidthFor(x) \in Width!Widths
  <1>1. startWidth \in Int /\ startX \in Int
    BY DEF Width!TypeOK, Width!Widths, Width!WidthAssumption
  <1>2. Side * (x - startX) \in Int
    BY <1>1 DEF Width!WidthAssumption
  <1>3. Width!Snap(startWidth + Side * (x - startX)) \in Int
    BY <1>1, <1>2, SnapIsInt
  <1> QED
    BY <1>3, ClampStays DEF Width!WidthFor

LEMMA HandleIsInt ==
    ASSUME Width!WidthAssumption, NEW w \in Width!Widths
    PROVE  Width!Handle(w) \in Int
  <1>1. w \in Int /\ Edge \in Int
    BY DEF Width!WidthAssumption, Width!Widths
  <1>2. Side * w \in Int
    BY <1>1 DEF Width!WidthAssumption
  <1> QED
    BY <1>1, <1>2 DEF Width!Handle

LEMMA WidthStepTyped ==
    ASSUME Width!WidthAssumption, WidthInv, [Width!Next]_(Width!vars)
    PROVE  WidthInv'
  <1> USE DEF WidthInv
  <1>0. /\ \A w \in Int : Width!Clamp(w) \in Width!Widths
        /\ DefaultWidth \in Width!Widths /\ Width!Widths \subseteq Int
             /\ Width!Restored \in Width!Widths
        /\ width \in Width!Widths /\ saved \in Width!Widths \cup {Unset}
             /\ lastWidth \in Width!Widths
        /\ startX \in Int /\ startWidth \in Width!Widths \cup {0}
    BY ClampStays, RestoredAllowed DEF Width!TypeOK
  <1>1. CASE Width!PointerDown
    <2>1. Width!Handle(width) \in Int
      BY <1>0, HandleIsInt
    <2> QED
      BY <1>0, <1>1, <2>1 DEF Width!PointerDown, Width!Refs, Width!TypeOK, DragBegan
  <1>2. ASSUME NEW x \in Pointers, Width!PointerMove(x) PROVE WidthInv'
    <2>1. Width!WidthFor(x) \in Width!Widths
      BY WidthForAllowed DEF Width!WidthAssumption
    <2> QED
      BY <1>0, <1>2, <2>1 DEF Width!PointerMove, Width!Resize, Width!TypeOK, DragBegan, Width!Handle
  <1>3. ASSUME NEW x \in Pointers, Width!PointerUp(x) PROVE WidthInv'
    <2>1. Width!WidthFor(x) \in Width!Widths
      BY WidthForAllowed DEF Width!WidthAssumption
    <2> QED
      BY <1>0, <1>3, <2>1 DEF Width!PointerUp, Width!ResizeEnd, Width!TypeOK, DragBegan
  <1>4. CASE Width!StrayUp
    <2>1. Width!WidthFor(Width!Handle(width)) \in Width!Widths
      BY <1>0, HandleIsInt, WidthForAllowed
    <2> QED
      BY <1>0, <1>4, <2>1 DEF Width!StrayUp, Width!Resize, Width!TypeOK, DragBegan, Width!drag
  <1>5. CASE Width!PointerCancel
    BY <1>0, <1>5 DEF Width!PointerCancel, Width!ResizeEnd, Width!TypeOK, DragBegan
  <1>6. CASE Width!DoubleClick
    BY <1>0, <1>6 DEF Width!DoubleClick, Width!ResizeEnd, Width!TypeOK, DragBegan, Width!drag
  <1>7. CASE Width!Key
    <2>1. Width!Stepped(Step) \in Width!Widths /\ Width!Stepped(-Step) \in Width!Widths
      BY <1>0 DEF Width!Stepped, Width!WidthAssumption
    <2>2. PICK w \in Width!Widths : Width!ResizeEnd(w) /\ panelOpen
            /\ UNCHANGED <<panelOpen, Width!drag>>
      BY <1>0, <1>7, <2>1 DEF Width!Key
    <2> QED
      BY <1>0, <2>2 DEF Width!ResizeEnd, Width!TypeOK, DragBegan, Width!Handle, Width!drag
  <1>8. CASE Width!Close
    BY <1>0, <1>8 DEF Width!Close, Width!TypeOK, DragBegan
  <1>9. CASE Width!Reopen
    BY <1>0, <1>9 DEF Width!Reopen, Width!TypeOK, DragBegan
  <1>10. CASE Width!Reload
    <2>1. panelOpen' = TRUE /\ dragging' = FALSE /\ resizing' = FALSE
      BY <1>10 DEF Width!Reload
    <2>2. {panelOpen', dragging', resizing'} \subseteq BOOLEAN
      BY <2>1
    <2> QED
      BY <1>0, <1>10, <2>1, <2>2 DEF Width!Reload, Width!TypeOK, DragBegan
  <1>11. CASE UNCHANGED Width!vars
    BY <1>11 DEF Width!vars, Width!drag, Width!TypeOK, DragBegan, Width!Handle
  <1> QED
    BY <1>1, <1>2, <1>3, <1>4, <1>5, <1>6, <1>7, <1>8, <1>9, <1>10, <1>11 DEF Width!Next

LEMMA WidthInitTyped ==
    ASSUME Width!WidthAssumption, Width!Init
    PROVE  WidthInv
  <1>1. panelOpen = TRUE /\ dragging = FALSE /\ resizing = FALSE
    BY DEF Width!Init
  <1>2. {panelOpen, dragging, resizing} \subseteq BOOLEAN
    BY <1>1
  <1> QED
    BY <1>1, <1>2, RestoredAllowed DEF Width!Init, WidthInv, Width!TypeOK, DragBegan

(* The widths on screen and in localStorage stay within their limits, however *)
(* a drag, the keyboard, strays, closing and reloading interleave.            *)
THEOREM WidthTypeCorrect ==
    ASSUME Width!WidthAssumption
    PROVE  Width!Spec => [](Width!TypeOK /\ DragBegan)
  <1>1. Width!Init => WidthInv
    BY WidthInitTyped
  <1>2. WidthInv /\ [Width!Next]_(Width!vars) => WidthInv'
    BY WidthStepTyped
  <1>3. WidthInv => Width!TypeOK /\ DragBegan
    BY DEF WidthInv
  <1> QED
    BY <1>1, <1>2, <1>3, PTL DEF Width!Spec

(* "Snapping is applied to the pointer's raw width so it can't compound"      *)
(* (resizable_divider.tsx): a drag that returns to where it began brings the  *)
(* width back, or the default beside it.                                      *)
THEOREM DragsReverse ==
    ASSUME Width!WidthAssumption
    PROVE  Width!Spec => Width!DragReverses
  <1>1. WidthInv => Width!Reverses
    <2> SUFFICES ASSUME WidthInv, NEW x \in Pointers, Width!PointerMove(x), x = startX
                 PROVE  width' = Width!Snap(startWidth)
      BY DEF Width!Reverses
    <2>1. dragging /\ startWidth \in Width!Widths
      BY DEF Width!PointerMove, WidthInv, DragBegan
    <2>2. startWidth \in Int /\ startX \in Int
      BY <2>1, ClampStays DEF WidthInv, Width!TypeOK
    <2>3. startWidth + Side * (x - startX) = startWidth
      BY <2>2 DEF Width!WidthAssumption
    <2>4. Width!Snap(startWidth) \in Width!Widths
      BY <2>1, ClampStays DEF Width!Snap
    <2> QED
      BY <2>3, <2>4, ClampStays DEF Width!PointerMove, Width!Resize, Width!WidthFor
  <1>2. Width!Spec => []WidthInv
    BY WidthTypeCorrect DEF WidthInv
  <1> QED
    BY <1>1, <1>2, PTL DEF Width!DragReverses

(* "persist once on release" (hooks/sidebar_width.ts): where no other button  *)
(* is released on the divider and no panel closes under a drag, the width on  *)
(* screen between gestures is the one a reload restores.                      *)
THEOREM WidthIsSavedAtRest ==
    ASSUME Width!WidthAssumption, ~Strays, ~Interrupts
    PROVE  Width!Spec => []Width!AtRestIsSaved
  <1>1. Width!Init => Width!AtRestIsSaved
    BY DEF Width!Init, Width!AtRestIsSaved
  <1>2. WidthInv /\ Width!AtRestIsSaved /\ [Width!Next]_(Width!vars) => Width!AtRestIsSaved'
    <2> SUFFICES ASSUME WidthInv, Width!AtRestIsSaved, [Width!Next]_(Width!vars), ~dragging'
                 PROVE  width' = Width!Restored'
      BY DEF Width!AtRestIsSaved
    <2>0. /\ \A w \in Int : Width!Clamp(w) \in Width!Widths
          /\ \A w \in Width!Widths : Width!Clamp(w) = w
          /\ DefaultWidth \in Width!Widths /\ Unset \notin Width!Widths
          /\ width \in Width!Widths /\ lastWidth \in Width!Widths /\ Width!Widths \subseteq Int
      BY ClampStays DEF WidthInv, Width!TypeOK
    <2>a. ASSUME NEW w \in Width!Widths, Width!ResizeEnd(w) PROVE width' = Width!Restored'
      BY <2>0, <2>a DEF Width!ResizeEnd, Width!Restored
    <2>1. CASE Width!PointerDown \/ Width!StrayUp \/ \E x \in Pointers : Width!PointerMove(x)
      BY <2>1 DEF Width!PointerDown, Width!StrayUp, Width!PointerMove
    <2>2. ASSUME NEW x \in Pointers, Width!PointerUp(x) PROVE width' = Width!Restored'
      <3>1. Width!WidthFor(x) \in Width!Widths
        BY WidthForAllowed DEF Width!WidthAssumption, WidthInv
      <3> QED
        BY <2>2, <2>a, <3>1 DEF Width!PointerUp
    <2>3. CASE Width!PointerCancel \/ Width!DoubleClick
      BY <2>0, <2>3, <2>a DEF Width!PointerCancel, Width!DoubleClick
    <2>4. CASE Width!Key
      <3>1. Width!Stepped(Step) \in Width!Widths /\ Width!Stepped(-Step) \in Width!Widths
        BY <2>0 DEF Width!Stepped, Width!WidthAssumption
      <3> QED
        BY <2>0, <2>4, <2>a, <3>1 DEF Width!Key
    <2>5. CASE Width!Close \/ Width!Reopen \/ UNCHANGED Width!vars
      BY <2>5
      DEF Width!Close, Width!Reopen, Width!vars, Width!drag, Width!AtRestIsSaved, Width!Restored
    <2>6. CASE Width!Reload
      BY <2>6 DEF Width!Reload, Width!Restored
    <2> QED
      BY <2>1, <2>2, <2>3, <2>4, <2>5, <2>6 DEF Width!Next
  <1>3. Width!Spec => []WidthInv
    BY WidthTypeCorrect DEF WidthInv
  <1> QED
    BY <1>1, <1>2, <1>3, PTL DEF Width!Spec

-----------------------------------------------------------------------------
(* Settings *)

\* The modal's space is in the store as long as its form is shown.
SettingsTypes == Settings!TypeOK /\ (form # None => store # Gone /\ since # 0)

LEMMA ShownIsAForm ==
    ASSUME Settings!TypeOK, store # Gone
    PROVE  Settings!Shown(store) \in Settings!Forms /\ store.version \in 1..MaxVersion
  BY DEF Settings!TypeOK, Settings!Shown, Settings!Forms, Settings!Rows, Settings!Managed

LEMMA PatchTyped ==
    ASSUME Settings!TypeOK, store # Gone, form \in Settings!Forms, form["title"] # Blank
    PROVE  Settings!Patch \in Settings!Patches
  <1>1. form["title"] \in Values \ {Blank} /\ form["landing"] \in Values
    BY DEF Settings!Forms, Settings!Managed
  <1>2. store.extra \in Values
    BY DEF Settings!TypeOK, Settings!Rows
  <1> QED
    BY <1>1, <1>2 DEF Settings!Patch, Settings!Patches

LEMMA SaveTyped ==
    ASSUME Settings!SettingsAssumption, SettingsTypes, Settings!Save
    PROVE  saving' \in Settings!Saves
  <1>1. form # None /\ store # Gone
    BY DEF SettingsTypes, Settings!Save, Settings!Dirty
  <1>2. form \in Settings!Forms /\ form["title"] # Blank
    BY <1>1 DEF SettingsTypes, Settings!TypeOK, Settings!Save
  <1>3. Settings!Patch \in Settings!Patches
    BY <1>1, <1>2, PatchTyped DEF SettingsTypes
  <1>4. store.version \in 1..MaxVersion
    BY <1>1, ShownIsAForm DEF SettingsTypes
  <1>5. since \in 0..MaxVersion /\ since # 0
    BY <1>1 DEF SettingsTypes, Settings!TypeOK
  <1>6. since \in 1..MaxVersion
    BY <1>5 DEF Settings!SettingsAssumption
  <1> QED
    BY <1>3, <1>4, <1>6 DEF Settings!Save, Settings!Saves, Settings!Expected

LEMMA ServerRowTyped ==
    ASSUME Settings!SettingsAssumption, Settings!TypeOK, Settings!ServerSaves
    PROVE  row' \in Settings!Rows /\ saving' \in Settings!Saves
  <1>1. saving \in Settings!Saves /\ row.version \in 1..MaxVersion
    BY DEF Settings!TypeOK, Settings!ServerSaves, Settings!Rows
  <1>2. row.version + 1 \in 1..MaxVersion
    BY <1>1 DEF Settings!ServerSaves, Settings!SettingsAssumption
  <1>3. saving.patch \in Settings!Patches
    BY <1>1 DEF Settings!Saves
  <1>4. row' \in Settings!Rows
    BY <1>2, <1>3 DEF Settings!ServerSaves, Settings!Patches, Settings!Rows
  <1>5. saving' = [saving EXCEPT !.answer = row']
    BY DEF Settings!ServerSaves
  <1> QED
    BY <1>1, <1>4, <1>5 DEF Settings!Saves

LEMMA OtherRowTyped ==
    ASSUME Settings!SettingsAssumption, Settings!TypeOK, NEW v \in Values \ {Blank},
           NEW f \in {"title", "extra"}, Settings!OtherSaves(f, v)
    PROVE  /\ row' \in Settings!Rows /\ changed' \in [Settings!Managed -> 1..MaxVersion]
           /\ row'.version = row.version + 1
  <1>0. row.version \in 1..MaxVersion
    BY DEF Settings!TypeOK, Settings!Rows
  <1>1. row.version \in 1..MaxVersion /\ row.version + 1 \in 1..MaxVersion
    <2>1. row.version < MaxVersion
      BY DEF Settings!OtherSaves
    <2> QED
      BY <1>0, <2>1 DEF Settings!SettingsAssumption
  <1>2. row' = [row EXCEPT ![f] = v, !.version = row.version + 1]
    BY DEF Settings!OtherSaves
  <1>3. row \in Settings!Rows
    BY DEF Settings!TypeOK
  <1>4. CASE f = "title"
    <2>1. row' \in Settings!Rows /\ row'.version = row.version + 1
      BY <1>1, <1>2, <1>3, <1>4 DEF Settings!Rows
    <2> QED
      BY <1>1, <1>4, <2>1 DEF Settings!OtherSaves, Settings!TypeOK, Settings!Managed
  <1>5. CASE f = "extra"
    <2>1. row' \in Settings!Rows /\ row'.version = row.version + 1
      BY <1>1, <1>2, <1>3, <1>5 DEF Settings!Rows
    <2> QED
      BY <1>1, <1>5, <2>1 DEF Settings!OtherSaves, Settings!TypeOK, Settings!Managed
  <1> QED
    BY <1>4, <1>5

(* Every step of the modal keeps the types.                                   *)
LEMMA SettingsStepTyped ==
    ASSUME Settings!SettingsAssumption, SettingsTypes, [Settings!Next]_(Settings!vars)
    PROVE  SettingsTypes'
  <1> USE DEF Settings!server, Settings!modal
  <1>0. Settings!TypeOK
    BY DEF SettingsTypes
  <1>1. CASE Settings!Open
    <2>1. Settings!Shown(store) \in Settings!Forms /\ store.version \in 1..MaxVersion
      BY <1>0, <1>1, ShownIsAForm DEF Settings!Open
    <2>2. form' \in Settings!Forms /\ since' \in 0..MaxVersion /\ since' # 0
      BY <1>1, <2>1 DEF Settings!Open
    <2> QED
      BY <1>1, <2>2 DEF SettingsTypes, Settings!TypeOK, Settings!Open, Settings!SettingsAssumption
  <1>2. ASSUME NEW f \in Settings!Managed, NEW v \in Values, Settings!Edit(f, v)
        PROVE  SettingsTypes'
    <2>1. form \in Settings!Forms
      BY <1>2 DEF SettingsTypes, Settings!TypeOK, Settings!Edit
    <2>2. form' \in Settings!Forms
      BY <1>2, <2>1 DEF Settings!Edit, Settings!Forms
    <2> QED
      BY <1>2, <2>2 DEF SettingsTypes, Settings!TypeOK, Settings!Edit, Settings!SettingsAssumption
  <1>3. CASE Settings!Reset
    <2>1. form # None /\ store # Gone
      BY <1>3 DEF SettingsTypes, Settings!Reset, Settings!Dirty
    <2>2. Settings!Shown(store) \in Settings!Forms /\ store.version \in 1..MaxVersion
      BY <1>0, <2>1, ShownIsAForm
    <2>3. form' \in Settings!Forms /\ since' \in 0..MaxVersion /\ since' # 0
      BY <1>3, <2>2 DEF Settings!Reset
    <2> QED
      BY <1>3, <2>1, <2>3
      DEF SettingsTypes, Settings!TypeOK, Settings!Reset, Settings!SettingsAssumption
  <1>4. CASE Settings!Save
    <2>1. saving' \in Settings!Saves
      BY <1>4, SaveTyped
    <2> QED
      BY <1>4, <2>1 DEF SettingsTypes, Settings!TypeOK, Settings!Save
  <1>5. CASE Settings!Dismiss
    BY <1>5 DEF SettingsTypes, Settings!TypeOK, Settings!Dismiss
  <1>6. CASE Settings!ExitComplete
    BY <1>6 DEF SettingsTypes, Settings!TypeOK, Settings!ExitComplete, Settings!HandleClose,
                Settings!CloseModal
  <1>7. CASE Settings!ServerSaves
    <2>1. row' \in Settings!Rows /\ saving' \in Settings!Saves
      BY <1>0, <1>7, ServerRowTyped
    <2> QED
      BY <1>7, <2>1 DEF SettingsTypes, Settings!TypeOK, Settings!ServerSaves
  <1>8. CASE Settings!SaveAnswered
    <2>1. saving \in Settings!Saves /\ saving.answer \in Settings!Rows
      BY <1>8 DEF SettingsTypes, Settings!TypeOK, Settings!SaveAnswered, Settings!Saves
    <2>2. saving.answer # Gone /\ saving.answer.version \in 1..MaxVersion
      BY <2>1 DEF Settings!SettingsAssumption, Settings!Rows
    <2> QED
      BY <1>8, <2>1, <2>2 DEF SettingsTypes, Settings!TypeOK, Settings!SaveAnswered
  <1>9. CASE Settings!SaveFails
    BY <1>9 DEF SettingsTypes, Settings!TypeOK, Settings!SaveFails
  <1>10. CASE Settings!Archive \/ Settings!ServerArchives \/ Settings!ArchiveFails
    BY <1>10 DEF SettingsTypes, Settings!TypeOK, Settings!Archive, Settings!ServerArchives,
                 Settings!ArchiveFails
  <1>11. CASE Settings!ArchiveAnswered
    BY <1>11 DEF SettingsTypes, Settings!TypeOK, Settings!ArchiveAnswered, Settings!CloseModal
  <1>12. ASSUME NEW v \in Values \ {Blank}, NEW f \in {"title", "extra"}, Settings!OtherSaves(f, v)
         PROVE  SettingsTypes'
    <2>1. row' \in Settings!Rows /\ changed' \in [Settings!Managed -> 1..MaxVersion]
      BY <1>0, <1>12, OtherRowTyped
    <2> QED
      BY <1>12, <2>1 DEF SettingsTypes, Settings!TypeOK, Settings!OtherSaves
  <1>13. CASE Settings!ReadListing
    BY <1>13 DEF SettingsTypes, Settings!TypeOK, Settings!ReadListing
  <1>14. CASE Settings!ListingArrives
    BY <1>14 DEF SettingsTypes, Settings!TypeOK, Settings!ListingArrives
  <1>15. CASE UNCHANGED Settings!vars
    BY <1>15 DEF SettingsTypes, Settings!TypeOK, Settings!vars
  <1> QED
    BY <1>1, <1>2, <1>3, <1>4, <1>5, <1>6, <1>7, <1>8, <1>9, <1>10, <1>11, <1>12, <1>13,
       <1>14, <1>15
    DEF Settings!Next

LEMMA SettingsTypeCorrect ==
    ASSUME Settings!SettingsAssumption
    PROVE  Settings!Spec => []SettingsTypes
  <1>1. Settings!Init => SettingsTypes
    <2> SUFFICES ASSUME Settings!Init PROVE SettingsTypes
      OBVIOUS
    <2>1. row \in Settings!Rows
      BY DEF Settings!Init
    <2>2. changed \in [Settings!Managed -> 1..MaxVersion] /\ since \in 0..MaxVersion
      BY DEF Settings!Init, Settings!SettingsAssumption
    <2> QED
      BY <2>1, <2>2 DEF Settings!Init, SettingsTypes, Settings!TypeOK
  <1>2. SettingsTypes /\ [Settings!Next]_(Settings!vars) => SettingsTypes'
    BY SettingsStepTyped
  <1> QED
    BY <1>1, <1>2, PTL DEF Settings!Spec

\* The server's row has the greatest version, and whoever holds that version
\* holds the row.
CopyOf(r) == r.version <= row.version /\ (r.version = row.version => r = row)

CopiesInv ==
  /\ store # Gone => CopyOf(store)
  /\ settingsListing \notin {None, Gone} => CopyOf(settingsListing)
  /\ saving # None =>
       /\ saving.base <= row.version
       /\ saving.answer # None => CopyOf(saving.answer)
       /\ (saving.answer = None /\ saving.base = row.version) => saving.patch.extra = row.extra

\* A form was set from the version the store holds, and a save from its form.
BasedInv ==
  /\ \A f \in Settings!Managed : changed[f] <= row.version
  /\ form # None => since = store.version
  /\ saving # None => saving.since = saving.base

LEMMA CopiesKept ==
    ASSUME CopiesInv, UNCHANGED row,
           store' \in {store, Gone}, settingsListing' \in {settingsListing, None, Gone},
           saving' \in {saving, None}
    PROVE  CopiesInv'
  BY DEF CopiesInv, CopyOf

(* A new version of the row leaves every copy of it behind.                   *)
LEMMA CopiesOutdated ==
    ASSUME SettingsTypes, CopiesInv, row'.version
             = row.version + 1, UNCHANGED <<store, settingsListing>>
    PROVE  /\ store # Gone => CopyOf(store)' /\ store.version < row'.version
           /\ settingsListing \notin {None, Gone} => CopyOf(settingsListing)'
           /\ saving # None => /\ saving.base < row'.version
                               /\ saving.answer # None =>
                                    saving.answer.version < row'.version
  <1>1. row.version \in Nat /\ (store # Gone => store.version \in Nat)
        /\ (settingsListing \notin {None, Gone} => settingsListing.version \in Nat)
    BY DEF SettingsTypes, Settings!TypeOK, Settings!Rows
  <1>2. saving # None => /\ saving.base \in Nat
                         /\ saving.answer # None => saving.answer.version \in Nat
    BY DEF SettingsTypes, Settings!TypeOK, Settings!Rows, Settings!Saves
  <1> QED
    BY <1>1, <1>2 DEF CopiesInv, CopyOf

LEMMA CopiesStep ==
    ASSUME Settings!SettingsAssumption, SettingsTypes, CopiesInv, [Settings!Next]_(Settings!vars)
    PROVE  CopiesInv'
  <1> USE DEF Settings!server, Settings!modal
  <1>0. Settings!TypeOK /\ None # Gone
    BY DEF SettingsTypes, Settings!SettingsAssumption
  <1>1. CASE \/ Settings!Open \/ Settings!Reset \/ Settings!Dismiss \/ Settings!SaveFails
             \/ Settings!Archive \/ Settings!ServerArchives \/ Settings!ArchiveAnswered
             \/ Settings!ArchiveFails \/ UNCHANGED Settings!vars
    BY <1>1, CopiesKept
    DEF Settings!Open, Settings!Reset, Settings!Dismiss, Settings!SaveFails, Settings!Archive,
        Settings!ServerArchives, Settings!ArchiveAnswered, Settings!ArchiveFails, Settings!vars
  <1>2. ASSUME NEW f, NEW v, Settings!Edit(f, v) PROVE CopiesInv'
    BY <1>2, CopiesKept DEF Settings!Edit
  <1>3. CASE Settings!ExitComplete
    BY <1>3, CopiesKept DEF Settings!ExitComplete
  <1>4. CASE Settings!Save
    <2>1. store # Gone /\ CopyOf(store)
      BY <1>4 DEF SettingsTypes, CopiesInv, Settings!Save, Settings!Dirty
    <2>2. /\ saving'.base = store.version /\ saving'.answer = None
          /\ saving'.patch.extra = store.extra
      BY <1>4 DEF Settings!Save, Settings!Expected, Settings!Patch
    <2>3. UNCHANGED <<row, store, settingsListing>>
      BY <1>4 DEF Settings!Save
    <2> QED
      BY <2>1, <2>2, <2>3 DEF CopiesInv, CopyOf
  <1>5. CASE Settings!ServerSaves
    <2>1. row'.version = row.version + 1 /\ saving # None /\ UNCHANGED <<store, settingsListing>>
      BY <1>5 DEF Settings!ServerSaves
    <2>2. saving \in Settings!Saves /\ saving' = [saving EXCEPT !.answer = row']
      BY <1>5 DEF SettingsTypes, Settings!TypeOK, Settings!ServerSaves
    <2>3. saving'.answer = row' /\ saving'.base = saving.base
      BY <2>2 DEF Settings!Saves
    <2>4. row' \in Settings!Rows
      BY <1>0, <1>5, ServerRowTyped
    <2>5. row' # None /\ row'.version \in Nat /\ saving.base \in Nat
      BY <2>2, <2>4 DEF Settings!SettingsAssumption, Settings!Rows, Settings!Saves
    <2>6. /\ store # Gone => CopyOf(store)'
          /\ settingsListing \notin {None, Gone} => CopyOf(settingsListing)'
          /\ saving.base < row'.version
      BY <2>1, CopiesOutdated
    <2> QED
      BY <2>1, <2>3, <2>5, <2>6 DEF CopiesInv, CopyOf
  <1>6. CASE Settings!SaveAnswered
    <2>1. saving # None /\ saving.answer # None /\ store' = saving.answer
          /\ saving' = None /\ UNCHANGED <<row, settingsListing>>
      BY <1>6 DEF Settings!SaveAnswered
    <2> QED
      BY <2>1 DEF CopiesInv, CopyOf
  <1>7. ASSUME NEW v \in Values \ {Blank}, NEW f \in {"title", "extra"}, Settings!OtherSaves(f, v)
        PROVE  CopiesInv'
    <2>1. row'.version = row.version + 1 /\ UNCHANGED <<store, settingsListing, saving>>
      BY <1>0, <1>7, OtherRowTyped DEF Settings!OtherSaves
    <2>2. /\ row'.version \in Nat
          /\ saving # None => saving.base \in Nat
          /\ (saving # None /\ saving.answer # None) => saving.answer.version \in Nat
      <3>1. row' \in Settings!Rows
        BY <1>0, <1>7, OtherRowTyped
      <3> QED
        BY <3>1 DEF SettingsTypes, Settings!TypeOK, Settings!Rows, Settings!Saves
    <2> QED
      BY <2>1, <2>2, CopiesOutdated DEF CopiesInv, CopyOf
  <1>8. CASE Settings!ReadListing
    <2>1. UNCHANGED <<row, store, saving>> /\ settingsListing' \in {Gone, row}
      BY <1>8 DEF Settings!ReadListing
    <2>2. row.version \in Nat
      BY DEF SettingsTypes, Settings!TypeOK, Settings!Rows
    <2> QED
      BY <2>1, <2>2 DEF CopiesInv, CopyOf
  <1>9. CASE Settings!ListingArrives
    <2>1. UNCHANGED <<row, saving>> /\ settingsListing' = None
          /\ (store' = store \/ (settingsListing \notin {None, Gone} /\ store' = settingsListing))
      BY <1>9 DEF Settings!ListingArrives
    <2> QED
      BY <2>1 DEF CopiesInv, CopyOf
  <1> QED
    BY <1>1, <1>2, <1>3, <1>4, <1>5, <1>6, <1>7, <1>8, <1>9 DEF Settings!Next

LEMMA CopiesCorrect ==
    ASSUME Settings!SettingsAssumption
    PROVE  Settings!Spec => [](SettingsTypes /\ CopiesInv)
  <1>1. Settings!Init => CopiesInv
    BY DEF Settings!Init, CopiesInv, CopyOf, Settings!Rows
  <1>2. SettingsTypes /\ CopiesInv /\ [Settings!Next]_(Settings!vars) => CopiesInv'
    BY CopiesStep
  <1>3. Settings!Spec => []SettingsTypes
    BY SettingsTypeCorrect
  <1> QED
    BY <1>1, <1>2, <1>3, PTL DEF Settings!Spec

(* "Props replace wholesale server-side, so merge onto the live map"          *)
(* (space_settings_modal.tsx): whatever listings, saves and archives of       *)
(* others come between, a save the server takes leaves the properties this    *)
(* modal does not manage as they are in the row, for any values and versions. *)
THEOREM SavesLeaveTheRest ==
    ASSUME Settings!SettingsAssumption
    PROVE  Settings!Spec => [][Settings!LeavesTheRest]_(Settings!vars)
  <1>1. CopiesInv => Settings!LeavesTheRest
    BY DEF CopiesInv, Settings!LeavesTheRest, Settings!ServerSaves, Settings!CanWrite
  <1> QED
    BY <1>1, CopiesCorrect, PTL

LEMMA BasedStep ==
    ASSUME Settings!SettingsAssumption, ~Refreshes, SettingsTypes, BasedInv,
           [Settings!Next]_(Settings!vars)
    PROVE  BasedInv'
  <1> USE DEF Settings!server, Settings!modal
  <1>0. Settings!TypeOK
    BY DEF SettingsTypes
  <1>1. CASE \/ Settings!Dismiss \/ Settings!SaveFails \/ Settings!Archive
             \/ Settings!ServerArchives \/ Settings!ArchiveFails \/ Settings!ReadListing
             \/ UNCHANGED Settings!vars
    BY <1>1
    DEF BasedInv, Settings!Dismiss, Settings!SaveFails, Settings!Archive, Settings!ServerArchives,
        Settings!ArchiveFails, Settings!ReadListing, Settings!vars
  <1>2. CASE Settings!Open \/ Settings!Reset
    BY <1>2 DEF BasedInv, Settings!Open, Settings!Reset
  <1>3. ASSUME NEW f, NEW v, Settings!Edit(f, v) PROVE BasedInv'
    <2>1. form # None /\ UNCHANGED <<row, changed, store, since, saving>>
      BY <1>0, <1>3 DEF Settings!Edit, Settings!TypeOK
    <2> QED
      BY <2>1 DEF BasedInv
  <1>4. CASE Settings!Save
    <2>1. form # None /\ UNCHANGED <<row, changed, store, since, form>>
      BY <1>4 DEF Settings!Save, Settings!Dirty
    <2>2. saving'.since = since /\ saving'.base = store.version
      BY <1>4 DEF Settings!Save, Settings!Expected
    <2> QED
      BY <2>1, <2>2 DEF BasedInv
  <1>5. CASE Settings!ExitComplete
    BY <1>5 DEF BasedInv, Settings!ExitComplete, Settings!HandleClose, Settings!CloseModal
  <1>6. CASE Settings!ServerSaves
    <2>1. /\ saving # None /\ row'.version = row.version + 1
          /\ saving' = [saving EXCEPT !.answer = row'] /\ UNCHANGED <<changed, store, since, form>>
      BY <1>6 DEF Settings!ServerSaves
    <2>2. saving'.since = saving.since /\ saving'.base = saving.base
      BY <1>0, <2>1 DEF Settings!TypeOK, Settings!Saves
    <2>3. row.version \in Nat /\ \A f \in Settings!Managed : changed[f] \in Nat
      BY <1>0 DEF Settings!TypeOK, Settings!Rows
    <2> QED
      BY <2>1, <2>2, <2>3 DEF BasedInv
  <1>7. CASE Settings!SaveAnswered
    BY <1>7 DEF BasedInv, Settings!SaveAnswered
  <1>8. CASE Settings!ArchiveAnswered
    BY <1>8 DEF BasedInv, Settings!ArchiveAnswered, Settings!CloseModal
  <1>9. ASSUME NEW v \in Values \ {Blank}, NEW f \in {"title", "extra"}, Settings!OtherSaves(f, v)
        PROVE  BasedInv'
    <2>1. row'.version = row.version + 1 /\ UNCHANGED <<store, since, form, saving>>
      BY <1>0, <1>9, OtherRowTyped DEF Settings!OtherSaves
    <2>2. row.version \in Nat /\ \A g \in Settings!Managed : changed[g] \in Nat
      BY <1>0 DEF Settings!TypeOK, Settings!Rows
    <2>3. \A g \in Settings!Managed : changed'[g] \in {changed[g], row'.version}
      BY <1>0, <1>9 DEF Settings!OtherSaves, Settings!TypeOK
    <2>4. \A g \in Settings!Managed : changed'[g] <= row'.version
      BY <2>1, <2>2, <2>3 DEF BasedInv
    <2> QED
      BY <2>1, <2>4 DEF BasedInv
  <1>10. CASE Settings!ListingArrives
    <2>1. form = None /\ UNCHANGED <<row, changed, form, saving>>
      BY <1>0, <1>10 DEF Settings!ListingArrives, Settings!TypeOK
    <2> QED
      BY <2>1 DEF BasedInv
  <1> QED
    BY <1>1, <1>2, <1>3, <1>4, <1>5, <1>6, <1>7, <1>8, <1>9, <1>10 DEF Settings!Next

(* "Reads the current update_at for optimistic concurrency (the server        *)
(* rejects a stale write)" (store/actions.ts): as long as no listing reaches  *)
(* the store under an open modal, another member's change to a managed field  *)
(* is only written over from a form that was set from it.                     *)
THEOREM SavesOverwriteOnlyWhatWasShown ==
    ASSUME Settings!SettingsAssumption, ~Refreshes
    PROVE  Settings!Spec => [][Settings!OverwritesOnlyShown]_(Settings!vars)
  <1>1. Settings!Init => BasedInv
    BY DEF Settings!Init, BasedInv, Settings!Rows
  <1>2. SettingsTypes /\ BasedInv /\ [Settings!Next]_(Settings!vars) => BasedInv'
    BY SettingsStepTyped, BasedStep
  <1>3. BasedInv => Settings!OverwritesOnlyShown
    BY DEF BasedInv, Settings!OverwritesOnlyShown, Settings!ServerSaves, Settings!CanWrite
  <1>4. Settings!Spec => []SettingsTypes
    BY SettingsTypeCorrect
  <1> QED
    BY <1>1, <1>2, <1>3, <1>4, PTL DEF Settings!Spec

(* "Guard the close affordances (backdrop, Esc, the cross) when there are     *)
(* unsaved edits" (space_settings_modal.tsx): the form is dropped only clean, *)
(* or with its space, whatever arrives while the dialog's exit runs.          *)
THEOREM FormsAreDroppedClean ==
    ASSUME Settings!SettingsAssumption
    PROVE  Settings!Spec => [][Settings!DropsClean]_(Settings!vars)
  <1>1. ASSUME SettingsTypes, [Settings!Next]_(Settings!vars) PROVE Settings!DropsClean
    <2> SUFFICES ASSUME form # None, form' = None PROVE ~Settings!Dirty \/ store' = Gone
      BY DEF Settings!DropsClean
    <2> USE DEF Settings!server, Settings!modal
    <2>1. form \in Settings!Forms /\ store # Gone /\ None \notin Settings!Forms
      BY <1>1 DEF SettingsTypes, Settings!TypeOK, Settings!SettingsAssumption
    <2>2. Settings!Shown(store) \in Settings!Forms
      BY <1>1, <2>1, ShownIsAForm DEF SettingsTypes
    <2>3. ASSUME NEW f \in Settings!Managed, NEW v \in Values, Settings!Edit(f, v) PROVE FALSE
      BY <2>1, <2>3 DEF Settings!Edit, Settings!Forms
    <2>4. CASE Settings!Open \/ Settings!Reset
      BY <2>1, <2>2, <2>4 DEF Settings!Open, Settings!Reset
    <2>5. CASE Settings!ExitComplete
      BY <2>5 DEF Settings!ExitComplete, Settings!HandleClose
    <2>6. CASE Settings!ArchiveAnswered
      BY <2>6 DEF Settings!ArchiveAnswered
    <2>7. CASE UNCHANGED form
      BY <2>7
    <2>8. CASE \/ Settings!Save \/ Settings!Dismiss \/ Settings!ServerSaves
               \/ Settings!SaveAnswered \/ Settings!SaveFails \/ Settings!Archive
               \/ Settings!ServerArchives \/ Settings!ArchiveFails \/ Settings!ReadListing
               \/ Settings!ListingArrives \/ UNCHANGED Settings!vars
               \/ \E f \in {"title", "extra"}, v \in Values : Settings!OtherSaves(f, v)
      BY <2>7, <2>8
      DEF Settings!Save, Settings!Dismiss, Settings!ServerSaves, Settings!SaveAnswered,
          Settings!SaveFails, Settings!Archive, Settings!ServerArchives, Settings!ArchiveFails,
          Settings!ReadListing, Settings!ListingArrives, Settings!OtherSaves, Settings!vars
    <2> QED
      BY <1>1, <2>3, <2>4, <2>5, <2>6, <2>8 DEF Settings!Next
  <1>2. Settings!Spec => []SettingsTypes
    BY SettingsTypeCorrect
  <1> QED
    BY <1>1, <1>2, PTL DEF Settings!Spec

-----------------------------------------------------------------------------
(* The page tree: forests                                                  *)

(* A finite set with a number for each of its elements has one with the least *)
(* and one with the greatest.  A least subset without would have one after    *)
(* all, that of the subset less an element.                                   *)
LEMMA LeastOf ==
    ASSUME NEW S, IsFiniteSet(S), S # {}, NEW f, \A x \in S : f[x] \in Int
    PROVE  \E x \in S : \A y \in S : f[x] <= f[y]
  <1> DEFINE HasLeast(T) == \E x \in T : \A y \in T : f[x] <= f[y]
             bad == {T \in SUBSET S : T # {} /\ ~ HasLeast(T)}
  <1>1. bad = {}
    <2> SUFFICES ASSUME bad # {} PROVE FALSE
      OBVIOUS
    <2>1. IsWellFoundedOn(StrictSubsetOrdering(S), FiniteSubsetsOf(S))
      BY FS_StrictSubsetOrderingWellFounded
    <2>2. bad \subseteq FiniteSubsetsOf(S)
      BY FS_Subset DEF FiniteSubsetsOf
    <2>3. \E T \in bad : \A U \in bad : <<U, T>> \notin StrictSubsetOrdering(S)
      <3> HIDE DEF bad
      <3> QED
        BY <2>1, <2>2, WFMin
    <2>4. PICK T \in bad : \A U \in bad : <<U, T>> \notin StrictSubsetOrdering(S)
      BY <2>3
    <2>5. PICK x \in T : TRUE
      OBVIOUS
    <2>6. CASE T \ {x} = {}
      <3>1. T = {x} /\ f[x] <= f[x]
        BY <2>6
      <3> QED
        BY <3>1
    <2>7. CASE T \ {x} # {}
      <3>1. <<T \ {x}, T>> \in StrictSubsetOrdering(S)
        BY DEF StrictSubsetOrdering
      <3>2. HasLeast(T \ {x})
        BY <2>4, <2>7, <3>1
      <3>3. PICK m \in T \ {x} : \A y \in T \ {x} : f[m] <= f[y]
        BY <3>2
      <3>4. f[m] \in Int /\ f[x] \in Int
        OBVIOUS
      <3>5. HasLeast(T)
        <4>1. CASE f[m] <= f[x]
          BY <3>3, <4>1
        <4>2. CASE f[x] < f[m]
          <5>1. \A y \in T : f[y] \in Int
            OBVIOUS
          <5> QED
            BY <3>3, <3>4, <4>2, <5>1
        <4> QED
          BY <3>4, <4>1, <4>2
      <3> QED
        BY <3>5
    <2> QED
      BY <2>6, <2>7
  <1> QED
    BY <1>1

LEMMA GreatestOf ==
    ASSUME NEW S, IsFiniteSet(S), S # {}, NEW f, \A x \in S : f[x] \in Int
    PROVE  \E x \in S : \A y \in S : f[y] <= f[x]
  <1> DEFINE g == [x \in S |-> 0 - f[x]]
  <1>1. \A x \in S : g[x] \in Int /\ g[x] = 0 - f[x]
    OBVIOUS
  <1> HIDE DEF g
  <1>2. PICK x \in S : \A y \in S : g[x] <= g[y]
    BY <1>1, LeastOf
  <1> QED
    BY <1>1, <1>2

(* The elements of X, each with the one above it or Root, and its level. *)
Rooted(X, up, lvl) ==
  /\ IsFiniteSet(X) /\ Root \notin X
  /\ up \in [X -> X \cup {Root}]
  /\ lvl \in [X -> Nat]
  /\ \A x \in X : lvl[x] = IF up[x] = Root THEN 0 ELSE lvl[up[x]] + 1

ClosedUp(up, S, x) == \A z \in S \cup {x} : up[z] \in S \cup {Root}

(* The elements over x: its ancestors. *)
Over(X, up, x) == {a \in X : \A S \in SUBSET X : ClosedUp(up, S, x) => a \in S}

(* Functions that agree above or below agree. *)
LEMMA SameFromAbove ==
    ASSUME NEW X, NEW up, NEW lvl, Rooted(X, up, lvl), NEW f, NEW g,
           \A x \in X : (up[x] # Root => f[up[x]] = g[up[x]]) => f[x] = g[x]
    PROVE  \A x \in X : f[x] = g[x]
  <1> DEFINE B == {x \in X : f[x] # g[x]}
  <1> SUFFICES ASSUME B # {} PROVE FALSE
    OBVIOUS
  <1>1. IsFiniteSet(B)
    BY FS_Subset DEF Rooted
  <1>2. PICK x \in B : \A y \in B : lvl[x] <= lvl[y]
    <2>1. \A x \in B : lvl[x] \in Int
      BY DEF Rooted
    <2> HIDE DEF B
    <2> QED
      BY <1>1, <2>1, LeastOf
  <1>3. up[x] # Root => up[x] \in X /\ lvl[up[x]] < lvl[x]
    BY DEF Rooted
  <1>4. lvl[x] \in Nat /\ (up[x] # Root => lvl[up[x]] \in Nat)
    BY DEF Rooted
  <1> QED
    BY <1>2, <1>3, <1>4

LEMMA SameFromBelow ==
    ASSUME NEW X, NEW up, NEW lvl, Rooted(X, up, lvl), NEW f, NEW g,
           \A x \in X : (\A c \in X : up[c] = x => f[c] = g[c]) => f[x] = g[x]
    PROVE  \A x \in X : f[x] = g[x]
  <1> DEFINE B == {x \in X : f[x] # g[x]}
  <1> SUFFICES ASSUME B # {} PROVE FALSE
    OBVIOUS
  <1>1. IsFiniteSet(B)
    BY FS_Subset DEF Rooted
  <1>2. PICK x \in B : \A y \in B : lvl[y] <= lvl[x]
    <2>1. \A x \in B : lvl[x] \in Int
      BY DEF Rooted
    <2> HIDE DEF B
    <2> QED
      BY <1>1, <2>1, GreatestOf
  <1>3. \A c \in X : up[c] = x => lvl[c] = lvl[x] + 1 /\ lvl[x] \in Nat
    BY DEF Rooted
  <1> QED
    BY <1>2, <1>3

LEMMA OverClosed ==
    ASSUME NEW X, NEW up, NEW lvl, Rooted(X, up, lvl), NEW x \in X
    PROVE  /\ Over(X, up, x) \in SUBSET X
           /\ ClosedUp(up, Over(X, up, x), x)
           /\ \A S \in SUBSET X : ClosedUp(up, S, x) => Over(X, up, x) \subseteq S
  <1>1. Over(X, up, x) \in SUBSET X
    BY DEF Over
  <1>2. \A S \in SUBSET X : ClosedUp(up, S, x) => Over(X, up, x) \subseteq S
    BY DEF Over
  <1>3. ASSUME NEW z \in Over(X, up, x) \cup {x}, up[z] # Root
        PROVE  up[z] \in Over(X, up, x)
    <2>1. z \in X /\ up[z] \in X
      BY <1>1, <1>3 DEF Rooted
    <2>2. ASSUME NEW S \in SUBSET X, ClosedUp(up, S, x)
          PROVE  up[z] \in S
      <3>1. z \in S \cup {x}
        BY <1>2, <2>2
      <3> QED
        BY <1>3, <2>2, <3>1 DEF ClosedUp
    <2> QED
      BY <2>1, <2>2 DEF Over
  <1> QED
    BY <1>1, <1>2, <1>3 DEF ClosedUp

(* Over x are the element above it and those over that. *)
LEMMA OverStep ==
    ASSUME NEW X, NEW up, NEW lvl, Rooted(X, up, lvl), NEW x \in X
    PROVE  /\ up[x] = Root => Over(X, up, x) = {}
           /\ up[x] # Root => /\ up[x] \in X
                              /\ Over(X, up, x) = {up[x]} \cup Over(X, up, up[x])
  <1>1. CASE up[x] = Root
    <2>1. ClosedUp(up, {}, x)
      BY <1>1 DEF ClosedUp
    <2>2. {} \in SUBSET X
      OBVIOUS
    <2>3. Over(X, up, x) \subseteq {}
      BY <2>1, <2>2, OverClosed
    <2> QED
      BY <1>1, <2>3
  <1>2. CASE up[x] # Root
    <2>1. PICK u \in X : u = up[x]
      BY <1>2 DEF Rooted
    <2>2. /\ Over(X, up, u) \in SUBSET X /\ ClosedUp(up, Over(X, up, u), u)
          /\ Over(X, up, x) \in SUBSET X /\ ClosedUp(up, Over(X, up, x), x)
      BY OverClosed
    <2>3. PICK S \in SUBSET X : S = {u} \cup Over(X, up, u)
      BY <2>2
    <2>4. ClosedUp(up, S, x)
      BY <2>1, <2>2, <2>3 DEF ClosedUp
    <2>5. Over(X, up, x) \subseteq S
      BY <2>4, OverClosed
    <2>6. u \in Over(X, up, x)
      BY <1>2, <2>1, <2>2 DEF ClosedUp
    <2>7. ClosedUp(up, Over(X, up, x), u)
      BY <2>2, <2>6 DEF ClosedUp
    <2>8. Over(X, up, u) \subseteq Over(X, up, x)
      BY <2>2, <2>7, OverClosed
    <2> QED
      BY <1>2, <2>1, <2>3, <2>5, <2>6, <2>8
  <1> QED
    BY <1>1, <1>2

LEMMA OverIsHigher ==
    ASSUME NEW X, NEW up, NEW lvl, Rooted(X, up, lvl), NEW x \in X, NEW a \in Over(X, up, x)
    PROVE  a \in X /\ lvl[a] < lvl[x] /\ lvl[a] \in Nat /\ lvl[x] \in Nat
  <1> DEFINE S == {z \in X : lvl[z] < lvl[x]}
  <1>1. ClosedUp(up, S, x)
    <2> SUFFICES ASSUME NEW z \in S \cup {x}, up[z] # Root
                 PROVE  up[z] \in S
      BY DEF ClosedUp
    <2>1. z \in X /\ up[z] \in X /\ lvl[z] = lvl[up[z]] + 1 /\ lvl[z] <= lvl[x]
      BY DEF Rooted
    <2>2. lvl[z] \in Nat /\ lvl[up[z]] \in Nat /\ lvl[x] \in Nat
      BY <2>1 DEF Rooted
    <2> QED
      BY <2>1, <2>2
  <1>2. S \in SUBSET X
    OBVIOUS
  <1>3. Over(X, up, x) \subseteq S
    <2> HIDE DEF S
    <2> QED
      BY <1>1, <1>2, OverClosed
  <1> QED
    BY <1>3 DEF Rooted

LEMMA OverTransitive ==
    ASSUME NEW X, NEW up, NEW lvl, Rooted(X, up, lvl), NEW x \in X, NEW a \in Over(X, up, x)
    PROVE  Over(X, up, a) \subseteq Over(X, up, x)
  <1>1. Over(X, up, x) \in SUBSET X /\ ClosedUp(up, Over(X, up, x), x) /\ a \in X
    BY OverClosed
  <1>2. ClosedUp(up, Over(X, up, x), a)
    BY <1>1 DEF ClosedUp
  <1> QED
    BY <1>1, <1>2, OverClosed

Path(X, up, x) == {x} \cup Over(X, up, x)

(* Of two elements on the way up from x the higher is over the other. *)
LEMMA PathIsAChain ==
    ASSUME NEW X, NEW up, NEW lvl, Rooted(X, up, lvl), NEW x \in X,
           NEW a \in Path(X, up, x), NEW b \in Path(X, up, x)
    PROVE  /\ a \in X /\ b \in X /\ lvl[a] \in Nat /\ lvl[b] \in Nat
           /\ lvl[a] = lvl[b] => a = b
           /\ lvl[a] < lvl[b] => a \in Over(X, up, b)
  <1> DEFINE Chain(y) == \A c, d \in Path(X, up, y) :
                           /\ lvl[c] = lvl[d] => c = d
                           /\ lvl[c] < lvl[d] => c \in Over(X, up, d)
  <1>1. ASSUME NEW y \in X, up[y] # Root => Chain(up[y])
        PROVE  Chain(y)
    <2> SUFFICES ASSUME NEW c \in Path(X, up, y), NEW d \in Path(X, up, y)
                 PROVE  /\ lvl[c] = lvl[d] => c = d
                        /\ lvl[c] < lvl[d] => c \in Over(X, up, d)
      OBVIOUS
    <2>0. \A z \in Over(X, up, y) : lvl[z] < lvl[y] /\ lvl[z] \in Nat /\ lvl[y] \in Nat
      BY OverIsHigher
    <2>1. CASE c = y \/ d = y
      <3>1. lvl[y] \in Nat /\ c \in {y} \cup Over(X, up, y) /\ d \in {y} \cup Over(X, up, y)
        BY DEF Rooted, Path
      <3>2. CASE c = y /\ d = y
        BY <3>1, <3>2
      <3>3. CASE c = y /\ d # y
        BY <3>1, <3>3, <2>0
      <3>4. CASE c # y /\ d = y
        BY <3>1, <3>4, <2>0
      <3> QED
        BY <2>1, <3>2, <3>3, <3>4
    <2>2. CASE c # y /\ d # y
      <3>1. c \in Over(X, up, y) /\ d \in Over(X, up, y)
        BY <2>2 DEF Path
      <3>2. up[y] # Root /\ c \in Path(X, up, up[y]) /\ d \in Path(X, up, up[y])
        BY <3>1, OverStep DEF Path
      <3> QED
        BY <3>2, <1>1
    <2> QED
      BY <2>1, <2>2
  <1>2. \A y \in X : Chain(y)
    <2> DEFINE B == {y \in X : ~ Chain(y)}
    <2> SUFFICES ASSUME B # {} PROVE FALSE
      OBVIOUS
    <2>1. IsFiniteSet(B) /\ B \subseteq X
      <3>1. B \subseteq X
        OBVIOUS
      <3> HIDE DEF B
      <3> QED
        BY <3>1, FS_Subset DEF Rooted
    <2>2. \A y \in B : lvl[y] \in Int
      BY <2>1 DEF Rooted
    <2>3. PICK y \in B : \A z \in B : lvl[y] <= lvl[z]
      <3> HIDE DEF B
      <3> QED
        BY <2>1, <2>2, LeastOf
    <2>4. up[y] # Root => up[y] \in X /\ lvl[up[y]] < lvl[y]
      BY <2>1 DEF Rooted
    <2>5. lvl[y] \in Nat /\ (up[y] # Root => lvl[up[y]] \in Nat)
      BY <2>1 DEF Rooted
    <2>6. up[y] # Root => up[y] \notin B
      <3> HIDE DEF B
      <3> QED
        BY <2>3, <2>4, <2>5
    <2>7. up[y] # Root => Chain(up[y])
      BY <2>4, <2>6
    <2>8. Chain(y)
      <3> HIDE DEF Chain
      <3> QED
        BY <1>1, <2>7
    <2> QED
      BY <2>8
  <1>3. Over(X, up, x) \in SUBSET X
    BY OverClosed
  <1> QED
    BY <1>2, <1>3 DEF Rooted, Path

-----------------------------------------------------------------------------
(* The page tree: orders and ranks                                         *)

(* E orders Q, strictly and totally. *)
Orders(E, Q) ==
  /\ \A x \in Q : <<x, x>> \notin E
  /\ \A x, y \in Q : x # y => <<x, y>> \in E \/ <<y, x>> \in E
  /\ \A x, y, z \in Q : <<x, y>> \in E /\ <<y, z>> \in E => <<x, z>> \in E

LEMMA OrdersPart ==
    ASSUME NEW E, NEW Q, Orders(E, Q), NEW R \in SUBSET Q
    PROVE  Orders(E, R)
  BY DEF Orders

(* The place of x among the others of Q, from 0. *)
RankIn(E, Q, x) == Cardinality({q \in Q : <<q, x>> \in E})

LEMMA RankBelow ==
    ASSUME NEW Q, IsFiniteSet(Q), NEW E, NEW x
    PROVE  RankIn(E, Q, x) \in Nat /\ RankIn(E, Q, x) <= Cardinality(Q) /\ Cardinality(Q) \in Nat
  <1>1. {q \in Q : <<q, x>> \in E} \subseteq Q
    OBVIOUS
  <1> QED
    BY <1>1, FS_Subset, FS_CardinalityType DEF RankIn

LEMMA RankTells ==
    ASSUME NEW Q, IsFiniteSet(Q), NEW E, Orders(E, Q), NEW x \in Q, NEW y \in Q, <<x, y>> \in E
    PROVE  RankIn(E, Q, x) < RankIn(E, Q, y)
  <1> DEFINE A == {q \in Q : <<q, x>> \in E}
             B == {q \in Q : <<q, y>> \in E}
  <1>1. A \subseteq B /\ x \in B /\ x \notin A
    BY DEF Orders
  <1>2. B \subseteq Q
    OBVIOUS
  <1>3. RankIn(E, Q, x) = Cardinality(A) /\ RankIn(E, Q, y) = Cardinality(B)
    BY DEF RankIn
  <1> HIDE DEF A, B
  <1>4. IsFiniteSet(B) /\ IsFiniteSet(A) /\ Cardinality(A) <= Cardinality(B)
           /\ (Cardinality(A) = Cardinality(B) => A = B)
    BY <1>1, <1>2, FS_Subset
  <1>5. Cardinality(A) \in Nat /\ Cardinality(B) \in Nat
    BY <1>4, FS_CardinalityType
  <1> QED
    BY <1>1, <1>3, <1>4, <1>5

LEMMA RankOrders ==
    ASSUME NEW Q, IsFiniteSet(Q), NEW E, Orders(E, Q), NEW x \in Q, NEW y \in Q
    PROVE  <<x, y>> \in E <=> RankIn(E, Q, x) < RankIn(E, Q, y)
  <1>1. RankIn(E, Q, x) \in Nat /\ RankIn(E, Q, y) \in Nat
    BY RankBelow
  <1>2. CASE x = y
    BY <1>1, <1>2 DEF Orders
  <1>3. CASE x # y /\ <<x, y>> \in E
    BY <1>1, <1>3, RankTells
  <1>4. CASE x # y /\ <<y, x>> \in E
    <2>1. RankIn(E, Q, y) < RankIn(E, Q, x)
      BY <1>4, RankTells
    <2>2. <<x, y>> \notin E
      BY <1>4 DEF Orders
    <2> QED
      BY <1>1, <1>4, <2>1, <2>2
  <1> QED
    BY <1>2, <1>3, <1>4 DEF Orders

LEMMA RankIsOwn ==
    ASSUME NEW Q, IsFiniteSet(Q), NEW E, Orders(E, Q), NEW x \in Q, NEW y \in Q,
           RankIn(E, Q, x) = RankIn(E, Q, y)
    PROVE  x = y
  <1>1. RankIn(E, Q, x) \in Nat
    BY RankBelow
  <1>2. ~ (RankIn(E, Q, x) < RankIn(E, Q, y)) /\ ~ (RankIn(E, Q, y) < RankIn(E, Q, x))
    BY <1>1
  <1>3. <<x, y>> \notin E
    BY <1>2, RankTells
  <1>4. <<y, x>> \notin E
    BY <1>2, RankTells
  <1> QED
    BY <1>3, <1>4 DEF Orders

LEMMA RankBelowSize ==
    ASSUME NEW Q, IsFiniteSet(Q), NEW E, Orders(E, Q), NEW x \in Q
    PROVE  RankIn(E, Q, x) \in 0 .. Cardinality(Q) - 1
  <1>1. {q \in Q : <<q, x>> \in E} \subseteq Q \ {x}
    BY DEF Orders
  <1>2. IsFiniteSet(Q \ {x}) /\ Cardinality(Q \ {x}) = Cardinality(Q) - 1 /\ Cardinality(Q) \in Nat
    BY FS_RemoveElement, FS_CardinalityType
  <1>3. RankIn(E, Q, x) <= Cardinality(Q \ {x})
    BY <1>1, <1>2, FS_Subset DEF RankIn
  <1> QED
    BY <1>2, <1>3, RankBelow

(* Every place is somebody's. *)
LEMMA RankIsTaken ==
    ASSUME NEW Q, IsFiniteSet(Q), NEW E, Orders(E, Q), NEW i \in 0 .. Cardinality(Q) - 1
    PROVE  \E x \in Q : RankIn(E, Q, x) = i
  <1>n. PICK n \in Nat : n = Cardinality(Q)
    BY FS_CardinalityType
  <1>0. \A x, y \in Q : RankIn(E, Q, x) = RankIn(E, Q, y) => x = y
    BY RankIsOwn
  <1> DEFINE f == [x \in Q |-> RankIn(E, Q, x)]
  <1>1. f \in [Q -> 0 .. n - 1]
    BY <1>n, RankBelowSize
  <1>2. ASSUME NEW x \in Q, NEW y \in Q, f[x] = f[y]
        PROVE  x = y
    <2>1. RankIn(E, Q, x) = RankIn(E, Q, y)
      BY <1>2
    <2> QED
      BY <1>0, <2>1
  <1>3. f \in Injection(Q, 0 .. n - 1)
    <2> HIDE DEF f
    <2> QED
      BY <1>1, <1>2 DEF Injection, IsInjective
  <1>4. IsFiniteSet(0 .. n - 1) /\ Cardinality(0 .. n - 1) = n
    BY <1>n, FS_Interval
  <1>5. f \in Surjection(Q, 0 .. n - 1)
    <2> HIDE DEF f
    <2> QED
      BY <1>n, <1>3, <1>4, FS_Injection
  <1> QED
    BY <1>n, <1>5 DEF Surjection

-----------------------------------------------------------------------------
(* The page tree: the order of the rows                                    *)

(* B orders the elements below each one. *)
Siblings(X, up, x) == {y \in X : up[y] = up[x]}
OrdersBelow(X, up, B) == \A x \in X : Orders(B, Siblings(X, up, x))

(* x is over y, or before it where their ways up part. *)
Earlier(X, up, B, x, y) ==
  \/ x \in Over(X, up, y)
  \/ \E a \in Path(X, up, x), b \in Path(X, up, y) : up[a] = up[b] /\ <<a, b>> \in B

LEMMA PathInside ==
    ASSUME NEW X, NEW up, NEW lvl, Rooted(X, up, lvl), NEW x \in X, NEW a \in Path(X, up, x)
    PROVE  /\ a \in X /\ Path(X, up, a) \subseteq Path(X, up, x)
           /\ Over(X, up, a) \subseteq Over(X, up, x)
  BY OverTransitive, OverClosed DEF Path

LEMMA SiblingsPaths ==
    ASSUME NEW X, NEW up, NEW lvl, Rooted(X, up, lvl), NEW x \in X, NEW y \in X, up[x] = up[y]
    PROVE  Over(X, up, x) = Over(X, up, y) /\ lvl[x] = lvl[y]
  <1>1. Over(X, up, x) = Over(X, up, y)
    <2>1. CASE up[x] = Root
      <3>1. Over(X, up, x) = {}
        BY <2>1, OverStep
      <3>2. Over(X, up, y) = {}
        BY <2>1, OverStep
      <3> QED
        BY <3>1, <3>2
    <2>2. CASE up[x] # Root
      <3>1. Over(X, up, x) = {up[x]} \cup Over(X, up, up[x])
        BY <2>2, OverStep
      <3>2. Over(X, up, y) = {up[y]} \cup Over(X, up, up[y])
        BY <2>2, OverStep
      <3> QED
        BY <3>1, <3>2
    <2> QED
      BY <2>1, <2>2
  <1>2. lvl[x] = lvl[y]
    BY DEF Rooted
  <1> QED
    BY <1>1, <1>2

LEMMA EarlierIsStrict ==
    ASSUME NEW X, NEW up, NEW lvl, Rooted(X, up, lvl), NEW B, OrdersBelow(X, up, B), NEW x \in X
    PROVE  ~ Earlier(X, up, B, x, x)
  <1>1. x \notin Over(X, up, x)
    <2> SUFFICES ASSUME x \in Over(X, up, x) PROVE FALSE
      OBVIOUS
    <2>1. lvl[x] < lvl[x] /\ lvl[x] \in Nat
      BY OverIsHigher
    <2> QED
      BY <2>1
  <1>2. ASSUME NEW a \in Path(X, up, x), NEW b \in Path(X, up, x), up[a] = up[b], <<a, b>> \in B
        PROVE  FALSE
    <2>1. a \in X /\ b \in X
      BY PathInside
    <2>2. lvl[a] = lvl[b]
      BY <1>2, <2>1, SiblingsPaths
    <2>3. a = b
      BY <2>2, PathIsAChain
    <2> QED
      BY <1>2, <2>1, <2>3 DEF OrdersBelow, Orders, Siblings
  <1> QED
    BY <1>1, <1>2 DEF Earlier

LEMMA EarlierIsTransitive ==
    ASSUME NEW X, NEW up, NEW lvl, Rooted(X, up, lvl), NEW B, OrdersBelow(X, up, B),
           NEW x \in X, NEW y \in X, NEW z \in X,
           Earlier(X, up, B, x, y), Earlier(X, up, B, y, z)
    PROVE  Earlier(X, up, B, x, z)
  <1>1. CASE y \in Over(X, up, z)
    <2>1. Path(X, up, y) \subseteq Path(X, up, z) /\ Over(X, up, y) \subseteq Over(X, up, z)
      BY <1>1, PathInside DEF Path
    <2> QED
      BY <2>1 DEF Earlier
  <1>2. ASSUME NEW c \in Path(X, up, y), NEW d \in Path(X, up, z), up[c] = up[d], <<c, d>> \in B
        PROVE  Earlier(X, up, B, x, z)
    <2>0. /\ c \in X /\ d \in X /\ Over(X, up, c) = Over(X, up, d)
          /\ Over(X, up, d) \subseteq Over(X, up, z)
      <3>1. c \in X /\ d \in X
        BY PathInside
      <3> QED
        BY <1>2, <3>1, SiblingsPaths, PathInside
    <2>1. CASE x \in Over(X, up, y)
      <3>1. x \in Path(X, up, y) /\ x \in X /\ lvl[x] \in Nat /\ lvl[c] \in Nat
        BY <2>1, PathIsAChain DEF Path
      <3>2. CASE lvl[x] < lvl[c]
        <4>1. x \in Over(X, up, c)
          BY <3>1, <3>2, PathIsAChain
        <4> QED
          BY <2>0, <4>1 DEF Earlier
      <3>3. CASE lvl[c] <= lvl[x]
        <4>1. c \in Path(X, up, x)
          <5>1. lvl[c] = lvl[x] \/ lvl[c] < lvl[x]
            BY <3>1, <3>3
          <5>2. c = x \/ c \in Over(X, up, x)
            BY <3>1, <5>1, PathIsAChain
          <5> QED
            BY <5>2 DEF Path
        <4> QED
          BY <1>2, <4>1 DEF Earlier
      <3> QED
        BY <3>1, <3>2, <3>3
    <2>2. ASSUME NEW a \in Path(X, up, x), NEW b \in Path(X, up, y), up[a] = up[b], <<a, b>> \in B
          PROVE  Earlier(X, up, B, x, z)
      <3>1. /\ a \in X /\ b \in X /\ Over(X, up, a) = Over(X, up, b)
            /\ Over(X, up, a) \subseteq Over(X, up, x)
        <4>1. a \in X /\ b \in X
          BY PathInside
        <4> QED
          BY <2>2, <4>1, SiblingsPaths, PathInside
      <3>2. lvl[b] \in Nat /\ lvl[c] \in Nat
        BY PathIsAChain
      <3>3. CASE lvl[b] = lvl[c]
        <4>1. b = c
          BY <3>3, PathIsAChain
        <4>2. <<a, d>> \in B
          BY <1>2, <2>2, <2>0, <3>1, <4>1 DEF OrdersBelow, Orders, Siblings
        <4> QED
          BY <1>2, <2>2, <4>1, <4>2 DEF Earlier
      <3>4. CASE lvl[b] < lvl[c]
        <4>1. b \in Over(X, up, c)
          BY <3>4, PathIsAChain
        <4>2. b \in Path(X, up, z)
          BY <2>0, <4>1 DEF Path
        <4> QED
          BY <2>2, <4>2 DEF Earlier
      <3>5. CASE lvl[c] < lvl[b]
        <4>1. c \in Over(X, up, b)
          BY <3>5, PathIsAChain
        <4>2. c \in Path(X, up, x)
          BY <3>1, <4>1 DEF Path
        <4> QED
          BY <1>2, <4>2 DEF Earlier
      <3> QED
        BY <3>2, <3>3, <3>4, <3>5
    <2> QED
      BY <2>1, <2>2 DEF Earlier
  <1> QED
    BY <1>1, <1>2 DEF Earlier

(* The highest element on the way up from x that is not on the way up from y. *)
LEMMA Fork ==
    ASSUME NEW X, NEW up, NEW lvl, Rooted(X, up, lvl), NEW x \in X, NEW y \in X,
           x \notin Path(X, up, y)
    PROVE  \E a \in Path(X, up, x) : /\ a \notin Path(X, up, y)
                                     /\ up[a] # Root => /\ up[a] \in Path(X, up, x)
                                                        /\ up[a] \in Path(X, up, y)
  <1> DEFINE A == Path(X, up, x) \ Path(X, up, y)
  <1>0. A \subseteq X
    BY PathInside
  <1>1. IsFiniteSet(A) /\ A # {} /\ \A z \in A : lvl[z] \in Int
    <2>1. x \in A
      BY DEF Path
    <2> HIDE DEF A
    <2> QED
      BY <1>0, <2>1, FS_Subset DEF Rooted
  <1>2. PICK a \in A : \A z \in A : lvl[a] <= lvl[z]
    <2> HIDE DEF A
    <2> QED
      BY <1>1, LeastOf
  <1>3. ASSUME up[a] # Root
        PROVE  up[a] \in Path(X, up, x) /\ up[a] \in Path(X, up, y)
    <2>1. a \in X /\ up[a] \in Over(X, up, a) /\ up[a] \in X
      BY <1>0, <1>3, OverStep
    <2>2. up[a] \in Path(X, up, x)
      BY <2>1, PathInside DEF Path
    <2>3. lvl[up[a]] < lvl[a] /\ lvl[a] \in Nat /\ lvl[up[a]] \in Nat
      BY <2>1, OverIsHigher
    <2>4. up[a] \notin A
      <3> HIDE DEF A
      <3> QED
        BY <1>2, <2>3
    <2> QED
      BY <2>2, <2>4
  <1> QED
    BY <1>2, <1>3

LEMMA EarlierIsTotal ==
    ASSUME NEW X, NEW up, NEW lvl, Rooted(X, up, lvl), NEW B, OrdersBelow(X, up, B),
           NEW x \in X, NEW y \in X, x # y
    PROVE  Earlier(X, up, B, x, y) \/ Earlier(X, up, B, y, x)
  <1>1. CASE x \in Path(X, up, y) \/ y \in Path(X, up, x)
    BY <1>1 DEF Earlier, Path
  <1>2. CASE x \notin Path(X, up, y) /\ y \notin Path(X, up, x)
    <2>1. PICK a \in Path(X, up, x) : /\ a \notin Path(X, up, y)
                                      /\ up[a] # Root => /\ up[a] \in Path(X, up, x)
                                                         /\ up[a] \in Path(X, up, y)
      BY <1>2, Fork
    <2>2. PICK b \in Path(X, up, y) : /\ b \notin Path(X, up, x)
                                      /\ up[b] # Root => /\ up[b] \in Path(X, up, y)
                                                         /\ up[b] \in Path(X, up, x)
      BY <1>2, Fork
    <2>3. a \in X /\ b \in X
      BY PathInside
    <2>4. ASSUME up[b] # Root
          PROVE  lvl[a] >= lvl[b]
      <3>1. lvl[b] = lvl[up[b]] + 1 /\ lvl[up[b]] \in Nat /\ lvl[a] \in Nat
        BY <2>3, <2>4 DEF Rooted
      <3>2. ~ (lvl[a] <= lvl[up[b]])
        <4> SUFFICES ASSUME lvl[a] <= lvl[up[b]] PROVE FALSE
          OBVIOUS
        <4>0. lvl[a] = lvl[up[b]] \/ lvl[a] < lvl[up[b]]
          BY <3>1
        <4>1. a = up[b] \/ a \in Over(X, up, up[b])
          BY <2>2, <2>4, <4>0, PathIsAChain
        <4>2. a \in Path(X, up, y)
          BY <2>2, <2>4, <4>1, PathInside DEF Path
        <4> QED
          BY <2>1, <4>2
      <3> QED
        BY <3>1, <3>2
    <2>5. ASSUME up[a] # Root
          PROVE  lvl[b] >= lvl[a]
      <3>1. lvl[a] = lvl[up[a]] + 1 /\ lvl[up[a]] \in Nat /\ lvl[b] \in Nat
        BY <2>3, <2>5 DEF Rooted
      <3>2. ~ (lvl[b] <= lvl[up[a]])
        <4> SUFFICES ASSUME lvl[b] <= lvl[up[a]] PROVE FALSE
          OBVIOUS
        <4>0. lvl[b] = lvl[up[a]] \/ lvl[b] < lvl[up[a]]
          BY <3>1
        <4>1. b = up[a] \/ b \in Over(X, up, up[a])
          BY <2>1, <2>5, <4>0, PathIsAChain
        <4>2. b \in Path(X, up, x)
          BY <2>1, <2>5, <4>1, PathInside DEF Path
        <4> QED
          BY <2>2, <4>2
      <3> QED
        BY <3>1, <3>2
    <2>6. up[a] = up[b]
      <3>1. /\ lvl[a] = IF up[a] = Root THEN 0 ELSE lvl[up[a]] + 1
            /\ lvl[b] = IF up[b] = Root THEN 0 ELSE lvl[up[b]] + 1
            /\ lvl[a] \in Nat /\ lvl[b] \in Nat
            /\ up[a] # Root => lvl[up[a]] \in Nat
            /\ up[b] # Root => lvl[up[b]] \in Nat
        BY <2>3 DEF Rooted
      <3>2. up[a] = Root <=> up[b] = Root
        BY <2>4, <2>5, <3>1
      <3>3. CASE up[a] # Root
        <4>1. lvl[up[a]] = lvl[up[b]]
          BY <2>4, <2>5, <3>1, <3>2, <3>3
        <4> QED
          BY <2>1, <2>2, <3>2, <3>3, <4>1, PathIsAChain
      <3> QED
        BY <3>2, <3>3
    <2>7. a # b
      BY <2>1
    <2>8. <<a, b>> \in B \/ <<b, a>> \in B
      <3>1. a \in Siblings(X, up, a) /\ b \in Siblings(X, up, a)
        BY <2>3, <2>6 DEF Siblings
      <3> QED
        BY <2>3, <2>7, <3>1 DEF OrdersBelow, Orders
    <2> QED
      BY <2>6, <2>8 DEF Earlier
  <1> QED
    BY <1>1, <1>2

-----------------------------------------------------------------------------
(* The page tree: what the operators on trees compute                      *)

LEMMA PanelNumbers ==
    /\ \A S : Panel!Cardinality(S) = Cardinality(S)
    /\ \A S : Panel!IsFiniteSet(S) <=> IsFiniteSet(S)
  BY Zenon DEF Panel!Cardinality, Cardinality, Panel!IsFiniteSet, IsFiniteSet

LEMMA PanelMax ==
    ASSUME NEW S, S \subseteq Int, NEW m \in S, \A y \in S : y <= m
    PROVE  Panel!Max(S) = m
  <1>1. \A y \in S : m >= y
    OBVIOUS
  <1>2. Panel!Max(S) \in S /\ \A y \in S : Panel!Max(S) >= y
    BY <1>1, Zenon DEF Panel!Max
  <1>3. PICK n \in S : n = Panel!Max(S)
    BY <1>2
  <1>4. n >= m /\ n <= m /\ n \in Int /\ m \in Int
    BY <1>2, <1>3
  <1> QED
    BY <1>3, <1>4

LEMMA PanelMin ==
    ASSUME NEW S, S \subseteq Int, NEW m \in S, \A y \in S : m <= y
    PROVE  Panel!Min(S) = m
  <1>2. Panel!Min(S) \in S /\ \A y \in S : Panel!Min(S) =< y
    BY Zenon DEF Panel!Min
  <1>3. PICK n \in S : n = Panel!Min(S)
    BY <1>2
  <1>4. n >= m /\ n <= m /\ n \in Int /\ m \in Int
    BY <1>2, <1>3
  <1> QED
    BY <1>3, <1>4

(* The types of a tree: pages are below pages of the tree or Root, those of a *)
(* group have different orders.                                               *)
Tidy(t) ==
  /\ t = [pages |-> t.pages, drafts |-> t.drafts]
  /\ DOMAIN t.pages \subseteq Pages /\ DOMAIN t.drafts \subseteq Pages
  /\ DOMAIN t.pages \cap DOMAIN t.drafts = {}
  /\ t.pages \in [DOMAIN t.pages -> [parent : Pages \cup {Root}, order : Nat]]
  /\ t.drafts \in [DOMAIN t.drafts -> Pages \cup {Root}]
  /\ \A p \in DOMAIN t.pages : t.pages[p].parent \in DOMAIN t.pages \cup {Root}
  /\ \A p, q \in DOMAIN t.pages : p # q /\ t.pages[p].parent = t.pages[q].parent
                                   => t.pages[p].order # t.pages[q].order

Ups(t) == [x \in Panel!Ids(t) |-> Panel!ShownParent(t, x)]
RowOrder(t) == {e \in Panel!Ids(t) \X Panel!Ids(t) : Panel!Before(t, e[1], e[2])}

Levels(t, lvl) == Rooted(Panel!Ids(t), Ups(t), lvl)

LEMMA PagesAreNumbers ==
    ASSUME Panel!PanelAssumption
    PROVE  /\ Root = 0 /\ MaxDepth \in Nat /\ MaxChanges \in Nat
           /\ Pages \subseteq Nat \ {0} /\ IsFiniteSet(Pages)
           /\ \A S \in SUBSET Pages : IsFiniteSet(S) /\ Cardinality(S) \in Nat
           /\ Body \notin Pages /\ Away \notin Pages /\ Away # Body
  <1>1. IsFiniteSet(Pages)
    BY PanelNumbers DEF Panel!PanelAssumption
  <1> QED
    BY <1>1, FS_Subset, FS_CardinalityType DEF Panel!PanelAssumption, Panel!RowsAssumption

LEMMA UpsTyped ==
    ASSUME Panel!PanelAssumption, NEW t, Tidy(t)
    PROVE  /\ Panel!Ids(t) \in SUBSET Pages /\ IsFiniteSet(Panel!Ids(t)) /\ Root \notin Panel!Ids(t)
           /\ Ups(t) \in [Panel!Ids(t) -> DOMAIN t.pages \cup {Root}]
           /\ Ups(t) \in [Panel!Ids(t) -> Panel!Ids(t) \cup {Root}]
           /\ \A x \in Panel!Ids(t) : Ups(t)[x] = Panel!ShownParent(t, x)
           /\ \A p \in DOMAIN t.pages : p \in Panel!Ids(t)
                /\ Panel!ShownParent(t, p) = t.pages[p].parent
  <1>1. Panel!Ids(t) \in SUBSET Pages /\ DOMAIN t.pages \subseteq Panel!Ids(t)
    BY DEF Tidy, Panel!Ids
  <1>2. IsFiniteSet(Panel!Ids(t)) /\ Root \notin Panel!Ids(t)
    BY <1>1, PagesAreNumbers
  <1>3. \A x \in Panel!Ids(t) : Panel!ShownParent(t, x) \in DOMAIN t.pages \cup {Root}
    BY DEF Panel!ShownParent
  <1>4. \A p \in DOMAIN t.pages : Panel!ShownParent(t, p) = t.pages[p].parent
    BY DEF Tidy, Panel!ShownParent
  <1> QED
    BY <1>1, <1>2, <1>3, <1>4 DEF Ups

LEMMA SiblingsInOrder ==
    ASSUME Panel!PanelAssumption, NEW t, Tidy(t)
    PROVE  OrdersBelow(Panel!Ids(t), Ups(t), RowOrder(t))
  <1> DEFINE X == Panel!Ids(t)
             page(x) == x \in DOMAIN t.pages
  <1>1. \A x, y \in X : <<x, y>> \in RowOrder(t) <=> Panel!Before(t, x, y)
    BY DEF RowOrder
  <1>2. /\ \A x \in X : x \in Nat
        /\ \A x \in DOMAIN t.pages : t.pages[x].order \in Nat
        /\ \A x, y \in DOMAIN t.pages : x # y /\ Ups(t)[x] = Ups(t)[y]
                                         => t.pages[x].order # t.pages[y].order
    <2>1. \A x \in X : x \in Nat
      BY UpsTyped, PagesAreNumbers
    <2>2. \A x, y \in DOMAIN t.pages : x # y /\ Ups(t)[x] = Ups(t)[y]
                                         => t.pages[x].order # t.pages[y].order
      BY UpsTyped DEF Tidy
    <2> QED
      BY <2>1, <2>2 DEF Tidy
  <1>3. \A x, y : Panel!Before(t, x, y) <=>
                    IF page(x) /\ page(y) THEN t.pages[x].order < t.pages[y].order
                    ELSE IF page(x) \/ page(y) THEN page(x) ELSE x < y
    BY DEF Panel!Before
  <1> SUFFICES ASSUME NEW z \in X
               PROVE  Orders(RowOrder(t), Siblings(X, Ups(t), z))
    BY DEF OrdersBelow
  <1> DEFINE Q == Siblings(X, Ups(t), z)
  <1>4. Q \subseteq X /\ \A x, y \in Q : Ups(t)[x] = Ups(t)[y]
    BY DEF Siblings
  <1> HIDE DEF X, Q
  <1>5. \A x \in Q : <<x, x>> \notin RowOrder(t)
    BY <1>1, <1>2, <1>3, <1>4
  <1>6. \A x, y \in Q : x # y => <<x, y>> \in RowOrder(t) \/ <<y, x>> \in RowOrder(t)
    BY <1>1, <1>2, <1>3, <1>4
  <1>7. ASSUME NEW x \in Q, NEW y \in Q, NEW w \in Q,
               <<x, y>> \in RowOrder(t), <<y, w>> \in RowOrder(t)
        PROVE  <<x, w>> \in RowOrder(t)
    BY <1>1, <1>2, <1>3, <1>4, <1>7
  <1> QED
    BY <1>5, <1>6, <1>7 DEF Orders, Q

(* Levels are depths. *)
LEMMA DepthIsLevel ==
    ASSUME Panel!PanelAssumption, NEW t, Tidy(t), NEW lvl, Levels(t, lvl), NEW x \in Panel!Ids(t)
    PROVE  Panel!Depth(t, x) = lvl[x] /\ lvl[x] \in Nat
  <1> DEFINE X == Panel!Ids(t)
             IsDepth(f) == f = [y \in X |-> IF Panel!ShownParent(t, y) = Root THEN 0
                                            ELSE f[Panel!ShownParent(t, y)] + 1]
             depth == CHOOSE f : IsDepth(f)
  <1>0. /\ Rooted(X, Ups(t), lvl) /\ lvl \in [X -> Nat]
        /\ \A y \in X : Ups(t)[y] = Panel!ShownParent(t, y)
    BY UpsTyped DEF Levels, Rooted
  <1>1. IsDepth(lvl)
    <2>1. \A y \in X : lvl[y] = IF Panel!ShownParent(t, y) = Root THEN 0
                                 ELSE lvl[Panel!ShownParent(t, y)] + 1
      BY <1>0 DEF Rooted
    <2> QED
      BY <1>0, <2>1
  <1>2. IsDepth(depth)
    BY <1>1
  <1>3. Panel!Depth(t, x) = depth[x]
    BY DEF Panel!Depth
  <1>4. PICK g : g = depth
    OBVIOUS
  <1> HIDE DEF depth
  <1>5. \A y \in X : g[y] = IF Ups(t)[y] = Root THEN 0 ELSE g[Ups(t)[y]] + 1
    BY <1>0, <1>2, <1>4
  <1>6. \A y \in X : (Ups(t)[y] # Root => g[Ups(t)[y]] = lvl[Ups(t)[y]]) => g[y] = lvl[y]
    BY <1>0, <1>5 DEF Rooted
  <1>7. \A y \in X : g[y] = lvl[y]
    <2> HIDE DEF X
    <2> QED
      BY <1>0, <1>6, SameFromAbove
  <1> QED
    BY <1>0, <1>3, <1>4, <1>7

(* The rows over x are what hides it. *)
LEMMA ShowsUnlessHidden ==
    ASSUME Panel!PanelAssumption, NEW t, Tidy(t), NEW lvl, Levels(t, lvl), NEW x \in Panel!Ids(t),
           NEW closed
    PROVE  Panel!Shows(t, x, closed) <=> Over(Panel!Ids(t), Ups(t), x) \cap closed = {}
  <1> DEFINE X == Panel!Ids(t)
             Open(f, y) == Panel!ShownParent(t, y) # Root
                             => /\ Panel!ShownParent(t, y) \notin closed
                                /\ f[Panel!ShownParent(t, y)]
             IsShows(f) == f = [y \in X |-> Open(f, y)]
             shows == CHOOSE f : IsShows(f)
             clear == [y \in X |-> Over(X, Ups(t), y) \cap closed = {}]
  <1>0. /\ Rooted(X, Ups(t), lvl)
        /\ \A y \in X : /\ Ups(t)[y] = Panel!ShownParent(t, y)
                        /\ Panel!ShownParent(t, y) \in X \cup {Root}
    BY UpsTyped DEF Levels
  <1>1. ASSUME NEW y \in X
        PROVE  Over(X, Ups(t), y) \cap closed = {} <=> Open(clear, y)
    <2>1. CASE Panel!ShownParent(t, y) = Root
      BY <1>0, <2>1, OverStep
    <2>2. CASE Panel!ShownParent(t, y) # Root
      <3>1. PICK u \in X : u = Panel!ShownParent(t, y)
        BY <1>0, <2>2
      <3>2. Over(X, Ups(t), y) = {u} \cup Over(X, Ups(t), u)
        BY <1>0, <2>2, <3>1, OverStep
      <3>3. clear[u] <=> Over(X, Ups(t), u) \cap closed = {}
        OBVIOUS
      <3> QED
        BY <2>2, <3>1, <3>2, <3>3
    <2> QED
      BY <2>1, <2>2
  <1>2. IsShows(clear)
    <2>1. \A y \in X : clear[y] = Open(clear, y)
      <3> SUFFICES ASSUME NEW y \in X PROVE clear[y] = Open(clear, y)
        OBVIOUS
      <3>1. clear[y] = (Over(X, Ups(t), y) \cap closed = {})
        OBVIOUS
      <3> HIDE DEF clear
      <3> QED
        BY <3>1, <1>1, Zenon
    <2>2. clear = [y \in X |-> clear[y]]
      OBVIOUS
    <2> HIDE DEF clear, Open
    <2> QED
      BY <2>1, <2>2, Zenon
  <1>3. IsShows(shows)
    <2> HIDE DEF IsShows
    <2> QED
      BY <1>2, Zenon
  <1>4. Panel!Shows(t, x, closed) = shows[x]
    BY Zenon DEF Panel!Shows
  <1>5. PICK g : g = shows
    OBVIOUS
  <1> HIDE DEF shows
  <1>6. \A y \in X : g[y] <=> Open(g, y)
    <2>1. g = [y \in X |-> Open(g, y)]
      BY <1>3, <1>5, Zenon
    <2> HIDE DEF Open
    <2> QED
      BY <2>1, Zenon
  <1> DEFINE f1 == [y \in X |-> IF g[y] THEN 1 ELSE 0]
             f2 == [y \in X |-> IF Over(X, Ups(t), y) \cap closed = {} THEN 1 ELSE 0]
  <1>7. ASSUME NEW y \in X, Ups(t)[y] # Root => f1[Ups(t)[y]] = f2[Ups(t)[y]]
        PROVE  f1[y] = f2[y]
    <2>1. CASE Ups(t)[y] = Root
      BY <1>0, <1>1, <1>6, <2>1
    <2>2. CASE Ups(t)[y] # Root
      <3>1. PICK u \in X : u = Panel!ShownParent(t, y) /\ u = Ups(t)[y]
        BY <1>0, <2>2
      <3>2. f1[u] = f2[u]
        BY <1>7, <2>2, <3>1
      <3>3. g[u] <=> Over(X, Ups(t), u) \cap closed = {}
        BY <3>2
      <3>4. clear[u] <=> Over(X, Ups(t), u) \cap closed = {}
        OBVIOUS
      <3>6. Open(g, y) <=> u \notin closed /\ g[u]
        BY <2>2, <3>1, <1>0
      <3>7. Open(clear, y) <=> u \notin closed /\ clear[u]
        BY <2>2, <3>1, <1>0
      <3>5. g[y] <=> Over(X, Ups(t), y) \cap closed = {}
        <4> HIDE DEF Open, clear
        <4> QED
          BY <1>1, <1>6, <3>3, <3>4, <3>6, <3>7, Zenon
      <3> QED
        BY <3>5
    <2> QED
      BY <2>1, <2>2
  <1>8. \A y \in X : f1[y] = f2[y]
    <2> HIDE DEF X, f1, f2
    <2> QED
      BY <1>0, <1>7, SameFromAbove
  <1>9. g[x] <=> Over(X, Ups(t), x) \cap closed = {}
    <2>1. f1[x] = f2[x]
      BY <1>8
    <2> QED
      BY <2>1
  <1> QED
    BY <1>4, <1>5, <1>9

LEMMA OverFromBelow ==
    ASSUME NEW X, NEW up, NEW lvl, Rooted(X, up, lvl), NEW x \in X, NEW y \in X
    PROVE  x \in Over(X, up, y) <=> up[y] = x \/ \E c \in X : up[c] = x /\ c \in Over(X, up, y)
  <1>0. x # Root
    BY DEF Rooted
  <1>1. ASSUME up[y] = x
        PROVE  x \in Over(X, up, y)
    BY <1>0, <1>1, OverStep
  <1>2. ASSUME NEW c \in X, up[c] = x, c \in Over(X, up, y)
        PROVE  x \in Over(X, up, y)
    <2>1. x \in Over(X, up, c)
      BY <1>0, <1>2, OverStep
    <2> QED
      BY <1>2, <2>1, OverTransitive
  <1>3. ASSUME x \in Over(X, up, y)
        PROVE  up[y] = x \/ \E c \in X : up[c] = x /\ c \in Over(X, up, y)
    <2>1. lvl[x] < lvl[y] /\ lvl[x] \in Nat /\ lvl[y] \in Nat /\ x \in Path(X, up, y)
      BY <1>3, OverIsHigher DEF Path
    <2>2. y \notin Path(X, up, x)
      <3> SUFFICES ASSUME y \in Over(X, up, x) PROVE FALSE
        BY <2>1 DEF Path
      <3>1. lvl[y] < lvl[x]
        BY OverIsHigher
      <3> QED
        BY <2>1, <3>1
    <2>3. PICK a \in Path(X, up, y) : /\ a \notin Path(X, up, x)
                                      /\ up[a] # Root => /\ up[a] \in Path(X, up, y)
                                                         /\ up[a] \in Path(X, up, x)
      BY <2>2, Fork
    <2>4. a \in X /\ lvl[a] \in Nat
      BY <2>1, <2>3, PathIsAChain
    <2>5. lvl[x] < lvl[a]
      <3> SUFFICES ASSUME lvl[a] <= lvl[x] PROVE FALSE
        BY <2>1, <2>4
      <3>1. lvl[a] = lvl[x] \/ lvl[a] < lvl[x]
        BY <2>1, <2>4
      <3>2. a = x \/ a \in Over(X, up, x)
        BY <2>1, <3>1, PathIsAChain
      <3> QED
        BY <2>3, <3>2 DEF Path
    <2>6. up[a] # Root /\ up[a] \in X /\ lvl[a] = lvl[up[a]] + 1 /\ lvl[up[a]] \in Nat
      BY <2>1, <2>4, <2>5 DEF Rooted
    <2>7. up[a] \in Path(X, up, y) /\ up[a] \in Path(X, up, x)
      BY <2>3, <2>6
    <2>8. lvl[up[a]] <= lvl[x]
      <3>1. up[a] = x \/ up[a] \in Over(X, up, x)
        BY <2>7 DEF Path
      <3>2. up[a] \in Over(X, up, x) => lvl[up[a]] < lvl[x]
        BY OverIsHigher
      <3> QED
        BY <2>1, <2>6, <3>1, <3>2
    <2>9. up[a] = x
      <3>1. lvl[up[a]] = lvl[x]
        BY <2>1, <2>4, <2>5, <2>6, <2>8
      <3> QED
        BY <2>1, <2>7, <3>1, PathIsAChain
    <2> QED
      BY <2>3, <2>4, <2>9 DEF Path
  <1> QED
    BY <1>1, <1>2, <1>3

(* The rows below x are those it is over. *)
LEMMA DescendantsAre ==
    ASSUME Panel!PanelAssumption, NEW t, Tidy(t), NEW lvl, Levels(t, lvl), NEW x \in Panel!Ids(t)
    PROVE  Panel!Descendants(t, x) = {y \in Panel!Ids(t) : x \in Over(Panel!Ids(t), Ups(t), y)}
  <1> DEFINE X == Panel!Ids(t)
             IsBelow(f) == f = [y \in X |-> Panel!Group(t, y)
                                              \cup UNION {f[c] : c \in Panel!Group(t, y)}]
             below == CHOOSE f : IsBelow(f)
             desc == [z \in X |-> {y \in X : z \in Over(X, Ups(t), y)}]
  <1>0. /\ Rooted(X, Ups(t), lvl)
        /\ \A y \in X : Ups(t)[y] = Panel!ShownParent(t, y)
        /\ \A z : Panel!Group(t, z) = {y \in X : Ups(t)[y] = z}
    BY UpsTyped DEF Levels, Panel!Group
  <1>1. IsBelow(desc)
    <2>1. ASSUME NEW z \in X
          PROVE  desc[z] = Panel!Group(t, z) \cup UNION {desc[c] : c \in Panel!Group(t, z)}
      <3>1. \A y \in X : y \in desc[z] <=> Ups(t)[y] = z \/ \E c \in X : Ups(t)[c] = z
              /\ y \in desc[c]
        <4>1. \A y \in X : z \in Over(X, Ups(t), y) <=>
                   Ups(t)[y] = z \/ \E c \in X : Ups(t)[c] = z /\ c \in Over(X, Ups(t), y)
          <5> HIDE DEF X
          <5> QED
            BY <1>0, OverFromBelow
        <4> QED
          BY <4>1
      <3>2. \A c \in X : desc[c] \subseteq X
        OBVIOUS
      <3> HIDE DEF desc
      <3>3. \A c \in Panel!Group(t, z) : c \in X
        BY <1>0
      <3> QED
        BY <1>0, <3>1, <3>2, <3>3
    <2>2. desc = [z \in X |-> desc[z]]
      OBVIOUS
    <2> HIDE DEF desc
    <2> QED
      BY <2>1, <2>2, Zenon
  <1>2. IsBelow(below)
    <2> HIDE DEF IsBelow
    <2> QED
      BY <1>1, Zenon
  <1>3. Panel!Descendants(t, x) = below[x]
    BY Zenon DEF Panel!Descendants
  <1>4. PICK g : g = below
    OBVIOUS
  <1> HIDE DEF below
  <1>5. \A y \in X : g[y] = Panel!Group(t, y) \cup UNION {g[c] : c \in Panel!Group(t, y)}
    BY <1>2, <1>4
  <1>6. ASSUME NEW z \in X, \A c \in X : Ups(t)[c] = z => g[c] = desc[c]
        PROVE  g[z] = desc[z]
    <2> HIDE DEF desc
    <2>1. desc[z] = Panel!Group(t, z) \cup UNION {desc[c] : c \in Panel!Group(t, z)}
      BY <1>1
    <2>2. \A c \in Panel!Group(t, z) : g[c] = desc[c]
      BY <1>0, <1>6
    <2>3. {g[c] : c \in Panel!Group(t, z)} = {desc[c] : c \in Panel!Group(t, z)}
      BY <2>2
    <2> QED
      BY <1>5, <2>1, <2>3
  <1>7. \A y \in X : g[y] = desc[y]
    <2> HIDE DEF X, desc
    <2> QED
      BY <1>0, <1>6, SameFromBelow
  <1> QED
    BY <1>3, <1>4, <1>7

LEMMA EarlierIsAsymmetric ==
    ASSUME NEW X, NEW up, NEW lvl, Rooted(X, up, lvl), NEW B, OrdersBelow(X, up, B),
           NEW x \in X, NEW y \in X, Earlier(X, up, B, x, y)
    PROVE  ~ Earlier(X, up, B, y, x)
  BY EarlierIsTransitive, EarlierIsStrict

(* Which of two rows is earlier, from the rows above them. *)
LEMMA EarlierAmongSiblings ==
    ASSUME NEW X, NEW up, NEW lvl, Rooted(X, up, lvl), NEW B, OrdersBelow(X, up, B),
           NEW x \in X, NEW y \in X, up[x] = up[y]
    PROVE  Earlier(X, up, B, x, y) <=> <<x, y>> \in B
  <1>1. ASSUME NEW v \in X, NEW w \in X, up[v] = up[w], <<v, w>> \in B
        PROVE  Earlier(X, up, B, v, w)
    BY <1>1 DEF Earlier, Path
  <1>2. ASSUME Earlier(X, up, B, x, y)
        PROVE  <<x, y>> \in B
    <2>1. x # y
      BY <1>2, EarlierIsStrict
    <2>2. <<x, y>> \in B \/ <<y, x>> \in B
      BY <2>1 DEF OrdersBelow, Orders, Siblings
    <2>3. ~ Earlier(X, up, B, y, x)
      BY <1>2, EarlierIsAsymmetric
    <2> QED
      BY <1>1, <2>2, <2>3
  <1> QED
    BY <1>1, <1>2

LEMMA EarlierThanADeeper ==
    ASSUME NEW X, NEW up, NEW lvl, Rooted(X, up, lvl), NEW B, OrdersBelow(X, up, B),
           NEW x \in X, NEW y \in X, lvl[x] < lvl[y]
    PROVE  /\ up[y] \in X
           /\ Earlier(X, up, B, x, y) <=> x = up[y] \/ Earlier(X, up, B, x, up[y])
  <1>1. lvl[x] \in Nat /\ lvl[y] \in Nat /\ up[y] # Root
    BY DEF Rooted
  <1>2. PICK u \in X : u = up[y] /\ lvl[y] = lvl[u] + 1 /\ lvl[u] \in Nat
    BY <1>1 DEF Rooted
  <1>3. u \in Over(X, up, y) /\ Earlier(X, up, B, u, y)
    BY <1>1, <1>2, OverStep DEF Earlier
  <1>4. ASSUME x = u \/ Earlier(X, up, B, x, u)
        PROVE  Earlier(X, up, B, x, y)
    BY <1>3, <1>4, EarlierIsTransitive
  <1>5. ASSUME Earlier(X, up, B, x, y), x # u, ~ Earlier(X, up, B, x, u)
        PROVE  FALSE
    <2>1. Earlier(X, up, B, u, x)
      BY <1>5, EarlierIsTotal
    <2>2. CASE u \in Over(X, up, x)
      <3>1. lvl[u] < lvl[x]
        BY <2>2, OverIsHigher
      <3> QED
        BY <1>1, <1>2, <3>1
    <2>3. ASSUME NEW a \in Path(X, up, u), NEW b \in Path(X, up, x), up[a] = up[b], <<a, b>> \in B
          PROVE  FALSE
      <3>1. a \in Path(X, up, y)
        BY <1>3, PathInside DEF Path
      <3>2. Earlier(X, up, B, y, x)
        BY <2>3, <3>1 DEF Earlier
      <3> QED
        BY <1>5, <3>2, EarlierIsAsymmetric
    <2> QED
      BY <2>1, <2>2, <2>3 DEF Earlier
  <1> QED
    BY <1>2, <1>4, <1>5

LEMMA EarlierThanAHigher ==
    ASSUME NEW X, NEW up, NEW lvl, Rooted(X, up, lvl), NEW B, OrdersBelow(X, up, B),
           NEW x \in X, NEW y \in X, ~ (lvl[x] < lvl[y]), up[x] # up[y]
    PROVE  /\ up[x] \in X
           /\ Earlier(X, up, B, x, y) <=> Earlier(X, up, B, up[x], y)
  <1>1. lvl[x] \in Nat /\ lvl[y] \in Nat /\ up[x] # Root
    BY DEF Rooted
  <1>2. PICK v \in X : v = up[x] /\ lvl[x] = lvl[v] + 1 /\ lvl[v] \in Nat
    BY <1>1 DEF Rooted
  <1>3. v \in Over(X, up, x) /\ Earlier(X, up, B, v, x)
    BY <1>1, <1>2, OverStep DEF Earlier
  <1>4. ASSUME Earlier(X, up, B, x, y)
        PROVE  Earlier(X, up, B, v, y)
    BY <1>3, <1>4, EarlierIsTransitive
  <1>5. v \notin Over(X, up, y)
    <2> SUFFICES ASSUME v \in Over(X, up, y) PROVE FALSE
      OBVIOUS
    <2>1. lvl[v] < lvl[y] /\ v # Root
      BY OverIsHigher DEF Rooted
    <2>2. lvl[y] = lvl[x]
      BY <1>1, <1>2, <2>1
    <2>3. up[y] # Root /\ up[y] \in X /\ lvl[y] = lvl[up[y]] + 1 /\ lvl[up[y]] \in Nat
      BY <1>1, <1>2, <2>2 DEF Rooted
    <2>4. up[y] \in Path(X, up, y) /\ v \in Path(X, up, y) /\ lvl[up[y]] = lvl[v]
      BY <1>2, <2>2, <2>3, OverStep DEF Path
    <2>5. up[y] = v
      BY <2>4, PathIsAChain
    <2> QED
      BY <1>2, <2>5
  <1>6. ASSUME Earlier(X, up, B, v, y)
        PROVE  Earlier(X, up, B, x, y)
    <2>1. Path(X, up, v) \subseteq Path(X, up, x)
      BY <1>3, PathInside DEF Path
    <2> QED
      BY <1>5, <1>6, <2>1 DEF Earlier
  <1> QED
    BY <1>2, <1>4, <1>6

LEMMA FinitePairs ==
    ASSUME NEW S, IsFiniteSet(S)
    PROVE  IsFiniteSet(S \X S)
  BY FS_Product

(* Above is Earlier. *)
LEMMA AboveIsEarlier ==
    ASSUME Panel!PanelAssumption, NEW t, Tidy(t), NEW lvl, Levels(t, lvl),
           NEW p \in Panel!Ids(t), NEW q \in Panel!Ids(t)
    PROVE  Panel!Above(t, p, q) <=> Earlier(Panel!Ids(t), Ups(t), RowOrder(t), p, q)
  <1> DEFINE X == Panel!Ids(t)
             Up(x) == Panel!ShownParent(t, x)
             Rule(f, e) == IF Up(e[1]) = Up(e[2]) THEN Panel!Before(t, e[1], e[2])
                           ELSE IF Panel!Depth(t, e[1]) < Panel!Depth(t, e[2])
                                THEN e[1] = Up(e[2]) \/ f[<<e[1], Up(e[2])>>]
                                ELSE f[<<Up(e[1]), e[2]>>]
             IsAbove(f) == f = [e \in X \X X |-> Rule(f, e)]
             above == CHOOSE f : IsAbove(f)
             E(x, y) == Earlier(X, Ups(t), RowOrder(t), x, y)
             early == [e \in X \X X |-> E(e[1], e[2])]
  <1>0. /\ Rooted(X, Ups(t), lvl) /\ OrdersBelow(X, Ups(t), RowOrder(t))
        /\ \A y \in X : Ups(t)[y] = Up(y)
        /\ \A x, y \in X : <<x, y>> \in RowOrder(t) <=> Panel!Before(t, x, y)
        /\ \A x \in X : Panel!Depth(t, x) = lvl[x] /\ lvl[x] \in Nat
    <2>1. \A x, y \in X : <<x, y>> \in RowOrder(t) <=> Panel!Before(t, x, y)
      BY DEF RowOrder
    <2>2. \A x \in X : Panel!Depth(t, x) = lvl[x] /\ lvl[x] \in Nat
      BY DepthIsLevel
    <2> QED
      BY <2>1, <2>2, UpsTyped, SiblingsInOrder DEF Levels
  <1>1. ASSUME NEW x \in X, NEW y \in X
        PROVE  /\ Up(x) = Up(y) => (E(x, y) <=> Panel!Before(t, x, y))
               /\ Up(x) # Up(y) /\ lvl[x] < lvl[y]
                    => Up(y) \in X /\ (E(x, y) <=> x = Up(y) \/ E(x, Up(y)))
               /\ Up(x) # Up(y) /\ ~ (lvl[x] < lvl[y])
                    => Up(x) \in X /\ (E(x, y) <=> E(Up(x), y))
    <2> HIDE DEF X
    <2>1. CASE Up(x) = Up(y)
      BY <1>0, <2>1, EarlierAmongSiblings
    <2>2. CASE Up(x) # Up(y) /\ lvl[x] < lvl[y]
      BY <1>0, <2>2, EarlierThanADeeper
    <2>3. CASE Up(x) # Up(y) /\ ~ (lvl[x] < lvl[y])
      BY <1>0, <2>3, EarlierThanAHigher
    <2> QED
      BY <2>1, <2>2, <2>3
  <1>2. IsAbove(early)
    <2>1. \A x \in X, y \in X : early[<<x, y>>] = E(x, y)
      BY Zenon
    <2>2. ASSUME NEW x \in X, NEW y \in X
          PROVE  E(x, y) <=> Rule(early, <<x, y>>)
      <3> HIDE DEF E, early
      <3> QED
        BY <1>0, <1>1, <2>1
    <2>3. \A e \in X \X X : E(e[1], e[2]) = Rule(early, e)
      <3> SUFFICES ASSUME NEW x \in X, NEW y \in X
                   PROVE  E(x, y) = Rule(early, <<x, y>>)
        OBVIOUS
      <3>1. E(x, y) \in BOOLEAN
        BY DEF Earlier
      <3>2. Rule(early, <<x, y>>) \in BOOLEAN
        <4> HIDE DEF E, early
        <4>1. \A z \in X, w \in X : early[<<z, w>>] = TRUE \/ early[<<z, w>>] = FALSE
          BY <2>1 DEF E, Earlier
        <4>2. Panel!Before(t, x, y) = TRUE \/ Panel!Before(t, x, y) = FALSE
          BY DEF Panel!Before
        <4> QED
          BY <1>0, <1>1, <4>1, <4>2
      <3> HIDE DEF E, Rule
      <3> QED
        BY <2>2, <3>1, <3>2
    <2> HIDE DEF E, Rule
    <2> QED
      BY <2>3, Zenon
  <1>3. IsAbove(above)
    <2> HIDE DEF IsAbove
    <2> QED
      BY <1>2, Zenon
  <1>4. Panel!Above(t, p, q) = above[<<p, q>>]
    BY Zenon DEF Panel!Above
  <1>5. PICK g : g = above
    OBVIOUS
  <1> HIDE DEF above
  <1>6. \A x \in X, y \in X : g[<<x, y>>] <=> Rule(g, <<x, y>>)
    <2>1. g = [e \in X \X X |-> Rule(g, e)]
      BY <1>3, <1>5, Zenon
    <2>2. \A e \in X \X X : g[e] = Rule(g, e)
      <3> HIDE DEF Rule
      <3> QED
        BY <2>1, Zenon
    <2> HIDE DEF Rule
    <2> QED
      BY <2>2
  <1> DEFINE Bad == {e \in X \X X : ~ (g[e] <=> E(e[1], e[2]))}
             sum == [e \in X \X X |-> lvl[e[1]] + lvl[e[2]]]
  <1>7. Bad = {}
    <2> SUFFICES ASSUME Bad # {} PROVE FALSE
      OBVIOUS
    <2>1. Bad \subseteq X \X X /\ IsFiniteSet(X \X X)
      BY <1>0, FinitePairs DEF Rooted
    <2>2. \A x \in X, y \in X : <<x, y>> \in X \X X /\ sum[<<x, y>>] = lvl[x] + lvl[y]
      OBVIOUS
    <2>3. \A e \in Bad : sum[e] \in Int
      BY <1>0
    <2>4. PICK e \in Bad : \A d \in Bad : sum[e] <= sum[d]
      <3> HIDE DEF Bad, sum, X
      <3>1. IsFiniteSet(Bad)
        BY <2>1, FS_Subset
      <3> QED
        BY <3>1, <2>3, LeastOf
    <2>5. PICK x \in X, y \in X : e = <<x, y>>
      OBVIOUS
    <2>6. ~ (g[<<x, y>>] <=> E(x, y))
      BY <2>5
    <2>7. ASSUME NEW z \in X, NEW w \in X, lvl[z] + lvl[w] < lvl[x] + lvl[y]
          PROVE  g[<<z, w>>] <=> E(z, w)
      <3> SUFFICES ASSUME ~ (g[<<z, w>>] <=> E(z, w)) PROVE FALSE
        OBVIOUS
      <3>1. <<z, w>> \in Bad
        OBVIOUS
      <3>2. sum[e] <= sum[<<z, w>>]
        BY <2>4, <3>1
      <3>3. lvl[x] \in Nat /\ lvl[y] \in Nat /\ lvl[z] \in Nat /\ lvl[w] \in Nat
        BY <1>0
      <3> HIDE DEF sum, Bad
      <3> QED
        BY <2>2, <2>5, <2>7, <3>2, <3>3
    <2>8. /\ Up(x) \in X => lvl[Up(x)] < lvl[x] /\ lvl[Up(x)] \in Nat
          /\ Up(y) \in X => lvl[Up(y)] < lvl[y] /\ lvl[Up(y)] \in Nat
          /\ lvl[x] \in Nat /\ lvl[y] \in Nat
      BY <1>0 DEF Rooted
    <2> HIDE DEF E, Bad, sum, X
    <2>9. CASE Up(x) = Up(y)
      BY <1>0, <1>1, <1>6, <2>6, <2>9
    <2>10. CASE Up(x) # Up(y) /\ lvl[x] < lvl[y]
      <3>1. Up(y) \in X /\ (E(x, y) <=> x = Up(y) \/ E(x, Up(y)))
        BY <1>1, <2>10
      <3>2. g[<<x, Up(y)>>] <=> E(x, Up(y))
        BY <3>1, <2>7, <2>8
      <3>3. g[<<x, y>>] <=> x = Up(y) \/ g[<<x, Up(y)>>]
        <4>1. Panel!Depth(t, x) < Panel!Depth(t, y)
          BY <1>0, <2>10
        <4>2. g[<<x, y>>] <=> Rule(g, <<x, y>>)
          BY <1>6
        <4> QED
          BY <2>10, <4>1, <4>2
      <3> QED
        BY <2>6, <3>1, <3>2, <3>3
    <2>11. CASE Up(x) # Up(y) /\ ~ (lvl[x] < lvl[y])
      <3>1. Up(x) \in X /\ (E(x, y) <=> E(Up(x), y))
        BY <1>1, <2>11
      <3>2. g[<<Up(x), y>>] <=> E(Up(x), y)
        BY <3>1, <2>7, <2>8
      <3>3. g[<<x, y>>] <=> g[<<Up(x), y>>]
        <4>1. ~ (Panel!Depth(t, x) < Panel!Depth(t, y))
          BY <1>0, <2>11
        <4>2. g[<<x, y>>] <=> Rule(g, <<x, y>>)
          BY <1>6
        <4> QED
          BY <2>11, <4>1, <4>2
      <3> QED
        BY <2>6, <3>1, <3>2, <3>3
    <2> QED
      BY <2>9, <2>10, <2>11
  <1>8. g[<<p, q>>] <=> E(p, q)
    <2>1. <<p, q>> \notin Bad
      BY <1>7
    <2> QED
      BY <2>1
  <1> QED
    BY <1>4, <1>5, <1>8

-----------------------------------------------------------------------------
(* The page tree: the rows from top to bottom                              *)

(* A row shows when none above it is collapsed, its parent then too. *)
LEMMA VisibleAre ==
    ASSUME Panel!PanelAssumption, NEW t, Tidy(t), NEW lvl, Levels(t, lvl), NEW closed
    PROVE  /\ Panel!Visible(t, closed)
                = {x \in Panel!Ids(t) : Over(Panel!Ids(t), Ups(t), x) \cap closed = {}}
           /\ Panel!Visible(t, closed) \subseteq Pages
           /\ IsFiniteSet(Panel!Visible(t, closed))
  <1>1. Panel!Visible(t, closed)
          = {x \in Panel!Ids(t) : Over(Panel!Ids(t), Ups(t), x) \cap closed = {}}
    BY ShowsUnlessHidden DEF Panel!Visible
  <1>2. Panel!Visible(t, closed) \in SUBSET Pages
    BY <1>1, UpsTyped
  <1> QED
    BY <1>1, <1>2, PagesAreNumbers

LEMMA ParentIsVisible ==
    ASSUME Panel!PanelAssumption, NEW t, Tidy(t), NEW lvl, Levels(t, lvl), NEW closed,
           NEW x \in Panel!Visible(t, closed), Panel!ShownParent(t, x) # Root
    PROVE  Panel!ShownParent(t, x) \in Panel!Visible(t, closed)
  <1>1. /\ Rooted(Panel!Ids(t), Ups(t), lvl) /\ x \in Panel!Ids(t)
        /\ Ups(t)[x] = Panel!ShownParent(t, x)
    BY VisibleAre, UpsTyped DEF Levels
  <1> DEFINE X == Panel!Ids(t)
             u == Panel!ShownParent(t, x)
  <1>2. u \in X /\ Over(X, Ups(t), x) = {u} \cup Over(X, Ups(t), u)
    BY <1>1, OverStep
  <1> QED
    BY <1>2, VisibleAre

LEMMA ChildIsVisible ==
    ASSUME Panel!PanelAssumption, NEW t, Tidy(t), NEW lvl, Levels(t, lvl), NEW closed,
           NEW x \in Panel!Visible(t, closed), x \notin closed, NEW c \in Panel!Group(t, x)
    PROVE  c \in Panel!Visible(t, closed) /\ Panel!Above(t, x, c)
  <1>1. /\ Rooted(Panel!Ids(t), Ups(t), lvl) /\ x \in Panel!Ids(t) /\ c \in Panel!Ids(t)
        /\ Ups(t)[c] = x /\ x # Root
    BY VisibleAre, UpsTyped DEF Levels, Panel!Group
  <1> DEFINE X == Panel!Ids(t)
  <1>2. Over(X, Ups(t), c) = {x} \cup Over(X, Ups(t), x)
    BY <1>1, OverStep
  <1>3. Earlier(X, Ups(t), RowOrder(t), x, c)
    BY <1>2 DEF Earlier
  <1> QED
    BY <1>1, <1>2, <1>3, VisibleAre, AboveIsEarlier

LineOrder(t, closed) ==
  {e \in Panel!Visible(t, closed) \X Panel!Visible(t, closed) : Panel!Above(t, e[1], e[2])}
Line(t, closed, x) == RankIn(LineOrder(t, closed), Panel!Visible(t, closed), x) + 1

LEMMA LinesAreOrdered ==
    ASSUME Panel!PanelAssumption, NEW t, Tidy(t), NEW lvl, Levels(t, lvl), NEW closed
    PROVE  Orders(LineOrder(t, closed), Panel!Visible(t, closed))
  <1> DEFINE X == Panel!Ids(t)
             V == Panel!Visible(t, closed)
             L == LineOrder(t, closed)
             E(x, y) == Earlier(X, Ups(t), RowOrder(t), x, y)
  <1>1. Rooted(X, Ups(t), lvl) /\ OrdersBelow(X, Ups(t), RowOrder(t)) /\ V \subseteq X
    BY VisibleAre, SiblingsInOrder DEF Levels
  <1>2. \A x, y \in V : <<x, y>> \in L <=> E(x, y)
    <2>1. \A x, y \in V : <<x, y>> \in L <=> Panel!Above(t, x, y)
      BY DEF LineOrder
    <2> QED
      BY <1>1, <2>1, AboveIsEarlier
  <1> HIDE DEF X, V, L
  <1>3. \A x \in X : ~ E(x, x)
    BY <1>1, EarlierIsStrict
  <1>4. \A x, y \in X : x # y => E(x, y) \/ E(y, x)
    BY <1>1, EarlierIsTotal
  <1>5. \A x, y, z \in X : E(x, y) /\ E(y, z) => E(x, z)
    BY <1>1, EarlierIsTransitive
  <1> HIDE DEF E
  <1>6. Orders(L, V)
    BY <1>1, <1>2, <1>3, <1>4, <1>5 DEF Orders
  <1> QED
    BY <1>6 DEF L, V

(* Each row shown has its line, and each line its row. *)
LEMMA RowsAreLines ==
    ASSUME Panel!PanelAssumption, NEW t, Tidy(t), NEW lvl, Levels(t, lvl), NEW closed,
           NEW n, n = Cardinality(Panel!Visible(t, closed))
    PROVE  /\ n \in Nat
           /\ DOMAIN Panel!VisibleRows(t, closed) = 1 .. n
           /\ Len(Panel!VisibleRows(t, closed)) = n
           /\ \A x \in Panel!Visible(t, closed) :
                /\ Line(t, closed, x) \in 1 .. n
                /\ Panel!VisibleRows(t, closed)[Line(t, closed, x)] = x
           /\ \A i \in 1 .. n :
                /\ Panel!VisibleRows(t, closed)[i] \in Panel!Visible(t, closed)
                /\ Line(t, closed, Panel!VisibleRows(t, closed)[i]) = i
           /\ \A x, y \in Panel!Visible(t, closed) :
                Panel!Above(t, x, y) <=> Line(t, closed, x) < Line(t, closed, y)
  <1> DEFINE V == Panel!Visible(t, closed)
             L == LineOrder(t, closed)
             rows == Panel!VisibleRows(t, closed)
             line == [id \in V |-> Line(t, closed, id)]
  <1>1. IsFiniteSet(V) /\ n = Cardinality(V) /\ n \in Nat /\ Orders(L, V)
    BY VisibleAre, LinesAreOrdered, FS_CardinalityType
  <1>2. \A x \in V : {q \in V : Panel!Above(t, q, x)} = {q \in V : <<q, x>> \in L}
    BY DEF LineOrder
  <1>3. \A x \in V : Panel!Cardinality({q \in V : Panel!Above(t, q, x)}) + 1 = Line(t, closed, x)
    BY <1>2, PanelNumbers DEF Line, RankIn
  <1>4. rows = [i \in 1 .. n |-> CHOOSE id \in V : line[id] = i]
    <2>1. [id \in V |-> Panel!Cardinality({q \in V : Panel!Above(t, q, id)}) + 1] = line
      BY <1>3
    <2>2. Panel!Cardinality(V) = n
      BY PanelNumbers
    <2> QED
      BY <2>1, <2>2 DEF Panel!VisibleRows
  <1>5. \A x \in V : line[x] = RankIn(L, V, x) + 1 /\ line[x] = Line(t, closed, x)
    BY DEF Line
  <1> HIDE DEF V, L, line
  <1>6. \A x \in V : RankIn(L, V, x) \in Nat /\ line[x] \in 1 .. n
    <2>1. \A x \in V : RankIn(L, V, x) \in 0 .. n - 1
      BY <1>1, RankBelowSize
    <2> QED
      BY <1>1, <1>5, <2>1
  <1>7. \A x, y \in V : line[x] = line[y] => x = y
    <2>1. \A x, y \in V : RankIn(L, V, x) = RankIn(L, V, y) => x = y
      BY <1>1, RankIsOwn
    <2> QED
      BY <1>5, <1>6, <2>1
  <1>8. ASSUME NEW i \in 1 .. n
        PROVE  rows[i] \in V /\ line[rows[i]] = i
    <2>1. i - 1 \in 0 .. Cardinality(V) - 1
      BY <1>1
    <2>2. \E x \in V : RankIn(L, V, x) = i - 1
      BY <1>1, <2>1, RankIsTaken
    <2>3. \E x \in V : line[x] = i
      BY <1>5, <2>2
    <2>4. rows[i] = CHOOSE id \in V : line[id] = i
      BY <1>4
    <2> QED
      BY <2>3, <2>4
  <1>9. \A x \in V : rows[line[x]] = x
    BY <1>6, <1>7, <1>8
  <1>10. rows \in [1 .. n -> V]
    BY <1>4, <1>8
  <1>11. DOMAIN rows = 1 .. n /\ Len(rows) = n
    <2> HIDE DEF rows
    <2>1. rows \in Seq(V)
      BY <1>1, <1>10
    <2> QED
      BY <1>1, <1>10, <2>1
  <1>12. \A x, y \in V : Panel!Above(t, x, y) <=> line[x] < line[y]
    <2> SUFFICES ASSUME NEW x \in V, NEW y \in V
                 PROVE  Panel!Above(t, x, y) <=> line[x] < line[y]
      OBVIOUS
    <2>1. <<x, y>> \in L <=> RankIn(L, V, x) < RankIn(L, V, y)
      BY <1>1, RankOrders
    <2>2. <<x, y>> \in L <=> Panel!Above(t, x, y)
      BY DEF L, LineOrder, V
    <2>3. line[x] < line[y] <=> RankIn(L, V, x) < RankIn(L, V, y)
      BY <1>5, <1>6
    <2> QED
      BY <2>1, <2>2, <2>3
  <1>13. /\ n \in Nat /\ DOMAIN rows = 1 .. n /\ Len(rows) = n
         /\ \A x \in V : Line(t, closed, x) \in 1 .. n /\ rows[Line(t, closed, x)] = x
         /\ \A i \in 1 .. n : rows[i] \in V /\ Line(t, closed, rows[i]) = i
         /\ \A x, y \in V : Panel!Above(t, x, y) <=> Line(t, closed, x) < Line(t, closed, y)
    <2> HIDE DEF rows
    <2> QED
      BY <1>1, <1>5, <1>6, <1>8, <1>9, <1>11, <1>12
  <1> QED
    BY <1>13 DEF V

-----------------------------------------------------------------------------
(* The page tree: trees and moves                                          *)

(* The levels of the pages; drafts have nothing below them. *)
PageLevels(t, l) ==
  /\ l \in [DOMAIN t.pages -> Nat]
  /\ \A p \in DOMAIN t.pages :
       l[p] = IF t.pages[p].parent = Root THEN 0 ELSE l[t.pages[p].parent] + 1

WellFormed(t) == Tidy(t) /\ \E l : PageLevels(t, l)

LEMMA LevelsOfAll ==
    ASSUME Panel!PanelAssumption, NEW t, WellFormed(t)
    PROVE  \E lvl : Levels(t, lvl)
  <1>1. PICK l : PageLevels(t, l)
    BY DEF WellFormed
  <1>0. Tidy(t)
    BY DEF WellFormed
  <1> DEFINE X == Panel!Ids(t)
             Up(x) == Panel!ShownParent(t, x)
             lvl == [x \in X |-> IF Up(x) = Root THEN 0 ELSE l[Up(x)] + 1]
  <1>2. /\ X \in SUBSET Pages /\ IsFiniteSet(X) /\ Root \notin X
        /\ Ups(t) \in [X -> X \cup {Root}]
        /\ \A x \in X : Ups(t)[x] = Up(x) /\ Up(x) \in DOMAIN t.pages \cup {Root}
        /\ \A p \in DOMAIN t.pages : p \in X /\ Up(p) = t.pages[p].parent
    BY <1>0, UpsTyped
  <1>3. /\ l \in [DOMAIN t.pages -> Nat]
        /\ \A p \in DOMAIN t.pages : l[p] = IF Up(p) = Root THEN 0 ELSE l[Up(p)] + 1
    BY <1>1, <1>2 DEF PageLevels
  <1>4. \A x \in X : lvl[x] = IF Up(x) = Root THEN 0 ELSE l[Up(x)] + 1
    OBVIOUS
  <1>5. \A p \in DOMAIN t.pages : lvl[p] = l[p]
    <2> HIDE DEF lvl, X, Up
    <2> QED
      BY <1>2, <1>3, <1>4
  <1>6. lvl \in [X -> Nat]
    <2> HIDE DEF X, Up
    <2> QED
      BY <1>2, <1>3
  <1>7. \A x \in X : lvl[x] = IF Ups(t)[x] = Root THEN 0 ELSE lvl[Ups(t)[x]] + 1
    <2> HIDE DEF lvl, X, Up
    <2> QED
      BY <1>2, <1>4, <1>5
  <1>8. Levels(t, lvl)
    <2> HIDE DEF lvl
    <2> QED
      BY <1>2, <1>6, <1>7 DEF Levels, Rooted
  <1> QED
    BY <1>8

LEMMA LevelsOfPages ==
    ASSUME Panel!PanelAssumption, NEW t, Tidy(t), NEW lvl, Levels(t, lvl)
    PROVE  PageLevels(t, [p \in DOMAIN t.pages |-> lvl[p]])
  <1>1. /\ Ups(t) \in [Panel!Ids(t) -> DOMAIN t.pages \cup {Root}]
        /\ lvl \in [Panel!Ids(t) -> Nat]
        /\ \A p \in DOMAIN t.pages :
             /\ p \in Panel!Ids(t) /\ Ups(t)[p] = t.pages[p].parent
             /\ t.pages[p].parent \in DOMAIN t.pages \cup {Root}
             /\ lvl[p] = IF Ups(t)[p] = Root THEN 0 ELSE lvl[Ups(t)[p]] + 1
    BY UpsTyped DEF Levels, Rooted, Tidy
  <1> QED
    BY <1>1 DEF PageLevels

(* A move of a page to an index below a page that is not below it. *)
Legal(t, m) ==
  /\ m.page \in DOMAIN t.pages
  /\ m.parent \in (DOMAIN t.pages \cup {Root}) \ {m.page}
  /\ m.parent \notin Panel!Descendants(t, m.page)
  /\ m.index \in Nat

(* The pages stored below parent, without the page that moves. *)
LEMMA StoredAreSiblings ==
    ASSUME Panel!PanelAssumption, NEW t, Tidy(t), NEW parent, NEW source
    PROVE  /\ Panel!Stored(t, parent, source) \in SUBSET (DOMAIN t.pages \ {source})
           /\ IsFiniteSet(Panel!Stored(t, parent, source))
           /\ Cardinality(Panel!Stored(t, parent, source)) \in Nat
           /\ Orders(RowOrder(t), Panel!Stored(t, parent, source))
           /\ \A p \in Panel!Stored(t, parent, source) :
                Panel!Cardinality({q \in Panel!Stored(t, parent, source) : Panel!Before(t, q, p)})
                  = RankIn(RowOrder(t), Panel!Stored(t, parent, source), p)
  <1> DEFINE S == Panel!Stored(t, parent, source)
  <1>1. S \in SUBSET (DOMAIN t.pages \ {source}) /\ \A p \in S : t.pages[p].parent = parent
    BY DEF Panel!Stored
  <1>2. S \in SUBSET Pages /\ S \in SUBSET Panel!Ids(t)
    BY <1>1 DEF Tidy, Panel!Ids
  <1>3. Orders(RowOrder(t), S)
    <2>1. CASE S = {}
      BY <2>1 DEF Orders
    <2>2. ASSUME NEW z \in S
          PROVE  Orders(RowOrder(t), S)
      <3>1. S \in SUBSET Siblings(Panel!Ids(t), Ups(t), z)
        BY <1>1, <1>2, UpsTyped DEF Siblings
      <3>2. Orders(RowOrder(t), Siblings(Panel!Ids(t), Ups(t), z))
        BY <1>2, SiblingsInOrder DEF OrdersBelow
      <3> QED
        BY <3>1, <3>2, OrdersPart
    <2> QED
      BY <2>1, <2>2
  <1>4. ASSUME NEW p \in S
        PROVE  Panel!Cardinality({q \in S : Panel!Before(t, q, p)}) = RankIn(RowOrder(t), S, p)
    <2>1. {q \in S : Panel!Before(t, q, p)} = {q \in S : <<q, p>> \in RowOrder(t)}
      BY <1>2 DEF RowOrder
    <2> QED
      BY <2>1, PanelNumbers DEF RankIn
  <1> QED
    BY <1>1, <1>2, <1>3, <1>4, PagesAreNumbers

(* The index the page takes: the one it is moved to, or the last. *)
Lands(t, m) ==
  IF m.index <= Cardinality(Panel!Stored(t, m.parent, m.page)) THEN m.index
  ELSE Cardinality(Panel!Stored(t, m.parent, m.page))

LEMMA AfterIs ==
    ASSUME Panel!PanelAssumption, NEW t, Tidy(t), NEW m, Legal(t, m),
           NEW others, others = Panel!Stored(t, m.parent, m.page),
           NEW past, past = Panel!Stored(t, t.pages[m.page].parent, m.page)
    PROVE  /\ Panel!After(t, m) = [pages |-> Panel!After(t, m).pages, drafts |-> t.drafts]
           /\ Panel!After(t, m).pages
                \in [DOMAIN t.pages -> [parent : Pages \cup {Root}, order : Nat]]
           /\ Lands(t, m) \in 0 .. Cardinality(others)
           /\ \A p \in DOMAIN t.pages :
                /\ Panel!After(t, m).pages[p].parent
                     = IF p = m.page THEN m.parent ELSE t.pages[p].parent
                /\ Panel!After(t, m).pages[p].order
                     = IF p = m.page THEN Lands(t, m) + 1
                       ELSE IF p \in others
                       THEN RankIn(RowOrder(t), others, p)
                              + (IF RankIn(RowOrder(t), others, p) < Lands(t, m) THEN 1 ELSE 2)
                       ELSE IF p \in past THEN RankIn(RowOrder(t), past, p) + 1
                       ELSE t.pages[p].order
  <1> DEFINE u == Panel!After(t, m)
             order == Panel!Inserted(t, m)
             land == Lands(t, m)
             R(p) == RankIn(RowOrder(t), others, p)
  <1>0. /\ m.page \in DOMAIN t.pages /\ m.index \in Nat
        /\ m.parent \in Pages \cup {Root}
        /\ \A p \in DOMAIN t.pages : t.pages[p] \in [parent : Pages \cup {Root}, order : Nat]
    BY DEF Legal, Tidy
  <1>1. /\ others \in SUBSET (DOMAIN t.pages \ {m.page}) /\ IsFiniteSet(others)
        /\ \A p \in others : t.pages[p].parent = m.parent
        /\ Cardinality(others) \in Nat
        /\ \A p \in others : Panel!Cardinality({q \in others : Panel!Before(t, q, p)}) = R(p)
    <2>1. /\ others \in SUBSET (DOMAIN t.pages \ {m.page}) /\ IsFiniteSet(others)
          /\ Cardinality(others) \in Nat
      BY StoredAreSiblings
    <2>2. \A p \in others : t.pages[p].parent = m.parent
      BY DEF Panel!Stored
    <2>3. \A p \in others : Panel!Cardinality({q \in others : Panel!Before(t, q, p)}) = R(p)
      BY StoredAreSiblings
    <2> QED
      BY <2>1, <2>2, <2>3
  <1>2. /\ past \in SUBSET (DOMAIN t.pages \ {m.page}) /\ IsFiniteSet(past)
        /\ \A p \in past : Panel!Cardinality({q \in past : Panel!Before(t, q, p)})
                             = RankIn(RowOrder(t), past, p)
    BY StoredAreSiblings
  <1>3. land \in 0 .. Cardinality(others)
    BY <1>0, <1>1 DEF Lands
  <1>4. Panel!Min({m.index, Panel!Cardinality(others)}) = land
    <2>1. Panel!Cardinality(others) = Cardinality(others)
      BY PanelNumbers
    <2>2. land \in {m.index, Cardinality(others)}
      BY DEF Lands
    <2>3. \A y \in {m.index, Cardinality(others)} : land <= y
      BY <1>0, <1>1 DEF Lands
    <2>4. {m.index, Cardinality(others)} \subseteq Int
      BY <1>0, <1>1
    <2> HIDE DEF land
    <2> QED
      BY <2>1, <2>2, <2>3, <2>4, PanelMin
  <1> HIDE DEF land
  <1>5. order = [p \in others \cup {m.page} |->
                   IF p = m.page THEN land + 1
                   ELSE IF Panel!Cardinality({q \in others : Panel!Before(t, q, p)}) < land
                        THEN Panel!Cardinality({q \in others : Panel!Before(t, q, p)}) + 1
                        ELSE Panel!Cardinality({q \in others : Panel!Before(t, q, p)}) + 2]
    BY <1>4 DEF Panel!Inserted
  <1>6. /\ DOMAIN order = others \cup {m.page}
        /\ order[m.page] = land + 1
        /\ \A p \in others : order[p] = R(p) + (IF R(p) < land THEN 1 ELSE 2)
    <2>1. DOMAIN order = others \cup {m.page} /\ order[m.page] = land + 1
      BY <1>5
    <2>2. ASSUME NEW p \in others
          PROVE  order[p] = R(p) + (IF R(p) < land THEN 1 ELSE 2)
      <3>1. p # m.page
        BY <1>1
      <3>2. Panel!Cardinality({q \in others : Panel!Before(t, q, p)}) = R(p)
        BY <1>1
      <3>3. R(p) \in Nat
        BY <1>1, RankBelow
      <3> HIDE DEF R, order
      <3> QED
        BY <1>5, <3>1, <3>2, <3>3
    <2> QED
      BY <2>1, <2>2
  <1>7. /\ u = [pages |-> u.pages, drafts |-> t.drafts]
        /\ u.pages = [p \in DOMAIN t.pages |->
             IF p \in DOMAIN order THEN [parent |-> m.parent, order |-> order[p]]
             ELSE IF p \in past \ DOMAIN order
             THEN [t.pages[p] EXCEPT !.order =
                     Panel!Cardinality({q \in past : Panel!Before(t, q, p)}) + 1]
             ELSE t.pages[p]]
    <2>1. t = [pages |-> t.pages, drafts |-> t.drafts]
      BY DEF Tidy
    <2> HIDE DEF order
    <2>2. u = [t EXCEPT !.pages = [p \in DOMAIN t.pages |->
             IF p \in DOMAIN order THEN [parent |-> m.parent, order |-> order[p]]
             ELSE IF p \in past \ DOMAIN order
             THEN [t.pages[p] EXCEPT !.order =
                     Panel!Cardinality({q \in past : Panel!Before(t, q, p)}) + 1]
             ELSE t.pages[p]]]
      BY DEF Panel!After, order
    <2> HIDE DEF u
    <2> QED
      BY <2>1, <2>2
  <1>8. DOMAIN u.pages = DOMAIN t.pages
    <2> HIDE DEF u, order
    <2> QED
      BY <1>7
  <1> HIDE DEF u, order
  <1>9. ASSUME NEW p \in DOMAIN t.pages
        PROVE  /\ u.pages[p] \in [parent : Pages \cup {Root}, order : Nat]
               /\ u.pages[p].parent = IF p = m.page THEN m.parent ELSE t.pages[p].parent
               /\ u.pages[p].order
                    = IF p = m.page THEN land + 1
                      ELSE IF p \in others THEN R(p) + (IF R(p) < land THEN 1 ELSE 2)
                      ELSE IF p \in past THEN RankIn(RowOrder(t), past, p) + 1
                      ELSE t.pages[p].order
    <2>1. CASE p = m.page
      <3>1. u.pages[p] = [parent |-> m.parent, order |-> order[p]]
        BY <1>6, <1>7, <2>1
      <3> QED
        BY <1>0, <1>3, <1>6, <2>1, <3>1
    <2>2. CASE p \in others
      <3>1. u.pages[p] = [parent |-> m.parent, order |-> order[p]] /\ p # m.page
        BY <1>1, <1>6, <1>7, <2>2
      <3>2. R(p) \in Nat
        BY <1>1, RankBelow
      <3> HIDE DEF R
      <3> QED
        BY <1>0, <1>1, <1>6, <2>2, <3>1, <3>2
    <2>3. CASE p \in past /\ p \notin others
      <3>1. p \notin DOMAIN order /\ p # m.page
        BY <1>2, <1>6, <2>3
      <3>2. u.pages[p] = [t.pages[p] EXCEPT !.order = RankIn(RowOrder(t), past, p) + 1]
        BY <1>2, <1>7, <2>3, <3>1
      <3>3. RankIn(RowOrder(t), past, p) \in Nat
        BY <1>2, RankBelow
      <3> QED
        BY <1>0, <2>3, <3>1, <3>2, <3>3
    <2>4. CASE p # m.page /\ p \notin others /\ p \notin past
      <3>1. u.pages[p] = t.pages[p]
        BY <1>6, <1>7, <2>4
      <3> QED
        BY <1>0, <2>4, <3>1
    <2> QED
      BY <2>1, <2>2, <2>3, <2>4
  <1>10. u.pages \in [DOMAIN t.pages -> [parent : Pages \cup {Root}, order : Nat]]
    <2>1. u.pages = [p \in DOMAIN t.pages |-> u.pages[p]]
      BY <1>7
    <2> QED
      BY <2>1, <1>9
  <1> QED
    BY <1>3, <1>7, <1>9, <1>10 DEF u, land

(* The orders of pages are numbers up to n. *)
OrdersUpTo(t, n) == \A p \in DOMAIN t.pages : t.pages[p].order <= n

LEMMA AfterIsTidy ==
    ASSUME Panel!PanelAssumption, NEW t, Tidy(t), NEW m, Legal(t, m)
    PROVE  /\ Tidy(Panel!After(t, m))
           /\ \A n \in Nat : n >= Cardinality(Pages) /\ OrdersUpTo(t, n)
                               => OrdersUpTo(Panel!After(t, m), n)
           /\ DOMAIN Panel!After(t, m).pages = DOMAIN t.pages
           /\ Panel!After(t, m).drafts = t.drafts
  <1> DEFINE u == Panel!After(t, m)
             s == m.page
             E == RowOrder(t)
             land == Lands(t, m)
  <1>1. PICK others : others = Panel!Stored(t, m.parent, s)
    OBVIOUS
  <1>2. PICK past : past = Panel!Stored(t, t.pages[s].parent, s)
    OBVIOUS
  <1> DEFINE R(p) == RankIn(E, others, p)
             L(p) == RankIn(E, past, p)
  <1>3. /\ u = [pages |-> u.pages, drafts |-> t.drafts]
        /\ u.pages \in [DOMAIN t.pages -> [parent : Pages \cup {Root}, order : Nat]]
        /\ land \in 0 .. Cardinality(others)
        /\ \A p \in DOMAIN t.pages :
             /\ u.pages[p].parent = IF p = s THEN m.parent ELSE t.pages[p].parent
             /\ u.pages[p].order
                  = IF p = s THEN land + 1
                    ELSE IF p \in others THEN R(p) + (IF R(p) < land THEN 1 ELSE 2)
                    ELSE IF p \in past THEN L(p) + 1
                    ELSE t.pages[p].order
    BY <1>1, <1>2, AfterIs
  <1>4. /\ others \in SUBSET (DOMAIN t.pages \ {s}) /\ IsFiniteSet(others) /\ Orders(E, others)
        /\ \A p \in DOMAIN t.pages \ {s} : p \in others <=> t.pages[p].parent = m.parent
    BY <1>1, StoredAreSiblings DEF Panel!Stored
  <1>5. /\ past \in SUBSET (DOMAIN t.pages \ {s}) /\ IsFiniteSet(past) /\ Orders(E, past)
        /\ \A p \in DOMAIN t.pages \ {s} : p \in past <=> t.pages[p].parent = t.pages[s].parent
    BY <1>2, StoredAreSiblings DEF Panel!Stored
  <1>6. s \in DOMAIN t.pages /\ m.parent \in DOMAIN t.pages \cup {Root}
    BY DEF Legal
  <1>7. /\ \A p \in others : R(p) \in Nat
        /\ \A p, q \in others : R(p) = R(q) => p = q
    <2>1. \A p \in others : R(p) \in Nat
      BY <1>4, RankBelow
    <2>2. \A p, q \in others : R(p) = R(q) => p = q
      BY <1>4, RankIsOwn
    <2> QED
      BY <2>1, <2>2
  <1>8. \A p, q \in past : L(p) = L(q) => p = q
    BY <1>5, RankIsOwn
  <1>8a. \A p \in past : L(p) \in Nat
    BY <1>5, RankBelow
  <1>9. /\ DOMAIN t.pages \subseteq Pages /\ DOMAIN t.drafts \subseteq Pages
        /\ DOMAIN t.pages \cap DOMAIN t.drafts = {}
        /\ t.drafts \in [DOMAIN t.drafts -> Pages \cup {Root}]
        /\ \A p \in DOMAIN t.pages : /\ t.pages[p].parent \in DOMAIN t.pages \cup {Root}
                                     /\ t.pages[p].order \in Nat
        /\ \A p, q \in DOMAIN t.pages : p # q /\ t.pages[p].parent = t.pages[q].parent
                                         => t.pages[p].order # t.pages[q].order
    BY DEF Tidy
  <1> HIDE DEF u, s, E, land, R, L
  <1>10. DOMAIN u.pages = DOMAIN t.pages /\ u.drafts = t.drafts
    BY <1>3
  <1>11. ASSUME NEW p \in DOMAIN t.pages, NEW q \in DOMAIN t.pages, p # q,
                u.pages[p].parent = u.pages[q].parent
         PROVE  u.pages[p].order # u.pages[q].order
    <2>0. land \in Nat
      BY <1>3
    <2>1. CASE p = s /\ q # s
      <3>1. q \in others
        BY <1>3, <1>4, <1>6, <1>11, <2>1
      <3>2. R(q) \in Nat /\ u.pages[q].order = R(q) + (IF R(q) < land THEN 1 ELSE 2)
              /\ u.pages[p].order = land + 1
        BY <1>3, <1>6, <1>7, <2>1, <3>1
      <3> QED
        BY <2>0, <3>2
    <2>2. CASE p # s /\ q = s
      <3>1. p \in others
        BY <1>3, <1>4, <1>6, <1>11, <2>2
      <3>2. R(p) \in Nat /\ u.pages[p].order = R(p) + (IF R(p) < land THEN 1 ELSE 2)
              /\ u.pages[q].order = land + 1
        BY <1>3, <1>6, <1>7, <2>2, <3>1
      <3> QED
        BY <2>0, <3>2
    <2>3. CASE p # s /\ q # s
      <3>0. t.pages[p].parent = t.pages[q].parent
        BY <1>3, <1>11, <2>3
      <3>1. CASE p \in others
        <4>1. q \in others
          BY <1>4, <2>3, <3>0, <3>1
        <4>2. /\ u.pages[p].order = R(p) + (IF R(p) < land THEN 1 ELSE 2)
              /\ u.pages[q].order = R(q) + (IF R(q) < land THEN 1 ELSE 2)
          BY <1>3, <2>3, <3>1, <4>1
        <4>3. R(p) # R(q) /\ R(p) \in Nat /\ R(q) \in Nat
          BY <1>7, <1>11, <3>1, <4>1
        <4> QED
          BY <2>0, <4>2, <4>3
      <3>2. CASE p \notin others /\ p \in past
        <4>1. q \notin others /\ q \in past
          BY <1>4, <1>5, <2>3, <3>0, <3>2
        <4>2. u.pages[p].order = L(p) + 1 /\ u.pages[q].order = L(q) + 1
          BY <1>3, <2>3, <3>2, <4>1
        <4>3. L(p) # L(q) /\ L(p) \in Nat /\ L(q) \in Nat
          BY <1>8, <1>8a, <1>11, <3>2, <4>1
        <4> QED
          BY <4>2, <4>3
      <3>3. CASE p \notin others /\ p \notin past
        <4>1. q \notin others /\ q \notin past
          BY <1>4, <1>5, <2>3, <3>0, <3>3
        <4>2. u.pages[p].order = t.pages[p].order /\ u.pages[q].order = t.pages[q].order
          BY <1>3, <2>3, <3>3, <4>1
        <4> QED
          BY <1>9, <1>11, <3>0, <4>2
      <3> QED
        BY <3>1, <3>2, <3>3
    <2> QED
      BY <1>11, <2>1, <2>2, <2>3
  <1>12. Tidy(u)
    <2>1. \A p \in DOMAIN u.pages : u.pages[p].parent \in DOMAIN u.pages \cup {Root}
      BY <1>3, <1>6, <1>9, <1>10
    <2>2. u = [pages |-> u.pages, drafts |-> u.drafts]
      BY <1>3, <1>10
    <2>3. u.pages \in [DOMAIN u.pages -> [parent : Pages \cup {Root}, order : Nat]]
      BY <1>3, <1>10
    <2>4. u.drafts \in [DOMAIN u.drafts -> Pages \cup {Root}]
      BY <1>9, <1>10
    <2> QED
      BY <1>9, <1>10, <1>11, <2>1, <2>2, <2>3, <2>4 DEF Tidy
  <1>13. ASSUME NEW n \in Nat, n >= Cardinality(Pages), OrdersUpTo(t, n)
         PROVE  OrdersUpTo(u, n)
    <2>1. Cardinality(others) + 1 <= n /\ Cardinality(others) \in Nat
      <3>1. others \in SUBSET (Pages \ {s}) /\ s \in Pages
        BY <1>4, <1>6, <1>9
      <3>2. /\ IsFiniteSet(Pages \ {s}) /\ Cardinality(Pages \ {s}) = Cardinality(Pages) - 1
            /\ Cardinality(Pages) \in Nat
        BY <3>1, PagesAreNumbers, FS_RemoveElement
      <3>3. Cardinality(others) <= Cardinality(Pages \ {s}) /\ Cardinality(others) \in Nat
        BY <3>1, <3>2, FS_Subset, FS_CardinalityType
      <3> QED
        BY <1>13, <3>2, <3>3
    <2>2. Cardinality(past) + 1 <= n /\ Cardinality(past) \in Nat
      <3>1. past \in SUBSET (Pages \ {s}) /\ s \in Pages
        BY <1>5, <1>6, <1>9
      <3>2. /\ IsFiniteSet(Pages \ {s}) /\ Cardinality(Pages \ {s}) = Cardinality(Pages) - 1
            /\ Cardinality(Pages) \in Nat
        BY <3>1, PagesAreNumbers, FS_RemoveElement
      <3>3. Cardinality(past) <= Cardinality(Pages \ {s}) /\ Cardinality(past) \in Nat
        BY <3>1, <3>2, FS_Subset, FS_CardinalityType
      <3> QED
        BY <1>13, <3>2, <3>3
    <2>3. \A p \in others : R(p) < Cardinality(others)
      <3>1. \A p \in others : R(p) \in 0 .. Cardinality(others) - 1
        BY <1>4, RankBelowSize DEF R
      <3> QED
        BY <2>1, <3>1
    <2>4. \A p \in past : L(p) < Cardinality(past)
      <3>1. \A p \in past : L(p) \in 0 .. Cardinality(past) - 1
        BY <1>5, RankBelowSize DEF L
      <3> QED
        BY <2>2, <3>1
    <2>5. \A p \in DOMAIN t.pages : u.pages[p].order <= n
      <3> SUFFICES ASSUME NEW p \in DOMAIN t.pages PROVE u.pages[p].order <= n
        OBVIOUS
      <3>1. CASE p = s
        <4>1. u.pages[p].order = land + 1
          BY <1>3, <3>1
        <4> QED
          BY <1>3, <2>1, <4>1
      <3>2. CASE p \in others
        <4>1. u.pages[p].order = R(p) + (IF R(p) < land THEN 1 ELSE 2) /\ R(p) \in Nat
          BY <1>3, <1>4, <1>7, <3>2
        <4>2. R(p) < Cardinality(others)
          BY <2>3, <3>2
        <4> QED
          BY <1>3, <2>1, <4>1, <4>2
      <3>3. CASE p # s /\ p \notin others /\ p \in past
        <4>1. u.pages[p].order = L(p) + 1 /\ L(p) \in Nat
          BY <1>3, <1>8a, <3>3
        <4>2. L(p) < Cardinality(past)
          BY <2>4, <3>3
        <4> QED
          BY <2>2, <4>1, <4>2
      <3>4. CASE p # s /\ p \notin others /\ p \notin past
        <4>1. u.pages[p].order = t.pages[p].order
          BY <1>3, <3>4
        <4> QED
          BY <1>13, <4>1 DEF OrdersUpTo
      <3> QED
        BY <3>1, <3>2, <3>3, <3>4
    <2> QED
      BY <1>10, <2>5 DEF OrdersUpTo
  <1> QED
    BY <1>10, <1>12, <1>13 DEF u

(* The page that moves takes the pages below it to their new levels. *)
Shifted(t, m, lvl) ==
  [x \in Panel!Ids(t) |->
     IF m.page \in Path(Panel!Ids(t), Ups(t), x)
     THEN lvl[x] - lvl[m.page] + (IF m.parent = Root THEN 0 ELSE lvl[m.parent] + 1)
     ELSE lvl[x]]

LEMMA AfterLevels ==
    ASSUME Panel!PanelAssumption, NEW t, Tidy(t), NEW lvl, Levels(t, lvl), NEW m, Legal(t, m)
    PROVE  /\ Levels(Panel!After(t, m), Shifted(t, m, lvl))
           /\ Panel!Ids(Panel!After(t, m)) = Panel!Ids(t)
           /\ \A x \in Panel!Ids(t) :
                Panel!ShownParent(Panel!After(t, m), x)
                  = IF x = m.page THEN m.parent ELSE Panel!ShownParent(t, x)
  <1> DEFINE u == Panel!After(t, m)
             X == Panel!Ids(t)
             up == Ups(t)
             s == m.page
             base == IF m.parent = Root THEN 0 ELSE lvl[m.parent] + 1
             new == Shifted(t, m, lvl)
  <1>1. /\ Tidy(u) /\ DOMAIN u.pages = DOMAIN t.pages /\ u.drafts = t.drafts
        /\ \A p \in DOMAIN t.pages :
             u.pages[p].parent = IF p = m.page THEN m.parent ELSE t.pages[p].parent
    BY AfterIsTidy, AfterIs
  <1>2. s \in DOMAIN t.pages /\ m.parent \in (DOMAIN t.pages \cup {Root}) \ {s}
    BY DEF Legal
  <1>3. Panel!Ids(u) = X
    BY <1>1 DEF Panel!Ids
  <1>4. /\ \A x \in X : Panel!ShownParent(u, x) = IF x = s THEN m.parent
             ELSE Panel!ShownParent(t, x)
        /\ s \in X /\ (m.parent # Root => m.parent \in X)
    <2> SUFFICES ASSUME NEW x \in X
                 PROVE  Panel!ShownParent(u, x)
                          = IF x = s THEN m.parent ELSE Panel!ShownParent(t, x)
      BY <1>2 DEF Panel!Ids
    <2>1. CASE x = s
      BY <1>1, <1>2, <2>1 DEF Panel!ShownParent
    <2>2. CASE x # s /\ x \in DOMAIN t.pages
      BY <1>1, <2>2 DEF Panel!ShownParent
    <2>3. CASE x \notin DOMAIN t.pages
      BY <1>1, <1>2, <2>3 DEF Panel!ShownParent
    <2> QED
      BY <2>1, <2>2, <2>3
  <1>5. /\ Rooted(X, up, lvl) /\ up \in [X -> X \cup {Root}] /\ lvl \in [X -> Nat]
        /\ \A x \in X : up[x] = Panel!ShownParent(t, x)
        /\ IsFiniteSet(X) /\ Root \notin X
    BY UpsTyped DEF Levels, Rooted
  <1>6. \A x \in X : x # s => (s \in Path(X, up, x) <=> up[x] # Root /\ s \in Path(X, up, up[x]))
    <2> HIDE DEF X, up
    <2>1. \A x \in X : /\ up[x] = Root => Over(X, up, x) = {}
                       /\ up[x] # Root => Over(X, up, x) = {up[x]} \cup Over(X, up, up[x])
      BY <1>5, OverStep
    <2> QED
      BY <2>1 DEF Path
  <1>7. m.parent # Root => s \notin Path(X, up, m.parent)
    <2>1. Panel!Descendants(t, s) = {y \in X : s \in Over(X, up, y)}
      BY <1>4, DescendantsAre
    <2> QED
      BY <1>2, <1>4, <2>1 DEF Path, Legal
  <1>8. \A x \in X : s \in Path(X, up, x) => lvl[s] <= lvl[x]
    <2> HIDE DEF X, up
    <2>1. \A x \in X : s \in Over(X, up, x) => lvl[s] < lvl[x]
      BY <1>5, OverIsHigher
    <2> QED
      BY <1>4, <1>5, <2>1 DEF Path
  <1>9. base \in Nat
    <2> HIDE DEF X, up
    <2> QED
      BY <1>4, <1>5
  <1>10. new = [x \in X |-> IF s \in Path(X, up, x) THEN lvl[x] - lvl[s] + base ELSE lvl[x]]
    BY DEF Shifted
  <1> HIDE DEF base, new, up
  <1>11. new \in [X -> Nat]
    <2> SUFFICES ASSUME NEW x \in X
                 PROVE  new[x] \in Nat
      <3>1. new = [x \in X |-> new[x]]
        BY <1>10
      <3> QED
        BY <3>1
    <2>1. /\ lvl[x] \in Nat /\ lvl[s] \in Nat
          /\ new[x] = IF s \in Path(X, up, x) THEN lvl[x] - lvl[s] + base ELSE lvl[x]
      BY <1>4, <1>5, <1>10
    <2>2. s \in Path(X, up, x) => lvl[s] <= lvl[x]
      BY <1>8
    <2> QED
      BY <1>9, <2>1, <2>2
  <1>12. ASSUME NEW x \in X
         PROVE  new[x] = IF Ups(u)[x] = Root THEN 0 ELSE new[Ups(u)[x]] + 1
    <2>0. Ups(u)[x] = IF x = s THEN m.parent ELSE up[x]
      BY <1>3, <1>4, <1>5 DEF Ups
    <2>00. \A y \in X : new[y] = IF s \in Path(X, up, y) THEN lvl[y] - lvl[s] + base ELSE lvl[y]
      BY <1>10
    <2>1. CASE x = s
      <3>1. s \in Path(X, up, x) /\ lvl[s] \in Nat
        BY <1>4, <1>5, <2>1 DEF Path
      <3>2. new[x] = base
        BY <1>9, <2>00, <2>1, <3>1
      <3>3. m.parent # Root => new[m.parent] = lvl[m.parent]
        BY <1>4, <1>7, <2>00
      <3> QED
        BY <2>0, <2>1, <3>2, <3>3 DEF base
    <2>2. CASE x # s /\ up[x] = Root
      <3>1. s \notin Path(X, up, x)
        BY <1>6, <2>2
      <3>2. lvl[x] = 0
        BY <1>5, <2>2 DEF Rooted
      <3> QED
        BY <2>0, <2>00, <2>2, <3>1, <3>2
    <2>3. CASE x # s /\ up[x] # Root
      <3>1. up[x] \in X /\ lvl[x] = lvl[up[x]] + 1 /\ lvl[up[x]] \in Nat /\ lvl[s] \in Nat
        BY <1>4, <1>5, <2>3 DEF Rooted
      <3>2. s \in Path(X, up, x) <=> s \in Path(X, up, up[x])
        BY <1>6, <2>3
      <3> QED
        BY <1>9, <2>0, <2>00, <2>3, <3>1, <3>2
    <2> QED
      BY <2>1, <2>2, <2>3
  <1>13. Ups(u) \in [X -> X \cup {Root}]
    BY <1>1, <1>3, UpsTyped
  <1>14. Levels(u, new)
    BY <1>3, <1>5, <1>11, <1>12, <1>13 DEF Levels, Rooted
  <1> QED
    BY <1>3, <1>4, <1>14 DEF u, new

LEMMA AfterIsWellFormed ==
    ASSUME Panel!PanelAssumption, NEW t, WellFormed(t), NEW m, Legal(t, m)
    PROVE  WellFormed(Panel!After(t, m))
  <1>1. PICK lvl : Levels(t, lvl)
    BY LevelsOfAll
  <1>2. Tidy(t) /\ Tidy(Panel!After(t, m))
    BY AfterIsTidy DEF WellFormed
  <1>3. \E l : Levels(Panel!After(t, m), l)
    BY <1>1, <1>2, AfterLevels
  <1> QED
    BY <1>2, <1>3, LevelsOfPages DEF WellFormed

(* The index of a row is its rank among its siblings. *)
LEMMA IndexIsRank ==
    ASSUME Panel!PanelAssumption, NEW t, Tidy(t), NEW x \in Panel!Ids(t),
           NEW Q, Q = Siblings(Panel!Ids(t), Ups(t), x)
    PROVE  /\ Panel!Siblings(t, x) = Q /\ x \in Q /\ Q \in SUBSET Panel!Ids(t)
           /\ Panel!Group(t, Panel!ShownParent(t, x)) = Q
           /\ IsFiniteSet(Q) /\ Cardinality(Q) \in Nat /\ Orders(RowOrder(t), Q)
           /\ Panel!IndexOf(t, x) = RankIn(RowOrder(t), Q, x)
           /\ Panel!IndexOf(t, x) \in 0 .. Cardinality(Q) - 1
           /\ \A y \in Q : /\ Panel!ShownParent(t, y) = Panel!ShownParent(t, x)
                           /\ Siblings(Panel!Ids(t), Ups(t), y) = Q
                           /\ Panel!IndexOf(t, y) = RankIn(RowOrder(t), Q, y)
                           /\ Panel!IndexOf(t, y) \in Nat
  <1> DEFINE X == Panel!Ids(t)
  <1>1. /\ X \in SUBSET Pages /\ IsFiniteSet(X)
        /\ \A y \in X : Ups(t)[y] = Panel!ShownParent(t, y)
    BY UpsTyped
  <1>2. /\ Q \in SUBSET X /\ x \in Q
        /\ \A y \in Q : Ups(t)[y] = Ups(t)[x] /\ Siblings(X, Ups(t), y) = Q
    BY DEF Siblings
  <1>3. IsFiniteSet(Q) /\ Cardinality(Q) \in Nat
    BY <1>1, <1>2, FS_Subset, FS_CardinalityType
  <1>4. Orders(RowOrder(t), Q)
    BY SiblingsInOrder DEF OrdersBelow
  <1>5. ASSUME NEW y \in Q
        PROVE  /\ Panel!Siblings(t, y) = Q
               /\ Panel!IndexOf(t, y) = RankIn(RowOrder(t), Q, y)
    <2>1. Panel!Siblings(t, y) = Q
      BY <1>1, <1>2 DEF Panel!Siblings, Panel!Group, Siblings
    <2>2. {q \in Q : Panel!Before(t, q, y)} = {q \in Q : <<q, y>> \in RowOrder(t)}
      BY <1>2 DEF RowOrder
    <2> QED
      BY <2>1, <2>2, PanelNumbers DEF Panel!IndexOf, RankIn
  <1>6. RankIn(RowOrder(t), Q, x) \in 0 .. Cardinality(Q) - 1
    BY <1>2, <1>3, <1>4, RankBelowSize
  <1>7. \A y \in Q : RankIn(RowOrder(t), Q, y) \in Nat
    BY <1>3, RankBelow
  <1>8. Panel!Group(t, Panel!ShownParent(t, x)) = Q
    BY <1>2, <1>5 DEF Panel!Siblings
  <1> QED
    BY <1>1, <1>2, <1>3, <1>4, <1>5, <1>6, <1>7, <1>8

(* The sibling at an index; before a page it is a page. *)
LEMMA SiblingAtIs ==
    ASSUME Panel!PanelAssumption, NEW t, Tidy(t), NEW x \in Panel!Ids(t),
           NEW Q, Q = Siblings(Panel!Ids(t), Ups(t), x), NEW i \in 0 .. Cardinality(Q) - 1
    PROVE  /\ Panel!SiblingAt(t, x, i) \in Q
           /\ Panel!IndexOf(t, Panel!SiblingAt(t, x, i)) = i
           /\ \A y \in Q : Panel!IndexOf(t, y) = i => Panel!SiblingAt(t, x, i) = y
           /\ i < Panel!IndexOf(t, x) /\ x \in DOMAIN t.pages
                => Panel!SiblingAt(t, x, i) \in DOMAIN t.pages
  <1>1. /\ Panel!Siblings(t, x) = Q /\ Q \in SUBSET Panel!Ids(t) /\ x \in Q
        /\ IsFiniteSet(Q) /\ Orders(RowOrder(t), Q)
        /\ \A y \in Q : Panel!IndexOf(t, y) = RankIn(RowOrder(t), Q, y)
    BY IndexIsRank
  <1>2. \E q \in Q : RankIn(RowOrder(t), Q, q) = i
    BY <1>1, RankIsTaken
  <1>3. \E q \in Q : Panel!IndexOf(t, q) = i
    BY <1>1, <1>2
  <1>4. Panel!SiblingAt(t, x, i) = CHOOSE q \in Q : Panel!IndexOf(t, q) = i
    BY <1>1 DEF Panel!SiblingAt
  <1>5. PICK q \in Q : q = Panel!SiblingAt(t, x, i) /\ Panel!IndexOf(t, q) = i
    BY <1>3, <1>4
  <1>6. \A y \in Q : RankIn(RowOrder(t), Q, q) = RankIn(RowOrder(t), Q, y) => q = y
    BY <1>1, RankIsOwn
  <1>7. ASSUME i < Panel!IndexOf(t, x), x \in DOMAIN t.pages
        PROVE  q \in DOMAIN t.pages
    <2>1. RankIn(RowOrder(t), Q, q) < RankIn(RowOrder(t), Q, x)
      BY <1>1, <1>5, <1>7
    <2>2. <<q, x>> \in RowOrder(t)
      BY <1>1, <2>1, RankOrders
    <2>3. Panel!Before(t, q, x)
      BY <1>1, <2>2 DEF RowOrder
    <2> QED
      BY <1>7, <2>3 DEF Panel!Before
  <1> QED
    BY <1>1, <1>5, <1>6, <1>7

(* A row no lower than the page is not below it. *)
LEMMA NoLowerIsNotBelow ==
    ASSUME Panel!PanelAssumption, NEW t, Tidy(t), NEW lvl, Levels(t, lvl),
           NEW p \in Panel!Ids(t), NEW q, q \in Panel!Ids(t) => lvl[q] <= lvl[p]
    PROVE  q \notin Panel!Descendants(t, p)
  <1> SUFFICES ASSUME q \in Panel!Descendants(t, p) PROVE FALSE
    OBVIOUS
  <1>1. q \in Panel!Ids(t) /\ p \in Over(Panel!Ids(t), Ups(t), q)
    BY DescendantsAre
  <1>2. lvl[p] < lvl[q] /\ lvl[p] \in Nat /\ lvl[q] \in Nat
    BY <1>1, OverIsHigher DEF Levels
  <1> QED
    BY <1>1, <1>2

(* Alt and an arrow key moves a page where it may be. *)
LEMMA KeyMovesAreLegal ==
    ASSUME Panel!PanelAssumption, NEW t, WellFormed(t), NEW id \in Panel!Ids(t),
           NEW intent \in Panel!Intents,
           NEW m, m = Panel!resolveReorder(t, id, intent), Panel!IsMove(m)
    PROVE  Legal(t, m) /\ m.page = id
  <1>1. PICK lvl : Levels(t, lvl)
    BY LevelsOfAll
  <1>2. Tidy(t)
    BY DEF WellFormed
  <1>3. \A why : ~ Panel!IsMove(Panel!Blocked(why))
    BY DEF Panel!IsMove, Panel!Blocked
  <1>4. id \in DOMAIN t.pages
    BY <1>3 DEF Panel!resolveReorder
  <1>5. PICK i : i = Panel!IndexOf(t, id)
    OBVIOUS
  <1>6. /\ intent = "up" => m = Panel!ReorderUp(t, id, i)
        /\ intent = "down" => m = Panel!ReorderDown(t, id, i)
        /\ intent = "indent" => m = Panel!ReorderIndent(t, id, i)
        /\ intent = "outdent" => m = Panel!ReorderOutdent(t, id)
    BY <1>4, <1>5 DEF Panel!resolveReorder
  <1>7. PICK parent : parent = Panel!ShownParent(t, id)
    OBVIOUS
  <1>8. PICK Q : Q = Siblings(Panel!Ids(t), Ups(t), id)
    OBVIOUS
  <1>9. /\ i \in 0 .. Cardinality(Q) - 1 /\ Cardinality(Q) \in Nat /\ Q \in SUBSET Panel!Ids(t)
        /\ \A y \in Q : Panel!ShownParent(t, y) = parent /\ Panel!IndexOf(t, y) \in Nat
    BY <1>2, <1>5, <1>7, <1>8, IndexIsRank
  <1>10. /\ \A x \in Panel!Ids(t) : /\ Panel!ShownParent(t, x) \in DOMAIN t.pages \cup {Root}
                                    /\ Ups(t)[x] = Panel!ShownParent(t, x)
         /\ Root \notin Panel!Ids(t) /\ DOMAIN t.pages \subseteq Panel!Ids(t)
    BY <1>2, UpsTyped
  <1>11. \A x \in Panel!Ids(t) :
           /\ lvl[x] \in Nat
           /\ lvl[x] = IF Panel!ShownParent(t, x) = Root THEN 0
                       ELSE lvl[Panel!ShownParent(t, x)] + 1
    BY <1>1, <1>10 DEF Levels, Rooted
  <1>12. /\ parent \in (DOMAIN t.pages \cup {Root}) \ {id}
         /\ parent \in Panel!Ids(t) => lvl[parent] <= lvl[id]
    BY <1>7, <1>10, <1>11
  <1>13. parent \notin Panel!Descendants(t, id)
    BY <1>1, <1>2, <1>12, NoLowerIsNotBelow
  <1>14. ASSUME NEW index \in Nat
         PROVE  Legal(t, Panel!Move(id, parent, index)) /\ Panel!Move(id, parent, index).page = id
    BY <1>4, <1>12, <1>13 DEF Panel!Move, Legal
  <1>15. CASE intent = "up"
    <2>1. i # 0 /\ m = Panel!Move(id, parent, i - 1)
      BY <1>3, <1>6, <1>7, <1>15 DEF Panel!ReorderUp
    <2> QED
      BY <1>9, <1>14, <2>1
  <1>16. CASE intent = "down"
    <2>1. m = Panel!Move(id, parent, i + 1)
      BY <1>3, <1>6, <1>7, <1>16 DEF Panel!ReorderDown
    <2> QED
      BY <1>9, <1>14, <2>1
  <1>17. CASE intent = "indent"
    <2>1. PICK q : q = Panel!SiblingAt(t, id, i - 1)
      OBVIOUS
    <2>2. i # 0 /\ m = Panel!Move(id, q, Panel!Cardinality(Panel!PublishedIn(t, q)))
      BY <1>3, <1>6, <1>17, <2>1 DEF Panel!ReorderIndent
    <2>3. i - 1 \in 0 .. Cardinality(Q) - 1 /\ i - 1 < i
      BY <1>9, <2>2
    <2>4. q \in Q /\ Panel!IndexOf(t, q) = i - 1 /\ q \in DOMAIN t.pages
      BY <1>2, <1>4, <1>5, <1>8, <2>1, <2>3, SiblingAtIs
    <2>5. q # id /\ q \in Panel!Ids(t) /\ lvl[q] = lvl[id] /\ lvl[q] \in Nat
      BY <1>5, <1>7, <1>9, <1>11, <2>3, <2>4
    <2>6. q \notin Panel!Descendants(t, id)
      BY <1>1, <1>2, <2>5, NoLowerIsNotBelow
    <2>7. Panel!Cardinality(Panel!PublishedIn(t, q)) \in Nat
      <3>1. Panel!PublishedIn(t, q) \in SUBSET Pages
        BY <1>2 DEF Panel!PublishedIn, Tidy
      <3> QED
        BY <3>1, PanelNumbers, PagesAreNumbers
    <2> QED
      BY <1>4, <2>2, <2>4, <2>5, <2>6, <2>7 DEF Legal, Panel!Move
  <1>18. CASE intent = "outdent"
    <2>1. /\ parent # Root
          /\ m = Panel!Move(id, Panel!ShownParent(t, parent), Panel!IndexOf(t, parent) + 1)
      BY <1>3, <1>6, <1>7, <1>18 DEF Panel!ReorderOutdent
    <2>2. parent \in Panel!Ids(t)
      BY <1>10, <1>12, <2>1
    <2>3. Panel!IndexOf(t, parent) \in Nat
      BY <1>2, <2>2, IndexIsRank
    <2>4. PICK g : g = Panel!ShownParent(t, parent) /\ g \in DOMAIN t.pages \cup {Root}
      BY <1>10, <2>2
    <2>5. g # id /\ (g \in Panel!Ids(t) => lvl[g] <= lvl[id])
      BY <1>7, <1>10, <1>11, <2>1, <2>2, <2>4
    <2>6. g \notin Panel!Descendants(t, id)
      BY <1>1, <1>2, <2>5, NoLowerIsNotBelow
    <2> QED
      BY <1>4, <2>1, <2>3, <2>4, <2>5, <2>6 DEF Legal, Panel!Move
  <1> QED
    BY <1>15, <1>16, <1>17, <1>18 DEF Panel!Intents

LEMMA RowsBelow ==
    ASSUME Panel!PanelAssumption, NEW t, WellFormed(t), NEW p \in Panel!Ids(t),
           NEW x \in Panel!Ids(t), NEW u, u = Panel!ShownParent(t, x),
           u = p \/ u \in Panel!Descendants(t, p)
    PROVE  x \in Panel!Descendants(t, p)
  <1>1. PICK lvl : Levels(t, lvl)
    BY LevelsOfAll
  <1>2. Tidy(t)
    BY DEF WellFormed
  <1> DEFINE X == Panel!Ids(t)
  <1>3. Panel!Descendants(t, p) = {y \in X : p \in Over(X, Ups(t), y)}
    BY <1>1, <1>2, DescendantsAre
  <1>4. u \in X /\ u # Root /\ u = Ups(t)[x] /\ Rooted(X, Ups(t), lvl)
    BY <1>1, <1>2, <1>3, UpsTyped DEF Levels
  <1>5. Over(X, Ups(t), x) = {u} \cup Over(X, Ups(t), u)
    BY <1>4, OverStep
  <1> QED
    BY <1>3, <1>5

(* So does a drop. *)
LEMMA DropsAreLegal ==
    ASSUME Panel!PanelAssumption, NEW t, WellFormed(t), NEW source \in DOMAIN t.pages,
           NEW target \in DOMAIN t.pages \cup {Root}, NEW drop \in Panel!Drops, NEW closed,
           Panel!MayDrop(t, source, target, drop, closed),
           NEW m, m = Panel!resolveMove(t, source, target, drop)
    PROVE  Legal(t, m) /\ m.page = source
  <1>1. Tidy(t) /\ DOMAIN t.pages \subseteq Panel!Ids(t)
    BY DEF WellFormed, Panel!Ids
  <1>2. target # source /\ target \notin Panel!Descendants(t, source)
    BY DEF Panel!MayDrop, Panel!StripTakes, Panel!RowTakes
  <1>3. \A parent : Panel!Cardinality(Panel!Stored(t, parent, source)) \in Nat
    BY <1>1, StoredAreSiblings, PanelNumbers
  <1>4. CASE drop \in {"reparent", "append"}
    <2>1. m = Panel!Move(source, target, Panel!Cardinality(Panel!Stored(t, target, source)))
      BY <1>4 DEF Panel!resolveMove
    <2> QED
      BY <1>2, <1>3, <2>1 DEF Legal, Panel!Move
  <1>5. CASE drop \in {"top", "bottom"}
    <2>1. target \in DOMAIN t.pages
      BY <1>5 DEF Panel!MayDrop, Panel!RowTakes
    <2>2. PICK parent : parent = t.pages[target].parent /\ parent = Panel!ShownParent(t, target)
      BY <1>1, <2>1, UpsTyped
    <2>3. PICK i : i = Panel!EdgeIndex(t, source, target, drop)
      OBVIOUS
    <2>4. m = Panel!Move(source, parent, i)
      BY <1>5, <2>2, <2>3 DEF Panel!resolveMove
    <2>5. i \in Nat
      <3>1. PICK S : S = Panel!Stored(t, t.pages[target].parent, source)
        OBVIOUS
      <3>2. {p \in S : Panel!Before(t, p, target)} \in SUBSET Pages
        BY <1>1, <3>1, StoredAreSiblings DEF Tidy
      <3>3. Panel!StoredIndex(t, target, source) \in Nat
        BY <3>1, <3>2, PanelNumbers, PagesAreNumbers DEF Panel!StoredIndex
      <3> QED
        BY <2>3, <3>3 DEF Panel!EdgeIndex
    <2>6. parent \in DOMAIN t.pages \cup {Root}
      BY <1>1, <2>1, <2>2 DEF Tidy
    <2>7. parent # source /\ parent \notin Panel!Descendants(t, source)
      BY <1>1, <1>2, <2>1, <2>2, RowsBelow
    <2> QED
      BY <2>4, <2>5, <2>6, <2>7 DEF Legal, Panel!Move
  <1> QED
    BY <1>4, <1>5 DEF Panel!Drops

-----------------------------------------------------------------------------
(* The page tree: what the store does to it                                *)

LEMMA PageLeavesWellFormed ==
    ASSUME Panel!PanelAssumption, NEW t, WellFormed(t), NEW p \in DOMAIN t.pages,
           NEW S, S = {p} \cup Panel!Descendants(t, p),
           NEW u, u = [pages |-> u.pages, drafts |-> t.drafts],
           u.pages = [x \in DOMAIN t.pages \ S |-> t.pages[x]]
    PROVE  WellFormed(u) /\ \A n : OrdersUpTo(t, n) => OrdersUpTo(u, n)
  <1>1. Tidy(t) /\ DOMAIN t.pages \subseteq Panel!Ids(t)
    BY DEF WellFormed, Panel!Ids
  <1>2. PICK l : PageLevels(t, l)
    BY DEF WellFormed
  <1>3. /\ u = [pages |-> u.pages, drafts |-> u.drafts] /\ u.drafts = t.drafts
        /\ u.pages = [x \in DOMAIN t.pages \ S |-> t.pages[x]]
    OBVIOUS
  <1>4. /\ DOMAIN u.pages = DOMAIN t.pages \ S
        /\ \A x \in DOMAIN u.pages : x \in DOMAIN t.pages /\ u.pages[x] = t.pages[x]
    BY <1>3
  <1>5. ASSUME NEW x \in DOMAIN u.pages
        PROVE  t.pages[x].parent \in DOMAIN u.pages \cup {Root}
    <2>1. x \in Panel!Ids(t) /\ x \notin S /\ t.pages[x].parent = Panel!ShownParent(t, x)
      BY <1>1, <1>4, UpsTyped
    <2>2. t.pages[x].parent \notin S
      BY <1>1, <2>1, RowsBelow
    <2>3. t.pages[x].parent \in DOMAIN t.pages \cup {Root}
      BY <1>1, <1>4 DEF Tidy
    <2> QED
      BY <1>4, <2>2, <2>3
  <1>6. Tidy(u)
    <2>1. \A x \in DOMAIN u.pages : /\ u.pages[x] \in [parent : Pages \cup {Root}, order : Nat]
                                    /\ u.pages[x].parent \in DOMAIN u.pages \cup {Root}
      BY <1>1, <1>4, <1>5 DEF Tidy
    <2>2. u.pages \in [DOMAIN u.pages -> [parent : Pages \cup {Root}, order : Nat]]
      <3>1. u.pages = [x \in DOMAIN u.pages |-> u.pages[x]]
        BY <1>3
      <3> QED
        BY <2>1, <3>1
    <2>3. ASSUME NEW x \in DOMAIN u.pages, NEW y \in DOMAIN u.pages, x # y,
                 u.pages[x].parent = u.pages[y].parent
          PROVE  u.pages[x].order # u.pages[y].order
      <3>1. /\ x \in DOMAIN t.pages /\ y \in DOMAIN t.pages
            /\ u.pages[x] = t.pages[x] /\ u.pages[y] = t.pages[y]
        BY <1>4
      <3>2. t.pages[x].parent = t.pages[y].parent => t.pages[x].order # t.pages[y].order
        BY <1>1, <2>3, <3>1 DEF Tidy
      <3> QED
        BY <2>3, <3>1, <3>2
    <2>4. /\ DOMAIN u.pages \subseteq Pages /\ DOMAIN u.drafts \subseteq Pages
          /\ DOMAIN u.pages \cap DOMAIN u.drafts = {}
          /\ u.drafts \in [DOMAIN u.drafts -> Pages \cup {Root}]
      BY <1>1, <1>3, <1>4 DEF Tidy
    <2> QED
      BY <1>3, <2>1, <2>2, <2>3, <2>4 DEF Tidy
  <1>7. PageLevels(u, [x \in DOMAIN u.pages |-> l[x]])
    BY <1>2, <1>4, <1>5 DEF PageLevels
  <1>8. \A n : OrdersUpTo(t, n) => OrdersUpTo(u, n)
    BY <1>4 DEF OrdersUpTo
  <1> QED
    BY <1>6, <1>7, <1>8 DEF WellFormed

LEMMA DraftsChangeWellFormed ==
    ASSUME Panel!PanelAssumption, NEW t, WellFormed(t),
           NEW u, u = [pages |-> t.pages, drafts |-> u.drafts],
           DOMAIN u.drafts \subseteq Pages \ DOMAIN t.pages,
           u.drafts \in [DOMAIN u.drafts -> Pages \cup {Root}]
    PROVE  WellFormed(u) /\ \A n : OrdersUpTo(t, n) => OrdersUpTo(u, n)
  <1>1. u.pages = t.pages
    OBVIOUS
  <1>2. Tidy(u)
    BY <1>1 DEF WellFormed, Tidy
  <1> QED
    BY <1>1, <1>2 DEF WellFormed, PageLevels, OrdersUpTo

LEMMA PublishedWellFormed ==
    ASSUME Panel!PanelAssumption, NEW t, WellFormed(t), NEW d \in DOMAIN t.drafts,
           NEW n \in Nat, OrdersUpTo(t, n),
           NEW u, u = [pages |-> [x \in DOMAIN t.pages \cup {d} |->
                                    IF x = d THEN [parent |-> Panel!ShownParent(t, d),
                                      order |-> n + 1]
                                    ELSE t.pages[x]],
                       drafts |-> Panel!Without(t.drafts, {d})]
    PROVE  WellFormed(u) /\ OrdersUpTo(u, n + 1)
  <1>1. Tidy(t)
    BY DEF WellFormed
  <1>2. PICK l : PageLevels(t, l)
    BY DEF WellFormed
  <1>3. PICK parent : parent = Panel!ShownParent(t, d)
    OBVIOUS
  <1>4. d \in Pages \ DOMAIN t.pages /\ parent \in DOMAIN t.pages \cup {Root} /\ d # Root
    BY <1>1, <1>3, UpsTyped, PagesAreNumbers DEF Tidy, Panel!ShownParent
  <1>5. /\ u = [pages |-> u.pages, drafts |-> u.drafts]
        /\ u.drafts = [x \in DOMAIN t.drafts \ {d} |-> t.drafts[x]]
        /\ u.pages = [x \in DOMAIN t.pages \cup {d} |->
                        IF x = d THEN [parent |-> parent, order |-> n + 1] ELSE t.pages[x]]
    BY <1>3 DEF Panel!Without
  <1>6. /\ DOMAIN u.pages = DOMAIN t.pages \cup {d}
        /\ u.pages[d] = [parent |-> parent, order |-> n + 1]
        /\ \A x \in DOMAIN t.pages : x # d /\ u.pages[x] = t.pages[x]
    BY <1>4, <1>5
  <1>7. /\ DOMAIN t.pages \subseteq Pages /\ DOMAIN t.drafts \subseteq Pages
        /\ DOMAIN t.pages \cap DOMAIN t.drafts = {}
        /\ \A x \in DOMAIN t.drafts : t.drafts[x] \in Pages \cup {Root}
        /\ \A p \in DOMAIN t.pages : /\ t.pages[p] \in [parent : Pages \cup {Root}, order : Nat]
                                     /\ t.pages[p].parent \in DOMAIN t.pages \cup {Root}
                                     /\ t.pages[p].order \in Nat /\ t.pages[p].order <= n
        /\ \A p, q \in DOMAIN t.pages : p # q /\ t.pages[p].parent = t.pages[q].parent
                                         => t.pages[p].order # t.pages[q].order
    BY <1>1 DEF Tidy, OrdersUpTo
  <1>8. Tidy(u)
    <2>1. \A p \in DOMAIN u.pages : /\ u.pages[p] \in [parent : Pages \cup {Root}, order : Nat]
                                    /\ u.pages[p].parent \in DOMAIN u.pages \cup {Root}
      BY <1>4, <1>6, <1>7
    <2>2. u.pages \in [DOMAIN u.pages -> [parent : Pages \cup {Root}, order : Nat]]
      <3>1. u.pages = [x \in DOMAIN u.pages |-> u.pages[x]]
        BY <1>5
      <3> QED
        BY <2>1, <3>1
    <2>3. u.drafts \in [DOMAIN u.drafts -> Pages \cup {Root}]
            /\ DOMAIN u.drafts = DOMAIN t.drafts \ {d}
      BY <1>5, <1>7
    <2>4. \A p, q \in DOMAIN u.pages : p # q /\ u.pages[p].parent = u.pages[q].parent
                                         => u.pages[p].order # u.pages[q].order
      <3> TAKE p, q \in DOMAIN u.pages
      <3>0. HAVE p # q /\ u.pages[p].parent = u.pages[q].parent
      <3>1. CASE p = d
        <4>1. q \in DOMAIN t.pages /\ u.pages[p].order = n + 1 /\ u.pages[q].order <= n
                /\ u.pages[q].order \in Nat
          BY <1>6, <1>7, <3>0, <3>1
        <4> QED
          BY <4>1
      <3>2. CASE q = d
        <4>1. p \in DOMAIN t.pages /\ u.pages[q].order = n + 1 /\ u.pages[p].order <= n
                /\ u.pages[p].order \in Nat
          BY <1>6, <1>7, <3>0, <3>2
        <4> QED
          BY <4>1
      <3>3. CASE p # d /\ q # d
        <4>1. p \in DOMAIN t.pages /\ q \in DOMAIN t.pages
          BY <1>6, <3>0, <3>3
        <4>2. u.pages[p] = t.pages[p] /\ u.pages[q] = t.pages[q]
          BY <1>6, <4>1
        <4>3. t.pages[p].parent = t.pages[q].parent
          BY <3>0, <4>2
        <4> QED
          BY <1>7, <3>0, <4>1, <4>2, <4>3
      <3> QED
        BY <3>1, <3>2, <3>3
    <2>5. /\ DOMAIN u.pages \subseteq Pages /\ DOMAIN u.drafts \subseteq Pages
          /\ DOMAIN u.pages \cap DOMAIN u.drafts = {}
      BY <1>4, <1>6, <1>7, <2>3
    <2>6. u = [pages |-> u.pages, drafts |-> u.drafts]
      BY <1>5
    <2> QED
      BY <2>1, <2>2, <2>3, <2>4, <2>5, <2>6 DEF Tidy
  <1>9. \E k : PageLevels(u, k)
    <2> DEFINE k == [x \in DOMAIN u.pages |->
                       IF x = d THEN (IF parent = Root THEN 0 ELSE l[parent] + 1) ELSE l[x]]
    <2>1. /\ l \in [DOMAIN t.pages -> Nat]
          /\ \A p \in DOMAIN t.pages :
               l[p] = IF t.pages[p].parent = Root THEN 0 ELSE l[t.pages[p].parent] + 1
      BY <1>2 DEF PageLevels
    <2>2. k \in [DOMAIN u.pages -> Nat]
      BY <1>4, <1>6, <2>1
    <2>3. k[d] = (IF parent = Root THEN 0 ELSE l[parent] + 1)
            /\ \A x \in DOMAIN t.pages : k[x] = l[x]
      BY <1>6
    <2> HIDE DEF k
    <2>4. \A x \in DOMAIN u.pages :
            k[x] = IF u.pages[x].parent = Root THEN 0 ELSE k[u.pages[x].parent] + 1
      BY <1>4, <1>6, <1>7, <2>1, <2>3
    <2> QED
      BY <2>2, <2>4 DEF PageLevels
  <1>10. OrdersUpTo(u, n + 1)
    <2>1. \A p \in DOMAIN u.pages : u.pages[p].order <= n + 1
      BY <1>6, <1>7
    <2> QED
      BY <2>1 DEF OrdersUpTo
  <1> QED
    BY <1>8, <1>9, <1>10 DEF WellFormed

(* Pages below pages with lower numbers have levels. *)
LEMMA LowerHaveLevels ==
    ASSUME Panel!PanelAssumption, NEW S, S \in SUBSET Pages, NEW place,
           \A p \in S : place[p] \in {Root} \cup {q \in S : q < p}
    PROVE  \E l \in [S -> Nat] : \A p \in S : l[p] = IF place[p] = Root THEN 0 ELSE l[place[p]] + 1
  <1>0. Root = 0 /\ S \subseteq Nat \ {0} /\ IsFiniteSet(S)
    BY PagesAreNumbers
  <1> DEFINE To(p) == {q \in S : q <= p}
             LevelsTo(p, l) == /\ l \in [To(p) -> Nat]
                               /\ \A q \in To(p) : l[q] = IF place[q] = Root THEN 0
                                    ELSE l[place[q]] + 1
             bad == {p \in S : ~ \E l : LevelsTo(p, l)}
             num == [p \in S |-> p]
  <1>1. bad = {}
    <2> SUFFICES ASSUME bad # {} PROVE FALSE
      OBVIOUS
    <2>1. IsFiniteSet(bad) /\ \A p \in bad : num[p] \in Int /\ num[p] = p /\ p \in S /\ p \in Nat
      <3>1. bad \subseteq S
        OBVIOUS
      <3>2. IsFiniteSet(bad)
        <4> HIDE DEF bad
        <4> QED
          BY <1>0, <3>1, FS_Subset
      <3> QED
        BY <1>0, <3>1, <3>2
    <2>2. PICK p \in bad : \A q \in bad : num[p] <= num[q]
      <3> HIDE DEF bad, num
      <3> QED
        BY <2>1, LeastOf
    <2>3. \A q \in S : q < p => q \notin bad
      <3> HIDE DEF bad, num
      <3> QED
        BY <1>0, <2>1, <2>2
    <2> DEFINE low == {q \in S : q < p}
    <2>4. \E l : l \in [low -> Nat] /\ \A q \in low : l[q] = IF place[q] = Root THEN 0
            ELSE l[place[q]] + 1
      <3>1. CASE low = {}
        <4>1. [q \in low |-> 0] \in [low -> Nat]
          OBVIOUS
        <4> QED
          BY <3>1, <4>1
      <3>2. CASE low # {}
        <4>1. IsFiniteSet(low) /\ \A q \in low : num[q] \in Int /\ num[q] = q
          <5>1. low \subseteq S
            OBVIOUS
          <5>2. IsFiniteSet(low)
            <6> HIDE DEF low
            <6> QED
              BY <1>0, <5>1, FS_Subset
          <5> QED
            BY <1>0, <5>1, <5>2
        <4>2. PICK r \in low : \A q \in low : num[q] <= num[r]
          <5> HIDE DEF low, num
          <5> QED
            BY <3>2, <4>1, GreatestOf
        <4>3. \A q \in low : q <= r
          BY <4>1, <4>2
        <4>4. To(r) = low
          <5>1. r \in S /\ r < p /\ r \in Nat /\ p \in Nat /\ \A q \in S : q \in Nat
            BY <1>0, <2>1
          <5>2. \A q \in S : q <= r => q < p
            BY <5>1
          <5> QED
            BY <4>3, <5>2
        <4>5. \E l : LevelsTo(r, l)
          BY <2>3
        <4> QED
          BY <4>4, <4>5
      <3> QED
        BY <3>1, <3>2
    <2>5. PICK l : l \in [low -> Nat] /\ \A q \in low : l[q] = IF place[q] = Root THEN 0
            ELSE l[place[q]] + 1
      BY <2>4
    <2>6. p \in S /\ p \in Nat /\ place[p] \in {Root} \cup low
      BY <2>1
    <2>7. To(p) = low \cup {p} /\ p \notin low
      <3>1. \A q \in S : q \in Nat
        BY <1>0
      <3>2. \A q \in S : q <= p => q < p \/ q = p
        BY <2>6, <3>1
      <3>3. \A q \in S : q < p => q <= p
        BY <2>6, <3>1
      <3>4. p <= p /\ ~ (p < p)
        BY <2>6
      <3> QED
        BY <2>6, <3>2, <3>3, <3>4
    <2>8. \A q \in low : place[q] \in {Root} \cup low
      <3>1. \A q \in low : q \in S /\ q < p
        OBVIOUS
      <3> SUFFICES ASSUME NEW q \in low, place[q] # Root PROVE place[q] \in low
        OBVIOUS
      <3>2. place[q] \in S /\ place[q] < q /\ q < p
        BY <3>1
      <3>3. place[q] \in Nat /\ q \in Nat
        BY <1>0, <3>1, <3>2
      <3> QED
        BY <2>6, <3>2, <3>3
    <2> HIDE DEF low
    <2> DEFINE k == [q \in low \cup {p} |->
                       IF q = p THEN (IF place[p] = Root THEN 0 ELSE l[place[p]] + 1) ELSE l[q]]
    <2>9. k \in [low \cup {p} -> Nat]
      BY <2>5, <2>6
    <2>10. k[p] = (IF place[p] = Root THEN 0 ELSE l[place[p]] + 1) /\ \A q \in low : k[q] = l[q]
      BY <2>7
    <2> HIDE DEF k
    <2>11. \A q \in low \cup {p} : k[q] = IF place[q] = Root THEN 0 ELSE k[place[q]] + 1
      BY <2>5, <2>6, <2>7, <2>8, <2>10
    <2>12. LevelsTo(p, k)
      BY <2>7, <2>9, <2>11
    <2> QED
      BY <2>12
  <1>2. CASE S = {}
    <2>1. [p \in S |-> 0] \in [S -> Nat]
      OBVIOUS
    <2> QED
      BY <1>2, <2>1
  <1>3. CASE S # {}
    <2>1. \A p \in S : num[p] \in Int /\ num[p] = p
      BY <1>0
    <2>2. PICK r \in S : \A q \in S : num[q] <= num[r]
      <3> HIDE DEF num
      <3> QED
        BY <1>0, <1>3, <2>1, GreatestOf
    <2>3. To(r) = S
      BY <2>1, <2>2
    <2>4. \E l : LevelsTo(r, l)
      BY <1>1
    <2> QED
      BY <2>3, <2>4
  <1> QED
    BY <1>2, <1>3

LEMMA TreesAreWellFormed ==
    ASSUME Panel!PanelAssumption, NEW t \in Panel!Trees
    PROVE  WellFormed(t) /\ OrdersUpTo(t, Cardinality(Pages))
  <1> DEFINE parents == Pages \cup {Root}
             before(place, p) == {q \in DOMAIN place : place[q] = place[p] /\ q < p}
  <1>t. PICK S \in SUBSET Pages : t \in Panel!TreesOf(S)
    BY DEF Panel!Trees
  <1>u. PICK place \in [S -> parents], below \in [Pages \ S -> parents] :
          t = Panel!TreeOf(place, below)
    BY <1>t DEF Panel!TreesOf
  <1>1. t = [pages |-> [p \in DOMAIN place |->
               [parent |-> place[p], order |-> Panel!Cardinality(before(place, p)) + 1]],
             drafts |-> below]
    BY <1>u, Zenon DEF Panel!TreeOf
  <1>2. \A p \in DOMAIN t.pages :
          t.pages[p].parent \in {Root} \cup {q \in DOMAIN t.pages : q < p}
    BY DEF Panel!Trees
  <1>0. Root = 0 /\ Pages \subseteq Nat \ {0} /\ IsFiniteSet(Pages)
    BY PagesAreNumbers
  <1>3. \A p \in S : before(place, p) = {q \in S : place[q] = place[p] /\ q < p}
    BY <1>1
  <1> DEFINE E == {e \in Pages \X Pages : e[1] < e[2]}
             G(p) == {q \in S : place[q] = place[p]}
  <1>4. Orders(E, Pages)
    BY <1>0 DEF Orders
  <1>5. \A p \in S : Panel!Cardinality(before(place, p)) = RankIn(E, G(p), p)
    <2> SUFFICES ASSUME NEW p \in S
                 PROVE  Panel!Cardinality(before(place, p)) = RankIn(E, G(p), p)
      OBVIOUS
    <2>1. {q \in S : place[q] = place[p] /\ q < p} = {q \in G(p) : <<q, p>> \in E}
      BY <1>1
    <2> QED
      BY <1>3, <2>1, PanelNumbers DEF RankIn
  <1>6. \A p \in S : G(p) \in SUBSET Pages /\ IsFiniteSet(G(p)) /\ Orders(E, G(p)) /\ p \in G(p)
                     /\ Cardinality(G(p)) <= Cardinality(Pages) /\ Cardinality(G(p)) \in Nat
    <2> SUFFICES ASSUME NEW p \in S
                 PROVE  /\ G(p) \in SUBSET Pages /\ IsFiniteSet(G(p)) /\ Orders(E, G(p))
                             /\ p \in G(p)
                        /\ Cardinality(G(p)) <= Cardinality(Pages) /\ Cardinality(G(p)) \in Nat
      OBVIOUS
    <2>1. G(p) \in SUBSET Pages /\ p \in G(p)
      BY <1>1
    <2> HIDE DEF G, E
    <2> QED
      BY <1>0, <1>4, <2>1, OrdersPart, FS_Subset, FS_CardinalityType
  <1>7. /\ DOMAIN t.pages = S /\ t.drafts = below /\ t = [pages |-> t.pages, drafts |-> t.drafts]
        /\ DOMAIN t.drafts = Pages \ S
        /\ t.pages = [p \in S |-> [parent |-> place[p], order |-> RankIn(E, G(p), p) + 1]]
    <2>1. t.pages = [p \in S |-> [parent |-> place[p],
                                  order |-> Panel!Cardinality(before(place, p)) + 1]]
      <3> HIDE DEF before
      <3> QED
        BY <1>1
    <2> HIDE DEF before, E, G
    <2>2. t.pages = [p \in S |-> [parent |-> place[p], order |-> RankIn(E, G(p), p) + 1]]
      BY <1>5, <2>1
    <2> QED
      BY <1>1, <2>2
  <1>8. \A p \in S : RankIn(E, G(p), p) \in 0 .. Cardinality(G(p)) - 1
    <2> HIDE DEF G, E
    <2> QED
      BY <1>6, RankBelowSize
  <1>9. \A p, q \in S : place[p] = place[q] /\ RankIn(E, G(p), p) = RankIn(E, G(q), q) => p = q
    <2> SUFFICES ASSUME NEW p \in S, NEW q \in S, place[p] = place[q],
                        RankIn(E, G(p), p) = RankIn(E, G(q), q)
                 PROVE  p = q
      OBVIOUS
    <2>1. G(p) = G(q)
      OBVIOUS
    <2>2. p \in G(p) /\ q \in G(p)
      OBVIOUS
    <2> HIDE DEF G, E
    <2> QED
      BY <1>6, <2>1, <2>2, RankIsOwn
  <1> HIDE DEF G, E, before
  <1>10. \A p \in S : /\ t.pages[p] = [parent |-> place[p], order |-> RankIn(E, G(p), p) + 1]
                      /\ t.pages[p].parent = place[p]
                      /\ t.pages[p].order = RankIn(E, G(p), p) + 1
                      /\ t.pages[p].order \in Nat /\ t.pages[p].order <= Cardinality(Pages)
    <2> SUFFICES ASSUME NEW p \in S
                 PROVE  /\ t.pages[p] = [parent |-> place[p], order |-> RankIn(E, G(p), p) + 1]
                        /\ t.pages[p].parent = place[p]
                        /\ t.pages[p].order = RankIn(E, G(p), p) + 1
                        /\ t.pages[p].order \in Nat /\ t.pages[p].order <= Cardinality(Pages)
      OBVIOUS
    <2>1. t.pages[p] = [parent |-> place[p], order |-> RankIn(E, G(p), p) + 1]
      BY <1>7
    <2>2. /\ RankIn(E, G(p), p) \in 0 .. Cardinality(G(p)) - 1
          /\ Cardinality(G(p)) <= Cardinality(Pages) /\ Cardinality(G(p)) \in Nat
      BY <1>6, <1>8
    <2>3. Cardinality(Pages) \in Nat
      BY <1>0, FS_CardinalityType
    <2> QED
      BY <2>1, <2>2, <2>3
  <1>11. \A p \in S : place[p] \in {Root} \cup {q \in S : q < p}
    BY <1>2, <1>7, <1>10
  <1>12. PICK l \in [S -> Nat] : \A p \in S : l[p] = IF place[p] = Root THEN 0 ELSE l[place[p]] + 1
    BY <1>11, LowerHaveLevels
  <1>13. PageLevels(t, l)
    BY <1>7, <1>10, <1>12 DEF PageLevels
  <1>14. t.pages \in [S -> [parent : Pages \cup {Root}, order : Nat]]
    <2>1. \A p \in S : t.pages[p] \in [parent : Pages \cup {Root}, order : Nat]
      BY <1>1, <1>10
    <2>2. t.pages = [p \in S |-> t.pages[p]]
      BY <1>7
    <2> QED
      BY <2>1, <2>2
  <1>15. \A p, q \in S : p # q /\ t.pages[p].parent = t.pages[q].parent
                          => t.pages[p].order # t.pages[q].order
    <2> SUFFICES ASSUME NEW p \in S, NEW q \in S, p # q, place[p] = place[q]
                 PROVE  t.pages[p].order # t.pages[q].order
      BY <1>10
    <2>1. RankIn(E, G(p), p) # RankIn(E, G(q), q)
      BY <1>9
    <2>2. RankIn(E, G(p), p) \in Nat /\ RankIn(E, G(q), q) \in Nat
      BY <1>6, <1>8
    <2>3. /\ t.pages[p].order = RankIn(E, G(p), p) + 1
          /\ t.pages[q].order = RankIn(E, G(q), q) + 1
      BY <1>10
    <2> QED
      BY <2>1, <2>2, <2>3
  <1>16. Tidy(t)
    BY <1>1, <1>7, <1>10, <1>11, <1>14, <1>15 DEF Tidy
  <1>17. OrdersUpTo(t, Cardinality(Pages))
    BY <1>7, <1>10 DEF OrdersUpTo
  <1> QED
    BY <1>13, <1>16, <1>17 DEF WellFormed

-----------------------------------------------------------------------------
(* The page tree panel: focus                                              *)

LEMMA RowsTaken ==
    ASSUME Panel!PanelAssumption, NEW t, WellFormed(t), NEW closed,
           NEW V, V = Panel!Visible(t, closed),
           NEW rows, rows = Panel!VisibleRows(t, closed)
    PROVE  /\ V \subseteq Pages /\ V \subseteq Panel!Ids(t)
           /\ Panel!Range(rows) = V
           /\ Len(rows) \in Nat /\ DOMAIN rows = 1 .. Len(rows)
           /\ rows = <<>> <=> Len(rows) = 0
           /\ \A x \in V : /\ Panel!IndexIn(rows, x) = Line(t, closed, x)
                           /\ Line(t, closed, x) \in 1 .. Len(rows)
           /\ \A i \in 1 .. Len(rows) : rows[i] \in V
  <1>1. PICK lvl : Levels(t, lvl)
    BY LevelsOfAll
  <1>2. Tidy(t)
    BY DEF WellFormed
  <1>3. PICK n \in Nat : n = Cardinality(V)
    BY <1>1, <1>2, VisibleAre, FS_CardinalityType
  <1>4. /\ DOMAIN rows = 1 .. n /\ Len(rows) = n
        /\ \A x \in V : Line(t, closed, x) \in 1 .. n /\ rows[Line(t, closed, x)] = x
        /\ \A i \in 1 .. n : rows[i] \in V /\ Line(t, closed, rows[i]) = i
    BY <1>1, <1>2, <1>3, RowsAreLines
  <1>5. V \subseteq Pages /\ V \subseteq Panel!Ids(t)
    BY <1>1, <1>2, VisibleAre
  <1>6. Panel!Range(rows) = V
    BY <1>4 DEF Panel!Range
  <1>7. ASSUME NEW x \in V
        PROVE  Panel!IndexIn(rows, x) = Line(t, closed, x)
    <2>1. PICK k : k = Panel!IndexIn(rows, x)
      OBVIOUS
    <2>2. k \in DOMAIN rows /\ rows[k] = x
      BY <1>4, <2>1 DEF Panel!IndexIn
    <2> QED
      BY <1>4, <2>1, <2>2
  <1>8. rows = <<>> <=> n = 0
    <2>1. rows = <<>> => n = 0
      BY <1>4
    <2>2. n = 0 => rows = <<>>
      <3> SUFFICES ASSUME n = 0 PROVE rows = <<>>
        OBVIOUS
      <3>1. rows = [i \in 1 .. n |-> rows[i]]
        BY <1>4 DEF Panel!VisibleRows
      <3> QED
        BY <1>3, <3>1
    <2> QED
      BY <2>1, <2>2
  <1> QED
    BY <1>4, <1>5, <1>6, <1>7, <1>8

(* The heir is a row in sight. *)
LEMMA HeirIsShown ==
    ASSUME Panel!PanelAssumption, NEW t, WellFormed(t), NEW closed,
           NEW rows, rows = Panel!VisibleRows(t, closed), rows # <<>>,
           NEW id, NEW index \in Nat, index >= 1
    PROVE  Panel!Heir(rows, id, index) \in Panel!Visible(t, closed)
  <1>1. PICK V : V = Panel!Visible(t, closed)
    OBVIOUS
  <1>2. PICK n \in Nat : n = Len(rows) /\ n # 0
    BY <1>1, RowsTaken
  <1>3. /\ Panel!Range(rows) = V
        /\ \A i \in 1 .. n : rows[i] \in V
    BY <1>1, <1>2, RowsTaken
  <1>4. Panel!Min({index, n}) \in 1 .. n
    <2>1. PICK k \in {index, n} : \A y \in {index, n} : k <= y
      <3>1. CASE index <= n
        BY <3>1
      <3>2. CASE n <= index
        BY <3>2
      <3> QED
        BY <3>1, <3>2
    <2>2. Panel!Min({index, n}) = k
      <3>1. {index, n} \subseteq Int
        OBVIOUS
      <3> QED
        BY <2>1, <3>1, PanelMin
    <2> QED
      BY <1>2, <2>1, <2>2
  <1> QED
    BY <1>1, <1>2, <1>3, <1>4 DEF Panel!Heir

(* What the effect leaves: the tab stop, its index and the focused element. *)
LEMMA EffectKeeps ==
    ASSUME Panel!PanelAssumption, NEW t, WellFormed(t), NEW closed,
           NEW rows, rows = Panel!VisibleRows(t, closed),
           NEW id \in Pages \cup {Root}, NEW index \in Nat,
           NEW e \in Pages \cup {Body, Away}, NEW has \in BOOLEAN,
           has => id \in Pages /\ index >= 1,
           e \in Pages => e \in Panel!Visible(t, closed) /\ e = id /\ has,
           Panel!Effect(rows, id, index, e, has)
    PROVE  /\ focusedId' \in Pages \cup {Root} /\ focusIndex' \in Nat
           /\ at' \in Pages \cup {Body, Away}
           /\ has => focusedId' \in Pages /\ focusIndex' >= 1
           /\ at' \in Pages => at' \in Panel!Visible(t, closed) /\ at' = focusedId' /\ has
           /\ has /\ at' = Body => rows = <<>>
  <1>0. Body \notin Pages /\ Away \notin Pages /\ Away # Body /\ Root \notin Pages
    BY PagesAreNumbers
  <1>1. PICK V : V = Panel!Visible(t, closed)
    OBVIOUS
  <1>2. /\ V \subseteq Pages /\ Panel!Range(rows) = V
        /\ Len(rows) \in Nat
        /\ \A x \in V : Panel!IndexIn(rows, x) \in 1 .. Len(rows)
    BY <1>1, RowsTaken
  <1>3. PICK reclaims \in BOOLEAN : reclaims <=> has /\ e = Body /\ id # Root /\ rows # <<>>
    OBVIOUS
  <1>4. CASE reclaims
    <2>1. PICK heir : heir = Panel!Heir(rows, id, index)
      OBVIOUS
    <2>2. heir \in V
      BY <1>1, <1>3, <1>4, <2>1, HeirIsShown
    <2>3. heir # Root /\ heir \in Pages
      BY <1>0, <1>2, <2>2
    <2>4. focusedId' = heir /\ at' = heir /\ focusIndex' = Panel!IndexIn(rows, heir)
      BY <1>3, <1>4, <2>1, <2>3 DEF Panel!Effect
    <2>5. focusIndex' \in 1 .. Len(rows)
      BY <1>2, <2>2, <2>4
    <2> QED
      BY <1>0, <1>1, <1>2, <1>3, <1>4, <2>2, <2>3, <2>4, <2>5
  <1>5. CASE ~ reclaims
    <2>1. focusedId' = id /\ at' = e /\ focusIndex' = Panel!RowIndex(rows, id, index)
      BY <1>3, <1>5 DEF Panel!Effect
    <2>2. focusIndex' \in Nat /\ (has => focusIndex' >= 1)
      BY <1>2, <2>1 DEF Panel!RowIndex
    <2> QED
      BY <1>0, <1>1, <1>3, <1>5, <2>1, <2>2
  <1> QED
    BY <1>4, <1>5

(* Well-formed trees, the tab stop a row of the panel once the tree has had the *)
(* focus, and the focus in the tree on a row in sight.                        *)
TreeInv ==
  /\ WellFormed(tree)
  /\ changes \in Nat /\ OrdersUpTo(tree, Cardinality(Pages) + changes)

FocusInv ==
  /\ TreeInv
  /\ Panel!TypeOK
  /\ owns => focusedId \in Pages /\ focusIndex >= 1
  /\ Panel!FocusKept

LEMMA TreeTypes ==
    ASSUME WellFormed(tree)
    PROVE  /\ DOMAIN tree.pages \cap DOMAIN tree.drafts = {}
           /\ tree.pages \in [DOMAIN tree.pages -> [parent : Pages \cup {Root}, order : Nat]]
           /\ tree.drafts \in [DOMAIN tree.drafts -> Pages \cup {Root}]
           /\ Panel!Ids(tree) \subseteq Pages
  BY DEF WellFormed, Tidy, Panel!Ids

(* A store change, a move or a collapse, with the effects that follow it. *)
LEMMA RerenderKeeps ==
    ASSUME Panel!PanelAssumption, FocusInv, TreeInv', collapsed' \subseteq Pages, Panel!Rerender
    PROVE  FocusInv'
  <1>0. Body \notin Pages /\ Away \notin Pages /\ Away # Body /\ Root \notin Pages
    BY PagesAreNumbers
  <1>1. WellFormed(tree) /\ WellFormed(tree')
    BY DEF FocusInv, TreeInv
  <1>2. /\ focusedId \in Pages \cup {Root} /\ focusIndex \in Nat
        /\ owns \in BOOLEAN /\ dropped \in BOOLEAN /\ at \in Pages \cup {Body, Away}
        /\ at \in Pages => at = focusedId /\ owns
        /\ owns => focusedId \in Pages /\ focusIndex >= 1
    BY DEF FocusInv, Panel!TypeOK
  <1>3. PICK index : index = Panel!RowIndex(Panel!Rows, focusedId, focusIndex)
    OBVIOUS
  <1>4. index \in Nat /\ (owns => index >= 1)
    <2>1. /\ Panel!Range(Panel!Rows) = Panel!Shown
          /\ Len(Panel!Rows) \in Nat
          /\ \A x \in Panel!Shown : Panel!IndexIn(Panel!Rows, x) \in 1 .. Len(Panel!Rows)
      BY <1>1, RowsTaken DEF Panel!Rows, Panel!Shown
    <2> QED
      BY <1>2, <1>3, <2>1 DEF Panel!RowIndex
  <1>5. PICK e : e = IF at \in Pages /\ Panel!Remounted(at) THEN Body ELSE at
    OBVIOUS
  <1>6. /\ e \in Pages \cup {Body, Away}
        /\ e \in Pages => e \in Panel!Visible(tree', collapsed') /\ e = focusedId /\ owns
    BY <1>0, <1>2, <1>5 DEF Panel!Remounted
  <1>7. Panel!Effect(Panel!VisibleRows(tree', collapsed'), focusedId, index, e, owns)
    BY <1>3, <1>5 DEF Panel!Rerender, Panel!Rows
  <1>8. dropped' = (dropped /\ at' = Body) /\ owns' = owns
    BY DEF Panel!Rerender
  <1>9. /\ focusedId' \in Pages \cup {Root} /\ focusIndex' \in Nat
        /\ at' \in Pages \cup {Body, Away}
        /\ owns => focusedId' \in Pages /\ focusIndex' >= 1
        /\ at' \in Pages => /\ at' \in Panel!Visible(tree', collapsed')
                            /\ at' = focusedId' /\ owns
        /\ owns /\ at' = Body => Panel!VisibleRows(tree', collapsed') = <<>>
    BY <1>1, <1>2, <1>4, <1>6, <1>7, EffectKeeps
  <1>10. Panel!TypeOK'
    <2>1. /\ DOMAIN tree'.pages \cap DOMAIN tree'.drafts = {}
          /\ tree'.pages \in [DOMAIN tree'.pages -> [parent : Pages \cup {Root}, order : Nat]]
          /\ tree'.drafts \in [DOMAIN tree'.drafts -> Pages \cup {Root}]
          /\ Panel!Ids(tree') \subseteq Pages
      BY <1>1 DEF WellFormed, Tidy, Panel!Ids
    <2> QED
      BY <1>2, <1>8, <1>9, <2>1 DEF Panel!TypeOK, Panel!Shown
  <1>11. Panel!FocusKept'
    BY <1>8, <1>9 DEF Panel!FocusKept, Panel!Rows
  <1> QED
    BY <1>8, <1>9, <1>10, <1>11 DEF FocusInv

(* The user takes the focus to a row in sight. *)
LEMMA FocusStep ==
    ASSUME Panel!PanelAssumption, FocusInv, NEW id \in Panel!Shown, Panel!Focus(id)
    PROVE  FocusInv'
  <1>0. Body \notin Pages /\ Away \notin Pages /\ Away # Body /\ Root \notin Pages
    BY PagesAreNumbers
  <1>1. WellFormed(tree)
    BY DEF FocusInv, TreeInv
  <1>2. /\ tree' = tree /\ collapsed' = collapsed /\ changes' = changes
        /\ focusedId' = id /\ at' = id /\ owns' = TRUE /\ dropped' = FALSE
        /\ focusIndex' = Panel!IndexIn(Panel!Rows, id)
    BY DEF Panel!Focus
  <1>3. id \in Pages /\ focusIndex' \in Nat /\ focusIndex' >= 1
    <2>1. /\ Panel!Shown \subseteq Pages /\ Len(Panel!Rows) \in Nat
          /\ \A x \in Panel!Shown : Panel!IndexIn(Panel!Rows, x) \in 1 .. Len(Panel!Rows)
      BY <1>1, RowsTaken DEF Panel!Rows, Panel!Shown
    <2> QED
      BY <1>2, <2>1
  <1>4. TreeInv'
    BY <1>2 DEF FocusInv, TreeInv
  <1>5. Panel!TypeOK'
    BY <1>2, <1>3 DEF FocusInv, Panel!TypeOK, Panel!Shown
  <1>6. Panel!FocusKept'
    BY <1>0, <1>2, <1>3 DEF Panel!FocusKept
  <1> QED
    BY <1>2, <1>3, <1>4, <1>5, <1>6 DEF FocusInv

LEMMA FocusLeavesStep ==
    ASSUME Panel!PanelAssumption, FocusInv, Panel!FocusOutside \/ Panel!ClickAway
    PROVE  FocusInv'
  <1>0. Body \notin Pages /\ Away \notin Pages /\ Away # Body /\ Root \notin Pages
    BY PagesAreNumbers
  <1>1. /\ tree' = tree /\ collapsed' = collapsed /\ changes' = changes
        /\ focusedId' = focusedId /\ focusIndex' = focusIndex
    BY DEF Panel!FocusOutside, Panel!ClickAway
  <1>2. owns \in BOOLEAN
    BY DEF FocusInv, Panel!TypeOK
  <1>3. /\ at' \in {Away, Body} /\ dropped' \in BOOLEAN /\ owns' \in BOOLEAN
        /\ (owns' => owns) /\ (at' = Body => dropped')
    <2>1. CASE Panel!FocusOutside
      <3>1. at' = Away /\ owns' = (owns /\ at = Body) /\ dropped' = FALSE
        BY <2>1 DEF Panel!FocusOutside
      <3> QED
        BY <1>0, <1>2, <3>1
    <2>2. CASE Panel!ClickAway
      <3>1. at' = Body /\ owns' = owns /\ dropped' = TRUE
        BY <2>2 DEF Panel!ClickAway
      <3> QED
        BY <1>2, <3>1
    <2> QED
      BY <2>1, <2>2
  <1>4. TreeInv'
    BY <1>1 DEF FocusInv, TreeInv
  <1>5. Panel!TypeOK'
    BY <1>0, <1>1, <1>3 DEF FocusInv, Panel!TypeOK
  <1>6. Panel!FocusKept'
    BY <1>3 DEF Panel!FocusKept
  <1> QED
    BY <1>1, <1>3, <1>4, <1>5, <1>6 DEF FocusInv

(* The arrow keys step from row to row. *)
LEMMA StepTargetsShow ==
    ASSUME Panel!PanelAssumption, WellFormed(tree), NEW id \in Panel!Shown
    PROVE  Panel!StepTargets(id) \subseteq Panel!Shown
  <1>1. PICK lvl : Levels(tree, lvl)
    BY LevelsOfAll
  <1>2. Tidy(tree)
    BY DEF WellFormed
  <1>3. PICK rows : rows = Panel!Rows
    OBVIOUS
  <1>4. PICK V : V = Panel!Shown
    OBVIOUS
  <1>5. PICK n \in Nat : n = Cardinality(V)
    BY <1>1, <1>2, <1>4, VisibleAre, FS_CardinalityType DEF Panel!Shown
  <1>6. /\ DOMAIN rows = 1 .. n
        /\ \A x \in V : Line(tree, collapsed, x) \in 1 .. n
        /\ \A i \in 1 .. n : rows[i] \in V
        /\ \A x, y \in V :
             Panel!Above(tree, x, y) => Line(tree, collapsed, x) < Line(tree, collapsed, y)
    BY <1>1, <1>2, <1>3, <1>4, <1>5, RowsAreLines DEF Panel!Shown, Panel!Rows
  <1>7. PICK i : i = Panel!IndexIn(rows, id)
    OBVIOUS
  <1>8. i = Line(tree, collapsed, id) /\ i \in 1 .. n
    BY <1>3, <1>4, <1>6, <1>7, RowsTaken DEF Panel!Shown, Panel!Rows
  <1>9. \A j \in DOMAIN rows : rows[j] \in V
    BY <1>6
  <1>10. ASSUME Panel!HasChildren(id), id \notin collapsed
         PROVE  rows[i + 1] \in V
    <2>1. PICK c \in Panel!Group(tree, id) : TRUE
      BY <1>10 DEF Panel!HasChildren
    <2>2. c \in V /\ Panel!Above(tree, id, c)
      BY <1>1, <1>2, <1>4, <1>10, ChildIsVisible DEF Panel!Shown
    <2>3. i < Line(tree, collapsed, c) /\ Line(tree, collapsed, c) \in 1 .. n
      BY <1>4, <1>6, <1>8, <2>2
    <2>4. i + 1 \in 1 .. n
      BY <1>5, <1>8, <2>3
    <2> QED
      BY <1>6, <2>4
  <1>11. ASSUME Panel!ShownParent(tree, id) # Root
         PROVE  Panel!ShownParent(tree, id) \in V
    BY <1>1, <1>2, <1>4, <1>11, ParentIsVisible DEF Panel!Shown
  <1> QED
    BY <1>3, <1>4, <1>7, <1>9, <1>10, <1>11 DEF Panel!StepTargets

LEMMA CollapseStep ==
    ASSUME Panel!PanelAssumption, FocusInv, NEW ids, ids \subseteq Pages,
           NEW close, Panel!Collapse(ids, close)
    PROVE  FocusInv'
  <1>1. tree' = tree /\ changes' = changes /\ Panel!Rerender
    BY DEF Panel!Collapse
  <1>2. collapsed' \subseteq Pages
    BY DEF Panel!Collapse, FocusInv, Panel!TypeOK
  <1>3. TreeInv'
    BY <1>1 DEF FocusInv, TreeInv
  <1> QED
    BY <1>1, <1>2, <1>3, RerenderKeeps

LEMMA MoveStep ==
    ASSUME Panel!PanelAssumption, FocusInv, NEW m, Legal(tree, m), Panel!Moves(m)
    PROVE  FocusInv'
  <1>1. tree' = Panel!After(tree, m) /\ changes' = changes /\ collapsed' = collapsed
          /\ Panel!Rerender
    BY DEF Panel!Moves
  <1>2. collapsed' \subseteq Pages
    BY <1>1 DEF FocusInv, Panel!TypeOK
  <1>3. /\ WellFormed(tree) /\ Tidy(tree) /\ changes \in Nat
        /\ OrdersUpTo(tree, Cardinality(Pages) + changes)
    BY DEF FocusInv, TreeInv, WellFormed
  <1>4. Cardinality(Pages) \in Nat
    BY PagesAreNumbers
  <1>5. PICK n \in Nat : n = Cardinality(Pages) + changes /\ n >= Cardinality(Pages)
    BY <1>3, <1>4
  <1>6. WellFormed(Panel!After(tree, m)) /\ OrdersUpTo(Panel!After(tree, m), n)
    BY <1>3, <1>5, AfterIsWellFormed, AfterIsTidy
  <1>7. TreeInv'
    BY <1>1, <1>3, <1>5, <1>6 DEF TreeInv
  <1> QED
    BY <1>1, <1>2, <1>7, RerenderKeeps

LEMMA ChangeStep ==
    ASSUME Panel!PanelAssumption, FocusInv, NEW t, WellFormed(t),
           OrdersUpTo(t, Cardinality(Pages) + changes + 1), Panel!Changed(t)
    PROVE  FocusInv'
  <1>1. tree' = t /\ changes' = changes + 1 /\ collapsed' = collapsed /\ Panel!Rerender
    BY DEF Panel!Changed
  <1>2. collapsed' \subseteq Pages
    BY <1>1 DEF FocusInv, Panel!TypeOK
  <1>3. changes \in Nat /\ Cardinality(Pages) \in Nat
    BY PagesAreNumbers DEF FocusInv, TreeInv
  <1>4. Cardinality(Pages) + (changes + 1) = Cardinality(Pages) + changes + 1
    BY <1>3
  <1>5. TreeInv'
    BY <1>1, <1>3, <1>4 DEF TreeInv
  <1> QED
    BY <1>1, <1>2, <1>5, RerenderKeeps

LEMMA StoreStep ==
    ASSUME Panel!PanelAssumption, FocusInv,
           \/ Panel!PageLeaves \/ Panel!DraftLeaves \/ Panel!DraftPublished
           \/ Panel!DraftArrives \/ Panel!PageMoved
    PROVE  FocusInv'
  <1>1. /\ WellFormed(tree) /\ Tidy(tree) /\ changes \in Nat
        /\ OrdersUpTo(tree, Cardinality(Pages) + changes)
    BY DEF FocusInv, TreeInv, WellFormed
  <1>2. Cardinality(Pages) \in Nat
    BY PagesAreNumbers
  <1>3. PICK n \in Nat : n = Cardinality(Pages) + changes
    BY <1>1, <1>2
  <1>4. \A t : OrdersUpTo(t, n) /\ Tidy(t) => OrdersUpTo(t, n + 1)
    <2> SUFFICES ASSUME NEW t, OrdersUpTo(t, n), Tidy(t) PROVE OrdersUpTo(t, n + 1)
      OBVIOUS
    <2>1. \A p \in DOMAIN t.pages : t.pages[p].order \in Nat /\ t.pages[p].order <= n
      BY DEF OrdersUpTo, Tidy
    <2> QED
      BY <2>1 DEF OrdersUpTo
  <1>5. ASSUME NEW t, WellFormed(t), OrdersUpTo(t, n), Panel!Changed(t)
        PROVE  FocusInv'
    <2>1. OrdersUpTo(t, Cardinality(Pages) + changes + 1)
      BY <1>3, <1>4, <1>5 DEF WellFormed
    <2> QED
      BY <1>5, <2>1, ChangeStep
  <1>6. CASE Panel!PageLeaves
    <2>1. PICK p \in DOMAIN tree.pages :
            Panel!Changed([tree EXCEPT !.pages
              = Panel!Without(@, {p} \cup Panel!Descendants(tree, p))])
      BY <1>6 DEF Panel!PageLeaves
    <2>2. PICK t : t = [tree EXCEPT !.pages = Panel!Without(@, {p} \cup Panel!Descendants(tree, p))]
      OBVIOUS
    <2>6. PICK S : S = {p} \cup Panel!Descendants(tree, p)
      OBVIOUS
    <2>4. /\ t = [pages |-> t.pages, drafts |-> tree.drafts]
          /\ t.pages = [x \in DOMAIN tree.pages \ S |-> tree.pages[x]]
      BY <1>1, <2>2, <2>6 DEF Tidy, Panel!Without
    <2>5. WellFormed(t) /\ \A k : OrdersUpTo(tree, k) => OrdersUpTo(t, k)
      BY <1>1, <2>4, <2>6, PageLeavesWellFormed
    <2>3. WellFormed(t) /\ OrdersUpTo(t, n)
      BY <1>1, <1>3, <2>5
    <2> QED
      BY <1>5, <2>1, <2>2, <2>3
  <1>7. CASE Panel!DraftLeaves
    <2>1. PICK d \in DOMAIN tree.drafts :
            Panel!Changed([tree EXCEPT !.drafts = Panel!Without(@, {d})])
      BY <1>7 DEF Panel!DraftLeaves
    <2>2. PICK t : t = [tree EXCEPT !.drafts = Panel!Without(@, {d})]
      OBVIOUS
    <2>3. /\ t = [pages |-> tree.pages, drafts |-> t.drafts]
          /\ t.drafts = [x \in DOMAIN tree.drafts \ {d} |-> tree.drafts[x]]
      BY <1>1, <2>2 DEF Tidy, Panel!Without
    <2>4. /\ DOMAIN tree.drafts \subseteq Pages \ DOMAIN tree.pages
          /\ tree.drafts \in [DOMAIN tree.drafts -> Pages \cup {Root}]
      BY <1>1 DEF Tidy
    <2>5. /\ DOMAIN t.drafts \subseteq Pages \ DOMAIN tree.pages
          /\ t.drafts \in [DOMAIN t.drafts -> Pages \cup {Root}]
      BY <2>3, <2>4
    <2>6. WellFormed(t) /\ OrdersUpTo(t, n)
      BY <1>1, <1>3, <2>3, <2>5, DraftsChangeWellFormed
    <2> QED
      BY <1>5, <2>1, <2>2, <2>6
  <1>8. CASE Panel!DraftPublished
    <2>1. PICK d \in DOMAIN tree.drafts :
            Panel!Changed([pages |-> [x \in DOMAIN tree.pages \cup {d} |->
                             IF x = d THEN [parent |-> Panel!ShownParent(tree, d),
                                            order |-> Panel!Cardinality(Pages) + changes + 1]
                             ELSE tree.pages[x]],
                           drafts |-> Panel!Without(tree.drafts, {d})])
      BY <1>8 DEF Panel!DraftPublished
    <2>2. PICK t : t = [pages |-> [x \in DOMAIN tree.pages \cup {d} |->
                             IF x = d THEN [parent |-> Panel!ShownParent(tree, d), order |-> n + 1]
                             ELSE tree.pages[x]],
                        drafts |-> Panel!Without(tree.drafts, {d})]
      OBVIOUS
    <2>3. Panel!Cardinality(Pages) + changes + 1 = n + 1
      BY <1>3, PanelNumbers
    <2>4. Panel!Changed(t)
      BY <2>1, <2>2, <2>3
    <2>5. WellFormed(t) /\ OrdersUpTo(t, n + 1)
      BY <1>1, <1>3, <2>2, PublishedWellFormed
    <2> QED
      BY <1>3, <2>4, <2>5, ChangeStep
  <1>9. CASE Panel!DraftArrives
    <2>1. PICK d \in Pages \ Panel!Ids(tree), parent \in DOMAIN tree.pages \cup {Root} :
            Panel!Changed([tree EXCEPT !.drafts = [x \in DOMAIN @ \cup {d} |->
                                                     IF x = d THEN parent ELSE @[x]]])
      BY <1>9 DEF Panel!DraftArrives
    <2>2. PICK t : t = [tree EXCEPT !.drafts = [x \in DOMAIN @ \cup {d} |->
                                                  IF x = d THEN parent ELSE @[x]]]
      OBVIOUS
    <2>3. /\ t = [pages |-> tree.pages, drafts |-> t.drafts]
          /\ t.drafts = [x \in DOMAIN tree.drafts \cup {d} |->
                           IF x = d THEN parent ELSE tree.drafts[x]]
      BY <1>1, <2>2 DEF Tidy
    <2>4. /\ DOMAIN tree.drafts \subseteq Pages \ DOMAIN tree.pages
          /\ tree.drafts \in [DOMAIN tree.drafts -> Pages \cup {Root}]
          /\ d \in Pages \ DOMAIN tree.pages /\ parent \in Pages \cup {Root}
      BY <1>1 DEF Tidy, Panel!Ids
    <2>5. /\ DOMAIN t.drafts \subseteq Pages \ DOMAIN tree.pages
          /\ t.drafts \in [DOMAIN t.drafts -> Pages \cup {Root}]
      BY <2>3, <2>4
    <2>6. WellFormed(t) /\ OrdersUpTo(t, n)
      BY <1>1, <1>3, <2>3, <2>5, DraftsChangeWellFormed
    <2> QED
      BY <1>5, <2>1, <2>2, <2>6
  <1>10. CASE Panel!PageMoved
    <2>1. PICK p \in DOMAIN tree.pages, parent \in DOMAIN tree.pages \cup {Root} :
            /\ parent # p /\ parent \notin Panel!Descendants(tree, p)
            /\ Panel!Changed(Panel!After(tree, Panel!Move(p, parent, 0)))
      BY <1>10 DEF Panel!PageMoved
    <2>2. PICK m : m = Panel!Move(p, parent, 0)
      OBVIOUS
    <2>3. Legal(tree, m)
      BY <2>1, <2>2 DEF Legal, Panel!Move
    <2>4. n >= Cardinality(Pages)
      BY <1>1, <1>2, <1>3
    <2>5. WellFormed(Panel!After(tree, m)) /\ OrdersUpTo(Panel!After(tree, m), n)
      BY <1>1, <1>3, <2>3, <2>4, AfterIsWellFormed, AfterIsTidy
    <2> QED
      BY <1>5, <2>1, <2>2, <2>5
  <1> QED
    BY <1>6, <1>7, <1>8, <1>9, <1>10

LEMMA FocusInvInit ==
    ASSUME Panel!PanelAssumption, Panel!Init
    PROVE  FocusInv
  <1>0. Body \notin Pages /\ Away \notin Pages /\ Away # Body /\ Cardinality(Pages) \in Nat
    BY PagesAreNumbers
  <1>1. /\ tree \in Panel!Trees /\ collapsed = {} /\ focusedId = Root /\ focusIndex = 0
        /\ owns = FALSE /\ at = Away /\ dropped = FALSE /\ changes = 0
    BY DEF Panel!Init
  <1>2. WellFormed(tree) /\ OrdersUpTo(tree, Cardinality(Pages))
    BY <1>1, TreesAreWellFormed
  <1>3. Cardinality(Pages) + changes = Cardinality(Pages)
    BY <1>0, <1>1
  <1>4. TreeInv
    BY <1>1, <1>2, <1>3 DEF TreeInv
  <1>5. Panel!TypeOK
    BY <1>0, <1>1, <1>2, TreeTypes DEF Panel!TypeOK
  <1>6. Panel!FocusKept
    BY <1>1 DEF Panel!FocusKept
  <1> QED
    BY <1>1, <1>4, <1>5, <1>6 DEF FocusInv

LEMMA FocusInvStep ==
    ASSUME Panel!PanelAssumption, FocusInv, [Panel!Next]_Panel!vars
    PROVE  FocusInv'
  <1>1. WellFormed(tree) /\ Tidy(tree)
    BY DEF FocusInv, TreeInv, WellFormed
  <1>2. /\ Panel!Shown \subseteq Panel!Ids(tree) /\ Panel!Shown \subseteq Pages
    BY <1>1, RowsTaken DEF Panel!Shown
  <1>3. CASE Panel!ClickRow
    BY <1>3, FocusStep DEF Panel!ClickRow
  <1>4. CASE Panel!TabIn
    BY <1>4, FocusStep DEF Panel!TabIn, Panel!TabStops
  <1>5. CASE Panel!FocusOutside \/ Panel!ClickAway
    BY <1>5, FocusLeavesStep
  <1>6. CASE Panel!KeyStep
    <2>1. PICK id \in Panel!StepTargets(at) : Panel!Focus(id) /\ at \in Panel!Shown
      BY <1>6 DEF Panel!KeyStep, Panel!Key
    <2>2. id \in Panel!Shown
      BY <1>1, <2>1, StepTargetsShow
    <2> QED
      BY <2>1, <2>2, FocusStep
  <1>7. CASE Panel!KeyToggle
    <2>1. {at} \subseteq Pages /\ Panel!Collapse({at}, at \notin collapsed)
      BY <1>7 DEF Panel!KeyToggle
    <2> QED
      BY <2>1, CollapseStep
  <1>8. CASE Panel!Chevron
    <2>1. PICK id \in Panel!Shown : \E ids \in {{id}, {id} \cup Panel!Descendants(tree, id)} :
                                      Panel!Collapse(ids, id \notin collapsed)
      BY <1>8 DEF Panel!Chevron
    <2>2. PICK ids \in {{id}, {id} \cup Panel!Descendants(tree, id)} :
            Panel!Collapse(ids, id \notin collapsed)
      BY <2>1
    <2>3. Panel!Descendants(tree, id) \subseteq Panel!Ids(tree) /\ Panel!Ids(tree) \subseteq Pages
      <3>1. PICK lvl : Levels(tree, lvl)
        BY <1>1, LevelsOfAll
      <3> QED
        BY <1>1, <1>2, <3>1, DescendantsAre, TreeTypes
    <2>4. ids \subseteq Pages
      BY <1>2, <2>3
    <2> QED
      BY <2>2, <2>4, CollapseStep
  <1>9. CASE Panel!KeyMove
    <2>1. PICK intent \in Panel!Intents : Panel!Moves(Panel!resolveReorder(tree, at, intent))
      BY <1>9 DEF Panel!KeyMove
    <2>2. at \in Panel!Ids(tree)
      BY <1>2, <1>9 DEF Panel!KeyMove
    <2>3. PICK m : m = Panel!resolveReorder(tree, at, intent)
      OBVIOUS
    <2>4. Panel!Moves(m) /\ Panel!IsMove(m)
      BY <2>1, <2>3 DEF Panel!Moves
    <2>5. Legal(tree, m)
      BY <1>1, <2>2, <2>3, <2>4, KeyMovesAreLegal
    <2> QED
      BY <2>4, <2>5, MoveStep
  <1>10. CASE Panel!DropPage
    <2>1. PICK source \in DOMAIN tree.pages \cap Panel!Shown, drop \in Panel!Drops,
               target \in DOMAIN tree.pages \cup {Root} :
            /\ Panel!MayDrop(tree, source, target, drop, collapsed)
            /\ Panel!Moves(Panel!resolveMove(tree, source, target, drop))
      BY <1>10 DEF Panel!DropPage
    <2>2. PICK m : m = Panel!resolveMove(tree, source, target, drop)
      OBVIOUS
    <2>3. Legal(tree, m)
      BY <1>1, <2>1, <2>2, DropsAreLegal
    <2> QED
      BY <2>1, <2>2, <2>3, MoveStep
  <1>11. CASE \/ Panel!PageLeaves \/ Panel!DraftLeaves \/ Panel!DraftPublished
              \/ Panel!DraftArrives \/ Panel!PageMoved
    BY <1>11, StoreStep
  <1>12. CASE UNCHANGED Panel!vars
    BY <1>12 DEF Panel!vars, Panel!focus, FocusInv, TreeInv, Panel!TypeOK, Panel!FocusKept,
                 Panel!Shown, Panel!Rows
  <1> QED
    BY <1>3, <1>4, <1>5, <1>6, <1>7, <1>8, <1>9, <1>10, <1>11, <1>12 DEF Panel!Next

(* While the tree has the focus, no move, collapse or deletion leaves it on    *)
(* the body, whatever the pages, the cap and the changes of others             *)
(* (page_tree_panel.tsx, the layout effect).                                   *)
THEOREM PanelFocusKept ==
    ASSUME Panel!PanelAssumption
    PROVE  Panel!Spec => []Panel!FocusKept
  <1>1. Panel!Init => FocusInv
    BY FocusInvInit
  <1>2. FocusInv /\ [Panel!Next]_Panel!vars => FocusInv'
    BY FocusInvStep
  <1>3. FocusInv => Panel!FocusKept
    BY DEF FocusInv
  <1> QED
    BY <1>1, <1>2, <1>3, PTL DEF Panel!Spec

=============================================================================
