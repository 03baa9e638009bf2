------------------------- MODULE EditingPartsProofs -------------------------
(***************************************************************************)
(* Proofs about PagePresence, for any set of editors and any timeout,      *)
(* interval and number of broadcasts on their way; about EditBaseline, for *)
(* any bounds, whether or not the store is refreshed while the editor is   *)
(* open; and about PageTitle, for any titles and bounds.                   *)
(***************************************************************************)
EXTENDS PagePresence, Sequences, FiniteSetTheorems, TLAPS

CONSTANTS
  Refreshes, ActsLoading, MaxEdit, MaxBody,
  Titles, Untitled, Blank, Others, MaxTyped, MaxChanges, MaxFailures

VARIABLES
  page, draft, storePage, storeDraft, own, readDraft, readPage, loaded, editing, queued,
  shown, stems,
  titlePublished, pageTitle, draftTitle, titleMounted, titleEditing, props, buffer,
  titleInflight, typed, back, due, edits, changes, titleFailures

Baseline == INSTANCE EditBaseline

Title == INSTANCE PageTitle WITH
  published <- titlePublished, mounted <- titleMounted, editing <- titleEditing,
  inflight <- titleInflight, failures <- titleFailures

USE DEF Kinds

-----------------------------------------------------------------------------
(* Types *)

Task == [step : {"done", "stamped"}, at : Ages]
Taken == [at : Ages, who : SUBSET Editors]
Reading == [step : {"asked", "stamped", "queried"}, at : Ages, who : SUBSET Editors]

\* The types of all that TypeOK names, the functions and records among them.
Typed ==
  /\ drafts \in [Editors -> Ages \cup {None}] /\ times \in [Editors -> Ages \cup {None}]
  /\ tasks \in [Editors -> [Kinds -> Task \cup {None}]]
  /\ events \subseteq Taken /\ IsFiniteSet(events) /\ Cardinality(events) <= MaxEvents
  /\ viewing \in BOOLEAN /\ expired \in BOOLEAN
  /\ snapshot \in Taken \cup {None} /\ (snapshot # None => viewing)
  /\ fetch \in Reading \cup {None} /\ (fetch # None => viewing)

LEMMA TypedIsTypeOK ==
    ASSUME Typed
    PROVE  TypeOK
  <1>1. \A u \in Editors : drafts[u] \in Ages \cup {None} /\ times[u] \in Ages \cup {None}
    BY DEF Typed
  <1>2. \A u \in Editors, k \in Kinds : tasks[u][k] \in Task \cup {None}
    BY DEF Typed
  <1>3. \A u \in Editors, k \in Kinds :
          tasks[u][k] # None =>
            tasks[u][k].step \in {"done", "stamped"} /\ tasks[u][k].at \in Ages
    BY <1>2 DEF Task
  <1>4. \A e \in events : e.at \in Ages /\ e.who \subseteq Editors
    BY DEF Typed, Taken
  <1>5. snapshot # None => viewing /\ snapshot.at \in Ages /\ snapshot.who \subseteq Editors
    BY DEF Typed, Taken
  <1>6. fetch # None => viewing /\ fetch.step \in {"asked"} \cup Stamped
    BY DEF Typed, Reading, Stamped
  <1> QED
    BY <1>1, <1>3, <1>4, <1>5, <1>6 DEF Typed, TypeOK

LEMMA AgesAreNumbers ==
    ASSUME PresenceAssumption
    PROVE  /\ Ages \subseteq Nat /\ 0 \in Ages /\ Old \in Ages /\ None \notin Ages
           /\ \A a \in Ages : a <= Old
           /\ None \notin Task /\ None \notin Taken /\ None \notin Reading
  <1>1. Timeout \in Nat /\ None \notin Nat
    BY DEF PresenceAssumption
  <1>2. Ages \subseteq Nat /\ 0 \in Ages /\ Old \in Ages /\ \A a \in Ages : a <= Old
    BY <1>1 DEF Ages, Old
  <1>3. /\ Task \subseteq [step : {"done", "stamped"}, at : Nat]
        /\ Taken \subseteq [at : Nat, who : SUBSET Editors]
        /\ Reading \subseteq [step : {"asked", "stamped", "queried"}, at : Nat,
                              who : SUBSET Editors]
    BY <1>2 DEF Task, Taken, Reading
  <1> QED
    BY <1>1, <1>2, <1>3 DEF PresenceAssumption

(* A millisecond older, up to the age that is past every timeout. *)
LEMMA OlderIs ==
    ASSUME PresenceAssumption, NEW a \in Ages \cup {None}
    PROVE  /\ Older(a) \in Ages \cup {None} /\ (Older(a) = None <=> a = None)
           /\ a # None => Older(a) \in Ages /\ Older(a) = IF a = Old THEN Old ELSE a + 1
  <1>1. Timeout \in Nat /\ None \notin Nat
    BY DEF PresenceAssumption
  <1> QED
    BY <1>1 DEF Older, Ages, Old

(* The order of two ages stays, except at the age past every timeout. *)
LEMMA OlderKeepsOrder ==
    ASSUME PresenceAssumption, NEW x \in Ages, NEW y \in Ages
    PROVE  /\ Older(x) \in Nat /\ Older(x) <= Old /\ (x = Old => Older(x) = Old)
           /\ Older(x) < Timeout => x < Timeout
           /\ x < y /\ (Older(x) # Old \/ Older(y) # Old) => Older(x) < Older(y)
           /\ Older(x) <= Older(y) /\ Older(y) # Old => x <= y
           /\ x <= y => Older(x) <= Older(y)
           /\ Older(x) <= x + 1
  <1>1. Timeout \in Nat /\ None \notin Nat
    BY DEF PresenceAssumption
  <1>2. x \in 0..(Timeout + 1) /\ y \in 0..(Timeout + 1) /\ Old = Timeout + 1
    BY DEF Ages, Old
  <1>3. /\ Older(x) = IF x = Timeout + 1 THEN Timeout + 1 ELSE x + 1
        /\ Older(y) = IF y = Timeout + 1 THEN Timeout + 1 ELSE y + 1
    BY <1>1, <1>2, OlderIs
  <1> QED
    BY <1>1, <1>2, <1>3

LEMMA AgedIs ==
    ASSUME PresenceAssumption
    PROVE  /\ Aged(None) = None
           /\ \A r \in Task : /\ Aged(r) \in Task /\ Aged(r) # None
                              /\ Aged(r).step = r.step /\ Aged(r).at = Older(r.at)
           /\ \A r \in Taken : /\ Aged(r) \in Taken /\ Aged(r) # None
                               /\ Aged(r).who = r.who /\ Aged(r).at = Older(r.at)
           /\ \A r \in Reading : /\ Aged(r) \in Reading /\ Aged(r) # None
                                 /\ Aged(r).step = r.step /\ Aged(r).who = r.who
                                 /\ Aged(r).at = Older(r.at)
  <1>1. None \notin Task /\ None \notin Taken /\ None \notin Reading /\ None \notin Ages
    BY AgesAreNumbers
  <1>2. \A a \in Ages : Older(a) \in Ages
    BY <1>1, OlderIs
  <1>3. \A r \in Task : Aged(r) \in Task /\ Aged(r).step = r.step /\ Aged(r).at = Older(r.at)
    BY <1>1, <1>2 DEF Aged, Task
  <1>4. \A r \in Taken : Aged(r) \in Taken /\ Aged(r).who = r.who /\ Aged(r).at = Older(r.at)
    BY <1>1, <1>2 DEF Aged, Taken
  <1>5. \A r \in Reading : /\ Aged(r) \in Reading /\ Aged(r).step = r.step
                           /\ Aged(r).who = r.who /\ Aged(r).at = Older(r.at)
    BY <1>1, <1>2 DEF Aged, Reading
  <1> QED
    BY <1>1, <1>3, <1>4, <1>5 DEF Aged

(* One request moves on; the others are as they were. *)
LEMMA PutTask ==
    ASSUME Typed, NEW u \in Editors, NEW k \in Kinds, NEW task \in Task \cup {None},
           Put(u, k, task)
    PROVE  /\ tasks' \in [Editors -> [Kinds -> Task \cup {None}]]
           /\ tasks'[u][k] = task
           /\ \A v \in Editors, j \in Kinds : v # u \/ j # k => tasks'[v][j] = tasks[v][j]
  BY DEF Typed, Put

LEMMA TaskRecords ==
    ASSUME PresenceAssumption
    PROVE  /\ NewTask \in Task /\ NewTask.step = "done" /\ NewTask.at = 0
           /\ [NewTask EXCEPT !.step = "stamped"] \in Task
           /\ [NewTask EXCEPT !.step = "stamped"].step = "stamped"
           /\ [NewTask EXCEPT !.step = "stamped"].at = 0
           /\ NewFetch \in Reading /\ NewFetch.step = "asked" /\ NewFetch.at = 0
  BY AgesAreNumbers DEF NewTask, NewFetch, Task, Reading

(* A tick: what is there stays there, a millisecond older. *)
LEMMA TickAges ==
    ASSUME PresenceAssumption, Typed, Tick
    PROVE  /\ Typed'
           /\ \A u \in Editors : drafts'[u] = Older(drafts[u]) /\ times'[u] = Older(times[u])
           /\ \A u \in Editors, k \in Kinds :
                /\ tasks'[u][k] = None <=> tasks[u][k] = None
                /\ tasks[u][k] # None =>
                     /\ tasks'[u][k].step = tasks[u][k].step
                     /\ tasks'[u][k].at = Older(tasks[u][k].at)
           /\ snapshot' = None <=> snapshot = None
           /\ snapshot # None => snapshot'.who = snapshot.who /\ snapshot'.at = Older(snapshot.at)
           /\ fetch' = None <=> fetch = None
           /\ fetch # None => /\ fetch'.step = fetch.step /\ fetch'.who = fetch.who
                              /\ fetch'.at = Older(fetch.at)
  <1>1. /\ \A r \in Task : /\ Aged(r) \in Task /\ Aged(r) # None
                           /\ Aged(r).step = r.step /\ Aged(r).at = Older(r.at)
        /\ \A r \in Taken : /\ Aged(r) \in Taken /\ Aged(r) # None
                            /\ Aged(r).who = r.who /\ Aged(r).at = Older(r.at)
        /\ \A r \in Reading : /\ Aged(r) \in Reading /\ Aged(r) # None
                              /\ Aged(r).step = r.step /\ Aged(r).who = r.who
                              /\ Aged(r).at = Older(r.at)
        /\ Aged(None) = None
    BY AgedIs
  <1>2. /\ drafts' = [u \in Editors |-> Older(drafts[u])]
        /\ times' = [u \in Editors |-> Older(times[u])]
        /\ \A a \in Ages \cup {None} : Older(a) \in Ages \cup {None}
    BY OlderIs DEF Tick
  <1>3. /\ drafts' \in [Editors -> Ages \cup {None}] /\ times' \in [Editors -> Ages \cup {None}]
        /\ \A u \in Editors : drafts'[u] = Older(drafts[u]) /\ times'[u] = Older(times[u])
    BY <1>2 DEF Typed
  <1>4. /\ \A u \in Editors, k \in Kinds : tasks[u][k] \in Task \cup {None}
        /\ tasks' = [u \in Editors |-> [k \in Kinds |-> Aged(tasks[u][k])]]
    BY DEF Typed, Tick
  <1>5. \A u \in Editors, k \in Kinds : tasks'[u][k] = Aged(tasks[u][k])
    BY <1>4
  <1>6. /\ tasks' \in [Editors -> [Kinds -> Task \cup {None}]]
        /\ \A u \in Editors, k \in Kinds :
             /\ tasks'[u][k] = None <=> tasks[u][k] = None
             /\ tasks[u][k] # None => /\ tasks'[u][k].step = tasks[u][k].step
                                      /\ tasks'[u][k].at = Older(tasks[u][k].at)
    <2>1. \A u \in Editors, k \in Kinds : Aged(tasks[u][k]) \in Task \cup {None}
      BY <1>1, <1>4
    <2>2. tasks' \in [Editors -> [Kinds -> Task \cup {None}]]
      BY <1>4, <2>1
    <2> QED
      BY <1>1, <1>4, <1>5, <2>2
  <1>7. /\ events' \subseteq Taken /\ IsFiniteSet(events') /\ Cardinality(events') <= MaxEvents
    <2>1. events' = {Aged(e) : e \in events} /\ events \subseteq Taken /\ IsFiniteSet(events)
      BY DEF Typed, Tick
    <2>2. events' \subseteq Taken
      BY <1>1, <2>1
    <2> DEFINE f == [e \in events |-> Aged(e)]
    <2>3. f \in Surjection(events, events')
      BY <2>1 DEF Surjection
    <2>4. IsFiniteSet(events') /\ Cardinality(events') <= Cardinality(events)
      BY <2>1, <2>3, FS_Surjection
    <2>5. Cardinality(events') \in Nat /\ Cardinality(events) \in Nat /\ MaxEvents \in Nat
      BY <2>1, <2>4, FS_CardinalityType DEF PresenceAssumption
    <2> QED
      BY <2>2, <2>4, <2>5 DEF Typed
  <1>8. /\ snapshot' \in Taken \cup {None} /\ (snapshot' = None <=> snapshot = None)
        /\ snapshot # None => snapshot'.who = snapshot.who /\ snapshot'.at = Older(snapshot.at)
    BY <1>1 DEF Typed, Tick
  <1>9. /\ fetch' \in Reading \cup {None} /\ (fetch' = None <=> fetch = None)
        /\ fetch # None => /\ fetch'.step = fetch.step /\ fetch'.who = fetch.who
                           /\ fetch'.at = Older(fetch.at)
    BY <1>1 DEF Typed, Tick
  <1>10. Typed'
    BY <1>3, <1>6, <1>7, <1>8, <1>9 DEF Typed, Tick
  <1> QED
    BY <1>3, <1>6, <1>8, <1>9, <1>10

LEMMA TickEvents ==
    ASSUME PresenceAssumption, Typed, Tick
    PROVE  /\ \A e \in events : \E a \in events' : a.who = e.who /\ a.at = Older(e.at)
           /\ \A a \in events' : \E e \in events : a.who = e.who /\ a.at = Older(e.at)
  <1>1. events' = {Aged(e) : e \in events} /\ events \subseteq Taken
    BY DEF Typed, Tick
  <1>2. \A e \in events : Aged(e).who = e.who /\ Aged(e).at = Older(e.at)
    BY <1>1, AgedIs
  <1> QED
    BY <1>1, <1>2

\* What a step of one request may do: it moves on, or it is answered.
Moves(u, k) ==
  \A v \in Editors, j \in Kinds : v # u \/ j # k => tasks'[v][j] = tasks[v][j]

LEMMA SaveTyped ==
    ASSUME PresenceAssumption, Typed, NEW u \in Editors, Save(u)
    PROVE  /\ Typed' /\ Moves(u, "save") /\ tasks'[u]["save"] = NewTask
           /\ drafts'[u] = 0 /\ \A v \in Editors \ {u} : drafts'[v] = drafts[v]
  <1>1. /\ tasks' \in [Editors -> [Kinds -> Task \cup {None}]]
        /\ tasks'[u]["save"] = NewTask /\ Moves(u, "save")
    BY PutTask, TaskRecords DEF Save, Moves
  <1>2. drafts' = [drafts EXCEPT ![u] = 0] /\ 0 \in Ages
    BY AgesAreNumbers DEF Save
  <1> QED
    BY <1>1, <1>2 DEF Typed, Save, viewer

LEMMA EndTyped ==
    ASSUME PresenceAssumption, Typed, NEW u \in Editors, End(u)
    PROVE  /\ Typed' /\ Moves(u, "end") /\ tasks'[u]["end"] = NewTask
           /\ drafts'[u] = None /\ \A v \in Editors \ {u} : drafts'[v] = drafts[v]
  <1>1. /\ tasks' \in [Editors -> [Kinds -> Task \cup {None}]]
        /\ tasks'[u]["end"] = NewTask /\ Moves(u, "end")
    BY PutTask, TaskRecords DEF End, Moves
  <1>2. drafts' = [drafts EXCEPT ![u] = None]
    BY DEF End
  <1> QED
    BY <1>1, <1>2 DEF Typed, End, viewer

LEMMA ClaimTyped ==
    ASSUME PresenceAssumption, Typed, NEW u \in Editors, Claim(u)
    PROVE  /\ Typed' /\ Moves(u, "save")
           /\ \/ Suppressed(u) /\ tasks'[u]["save"] = None /\ times' = times
              \/ /\ MayStamp /\ tasks'[u]["save"] # None
                 /\ tasks'[u]["save"].step = "stamped" /\ tasks'[u]["save"].at = 0
                 /\ times'[u] = 0 /\ \A v \in Editors \ {u} : times'[v] = times[v]
  <1>1. CASE Suppressed(u)
    <2>1. /\ tasks' \in [Editors -> [Kinds -> Task \cup {None}]]
          /\ tasks'[u]["save"] = None /\ Moves(u, "save") /\ times' = times
      BY <1>1, PutTask DEF Claim, Moves
    <2> QED
      BY <1>1, <2>1 DEF Typed, Claim, viewer
  <1>2. CASE ~Suppressed(u)
    <2> DEFINE stamped == [NewTask EXCEPT !.step = "stamped"]
    <2>1. stamped \in Task /\ stamped.step = "stamped" /\ stamped.at = 0 /\ stamped # None
      BY TaskRecords, AgesAreNumbers
    <2>2. Put(u, "save", stamped) /\ MayStamp /\ times' = [times EXCEPT ![u] = 0]
      BY <1>2 DEF Claim
    <2> HIDE DEF stamped
    <2>3. /\ tasks' \in [Editors -> [Kinds -> Task \cup {None}]]
          /\ tasks'[u]["save"] = stamped /\ Moves(u, "save")
      BY <2>1, <2>2, PutTask DEF Moves
    <2>4. /\ times' \in [Editors -> Ages \cup {None}]
          /\ times'[u] = 0 /\ \A v \in Editors \ {u} : times'[v] = times[v]
      BY <2>2, AgesAreNumbers DEF Typed
    <2>5. Typed'
      BY <2>3, <2>4 DEF Typed, Claim, viewer
    <2> QED
      BY <2>1, <2>2, <2>3, <2>4, <2>5
  <1> QED
    BY <1>1, <1>2

LEMMA AnnounceTyped ==
    ASSUME PresenceAssumption, Typed, NEW u \in Editors, Announce(u)
    PROVE  /\ Typed' /\ Moves(u, "end") /\ MayStamp /\ tasks'[u]["end"] # None
           /\ tasks'[u]["end"].step = "stamped" /\ tasks'[u]["end"].at = 0
           /\ times'[u] = None /\ \A v \in Editors \ {u} : times'[v] = times[v]
  <1> DEFINE stamped == [NewTask EXCEPT !.step = "stamped"]
  <1>1. stamped \in Task /\ stamped.step = "stamped" /\ stamped.at = 0 /\ stamped # None
    BY TaskRecords, AgesAreNumbers
  <1>2. Put(u, "end", stamped) /\ MayStamp /\ times' = [times EXCEPT ![u] = None]
    BY DEF Announce, Cleared
  <1> HIDE DEF stamped
  <1>3. /\ tasks' \in [Editors -> [Kinds -> Task \cup {None}]]
        /\ tasks'[u]["end"] = stamped /\ Moves(u, "end")
    BY <1>1, <1>2, PutTask DEF Moves
  <1>4. /\ times' \in [Editors -> Ages \cup {None}]
        /\ times'[u] = None /\ \A v \in Editors \ {u} : times'[v] = times[v]
    BY <1>2 DEF Typed
  <1>5. Typed'
    BY <1>3, <1>4 DEF Typed, Announce, viewer
  <1> QED
    BY <1>1, <1>2, <1>3, <1>4, <1>5

LEMMA QueryTyped ==
    ASSUME PresenceAssumption, Typed, NEW u \in Editors, NEW k \in Kinds, Query(u, k)
    PROVE  /\ Typed' /\ Moves(u, k) /\ tasks'[u][k] = None
           /\ \/ /\ events' = events \cup {[at |-> tasks[u][k].at, who |-> Active]}
                 /\ times' = times
              \/ Fails /\ times' = Released(u, k) /\ events' = events
           /\ tasks[u][k].at \in Ages /\ Active \subseteq Editors
  <1>1. /\ tasks' \in [Editors -> [Kinds -> Task \cup {None}]]
        /\ tasks'[u][k] = None /\ Moves(u, k)
    BY PutTask DEF Query, Moves
  <1>2. tasks[u][k] \in Task /\ Active \subseteq Editors
    BY DEF Query, Typed, Active
  <1>3. tasks[u][k].at \in Ages /\ [at |-> tasks[u][k].at, who |-> Active] \in Taken
    BY <1>2 DEF Task, Taken
  <1>4. Released(u, k) \in [Editors -> Ages \cup {None}]
    BY DEF Typed, Released
  <1>5. CASE /\ Cardinality(events) < MaxEvents /\ times' = times
             /\ events' = events \cup {[at |-> tasks[u][k].at, who |-> Active]}
    <2>1. /\ IsFiniteSet(events') /\ Cardinality(events') <= Cardinality(events) + 1
          /\ Cardinality(events) \in Nat /\ Cardinality(events') \in Nat
      <3>1. PICK e : e = [at |-> tasks[u][k].at, who |-> Active]
        OBVIOUS
      <3>2. events' = events \cup {e} /\ IsFiniteSet(events)
        BY <1>5, <3>1 DEF Typed
      <3>3. /\ IsFiniteSet(events')
            /\ Cardinality(events') = IF e \in events THEN Cardinality(events)
                 ELSE Cardinality(events) + 1
        BY <3>2, FS_AddElement
      <3>4. Cardinality(events) \in Nat
        BY <3>2, FS_CardinalityType
      <3> QED
        BY <3>3, <3>4
    <2>2. events' \subseteq Taken /\ Cardinality(events') <= MaxEvents
      BY <1>3, <1>5, <2>1 DEF Typed, PresenceAssumption
    <2> QED
      BY <1>1, <1>2, <1>3, <1>5, <2>1, <2>2 DEF Typed, Query, viewer
  <1>6. CASE Fails /\ times' = Released(u, k) /\ events' = events
    BY <1>1, <1>2, <1>3, <1>4, <1>6 DEF Typed, Query, viewer
  <1> QED
    BY <1>5, <1>6 DEF Query

LEMMA EventGone ==
    ASSUME PresenceAssumption, Typed, NEW e, events' = events \ {e}
    PROVE  events' \subseteq Taken /\ IsFiniteSet(events') /\ Cardinality(events') <= MaxEvents
  <1>1. IsFiniteSet(events) /\ MaxEvents \in Nat
    BY DEF Typed, PresenceAssumption
  <1>2. /\ IsFiniteSet(events')
        /\ Cardinality(events') = IF e \in events THEN Cardinality(events) - 1
             ELSE Cardinality(events)
    BY <1>1, FS_RemoveElement
  <1>3. Cardinality(events) \in Nat
    BY <1>1, FS_CardinalityType
  <1> QED
    BY <1>1, <1>2, <1>3 DEF Typed

LEMMA ViewerTyped ==
    ASSUME PresenceAssumption, Typed,
           \/ ServeFetch \/ OpenPage \/ LeavePage \/ FetchArrives \/ TimerFires \/ Lose
           \/ \E e \in events : EventArrives(e)
    PROVE  Typed'
  <1>0. /\ NewFetch \in Reading /\ NewFetch # None /\ 0 \in Ages /\ Active \subseteq Editors
        /\ None \notin Taken /\ None \notin Reading
    BY TaskRecords, AgesAreNumbers DEF Active
  <1>1. CASE ServeFetch
    <2>1. fetch \in Reading /\ fetch' \in {[fetch EXCEPT !.step = "stamped", !.at = 0],
                                           [fetch EXCEPT !.step = "queried", !.who = Active]}
      BY <1>1 DEF ServeFetch, Typed
    <2>2. fetch' \in Reading
      BY <1>0, <2>1 DEF Reading
    <2> QED
      BY <1>1, <2>2 DEF ServeFetch, Typed, server
  <1>2. CASE OpenPage
    BY <1>0, <1>2 DEF OpenPage, Typed, server
  <1>3. CASE LeavePage
    BY <1>3 DEF LeavePage, Typed, server
  <1>4. CASE FetchArrives
    <2>1. fetch \in Reading /\ fetch # None /\ viewing
      BY <1>4 DEF FetchArrives, Typed
    <2>2. /\ [at |-> fetch.at, who |-> fetch.who] \in Taken
          /\ [at |-> fetch.at, who |-> fetch.who].at = fetch.at
      BY <2>1 DEF Reading, Taken
    <2>3. snapshot' \in Taken \cup {None} /\ expired' \in BOOLEAN
      <3>1. CASE snapshot # None /\ snapshot.at <= fetch.at
        BY <1>4, <3>1 DEF FetchArrives, Typed
      <3>2. CASE ~(snapshot # None /\ snapshot.at <= fetch.at)
        <4>1. snapshot' = [at |-> fetch.at, who |-> fetch.who]
              /\ expired' = (fetch.at >= Timeout)
          BY <1>4, <2>2, <3>2 DEF FetchArrives, Shows
        <4> QED
          BY <2>2, <4>1
      <3> QED
        BY <3>1, <3>2
    <2> QED
      BY <1>4, <2>1, <2>3 DEF FetchArrives, Typed, server
  <1>5. CASE TimerFires
    BY <1>5 DEF TimerFires, Typed, server
  <1>6. CASE Lose
    <2>1. \/ fetch' \in {fetch, None} /\ events' = events
          \/ fetch' = fetch /\ \E e \in events : events' = events \ {e}
      BY <1>6 DEF Lose
    <2>2. /\ events' \subseteq Taken /\ IsFiniteSet(events') /\ Cardinality(events') <= MaxEvents
      BY <2>1, EventGone DEF Typed
    <2> QED
      BY <1>6, <2>1, <2>2 DEF Lose, Typed, server
  <1>7. ASSUME NEW e \in events, EventArrives(e)
        PROVE  Typed'
    <2>1. events' = events \ {e}
      BY <1>7 DEF EventArrives
    <2>2. /\ events' \subseteq Taken /\ IsFiniteSet(events') /\ Cardinality(events') <= MaxEvents
      BY <2>1, EventGone
    <2>3. e \in Taken
      BY DEF Typed
    <2>4. /\ snapshot' \in Taken \cup {None} /\ expired' \in BOOLEAN
          /\ snapshot' # None => viewing
      <3>1. CASE viewing /\ IsNewer(e)
        <4>1. snapshot' = e /\ expired' = (e.at >= Timeout)
          BY <1>7, <3>1 DEF EventArrives, Shows
        <4> QED
          BY <2>3, <3>1, <4>1
      <3>2. CASE ~(viewing /\ IsNewer(e))
        BY <1>7, <3>2 DEF EventArrives, Typed
      <3> QED
        BY <3>1, <3>2
    <2> QED
      BY <1>7, <2>2, <2>4 DEF EventArrives, Typed, server
  <1> QED
    BY <1>1, <1>2, <1>3, <1>4, <1>5, <1>6, <1>7

LEMMA StepTyped ==
    ASSUME PresenceAssumption, Typed, [Next]_vars
    PROVE  Typed'
  <1>1. CASE UNCHANGED vars
    BY <1>1 DEF Typed, vars, server, viewer
  <1> QED
    BY <1>1, TickAges, SaveTyped, EndTyped, ClaimTyped, AnnounceTyped, QueryTyped, ViewerTyped
    DEF Next

LEMMA InitTyped ==
    ASSUME PresenceAssumption, Init
    PROVE  Typed
  <1>1. IsFiniteSet({}) /\ Cardinality({}) = 0 /\ MaxEvents \in Nat
    BY FS_EmptySet DEF PresenceAssumption
  <1>2. /\ drafts \in [Editors -> Ages \cup {None}] /\ times \in [Editors -> Ages \cup {None}]
        /\ tasks \in [Editors -> [Kinds -> Task \cup {None}]]
    BY DEF Init
  <1>3. /\ events = {} /\ viewing = FALSE /\ snapshot = None /\ expired = FALSE
        /\ fetch = None
    BY DEF Init
  <1>4. events \subseteq Taken /\ IsFiniteSet(events) /\ Cardinality(events) <= MaxEvents
    BY <1>1, <1>3
  <1>5. viewing \in BOOLEAN /\ expired \in BOOLEAN
    BY <1>3
  <1> QED
    BY <1>2, <1>3, <1>4, <1>5 DEF Typed

(* The state of server and viewer is of its types, for any editors and bounds. *)
THEOREM PresenceTypes ==
    ASSUME PresenceAssumption
    PROVE  Spec => []TypeOK
  BY InitTyped, StepTyped, TypedIsTypeOK, PTL DEF Spec

-----------------------------------------------------------------------------
(* Requests under way *)

\* No request stays under way longer than MaxStay.
InTime ==
  /\ \A u \in Editors, k \in Kinds : tasks[u][k] # None => tasks[u][k].at <= MaxStay
  /\ fetch # None => fetch.at <= MaxStay

LEMMA StepInTime ==
    ASSUME PresenceAssumption, Typed, InTime, [Next]_vars
    PROVE  InTime'
  <1>0. MaxStay \in Nat /\ 0 <= MaxStay
    BY DEF PresenceAssumption
  <1>1. CASE Tick
    <2>1. /\ \A a \in Ages : ~(a >= MaxStay) => Older(a) <= MaxStay
          /\ \A u \in Editors, k \in Kinds : tasks[u][k] # None => tasks[u][k].at \in Ages
          /\ fetch # None => fetch.at \in Ages
      <3>1. \A a \in Ages : ~(a >= MaxStay) => Older(a) <= MaxStay
        <4>1. \A a \in Ages : a \in Nat /\ Older(a) = IF a = Old THEN Old ELSE a + 1
          BY OlderIs, AgesAreNumbers
        <4> QED
          BY <1>0, <4>1
      <3>2. \A u \in Editors, k \in Kinds : tasks[u][k] \in Task \cup {None}
        BY DEF Typed
      <3>3. \A u \in Editors, k \in Kinds : tasks[u][k] # None => tasks[u][k].at \in Ages
        BY <3>2 DEF Task
      <3>4. fetch # None => fetch.at \in Ages
        BY DEF Typed, Reading
      <3> QED
        BY <3>1, <3>3, <3>4
    <2>2. /\ \A u \in Editors, k \in Kinds : ~IsLate(tasks[u][k])
          /\ ~IsLate(fetch)
      BY <1>1 DEF Tick
    <2> QED
      BY <1>1, <2>1, <2>2, TickAges DEF IsLate, InTime
  <1>2. ASSUME NEW u \in Editors, Save(u) \/ End(u) \/ Claim(u) \/ Announce(u)
        PROVE  InTime'
    <2>1. \A v \in Editors, k \in Kinds :
             \/ tasks'[v][k] = tasks[v][k]
             \/ tasks'[v][k] # None => tasks'[v][k].at = 0
      <3>1. CASE Save(u)
        BY <3>1, SaveTyped, TaskRecords DEF Moves
      <3>2. CASE End(u)
        BY <3>2, EndTyped, TaskRecords DEF Moves
      <3>3. CASE Claim(u)
        BY <3>3, ClaimTyped DEF Moves
      <3>4. CASE Announce(u)
        BY <3>4, AnnounceTyped DEF Moves
      <3> QED
        BY <1>2, <3>1, <3>2, <3>3, <3>4
    <2>2. fetch' = fetch
      BY <1>2 DEF Save, End, Claim, Announce, viewer
    <2> QED
      BY <1>0, <2>1, <2>2 DEF InTime
  <1>3. ASSUME NEW u \in Editors, NEW k \in Kinds, Query(u, k)
        PROVE  InTime'
    <2>1. fetch' = fetch
      BY <1>3 DEF Query, viewer
    <2> QED
      BY <1>3, <2>1, QueryTyped DEF InTime, Moves
  <1>4. CASE \/ ServeFetch \/ OpenPage \/ LeavePage \/ FetchArrives \/ TimerFires \/ Lose
             \/ \E e \in events : EventArrives(e)
    <2>1. tasks' = tasks
      BY <1>4 DEF ServeFetch, OpenPage, LeavePage, FetchArrives, TimerFires, Lose, EventArrives,
                  server
    <2>2. fetch' # None => fetch'.at = 0 \/ (fetch # None /\ fetch'.at = fetch.at)
      <3>1. CASE ServeFetch
        <4>1. fetch \in Reading /\ fetch # None
              /\ fetch' \in {[fetch EXCEPT !.step = "stamped", !.at = 0],
                             [fetch EXCEPT !.step = "queried", !.who = Active]}
          BY <3>1 DEF ServeFetch, Typed
        <4> QED
          BY <4>1 DEF Reading
      <3>2. CASE OpenPage
        BY <3>2, TaskRecords DEF OpenPage
      <3>3. CASE LeavePage \/ FetchArrives \/ TimerFires \/ Lose
                   \/ \E e \in events : EventArrives(e)
        BY <3>3 DEF LeavePage, FetchArrives, TimerFires, Lose, EventArrives
      <3> QED
        BY <1>4, <3>1, <3>2, <3>3
    <2> QED
      BY <1>0, <2>1, <2>2 DEF InTime
  <1>5. CASE UNCHANGED vars
    BY <1>5 DEF vars, server, viewer, InTime
  <1> QED
    BY <1>1, <1>2, <1>3, <1>4, <1>5 DEF Next

LEMMA InitInTime ==
    ASSUME Init
    PROVE  InTime
  BY DEF Init, InTime

-----------------------------------------------------------------------------
(* Ended sessions leave the screen *)

\* The viewer's read, once it is answered.
Fetched ==
  IF fetch # None /\ fetch.step = "queried" THEN {[at |-> fetch.at, who |-> fetch.who]} ELSE {}

\* The session of u has ended, and this is not announced yet.
Ending(u) == tasks[u]["end"] # None /\ tasks[u]["end"].step = "done"

\* The ages of what shows u to the viewer, now or when it arrives.
Showings(u) ==
  {s.at : s \in {e \in events \cup Fetched : u \in e.who /\ e.at < Timeout}}
  \cup (IF snapshot # None /\ ~expired /\ u \in snapshot.who THEN {snapshot.at} ELSE {})

\* Something newer, that does not name u, has arrived or will arrive.
Corrects(u, age) ==
  \/ Ending(u)
  \/ tasks[u]["end"] # None /\ tasks[u]["end"].at < age
  \/ \E e \in events : u \notin e.who /\ (e.at < age \/ age = Old)
  \/ /\ fetch # None
     /\ \/ fetch.step = "asked"
        \/ fetch.at < age /\ (fetch.step = "stamped" \/ u \notin fetch.who)
  \/ snapshot # None /\ u \notin snapshot.who /\ snapshot.at < age

\* Whatever still shows somebody whose session has ended will be corrected.
EndedInv ==
  viewing => \A u \in Editors : drafts[u] = None => \A a \in Showings(u) : Corrects(u, a)

LEMMA ShowingsAreAges ==
    ASSUME PresenceAssumption, Typed, NEW u \in Editors
    PROVE  /\ Fetched \subseteq Taken /\ Showings(u) \subseteq Ages
           /\ \A a \in Showings(u) : a < Timeout \/ (snapshot # None /\ u \in snapshot.who)
  <1>1. Fetched \subseteq Taken
    BY DEF Fetched, Typed, Reading, Taken
  <1>2. \A s \in events \cup Fetched : s.at \in Ages
    BY <1>1 DEF Typed, Taken
  <1>3. snapshot # None => snapshot.at \in Ages
    BY DEF Typed, Taken
  <1> QED
    BY <1>1, <1>2, <1>3 DEF Showings

(* A stamp taken now is newer than everything that shows somebody. *)
LEMMA StampIsNewest ==
    ASSUME PresenceAssumption, Typed, ~Ties, MayStamp, NEW u \in Editors
    PROVE  \A a \in Showings(u) : 0 < a
  <1>1. /\ \A e \in events : e.at # 0
        /\ snapshot # None => snapshot.at # 0
        /\ fetch # None /\ fetch.step \in Stamped => fetch.at # 0
    BY DEF MayStamp, StampedNow
  <1>2. \A s \in Fetched : s.at # 0
    BY <1>1 DEF Fetched, Stamped
  <1>3. \A a \in Showings(u) : a # 0
    BY <1>1, <1>2 DEF Showings
  <1>4. \A a \in Showings(u) : a \in Nat
    BY ShowingsAreAges, AgesAreNumbers
  <1> QED
    BY <1>3, <1>4

LEMMA TickEnded ==
    ASSUME PresenceAssumption, MaxStay <= Timeout, Typed, InTime', EndedInv, Tick
    PROVE  EndedInv'
  <1> SUFFICES ASSUME viewing', NEW u \in Editors, drafts'[u] = None, NEW b \in Showings(u)'
               PROVE  Corrects(u, b)'
    BY DEF EndedInv
  <1>0. /\ Timeout \in Nat /\ Old = Timeout + 1
        /\ \A x \in Nat : x <= MaxStay \/ x < Timeout => x # Old
    BY DEF PresenceAssumption, Old
  <1>1. viewing /\ drafts[u] = None
    <2>1. drafts[u] \in Ages \cup {None} /\ drafts'[u] = Older(drafts[u])
      BY TickAges DEF Typed
    <2> QED
      BY <2>1, OlderIs DEF Tick
  <1>2. PICK a \in Showings(u) :
          /\ a \in Ages /\ b = Older(a)
          /\ b < Timeout \/ (snapshot # None /\ u \in snapshot.who)
    <2>1. CASE \E e \in events' : u \in e.who /\ e.at < Timeout /\ b = e.at
      <3>1. PICK e \in events : u \in e.who /\ b = Older(e.at) /\ b < Timeout
        BY <2>1, TickEvents
      <3>2. e.at \in Ages
        BY DEF Typed, Taken
      <3>3. e.at < Timeout
        BY <3>1, <3>2, OlderKeepsOrder
      <3>4. e.at \in Showings(u)
        BY <3>1, <3>3 DEF Showings
      <3> QED
        BY <3>1, <3>2, <3>4
    <2>2. CASE \E s \in Fetched' : u \in s.who /\ s.at < Timeout /\ b = s.at
      <3>1. /\ fetch' # None /\ fetch'.step = "queried" /\ u \in fetch'.who
            /\ fetch'.at < Timeout /\ b = fetch'.at
        BY <2>2 DEF Fetched
      <3>2. /\ fetch # None /\ fetch.step = "queried" /\ u \in fetch.who
            /\ b = Older(fetch.at) /\ b < Timeout
        BY <3>1, TickAges
      <3>3. fetch.at \in Ages
        BY <3>2 DEF Typed, Reading
      <3>4. fetch.at < Timeout
        BY <3>2, <3>3, OlderKeepsOrder
      <3>5. PICK s \in Fetched : s.at = fetch.at /\ s.who = fetch.who
        BY <3>2 DEF Fetched
      <3>6. fetch.at \in Showings(u)
        BY <3>2, <3>4, <3>5 DEF Showings
      <3> QED
        BY <3>2, <3>3, <3>6
    <2>3. CASE snapshot' # None /\ ~expired' /\ u \in snapshot'.who /\ b = snapshot'.at
      <3>1. /\ snapshot # None /\ ~expired /\ u \in snapshot.who /\ b = Older(snapshot.at)
        BY <2>3, TickAges DEF Tick
      <3>2. snapshot.at \in Ages
        BY <3>1 DEF Typed, Taken
      <3>3. snapshot.at \in Showings(u)
        BY <3>1 DEF Showings
      <3> QED
        BY <3>1, <3>2, <3>3
    <2> QED
      BY <2>1, <2>2, <2>3 DEF Showings
  <1>3. Corrects(u, a)
    BY <1>1, <1>2 DEF EndedInv
  <1>4. CASE Ending(u)
    BY <1>4, TickAges DEF Ending, Corrects
  <1>5. CASE tasks[u]["end"] # None /\ tasks[u]["end"].at < a
    <2>1. /\ tasks'[u]["end"] # None /\ tasks'[u]["end"].at = Older(tasks[u]["end"].at)
          /\ tasks'[u]["end"].at <= MaxStay
      BY <1>5, TickAges DEF InTime
    <2>2. tasks[u]["end"].at \in Ages
      <3>1. tasks[u]["end"] \in Task \cup {None}
        BY DEF Typed
      <3> QED
        BY <1>5, <3>1 DEF Task
    <2>3. tasks'[u]["end"].at # Old
      BY <1>0, <2>1, <2>2, OlderKeepsOrder
    <2>4. tasks'[u]["end"].at < b
      BY <1>2, <1>5, <2>1, <2>2, <2>3, OlderKeepsOrder
    <2> QED
      BY <2>1, <2>4 DEF Corrects
  <1>6. CASE \E e \in events : u \notin e.who /\ (e.at < a \/ a = Old)
    <2>1. PICK e \in events : u \notin e.who /\ (e.at < a \/ a = Old)
      BY <1>6
    <2>2. PICK x \in events' : x.who = e.who /\ x.at = Older(e.at)
      BY TickEvents
    <2>3. e.at \in Ages
      BY DEF Typed, Taken
    <2>4. x.at < b \/ b = Old
      BY <1>2, <2>1, <2>2, <2>3, OlderKeepsOrder
    <2> QED
      BY <2>1, <2>2, <2>4 DEF Corrects
  <1>7. CASE fetch # None /\ fetch.step = "asked"
    BY <1>7, TickAges DEF Corrects
  <1>8. CASE fetch # None /\ fetch.at < a /\ (fetch.step = "stamped" \/ u \notin fetch.who)
    <2>1. /\ fetch' # None /\ fetch'.at = Older(fetch.at) /\ fetch'.at <= MaxStay
          /\ fetch'.step = "stamped" \/ u \notin fetch'.who
      BY <1>8, TickAges DEF InTime
    <2>2. fetch.at \in Ages
      BY <1>8 DEF Typed, Reading
    <2>3. fetch'.at # Old
      BY <1>0, <2>1, <2>2, OlderKeepsOrder
    <2>4. fetch'.at < b
      BY <1>2, <1>8, <2>1, <2>2, <2>3, OlderKeepsOrder
    <2> QED
      BY <2>1, <2>4 DEF Corrects
  <1>9. CASE snapshot # None /\ u \notin snapshot.who /\ snapshot.at < a
    <2>1. /\ snapshot' # None /\ u \notin snapshot'.who /\ snapshot'.at = Older(snapshot.at)
          /\ snapshot.at \in Ages /\ b < Timeout
      BY <1>2, <1>9, TickAges DEF Typed, Taken
    <2>2. b # Old
      BY <1>0, <1>2, <2>1, OlderKeepsOrder
    <2>3. snapshot'.at < b
      BY <1>2, <1>9, <2>1, <2>2, OlderKeepsOrder
    <2> QED
      BY <2>1, <2>3 DEF Corrects
  <1> QED
    BY <1>3, <1>4, <1>5, <1>6, <1>7, <1>8, <1>9 DEF Corrects

LEMMA ServerEnded ==
    ASSUME PresenceAssumption, Typed, EndedInv, ~Ties, ~Fails,
           \/ \E v \in Editors : Save(v) \/ End(v) \/ Claim(v) \/ Announce(v)
           \/ \E v \in Editors, k \in Kinds : Query(v, k)
    PROVE  EndedInv'
  <1>0. UNCHANGED <<viewing, snapshot, expired, fetch>>
    BY DEF Save, End, Claim, Announce, Query, viewer
  <1> SUFFICES ASSUME viewing, NEW u \in Editors, drafts'[u] = None, NEW a \in Showings(u)'
               PROVE  Corrects(u, a)'
    BY <1>0 DEF EndedInv
  <1>1. CASE \E v \in Editors : Save(v) \/ End(v) \/ Claim(v) \/ Announce(v)
    <2>1. PICK v \in Editors : Save(v) \/ End(v) \/ Claim(v) \/ Announce(v)
      BY <1>1
    <2>2. events' = events
      BY <2>1 DEF Save, End, Claim, Announce
    <2>3. a \in Showings(u)
      BY <1>0, <2>2 DEF Showings, Fetched
    <2>4. CASE End(v) /\ v = u
      <3>1. tasks'[u]["end"] = NewTask /\ NewTask.step = "done" /\ NewTask # None
        BY <2>4, EndTyped, TaskRecords, AgesAreNumbers
      <3> QED
        BY <3>1 DEF Corrects, Ending
    <2>5. CASE Announce(v) /\ v = u
      <3>1. 0 < a
        BY <2>3, <2>5, StampIsNewest DEF Announce
      <3>2. tasks'[u]["end"] # None /\ tasks'[u]["end"].at = 0
        BY <2>5, AnnounceTyped
      <3> QED
        BY <3>1, <3>2 DEF Corrects
    <2>6. CASE ~(End(v) /\ v = u) /\ ~(Announce(v) /\ v = u)
      <3>1. drafts[u] = None
        <4>1. 0 # None
          BY DEF PresenceAssumption
        <4>2. CASE Save(v)
          BY <4>1, <4>2, SaveTyped
        <4>3. CASE End(v)
          BY <2>6, <4>3, EndTyped
        <4>4. CASE Claim(v) \/ Announce(v)
          BY <4>4 DEF Claim, Announce
        <4> QED
          BY <2>1, <4>2, <4>3, <4>4
      <3>2. tasks'[u]["end"] = tasks[u]["end"]
        <4>1. CASE Save(v)
          BY <4>1, SaveTyped DEF Moves
        <4>2. CASE End(v)
          BY <2>6, <4>2, EndTyped DEF Moves
        <4>3. CASE Claim(v)
          BY <4>3, ClaimTyped DEF Moves
        <4>4. CASE Announce(v)
          BY <2>6, <4>4, AnnounceTyped DEF Moves
        <4> QED
          BY <2>1, <4>1, <4>2, <4>3, <4>4
      <3>3. Corrects(u, a)
        BY <2>3, <3>1 DEF EndedInv
      <3> QED
        BY <1>0, <2>2, <3>2, <3>3 DEF Corrects, Ending
    <2> QED
      BY <2>4, <2>5, <2>6
  <1>2. CASE \E v \in Editors, k \in Kinds : Query(v, k)
    <2>1. PICK v \in Editors, k \in Kinds : Query(v, k)
      BY <1>2
    <2>2. PICK e : e = [at |-> tasks[v][k].at, who |-> Active]
      OBVIOUS
    <2>3. /\ events' = events \cup {e} /\ Moves(v, k) /\ drafts' = drafts
          /\ tasks[v][k] # None /\ tasks[v][k].step = "stamped"
          /\ e.at = tasks[v][k].at /\ e.who = Active
      BY <2>1, <2>2, QueryTyped DEF Query
    <2>4. u \notin e.who
      BY <2>3 DEF Active
    <2>5. a \in Showings(u)
      BY <1>0, <2>3, <2>4 DEF Showings, Fetched
    <2>6. Corrects(u, a)
      BY <2>3, <2>5 DEF EndedInv
    <2>7. CASE v = u /\ k = "end"
      BY <1>0, <2>3, <2>4, <2>6, <2>7 DEF Corrects, Ending
    <2>8. CASE ~(v = u /\ k = "end")
      <3>1. tasks'[u]["end"] = tasks[u]["end"]
        BY <2>3, <2>8 DEF Moves
      <3> QED
        BY <1>0, <2>3, <2>6, <3>1 DEF Corrects, Ending
    <2> QED
      BY <2>7, <2>8
  <1> QED
    BY <1>1, <1>2

\* What the viewer stops showing by itself is as old as its timeout.
ExpiredInv == expired => snapshot # None /\ snapshot.at >= Timeout

LEMMA StepExpired ==
    ASSUME PresenceAssumption, Typed, ExpiredInv, [Next]_vars
    PROVE  ExpiredInv'
  <1>1. CASE Tick
    <2>1. snapshot # None => snapshot.at \in Ages
      BY DEF Typed, Taken
    <2>2. /\ snapshot' = None <=> snapshot = None
          /\ snapshot # None => snapshot'.at = Older(snapshot.at)
      BY <1>1, TickAges
    <2>3. snapshot # None /\ snapshot.at >= Timeout => Older(snapshot.at) >= Timeout
      <3>1. Timeout \in Nat /\ Old = Timeout + 1
        BY DEF PresenceAssumption, Old
      <3> QED
        BY <2>1, <3>1, OlderIs, AgesAreNumbers
    <2> QED
      BY <1>1, <2>2, <2>3 DEF Tick, ExpiredInv
  <1>2. CASE \/ \E u \in Editors : Save(u) \/ End(u) \/ Claim(u) \/ Announce(u)
             \/ \E u \in Editors, k \in Kinds : Query(u, k)
             \/ ServeFetch \/ OpenPage \/ LeavePage \/ Lose \/ UNCHANGED vars
    BY <1>2 DEF Save, End, Claim, Announce, Query, ServeFetch, OpenPage, LeavePage, Lose, vars,
                viewer, ExpiredInv
  <1>3. CASE TimerFires
    BY <1>3 DEF TimerFires, Expires, ExpiredInv
  <1>4. CASE FetchArrives \/ \E e \in events : EventArrives(e)
    <2>1. PICK s \in Taken : \/ UNCHANGED <<snapshot, expired>>
                             \/ snapshot' = s /\ expired' = (s.at >= Timeout)
      <3>1. CASE FetchArrives
        <4>1. fetch \in Reading
          BY <3>1 DEF FetchArrives, Typed
        <4>2. PICK s \in Taken : s = [at |-> fetch.at, who |-> fetch.who]
          BY <4>1 DEF Reading, Taken
        <4> QED
          BY <3>1, <4>2 DEF FetchArrives, Shows
      <3>2. CASE \E e \in events : EventArrives(e)
        <4>1. PICK e \in events : EventArrives(e)
          BY <3>2
        <4>2. e \in Taken
          BY DEF Typed
        <4> QED
          BY <4>1, <4>2 DEF EventArrives, Shows
      <3> QED
        BY <1>4, <3>1, <3>2
    <2>2. s # None
      BY AgesAreNumbers
    <2> QED
      BY <2>1, <2>2 DEF ExpiredInv
  <1> QED
    BY <1>1, <1>2, <1>3, <1>4 DEF Next

(* A snapshot comes to the viewer, which keeps the newer one. *)
LEMMA ArrivalEnded ==
    ASSUME PresenceAssumption, MaxStay <= Timeout, Typed, Typed', InTime, ExpiredInv, EndedInv,
           viewing, UNCHANGED <<drafts, tasks>>, NEW s \in Taken,
           \/ s \in events /\ events' = events \ {s} /\ fetch' = fetch
           \/ /\ fetch # None /\ fetch.step = "queried" /\ s = [at |-> fetch.at, who |-> fetch.who]
              /\ fetch' = None /\ events' = events,
           \/ /\ snapshot' = s /\ expired' = (s.at >= Timeout)
              /\ snapshot # None => s.at <= snapshot.at
           \/ /\ snapshot # None /\ UNCHANGED <<snapshot, expired>>
              /\ snapshot.at < s.at \/ (snapshot.at <= s.at /\ events' = events)
    PROVE  EndedInv'
  <1> SUFFICES ASSUME NEW u \in Editors, drafts[u] = None, NEW a \in Showings(u)'
               PROVE  Corrects(u, a)'
    BY DEF EndedInv
  <1> DEFINE Comes == s \in events /\ events' = events \ {s} /\ fetch' = fetch
             Answers == /\ fetch # None /\ fetch.step = "queried"
                        /\ s.at = fetch.at /\ s.who = fetch.who /\ s.at <= MaxStay
                        /\ fetch' = None /\ events' = events
             Kept == snapshot' = s /\ expired' = (s.at >= Timeout)
                     /\ (snapshot # None => s.at <= snapshot.at)
             Dropped == snapshot # None /\ snapshot' = snapshot /\ expired' = expired
                        /\ (snapshot.at < s.at \/ (snapshot.at <= s.at /\ Answers))
  <1>0. Timeout \in Nat /\ MaxStay \in Nat /\ Old = Timeout + 1 /\ Ages \subseteq Nat
    BY AgesAreNumbers DEF PresenceAssumption, Old
  <1>1. /\ s.at \in Ages /\ s.at \in Nat /\ s.at <= Old /\ s # None
        /\ (snapshot # None => snapshot.at \in Ages /\ snapshot.at \in Nat /\ snapshot.at <= Old)
        /\ \A e \in events : e.at \in Ages
        /\ (fetch # None => fetch.at \in Ages)
        /\ (tasks[u]["end"] # None => tasks[u]["end"].at \in Ages)
    <2>1. tasks[u]["end"] \in Task \cup {None}
      BY DEF Typed
    <2> QED
      BY <2>1, AgesAreNumbers DEF Typed, Taken, Reading, Task
  <1>2. Comes \/ Answers
    BY DEF InTime
  <1>3. Kept \/ Dropped
    BY <1>2
  <1>4. a \in Ages /\ a \in Nat
    <2>1. /\ \A e \in events' \cup Fetched' : e.at \in Ages
          /\ snapshot' # None => snapshot'.at \in Ages
      BY DEF Fetched, Typed, Taken, Reading
    <2> QED
      BY <1>0, <2>1 DEF Showings
  <1>5. s.at < Timeout /\ u \in s.who => s.at \in Showings(u)
    <2>1. Comes \/ s \in Fetched
      BY DEF Fetched
    <2> QED
      BY <2>1 DEF Showings
  <1>6. Fetched' \subseteq Fetched /\ events' \subseteq events
    BY <1>2 DEF Fetched
  <1>7. \A b \in Showings(u) : Corrects(u, b)
    BY DEF EndedInv
  <1> HIDE DEF Comes, Answers, Kept, Dropped
  <1>8. \A b \in Ages : ~(s.at < b /\ u \notin s.who) /\ ~(b = Old)
                         /\ (snapshot # None /\ u \notin snapshot.who /\ snapshot.at < b
                             => snapshot' = snapshot)
                         /\ Corrects(u, b) /\ b <= a => Corrects(u, a)'
    <2> SUFFICES ASSUME NEW b \in Ages, ~(s.at < b /\ u \notin s.who), b # Old,
                        snapshot # None /\ u \notin snapshot.who /\ snapshot.at < b
                          => snapshot' = snapshot,
                        Corrects(u, b), b <= a
                 PROVE  Corrects(u, a)'
      OBVIOUS
    <2>1. \A x \in Ages : x < b => x < a
      BY <1>0, <1>4
    <2>2. CASE Ending(u)
      BY <2>2 DEF Ending, Corrects
    <2>3. CASE tasks[u]["end"] # None /\ tasks[u]["end"].at < b
      BY <1>1, <2>1, <2>3 DEF Corrects
    <2>4. CASE \E e \in events : u \notin e.who /\ (e.at < b \/ b = Old)
      <3>1. PICK e \in events : u \notin e.who /\ e.at < b
        BY <2>4
      <3>2. e \in events'
        BY <1>2, <3>1 DEF Comes, Answers
      <3> QED
        BY <1>1, <2>1, <3>1, <3>2 DEF Corrects
    <2>5. CASE /\ fetch # None
               /\ \/ fetch.step = "asked"
                  \/ fetch.at < b /\ (fetch.step = "stamped" \/ u \notin fetch.who)
      <3>1. fetch' = fetch
        BY <1>2, <2>5 DEF Comes, Answers
      <3> QED
        BY <1>1, <2>1, <2>5, <3>1 DEF Corrects
    <2>6. CASE snapshot # None /\ u \notin snapshot.who /\ snapshot.at < b
      BY <1>1, <2>1, <2>6 DEF Corrects
    <2> QED
      BY <2>2, <2>3, <2>4, <2>5, <2>6 DEF Corrects
  <1>9. CASE Kept
    <2>1. a < Timeout /\ a \in Showings(u)
      <3>1. CASE a \in {x.at : x \in {e \in events' \cup Fetched' : u \in e.who /\ e.at < Timeout}}
        BY <1>6, <3>1 DEF Showings
      <3>2. CASE snapshot' # None /\ ~expired' /\ u \in snapshot'.who /\ a = snapshot'.at
        <4>1. a = s.at /\ u \in s.who /\ ~(s.at >= Timeout)
          BY <1>9, <3>2 DEF Kept
        <4>2. s.at < Timeout
          BY <1>0, <1>1, <4>1
        <4> QED
          BY <1>5, <4>1, <4>2
      <3> QED
        BY <3>1, <3>2 DEF Showings
    <2>2. CASE s.at < a /\ u \notin s.who
      BY <1>1, <1>9, <2>2 DEF Kept, Corrects
    <2>3. CASE ~(s.at < a /\ u \notin s.who) /\ snapshot # None /\ u \notin snapshot.who
               /\ snapshot.at < a
      <3>1. s.at <= snapshot.at /\ s.at < a /\ s.at < Timeout /\ u \in s.who
        BY <1>0, <1>1, <1>4, <1>9, <2>1, <2>3 DEF Kept
      <3>2. s.at <= a /\ s.at # Old /\ ~(snapshot.at < s.at)
        BY <1>0, <1>1, <1>4, <2>3, <3>1
      <3>3. s.at \in Showings(u)
        BY <1>5, <3>1
      <3> QED
        BY <1>1, <1>7, <1>8, <3>1, <3>2, <3>3
    <2>4. CASE ~(s.at < a /\ u \notin s.who)
               /\ ~(snapshot # None /\ u \notin snapshot.who /\ snapshot.at < a)
      <3>1. a # Old /\ a <= a
        BY <1>0, <1>4, <2>1
      <3> QED
        BY <1>4, <1>7, <1>8, <2>1, <2>4, <3>1
    <2> QED
      BY <2>2, <2>3, <2>4
  <1>10. CASE Dropped
    <2>1. /\ a \in Showings(u) /\ snapshot # None /\ snapshot' = snapshot /\ expired' = expired
          /\ a < Timeout \/ (~expired /\ u \in snapshot.who)
      BY <1>6, <1>10 DEF Showings, Dropped
    <2>2. snapshot.at <= s.at /\ (s.at <= snapshot.at => Answers)
      BY <1>0, <1>1, <1>10 DEF Dropped
    <2>3. CASE ~(s.at < a /\ u \notin s.who) /\ a # Old
      <3>1. a <= a
        BY <1>0, <1>4
      <3> QED
        BY <1>4, <1>7, <1>8, <2>1, <2>3, <3>1
    <2>4. CASE s.at < a \/ a = Old
      <3>0. /\ snapshot.at <= a /\ s.at <= a /\ (a < Timeout => s.at < a)
            /\ ~(s.at < snapshot.at)
        <4>1. /\ s.at \in Nat /\ s.at <= Timeout + 1 /\ a \in Nat /\ snapshot.at \in Nat
              /\ snapshot.at <= s.at /\ (s.at < a \/ a = Timeout + 1) /\ Timeout \in Nat
          BY <1>0, <1>1, <1>4, <2>1, <2>2, <2>4
        <4> QED
          BY <4>1
      <3>1. CASE u \notin snapshot.who
        <4>1. a < Timeout
          BY <2>1, <3>1
        <4>2. snapshot.at < a
          BY <1>1, <1>4, <2>1, <2>2, <3>0, <4>1
        <4> QED
          BY <2>1, <3>1, <4>2 DEF Corrects
      <3>2. CASE u \in snapshot.who /\ ~expired
        <4>1. snapshot.at \in Showings(u)
          BY <2>1, <3>2 DEF Showings
        <4>2. snapshot.at # Old
          <5>1. CASE s.at <= snapshot.at
            BY <1>0, <1>1, <2>2, <5>1 DEF Answers
          <5>2. CASE ~(s.at <= snapshot.at)
            BY <1>0, <1>1, <5>2
          <5> QED
            BY <5>1, <5>2
        <4> QED
          BY <1>1, <1>7, <1>8, <2>1, <3>0, <4>1, <4>2
      <3>3. CASE u \in snapshot.who /\ expired
        <4>1. a < Timeout /\ snapshot.at >= Timeout
          BY <2>1, <3>3 DEF ExpiredInv
        <4> QED
          BY <1>0, <1>1, <1>4, <2>1, <2>2, <3>0, <4>1
      <3> QED
        BY <3>1, <3>2, <3>3
    <2> QED
      BY <2>3, <2>4
  <1> QED
    BY <1>3, <1>9, <1>10

LEMMA ViewerEnded ==
    ASSUME PresenceAssumption, MaxStay <= Timeout, Typed, Typed', InTime, ExpiredInv, EndedInv,
           ~Ties, ~Losses,
           \/ ServeFetch \/ OpenPage \/ LeavePage \/ FetchArrives \/ TimerFires \/ Lose
           \/ \E e \in events : EventArrives(e)
    PROVE  EndedInv'
  <1>0. drafts' = drafts /\ tasks' = tasks
    BY DEF ServeFetch, OpenPage, LeavePage, FetchArrives, TimerFires, Lose, EventArrives, server
  <1>1. CASE ServeFetch
    <2>0. /\ fetch \in Reading /\ fetch # None /\ fetch' \in Reading /\ fetch' # None
          /\ UNCHANGED <<events, viewing, snapshot, expired>>
      <3>1. fetch' # None
        <4>1. fetch' \in {[fetch EXCEPT !.step = "stamped", !.at = 0],
                          [fetch EXCEPT !.step = "queried", !.who = Active]}
          BY <1>1 DEF ServeFetch
        <4>2. fetch \in Reading /\ 0 \in Ages /\ Active \subseteq Editors
          BY <1>1, AgesAreNumbers DEF ServeFetch, Typed, Active
        <4>3. fetch' \in Reading
          BY <4>1, <4>2 DEF Reading
        <4> QED
          BY <4>3, AgesAreNumbers
      <3> QED
        BY <1>1, <3>1 DEF ServeFetch, Typed
    <2> SUFFICES ASSUME viewing, NEW u \in Editors, drafts[u] = None, NEW a \in Showings(u)'
                 PROVE  Corrects(u, a)'
      BY <1>0, <2>0 DEF EndedInv
    <2>1. CASE fetch.step = "asked" /\ MayStamp
                 /\ fetch' = [fetch EXCEPT !.step = "stamped", !.at = 0]
      <3>1. fetch'.step = "stamped" /\ fetch'.at = 0
        BY <2>0, <2>1 DEF Reading
      <3>2. a \in Showings(u)
        BY <2>0, <3>1 DEF Showings, Fetched
      <3>3. 0 < a
        BY <2>1, <3>2, StampIsNewest
      <3> QED
        BY <2>0, <3>1, <3>3 DEF Corrects
    <2>2. CASE fetch.step = "stamped" /\ fetch' = [fetch EXCEPT !.step = "queried", !.who = Active]
      <3>1. fetch'.step = "queried" /\ fetch'.at = fetch.at /\ fetch'.who = Active
        BY <2>0, <2>2 DEF Reading
      <3>2. u \notin Active
        BY DEF Active
      <3>3. a \in Showings(u)
        BY <2>0, <3>1, <3>2 DEF Showings, Fetched
      <3>4. Corrects(u, a)
        BY <3>3 DEF EndedInv
      <3> QED
        BY <1>0, <2>0, <2>2, <3>1, <3>2, <3>4 DEF Corrects, Ending
    <2> QED
      BY <1>1, <2>1, <2>2 DEF ServeFetch
  <1>2. CASE OpenPage
    BY <1>2, TaskRecords, AgesAreNumbers DEF OpenPage, EndedInv, Corrects
  <1>3. CASE LeavePage
    BY <1>3 DEF LeavePage, EndedInv
  <1>4. CASE TimerFires
    <2>1. UNCHANGED <<events, viewing, snapshot, fetch>> /\ expired'
      BY <1>4 DEF TimerFires
    <2>2. \A u \in Editors : Showings(u)' \subseteq Showings(u)
      BY <2>1 DEF Showings, Fetched
    <2>3. \A u \in Editors, a \in Ages : Corrects(u, a) => Corrects(u, a)'
      BY <1>0, <2>1 DEF Corrects, Ending
    <2> QED
      BY <1>0, <2>1, <2>2, <2>3, ShowingsAreAges DEF EndedInv
  <1>5. CASE FetchArrives
    <2>1. fetch \in Reading /\ fetch # None /\ viewing
      BY <1>5 DEF FetchArrives, Typed
    <2>2. PICK s \in Taken : s = [at |-> fetch.at, who |-> fetch.who]
      BY <2>1 DEF Reading, Taken
    <2>3. s.at = fetch.at /\ s.at \in Nat /\ (snapshot # None => snapshot.at \in Nat)
      BY <2>2, AgesAreNumbers DEF Taken, Typed
    <2>4. \/ /\ snapshot' = s /\ expired' = (s.at >= Timeout)
             /\ snapshot # None => s.at <= snapshot.at
          \/ /\ snapshot # None /\ UNCHANGED <<snapshot, expired>>
             /\ snapshot.at <= s.at
      BY <1>5, <2>2, <2>3 DEF FetchArrives, Shows
    <2>5. /\ fetch.step = "queried" /\ fetch' = None /\ events' = events
      BY <1>5 DEF FetchArrives
    <2> QED
      BY <1>0, <2>1, <2>2, <2>4, <2>5, ArrivalEnded
  <1>6. CASE Lose
    BY <1>6 DEF Lose
  <1>7. CASE \E e \in events : EventArrives(e)
    <2>1. PICK s \in events : EventArrives(s)
      BY <1>7
    <2>2. s \in Taken /\ s.at \in Nat /\ (snapshot # None => snapshot.at \in Nat)
      BY AgesAreNumbers DEF Taken, Typed
    <2>3. events' = events \ {s} /\ fetch' = fetch /\ viewing' = viewing
      BY <2>1 DEF EventArrives
    <2>4. CASE viewing
      <3>1. \/ /\ snapshot' = s /\ expired' = (s.at >= Timeout)
               /\ snapshot # None => s.at <= snapshot.at
            \/ /\ snapshot # None /\ UNCHANGED <<snapshot, expired>>
               /\ snapshot.at < s.at
        BY <2>1, <2>2, <2>4 DEF EventArrives, Shows, IsNewer
      <3> QED
        BY <1>0, <2>2, <2>3, <2>4, <3>1, ArrivalEnded
    <2>5. CASE ~viewing
      BY <2>3, <2>5 DEF EndedInv
    <2> QED
      BY <2>4, <2>5
  <1> QED
    BY <1>1, <1>2, <1>3, <1>4, <1>5, <1>6, <1>7

LEMMA EndedIsGone ==
    ASSUME PresenceAssumption, Typed, EndedInv
    PROVE  EndedSessionsAreGone
  <1> SUFFICES ASSUME Quiet, NEW u \in Shown, drafts[u] = None
               PROVE  FALSE
    BY DEF EndedSessionsAreGone
  <1>1. snapshot # None /\ ~expired /\ u \in snapshot.who /\ u \in Editors
    BY DEF Shown, Typed, Taken
  <1>2. snapshot.at \in Showings(u)
    BY <1>1 DEF Showings
  <1>3. Corrects(u, snapshot.at)
    BY <1>1, <1>2 DEF Quiet, EndedInv
  <1> QED
    BY <1>1, <1>3 DEF Quiet, Corrects, Ending

(* With every broadcast delivered, in any order, and requests that take no     *)
(* longer than the timeout, nobody whose session has ended is shown.           *)
THEOREM EndedSessionsLeave ==
    ASSUME PresenceAssumption, ~Ties, ~Fails, ~Losses, MaxStay <= Timeout
    PROVE  Spec => []EndedSessionsAreGone
  <1>1. Init => Typed /\ InTime /\ ExpiredInv /\ EndedInv
    BY InitTyped, InitInTime DEF Init, ExpiredInv, EndedInv
  <1>2. Typed /\ InTime /\ ExpiredInv /\ EndedInv /\ [Next]_vars
          => Typed' /\ InTime' /\ ExpiredInv' /\ EndedInv'
    <2> SUFFICES ASSUME Typed, InTime, ExpiredInv, EndedInv, [Next]_vars
                 PROVE  Typed' /\ InTime' /\ ExpiredInv' /\ EndedInv'
      OBVIOUS
    <2>1. Typed' /\ InTime' /\ ExpiredInv'
      BY StepTyped, StepInTime, StepExpired
    <2>2. CASE Tick
      BY <2>1, <2>2, TickEnded
    <2>3. CASE \/ \E v \in Editors : Save(v) \/ End(v) \/ Claim(v) \/ Announce(v)
               \/ \E v \in Editors, k \in Kinds : Query(v, k)
      BY <2>1, <2>3, ServerEnded
    <2>4. CASE \/ ServeFetch \/ OpenPage \/ LeavePage \/ FetchArrives \/ TimerFires \/ Lose
               \/ \E e \in events : EventArrives(e)
      BY <2>1, <2>4, ViewerEnded
    <2>5. CASE UNCHANGED vars
      BY <2>1, <2>5 DEF vars, server, viewer, EndedInv, Showings, Fetched, Corrects, Ending
    <2> QED
      BY <2>1, <2>2, <2>3, <2>4, <2>5 DEF Next
  <1>3. Typed /\ EndedInv => EndedSessionsAreGone
    BY EndedIsGone
  <1> QED
    BY <1>1, <1>2, <1>3, PTL DEF Spec

-----------------------------------------------------------------------------
(* Nobody is suppressed unseen *)

\* The save whose broadcast is under way has the entry of its editor, the end of
\* a session has none, and an editor has one request at a time.
ClaimsInv ==
  \A u \in Editors :
    LET save == tasks[u]["save"] end == tasks[u]["end"]
    IN  /\ save # None /\ save.step = "done" => drafts[u] # None /\ drafts[u] <= save.at
        /\ save # None /\ save.step = "stamped" => times[u] = save.at
        /\ end # None /\ end.step = "stamped" => times[u] = None
        /\ save = None \/ end = None

LEMMA StepClaims ==
    ASSUME PresenceAssumption, ~Overlaps, Typed, ClaimsInv, [Next]_vars
    PROVE  ClaimsInv'
  <1>0. /\ 0 # None /\ "save" \in Kinds /\ "end" \in Kinds
        /\ NewTask # None /\ NewTask.step = "done" /\ NewTask.at = 0
    BY TaskRecords, AgesAreNumbers
  <1>1. CASE Tick
    <2> SUFFICES ASSUME NEW u \in Editors
                 PROVE  LET save == tasks'[u]["save"] end == tasks'[u]["end"]
                        IN  /\ save # None /\ save.step = "done" => drafts'[u] # None
                                 /\ drafts'[u] <= save.at
                            /\ save # None /\ save.step = "stamped" => times'[u] = save.at
                            /\ end # None /\ end.step = "stamped" => times'[u] = None
                            /\ save = None \/ end = None
      BY DEF ClaimsInv
    <2>1. /\ \A k \in Kinds : tasks[u][k] \in Task \cup {None}
          /\ drafts[u] \in Ages \cup {None} /\ times[u] \in Ages \cup {None}
      BY DEF Typed
    <2>2. \A k \in Kinds : tasks[u][k] # None => tasks[u][k].at \in Ages
      BY <2>1 DEF Task
    <2>3. /\ \A k \in Kinds : /\ tasks'[u][k] = None <=> tasks[u][k] = None
                              /\ tasks[u][k] # None =>
                                   /\ tasks'[u][k].step = tasks[u][k].step
                                   /\ tasks'[u][k].at = Older(tasks[u][k].at)
          /\ drafts'[u] = Older(drafts[u]) /\ times'[u] = Older(times[u])
      BY <1>1, TickAges
    <2>4. /\ Older(drafts[u]) = None <=> drafts[u] = None
          /\ Older(times[u]) = None <=> times[u] = None
      BY <2>1, OlderIs
    <2>5. ASSUME tasks'[u]["save"] # None, tasks'[u]["save"].step = "done"
          PROVE  drafts'[u] # None /\ drafts'[u] <= tasks'[u]["save"].at
      <3>1. /\ drafts[u] # None /\ drafts[u] <= tasks[u]["save"].at
            /\ tasks[u]["save"].at \in Ages /\ drafts[u] \in Ages
        BY <2>1, <2>2, <2>3, <2>5 DEF ClaimsInv
      <3>2. Older(drafts[u]) <= Older(tasks[u]["save"].at)
        BY <3>1, OlderKeepsOrder
      <3> QED
        BY <2>3, <2>4, <2>5, <3>1, <3>2
    <2>6. tasks'[u]["save"] # None /\ tasks'[u]["save"].step = "stamped"
            => times'[u] = tasks'[u]["save"].at
      BY <2>3 DEF ClaimsInv
    <2>7. tasks'[u]["end"] # None /\ tasks'[u]["end"].step = "stamped" => times'[u] = None
      BY <2>3, <2>4 DEF ClaimsInv
    <2>8. tasks'[u]["save"] = None \/ tasks'[u]["end"] = None
      BY <2>3 DEF ClaimsInv
    <2> QED
      BY <2>5, <2>6, <2>7, <2>8
  <1>2. ASSUME NEW v \in Editors, Save(v)
        PROVE  ClaimsInv'
    <2>1. /\ Moves(v, "save") /\ tasks'[v]["save"] = NewTask /\ times' = times
          /\ tasks[v]["end"] = None /\ drafts'[v] = 0
          /\ \A w \in Editors \ {v} : drafts'[w] = drafts[w]
      BY <1>2, SaveTyped DEF Save, MayAsk
    <2> QED
      BY <1>0, <2>1 DEF ClaimsInv, Moves
  <1>3. ASSUME NEW v \in Editors, End(v)
        PROVE  ClaimsInv'
    <2>1. /\ Moves(v, "end") /\ tasks'[v]["end"] = NewTask /\ times' = times
          /\ tasks[v]["save"] = None /\ \A w \in Editors \ {v} : drafts'[w] = drafts[w]
      BY <1>3, EndTyped DEF End, MayAsk
    <2> QED
      BY <1>0, <2>1 DEF ClaimsInv, Moves
  <1>4. ASSUME NEW v \in Editors, Claim(v)
        PROVE  ClaimsInv'
    <2>1. tasks[v]["end"] = None /\ drafts' = drafts
      BY <1>4 DEF Claim, ClaimsInv
    <2> QED
      BY <1>4, <2>1, ClaimTyped DEF ClaimsInv, Moves
  <1>5. ASSUME NEW v \in Editors, Announce(v)
        PROVE  ClaimsInv'
    <2>1. tasks[v]["save"] = None /\ drafts' = drafts
      BY <1>5 DEF Announce, ClaimsInv
    <2> QED
      BY <1>5, <2>1, AnnounceTyped DEF ClaimsInv, Moves
  <1>6. ASSUME NEW v \in Editors, NEW k \in Kinds, Query(v, k)
        PROVE  ClaimsInv'
    <2>1. /\ Moves(v, k) /\ tasks'[v][k] = None /\ drafts' = drafts
          /\ times' = times \/ times' = Released(v, k)
      BY <1>6, QueryTyped DEF Query
    <2>2. \A w \in Editors : times'[w] = times[w] \/ (w = v /\ k = "save" /\ times'[w] = None)
      BY <2>1 DEF Released, Typed
    <2>3. k = "save" => tasks[v]["end"] = None
      BY <1>6 DEF Query, ClaimsInv
    <2> QED
      BY <2>1, <2>2, <2>3 DEF ClaimsInv, Moves
  <1>7. CASE \/ ServeFetch \/ OpenPage \/ LeavePage \/ FetchArrives \/ TimerFires \/ Lose
             \/ \E e \in events : EventArrives(e)
             \/ UNCHANGED vars
    BY <1>7 DEF ServeFetch, OpenPage, LeavePage, FetchArrives, TimerFires, Lose, EventArrives,
                vars, server, ClaimsInv
  <1> QED
    BY <1>1, <1>2, <1>3, <1>4, <1>5, <1>6, <1>7 DEF Next

\* What the viewer has, or has coming.
Snapshots == events \cup Fetched \cup (IF snapshot = None THEN {} ELSE {snapshot})

\* The draft of u is recent, every snapshot since the last announcement of u names
\* u, and the viewer has such a snapshot or will get one.
Known(u) ==
  /\ drafts[u] # None /\ drafts[u] <= times[u] + MaxStay
  /\ \A s \in Snapshots : s.at <= times[u] => u \in s.who
  /\ viewing =>
       \/ tasks[u]["save"] # None /\ tasks[u]["save"].step = "stamped"
       \/ \E s \in Snapshots : s.at <= times[u]
       \/ fetch # None /\ (fetch.step = "asked" \/ fetch.at <= times[u])

SuppInv == \A u \in Editors : Suppressed(u) => Ending(u) \/ Known(u)

LEMMA SnapshotsAreTaken ==
    ASSUME PresenceAssumption, Typed
    PROVE  Snapshots \subseteq Taken /\ \A s \in Snapshots : s.at \in Ages /\ s.at \in Nat
  <1>1. Fetched \subseteq Taken
    BY DEF Fetched, Typed, Reading, Taken
  <1>2. Snapshots \subseteq Taken
    BY <1>1 DEF Snapshots, Typed
  <1> QED
    BY <1>2, AgesAreNumbers DEF Taken

LEMMA SuppressedTimes ==
    ASSUME PresenceAssumption, Typed, NEW u \in Editors, Suppressed(u)
    PROVE  /\ times[u] \in Nat /\ times[u] \in Ages /\ times[u] < Interval
           /\ times[u] < Timeout /\ times[u] # Old
           /\ Interval \in Nat /\ Timeout \in Nat /\ MaxStay \in Nat
  <1>1. times[u] \in Ages /\ times[u] < Interval /\ times[u] \in Nat
    BY AgesAreNumbers DEF Suppressed, Typed
  <1>2. /\ Interval \in Nat /\ Timeout \in Nat /\ Interval < Timeout /\ MaxStay \in Nat
        /\ Old = Timeout + 1
    BY DEF PresenceAssumption, Old
  <1>3. times[u] < Timeout /\ times[u] # Timeout + 1
    BY <1>1, <1>2
  <1> QED
    BY <1>1, <1>2, <1>3

(* Every snapshot taken now names whoever is known. *)
LEMMA KnownIsActive ==
    ASSUME PresenceAssumption, Interval + MaxStay <= Timeout + 1, Typed,
           NEW u \in Editors, Suppressed(u), Known(u)
    PROVE  u \in Active
  <1>1. drafts[u] # None /\ drafts[u] \in Nat /\ drafts[u] <= times[u] + MaxStay
    BY AgesAreNumbers DEF Known, Typed
  <1>2. drafts[u] <= Timeout
    BY <1>1, SuppressedTimes
  <1> QED
    BY <1>1, <1>2 DEF Active

LEMMA TickSnapshots ==
    ASSUME PresenceAssumption, Typed, Tick
    PROVE  /\ \A s \in Snapshots : \E a \in Snapshots' : a.who = s.who /\ a.at = Older(s.at)
           /\ \A a \in Snapshots' : \E s \in Snapshots : a.who = s.who /\ a.at = Older(s.at)
  <1>1. /\ fetch' = None <=> fetch = None
        /\ fetch # None => /\ fetch'.step = fetch.step /\ fetch'.who = fetch.who
                           /\ fetch'.at = Older(fetch.at)
        /\ snapshot' = None <=> snapshot = None
        /\ snapshot # None => snapshot'.who = snapshot.who /\ snapshot'.at = Older(snapshot.at)
    BY TickAges
  <1>2. /\ \A e \in events : \E a \in events' : a.who = e.who /\ a.at = Older(e.at)
        /\ \A a \in events' : \E e \in events : a.who = e.who /\ a.at = Older(e.at)
    BY TickEvents
  <1>3. /\ \A s \in Fetched : \E a \in Fetched' : a.who = s.who /\ a.at = Older(s.at)
        /\ \A a \in Fetched' : \E s \in Fetched : a.who = s.who /\ a.at = Older(s.at)
    <2>1. CASE fetch # None /\ fetch.step = "queried"
      <3>1. PICK s : s = [at |-> fetch.at, who |-> fetch.who]
        OBVIOUS
      <3>2. PICK a : a = [at |-> fetch'.at, who |-> fetch'.who]
        OBVIOUS
      <3>3. Fetched = {s} /\ Fetched' = {a}
        BY <1>1, <2>1, <3>1, <3>2 DEF Fetched
      <3>4. a.who = s.who /\ a.at = Older(s.at)
        BY <1>1, <2>1, <3>1, <3>2
      <3> QED
        BY <3>3, <3>4
    <2>2. CASE ~(fetch # None /\ fetch.step = "queried")
      <3>1. Fetched = {} /\ Fetched' = {}
        BY <1>1, <2>2 DEF Fetched
      <3> QED
        BY <3>1
    <2> QED
      BY <2>1, <2>2
  <1> QED
    BY <1>1, <1>2, <1>3 DEF Snapshots

LEMMA TickSupp ==
    ASSUME PresenceAssumption, Typed, SuppInv, Tick
    PROVE  SuppInv'
  <1> SUFFICES ASSUME NEW u \in Editors, Suppressed(u)', ~Ending(u)'
               PROVE  Known(u)'
    BY DEF SuppInv
  <1>1. /\ times[u] \in Ages \cup {None} /\ times'[u] = Older(times[u])
        /\ drafts[u] \in Ages \cup {None} /\ drafts'[u] = Older(drafts[u])
        /\ \A k \in Kinds : /\ tasks'[u][k] = None <=> tasks[u][k] = None
                            /\ tasks[u][k] # None => tasks'[u][k].step = tasks[u][k].step
    BY TickAges DEF Typed
  <1>2. times[u] \in Ages /\ times[u] # None
    BY <1>1, OlderIs DEF Suppressed
  <1>3. Suppressed(u)
    <2>1. /\ Older(times[u]) = (IF times[u] = Old THEN Old ELSE times[u] + 1)
          /\ times[u] \in Nat /\ Older(times[u]) < Interval /\ Interval \in Nat
      BY <1>1, <1>2, OlderIs, AgesAreNumbers DEF Suppressed, PresenceAssumption
    <2>2. times[u] < Interval
      BY <2>1
    <2> QED
      BY <1>2, <2>2 DEF Suppressed
  <1>4. times'[u] = times[u] + 1 /\ times'[u] # Old
    <2>1. times[u] \in Nat /\ times[u] < Interval /\ Interval < Timeout /\ Old = Timeout + 1
          /\ Interval \in Nat /\ Timeout \in Nat
      BY <1>3, SuppressedTimes DEF PresenceAssumption, Old
    <2>2. times'[u] = IF times[u] = Old THEN Old ELSE times[u] + 1
      BY <1>1, <1>2, OlderIs
    <2> QED
      BY <2>1, <2>2
  <1>5. Known(u)
    BY <1>1, <1>3 DEF SuppInv, Ending
  <1>6. drafts'[u] # None /\ drafts'[u] <= times'[u] + MaxStay
    <2>1. drafts[u] # None /\ drafts[u] \in Ages /\ drafts[u] <= times[u] + MaxStay
      BY <1>1, <1>5 DEF Known
    <2>2. Older(drafts[u]) # None /\ Older(drafts[u]) <= drafts[u] + 1 /\ Older(drafts[u]) \in Nat
      BY <2>1, OlderIs, OlderKeepsOrder
    <2>3. drafts[u] \in Nat /\ times[u] \in Nat /\ MaxStay \in Nat
      BY <1>3, <2>1, SuppressedTimes, AgesAreNumbers
    <2> QED
      BY <1>1, <1>4, <2>1, <2>2, <2>3
  <1>7. ASSUME NEW a \in Snapshots', a.at <= times'[u]
        PROVE  u \in a.who
    <2>1. PICK s \in Snapshots : a.who = s.who /\ a.at = Older(s.at)
      BY TickSnapshots
    <2>2. s.at \in Ages
      BY SnapshotsAreTaken
    <2>3. s.at <= times[u]
      BY <1>1, <1>2, <1>4, <1>7, <2>1, <2>2, OlderKeepsOrder
    <2> QED
      BY <1>5, <2>1, <2>3 DEF Known
  <1>8. ASSUME viewing'
        PROVE  \/ tasks'[u]["save"] # None /\ tasks'[u]["save"].step = "stamped"
               \/ \E s \in Snapshots' : s.at <= times'[u]
               \/ fetch' # None /\ (fetch'.step = "asked" \/ fetch'.at <= times'[u])
    <2>0. viewing
      BY <1>8 DEF Tick
    <2>1. CASE tasks[u]["save"] # None /\ tasks[u]["save"].step = "stamped"
      BY <1>1, <2>1
    <2>2. CASE \E s \in Snapshots : s.at <= times[u]
      <3>1. PICK s \in Snapshots : s.at <= times[u]
        BY <2>2
      <3>2. PICK a \in Snapshots' : a.at = Older(s.at)
        BY TickSnapshots
      <3>3. s.at \in Ages
        BY SnapshotsAreTaken
      <3>4. a.at <= times'[u]
        BY <1>1, <1>2, <3>1, <3>2, <3>3, OlderKeepsOrder
      <3> QED
        BY <3>4
    <2>3. CASE fetch # None /\ (fetch.step = "asked" \/ fetch.at <= times[u])
      <3>1. fetch' # None /\ fetch'.step = fetch.step /\ fetch'.at = Older(fetch.at)
        BY <2>3, TickAges
      <3>2. fetch.at \in Ages
        BY <2>3 DEF Typed, Reading
      <3>3. fetch.at <= times[u] => fetch'.at <= times'[u]
        BY <1>1, <1>2, <3>1, <3>2, OlderKeepsOrder
      <3> QED
        BY <2>3, <3>1, <3>3
    <2> QED
      BY <1>5, <2>0, <2>1, <2>2, <2>3 DEF Known
  <1> QED
    BY <1>6, <1>7, <1>8 DEF Known

(* What the other requests do leaves the announcement of u as it was. *)
LEMMA OthersKnown ==
    ASSUME NEW u \in Editors, Known(u), drafts'[u] = drafts[u], times'[u] = times[u],
           tasks'[u]["save"] = tasks[u]["save"],
           UNCHANGED <<events, viewing, snapshot, fetch>>
    PROVE  Known(u)'
  BY DEF Known, Snapshots, Fetched

LEMMA ServerSupp ==
    ASSUME PresenceAssumption, Interval + MaxStay <= Timeout + 1, ~Overlaps, ~Ties,
           Typed, InTime, ClaimsInv, SuppInv,
           \/ \E v \in Editors : Save(v) \/ End(v) \/ Claim(v) \/ Announce(v)
           \/ \E v \in Editors, k \in Kinds : Query(v, k)
    PROVE  SuppInv'
  <1>0. UNCHANGED <<viewing, snapshot, expired, fetch>>
    BY DEF Save, End, Claim, Announce, Query, viewer
  <1> SUFFICES ASSUME NEW u \in Editors, Suppressed(u)', ~Ending(u)'
               PROVE  Known(u)'
    BY DEF SuppInv
  <1>1. ASSUME NEW v \in Editors, Save(v)
        PROVE  Known(u)'
    <2>1. /\ Moves(v, "save") /\ tasks[v]["save"] = None /\ tasks[v]["end"] = None
          /\ times' = times /\ events' = events /\ drafts'[v] = 0
          /\ \A w \in Editors \ {v} : drafts'[w] = drafts[w]
      BY <1>1, SaveTyped DEF Save, MayAsk
    <2>2. Suppressed(u) /\ ~Ending(u)
      BY <2>1 DEF Suppressed, Ending, Moves
    <2>3. Known(u)
      BY <2>2 DEF SuppInv
    <2>4. CASE v = u
      <3>1. times[u] \in Nat /\ MaxStay \in Nat /\ 0 # None
        BY <2>2, SuppressedTimes, AgesAreNumbers
      <3>2. drafts'[u] # None /\ drafts'[u] <= times'[u] + MaxStay
        BY <2>1, <2>4, <3>1
      <3> QED
        BY <1>0, <2>1, <2>3, <2>4, <3>2 DEF Known, Snapshots, Fetched
    <2>5. CASE v # u
      BY <1>0, <2>1, <2>3, <2>5, OthersKnown DEF Moves
    <2> QED
      BY <2>4, <2>5
  <1>2. ASSUME NEW v \in Editors, End(v)
        PROVE  Known(u)'
    <2>1. /\ Moves(v, "end") /\ tasks'[v]["end"] = NewTask /\ times' = times /\ events' = events
          /\ \A w \in Editors \ {v} : drafts'[w] = drafts[w]
      BY <1>2, EndTyped DEF End
    <2>2. v # u
      BY <2>1, TaskRecords, AgesAreNumbers DEF Ending
    <2>3. Suppressed(u) /\ ~Ending(u)
      BY <2>1, <2>2 DEF Suppressed, Ending, Moves
    <2> QED
      BY <1>0, <2>1, <2>2, <2>3, OthersKnown DEF SuppInv, Moves
  <1>3. ASSUME NEW v \in Editors, Claim(v)
        PROVE  Known(u)'
    <2>1. /\ Moves(v, "save") /\ drafts' = drafts /\ events' = events
          /\ tasks[v]["save"] # None /\ tasks[v]["save"].step = "done"
      BY <1>3, ClaimTyped DEF Claim
    <2>2. ~Ending(u)
      BY <2>1 DEF Ending, Moves
    <2>3. CASE v # u
      <3>1. times'[u] = times[u]
        BY <1>3, <2>3, ClaimTyped
      <3>2. Known(u)
        BY <2>2, <3>1 DEF SuppInv, Suppressed
      <3> QED
        BY <1>0, <2>1, <2>3, <3>1, <3>2, OthersKnown DEF Moves
    <2>4. CASE v = u /\ times' = times
      <3>1. Known(u)
        BY <2>2, <2>4 DEF SuppInv, Suppressed
      <3> QED
        BY <1>0, <2>1, <2>4, <3>1 DEF Known, Snapshots, Fetched
    <2>5. CASE /\ v = u /\ MayStamp /\ tasks'[u]["save"] # None
               /\ tasks'[u]["save"].step = "stamped" /\ times'[u] = 0
      <3>1. drafts[u] # None /\ drafts[u] <= tasks[u]["save"].at /\ tasks[u]["save"].at <= MaxStay
        BY <2>1, <2>5 DEF ClaimsInv, InTime
      <3>2. drafts[u] \in Nat /\ tasks[u]["save"].at \in Nat /\ MaxStay \in Nat
        <4>1. tasks[u]["save"] \in Task \cup {None}
          BY DEF Typed
        <4> QED
          BY <2>1, <2>5, <3>1, <4>1, AgesAreNumbers DEF Typed, Task, PresenceAssumption
      <3>3. drafts'[u] <= times'[u] + MaxStay
        BY <2>1, <2>5, <3>1, <3>2
      <3>4. \A s \in Snapshots : s.at # 0 /\ s.at \in Nat
        BY <2>5, SnapshotsAreTaken
        DEF MayStamp, StampedNow, Snapshots, Fetched, Stamped
      <3>5. Snapshots' = Snapshots
        BY <1>0, <2>1 DEF Snapshots, Fetched
      <3>6. \A s \in Snapshots' : ~(s.at <= times'[u])
        BY <2>5, <3>4, <3>5
      <3> QED
        BY <2>1, <2>5, <3>1, <3>3, <3>6 DEF Known
    <2> QED
      BY <1>3, <2>3, <2>4, <2>5, ClaimTyped
  <1>4. ASSUME NEW v \in Editors, Announce(v)
        PROVE  Known(u)'
    <2>1. /\ Moves(v, "end") /\ drafts' = drafts /\ events' = events /\ times'[v] = None
          /\ \A w \in Editors \ {v} : times'[w] = times[w]
      BY <1>4, AnnounceTyped DEF Announce
    <2>2. v # u
      BY <2>1 DEF Suppressed
    <2>3. Suppressed(u) /\ ~Ending(u)
      BY <2>1, <2>2 DEF Suppressed, Ending, Moves
    <2> QED
      BY <1>0, <2>1, <2>2, <2>3, OthersKnown DEF SuppInv, Moves
  <1>5. ASSUME NEW v \in Editors, NEW k \in Kinds, Query(v, k)
        PROVE  Known(u)'
    <2>1. /\ Moves(v, k) /\ tasks'[v][k] = None /\ drafts' = drafts
          /\ tasks[v][k] # None /\ tasks[v][k].step = "stamped"
      BY <1>5, QueryTyped DEF Query
    <2>2. ~Ending(u)
      BY <2>1 DEF Ending, Moves
    <2>3. ~(v = u /\ k = "end")
      <3>1. CASE v = u /\ k = "end"
        <4>1. times[u] = None
          BY <2>1, <3>1 DEF ClaimsInv
        <4>2. times' = times
          BY <1>5, <3>1, QueryTyped DEF Released
        <4> QED
          BY <4>1, <4>2 DEF Suppressed
      <3> QED
        BY <3>1
    <2>4. CASE times' = times /\ events' = events \cup {[at |-> tasks[v][k].at, who |-> Active]}
      <3>1. Suppressed(u) /\ Known(u)
        BY <2>2, <2>4 DEF SuppInv, Suppressed
      <3>2. PICK e : e = [at |-> tasks[v][k].at, who |-> Active]
        OBVIOUS
      <3>3. /\ e.at = tasks[v][k].at /\ u \in e.who
            /\ Snapshots' = Snapshots \cup {e}
        BY <1>0, <2>4, <3>1, <3>2, KnownIsActive DEF Snapshots, Fetched
      <3>4. CASE v = u
        <4>1. e.at = times'[u] /\ times'[u] \in Nat
          BY <2>1, <2>3, <2>4, <3>1, <3>3, <3>4, SuppressedTimes DEF ClaimsInv
        <4>2. e.at <= times'[u]
          BY <4>1
        <4> QED
          BY <2>1, <2>4, <3>1, <3>3, <4>2 DEF Known
      <3>5. CASE v # u
        <4>1. tasks'[u]["save"] = tasks[u]["save"]
          BY <2>1, <3>5 DEF Moves
        <4> QED
          BY <1>0, <2>1, <2>4, <3>1, <3>3, <4>1 DEF Known
      <3> QED
        BY <3>4, <3>5
    <2>5. CASE Fails /\ times' = Released(v, k) /\ events' = events
      <3>1. v # u
        <4>1. CASE v = u
          <5>1. times[u] = tasks[u][k].at
            BY <2>1, <2>3, <4>1 DEF ClaimsInv
          <5>2. times'[u] = None
            BY <2>3, <2>5, <4>1, <5>1 DEF Released, Typed
          <5> QED
            BY <5>2 DEF Suppressed
        <4> QED
          BY <4>1
      <3>2. times'[u] = times[u]
        BY <2>5, <3>1 DEF Released, Typed
      <3>3. Known(u)
        BY <2>2, <3>2 DEF SuppInv, Suppressed
      <3> QED
        BY <1>0, <2>1, <2>5, <3>1, <3>2, <3>3, OthersKnown DEF Moves
    <2> QED
      BY <1>5, <2>4, <2>5, QueryTyped
  <1> QED
    BY <1>1, <1>2, <1>3, <1>4, <1>5

(* A snapshot comes to the viewer, which keeps the newer one. *)
LEMMA ArrivalKnown ==
    ASSUME PresenceAssumption, Typed, NEW u \in Editors, Suppressed(u), Known(u),
           viewing, UNCHANGED <<drafts, times, tasks>>, NEW s \in Taken,
           \/ s \in events /\ events' = events \ {s} /\ fetch' = fetch
           \/ /\ fetch # None /\ fetch.step = "queried" /\ s = [at |-> fetch.at, who |-> fetch.who]
              /\ fetch' = None /\ events' = events,
           \/ snapshot' = s /\ (snapshot # None => s.at <= snapshot.at)
           \/ snapshot # None /\ snapshot' = snapshot /\ snapshot.at <= s.at
    PROVE  Known(u)'
  <1>1. /\ times[u] \in Nat /\ s.at \in Nat /\ s # None
        /\ \A x \in Snapshots : x.at \in Nat
    BY SuppressedTimes, SnapshotsAreTaken, AgesAreNumbers DEF Taken
  <1>2. s \in Snapshots /\ Snapshots' \subseteq Snapshots
    BY DEF Snapshots, Fetched
  <1>3. \A x \in Snapshots \ Snapshots' : x = s \/ x = snapshot
    BY DEF Snapshots, Fetched
  <1>4. \/ s \in Snapshots' /\ (snapshot # None => s.at <= snapshot.at)
        \/ snapshot # None /\ snapshot \in Snapshots' /\ snapshot.at <= s.at
    BY <1>1 DEF Snapshots
  <1>5. snapshot # None => snapshot \in Snapshots
    BY DEF Snapshots
  <1>6. ASSUME NEW x \in Snapshots, x.at <= times[u]
        PROVE  \E y \in Snapshots' : y.at <= times[u]
    <2>1. CASE x \in Snapshots'
      BY <1>6, <2>1
    <2>2. CASE x \notin Snapshots'
      <3>1. x = s \/ (x = snapshot /\ snapshot # None)
        <4>1. None \notin Snapshots
          BY SnapshotsAreTaken, AgesAreNumbers
        <4> QED
          BY <1>3, <2>2, <4>1
      <3> QED
        BY <1>1, <1>2, <1>4, <1>5, <1>6, <2>2, <3>1
    <2> QED
      BY <2>1, <2>2
  <1>7. \/ tasks[u]["save"] # None /\ tasks[u]["save"].step = "stamped"
        \/ \E x \in Snapshots : x.at <= times[u]
        \/ fetch # None /\ (fetch.step = "asked" \/ fetch.at <= times[u])
    BY DEF Known
  <1>8. \/ tasks[u]["save"] # None /\ tasks[u]["save"].step = "stamped"
        \/ \E x \in Snapshots : x.at <= times[u]
        \/ fetch' # None /\ (fetch'.step = "asked" \/ fetch'.at <= times[u])
    <2>1. CASE fetch' = fetch
      BY <1>7, <2>1
    <2>2. CASE /\ fetch # None /\ fetch.step = "queried"
               /\ s = [at |-> fetch.at, who |-> fetch.who]
      <3>1. s.at = fetch.at
        BY <2>2
      <3> QED
        BY <1>2, <1>7, <2>2, <3>1
    <2> QED
      BY <2>1, <2>2
  <1> QED
    BY <1>2, <1>6, <1>8 DEF Known

LEMMA ViewerSupp ==
    ASSUME PresenceAssumption, Interval + MaxStay <= Timeout + 1, ~Losses, Typed, SuppInv,
           \/ ServeFetch \/ OpenPage \/ LeavePage \/ FetchArrives \/ TimerFires \/ Lose
           \/ \E e \in events : EventArrives(e)
    PROVE  SuppInv'
  <1>0. drafts' = drafts /\ times' = times /\ tasks' = tasks
    BY DEF ServeFetch, OpenPage, LeavePage, FetchArrives, TimerFires, Lose, EventArrives, server
  <1> SUFFICES ASSUME NEW u \in Editors, Suppressed(u), ~Ending(u), Known(u)
               PROVE  Known(u)'
    BY <1>0 DEF SuppInv, Suppressed, Ending
  <1>1. CASE ServeFetch
    <2>1. /\ fetch \in Reading /\ fetch # None /\ UNCHANGED <<events, viewing, snapshot>>
      BY <1>1 DEF ServeFetch, Typed
    <2>2. Active \subseteq Editors /\ u \in Active /\ 0 \in Ages
      BY KnownIsActive, AgesAreNumbers DEF Active
    <2>3. CASE fetch.step = "asked" /\ fetch' = [fetch EXCEPT !.step = "stamped", !.at = 0]
      <3>1. fetch' \in Reading /\ fetch'.step = "stamped" /\ fetch'.at = 0
        BY <2>1, <2>2, <2>3 DEF Reading
      <3>2. fetch' # None /\ fetch'.at <= times[u]
        BY <3>1, SuppressedTimes, AgesAreNumbers
      <3>3. Snapshots' = Snapshots
        BY <2>1, <2>3, <3>1 DEF Snapshots, Fetched
      <3> QED
        BY <1>0, <3>2, <3>3 DEF Known
    <2>4. CASE fetch.step = "stamped" /\ fetch' = [fetch EXCEPT !.step = "queried", !.who = Active]
      <3>1. /\ fetch' \in Reading /\ fetch'.step = "queried" /\ fetch'.at = fetch.at
            /\ fetch'.who = Active
        BY <2>1, <2>2, <2>4 DEF Reading
      <3>2. fetch' # None
        BY <3>1, AgesAreNumbers
      <3>3. PICK s : s = [at |-> fetch.at, who |-> Active]
        OBVIOUS
      <3>4. Snapshots' = Snapshots \cup {s} /\ u \in s.who
        BY <2>1, <2>2, <2>4, <3>1, <3>2, <3>3 DEF Snapshots, Fetched
      <3> QED
        BY <1>0, <2>1, <2>4, <3>1, <3>2, <3>4 DEF Known
    <2> QED
      BY <1>1, <2>3, <2>4 DEF ServeFetch
  <1>2. CASE OpenPage
    <2>1. fetch = None /\ fetch' = NewFetch /\ NewFetch # None /\ NewFetch.step = "asked"
      BY <1>2, TaskRecords, AgesAreNumbers DEF OpenPage, Typed
    <2>2. Snapshots' = Snapshots
      BY <1>2, <2>1 DEF OpenPage, Snapshots, Fetched
    <2> QED
      BY <1>0, <2>1, <2>2 DEF Known
  <1>3. CASE LeavePage
    <2>1. Snapshots' \subseteq Snapshots /\ ~viewing'
      BY <1>3 DEF LeavePage, Snapshots, Fetched
    <2> QED
      BY <1>0, <2>1 DEF Known
  <1>4. CASE FetchArrives
    <2>1. fetch \in Reading /\ fetch # None /\ viewing /\ viewing' = viewing
      BY <1>4 DEF FetchArrives, Typed
    <2>2. PICK s \in Taken : s = [at |-> fetch.at, who |-> fetch.who]
      BY <2>1 DEF Reading, Taken
    <2>3. s.at = fetch.at /\ s.at \in Nat /\ (snapshot # None => snapshot.at \in Nat)
      BY <2>2, AgesAreNumbers DEF Taken, Typed
    <2>4. \/ snapshot' = s /\ (snapshot # None => s.at <= snapshot.at)
          \/ snapshot # None /\ snapshot' = snapshot /\ snapshot.at <= s.at
      BY <1>4, <2>2, <2>3 DEF FetchArrives, Shows
    <2>5. fetch.step = "queried" /\ fetch' = None /\ events' = events
      BY <1>4 DEF FetchArrives
    <2> QED
      BY <1>0, <2>1, <2>2, <2>4, <2>5, ArrivalKnown
  <1>5. CASE TimerFires
    BY <1>0, <1>5, OthersKnown DEF TimerFires
  <1>6. CASE Lose
    BY <1>6 DEF Lose
  <1>7. CASE \E e \in events : EventArrives(e)
    <2>1. PICK s \in events : EventArrives(s)
      BY <1>7
    <2>2. s \in Taken /\ s.at \in Nat /\ (snapshot # None => snapshot.at \in Nat)
      BY AgesAreNumbers DEF Taken, Typed
    <2>3. events' = events \ {s} /\ fetch' = fetch /\ viewing' = viewing
      BY <2>1 DEF EventArrives
    <2>4. CASE viewing
      <3>1. \/ snapshot' = s /\ (snapshot # None => s.at <= snapshot.at)
            \/ snapshot # None /\ snapshot' = snapshot /\ snapshot.at <= s.at
        BY <2>1, <2>2, <2>4 DEF EventArrives, Shows, IsNewer
      <3> QED
        BY <1>0, <2>2, <2>3, <2>4, <3>1, ArrivalKnown
    <2>5. CASE ~viewing
      <3>1. Snapshots' \subseteq Snapshots
        BY <2>1, <2>3, <2>5 DEF EventArrives, Snapshots, Fetched
      <3> QED
        BY <1>0, <2>3, <2>5, <3>1 DEF Known
    <2> QED
      BY <2>4, <2>5
  <1> QED
    BY <1>1, <1>2, <1>3, <1>4, <1>5, <1>6, <1>7

LEMMA KnownIsShown ==
    ASSUME PresenceAssumption, Typed, ExpiredInv, SuppInv
    PROVE  NobodySuppressedUnseen
  <1> SUFFICES ASSUME Quiet, NEW u \in Editors, Suppressed(u)
               PROVE  u \in Shown
    BY DEF NobodySuppressedUnseen, Active
  <1>1. Known(u)
    BY DEF Quiet, SuppInv, Ending
  <1>2. \E s \in Snapshots : s.at <= times[u]
    BY <1>1 DEF Known, Quiet
  <1>3. snapshot # None /\ snapshot.at <= times[u] /\ u \in snapshot.who
    BY <1>1, <1>2 DEF Known, Quiet, Snapshots, Fetched
  <1>4. ~(snapshot.at >= Timeout)
    <2>1. snapshot.at \in Nat
      BY <1>3, AgesAreNumbers DEF Typed, Taken
    <2> QED
      BY <1>3, <2>1, SuppressedTimes
  <1> QED
    BY <1>3, <1>4 DEF ExpiredInv, Shown

(* With one request of an editor at a time and every broadcast that sets out      *)
(* delivered, and requests that take no longer than what the timeout leaves of     *)
(* the interval, whoever's saves are not announced is on the viewer's screen.      *)
THEOREM SuppressedAreSeen ==
    ASSUME PresenceAssumption, ~Overlaps, ~Losses, ~Ties, Interval + MaxStay <= Timeout + 1
    PROVE  Spec => []NobodySuppressedUnseen
  <1>1. Init => Typed /\ InTime /\ ExpiredInv /\ ClaimsInv /\ SuppInv
    <2> SUFFICES ASSUME Init
                 PROVE  Typed /\ InTime /\ ExpiredInv /\ ClaimsInv /\ SuppInv
      OBVIOUS
    <2>1. \A u \in Editors : times[u] = None /\ tasks[u]["save"] = None /\ tasks[u]["end"] = None
      BY DEF Init
    <2>2. ClaimsInv /\ SuppInv
      BY <2>1 DEF ClaimsInv, SuppInv, Suppressed
    <2> QED
      BY <2>2, InitTyped, InitInTime DEF Init, ExpiredInv
  <1>2. Typed /\ InTime /\ ExpiredInv /\ ClaimsInv /\ SuppInv /\ [Next]_vars
          => Typed' /\ InTime' /\ ExpiredInv' /\ ClaimsInv' /\ SuppInv'
    <2> SUFFICES ASSUME Typed, InTime, ExpiredInv, ClaimsInv, SuppInv, [Next]_vars
                 PROVE  Typed' /\ InTime' /\ ExpiredInv' /\ ClaimsInv' /\ SuppInv'
      OBVIOUS
    <2>1. Typed' /\ InTime' /\ ExpiredInv' /\ ClaimsInv'
      BY StepTyped, StepInTime, StepExpired, StepClaims
    <2>2. CASE Tick
      BY <2>1, <2>2, TickSupp
    <2>3. CASE \/ \E v \in Editors : Save(v) \/ End(v) \/ Claim(v) \/ Announce(v)
               \/ \E v \in Editors, k \in Kinds : Query(v, k)
      BY <2>1, <2>3, ServerSupp
    <2>4. CASE \/ ServeFetch \/ OpenPage \/ LeavePage \/ FetchArrives \/ TimerFires \/ Lose
               \/ \E e \in events : EventArrives(e)
      BY <2>1, <2>4, ViewerSupp
    <2>5. CASE UNCHANGED vars
      BY <2>1, <2>5 DEF vars, server, viewer, SuppInv, Suppressed, Ending, Known, Snapshots, Fetched
    <2> QED
      BY <2>1, <2>2, <2>3, <2>4, <2>5 DEF Next
  <1>3. Typed /\ ExpiredInv /\ SuppInv => NobodySuppressedUnseen
    BY KnownIsShown
  <1> QED
    BY <1>1, <1>2, <1>3, PTL DEF Spec

-----------------------------------------------------------------------------
(* Baselines *)

PageRow == [edit : Nat, body : Nat]
DraftRow == [base : Nat, body : Nat]

Bodies == 1 .. Len(stems)

\* Typed by this client, so written from something.
TypedHere(b) == b \in Bodies /\ stems[b] # {b}

\* The bodies are numbered as they are written, and include what they were
\* written from.  What is drafted or queued here was typed here, and what is queued
\* is what the editor shows.
BodiesInv ==
  /\ page.edit # 0 /\ page.body \in Bodies
  /\ \A b \in Bodies : b \in stems[b] /\ stems[b] \subseteq 1 .. b
  /\ draft # None /\ draft.body # 0 => TypedHere(draft.body)
  /\ loaded # 0 => shown \in Bodies
  /\ queued # None => loaded # 0 /\ queued.body = shown /\ TypedHere(shown)

\* An answer is read while the editor loads.
ReadsInv ==
  /\ readDraft.read => loaded = 0 /\ readDraft.value \in DraftRow \cup {None}
  /\ readPage.read => loaded = 0 /\ readPage.value \in PageRow /\ readPage.value.body \in Bodies
  /\ readDraft.read /\ readDraft.value # None /\ readDraft.value.body # 0
        => TypedHere(readDraft.value.body)

\* The client knows the baseline of its draft: nobody else writes it.
StoreKnowsDraft == storeDraft = IF draft = None THEN None ELSE draft.base

BaseInv == Baseline!TypeOK /\ BodiesInv /\ ReadsInv /\ StoreKnowsDraft

-----------------------------------------------------------------------------

(* A body is written: the others keep their number and what they include. *)
LEMMA Written ==
    ASSUME Baseline!TypeOK, NEW S \in SUBSET Nat, stems' = Append(stems, S)
    PROVE  /\ stems' \in Seq(SUBSET Nat)
           /\ Len(stems') = Len(stems) + 1 /\ Len(stems) \in Nat
           /\ stems'[Len(stems) + 1] = S
           /\ \A b \in Bodies : stems'[b] = stems[b]
  BY DEF Baseline!TypeOK, Bodies

LEMMA BodiesAreNumbers ==
    ASSUME Baseline!TypeOK
    PROVE  /\ Len(stems) \in Nat /\ Bodies \subseteq Nat /\ 0 \notin Bodies
           /\ \A b \in Bodies : stems[b] \in SUBSET Nat
  BY DEF Baseline!TypeOK, Bodies

(* What was written before keeps its place when a body is written. *)
LEMMA WrittenBodies ==
    ASSUME BaseInv, NEW S \in SUBSET Nat, stems' = Append(stems, S),
           NEW n \in Nat, n = Len(stems) + 1, n \in S, S \subseteq 1 .. n
    PROVE  /\ Bodies \subseteq Bodies'
           /\ \A b \in Bodies' : b \in stems'[b] /\ stems'[b] \subseteq 1 .. b
           /\ \A b \in Bodies : TypedHere(b) <=> TypedHere(b)'
           /\ TypedHere(n)' <=> S # {n}
  <1>1. Baseline!TypeOK /\ BodiesInv
    BY DEF BaseInv
  <1>2. /\ Len(stems') = Len(stems) + 1 /\ Len(stems) \in Nat
        /\ stems'[Len(stems) + 1] = S
        /\ \A b \in Bodies : stems'[b] = stems[b]
    BY <1>1, Written
  <1>3. Bodies' = Bodies \cup {n}
    BY <1>2 DEF Bodies
  <1>4. \A b \in Bodies : b \in stems[b] /\ stems[b] \subseteq 1 .. b
    BY <1>1 DEF BodiesInv
  <1>5. n \notin Bodies
    BY <1>2 DEF Bodies
  <1> QED
    BY <1>2, <1>3, <1>4, <1>5 DEF TypedHere

LEMMA OtherPublishesBase ==
    ASSUME BaseInv, Baseline!OtherPublishes
    PROVE  BaseInv'
  <1>1. Baseline!TypeOK /\ BodiesInv /\ ReadsInv /\ StoreKnowsDraft
    BY DEF BaseInv
  <1>0. PICK n : n = Len(stems) + 1
    OBVIOUS
  <1>2. n \in Nat /\ Len(stems) \in Nat /\ {n} \in SUBSET Nat /\ n \in {n} /\ {n} \subseteq 1 .. n
    BY <1>0, <1>1, BodiesAreNumbers
  <1>3. stems' = Append(stems, {n})
    BY <1>0 DEF Baseline!OtherPublishes
  <1>4. /\ stems' \in Seq(SUBSET Nat) /\ Len(stems') = n
        /\ Bodies \subseteq Bodies'
        /\ \A b \in Bodies' : b \in stems'[b] /\ stems'[b] \subseteq 1 .. b
        /\ \A b \in Bodies : TypedHere(b) <=> TypedHere(b)'
    <2>1. PICK S : S = {n}
      OBVIOUS
    <2>2. stems' \in Seq(SUBSET Nat) /\ Len(stems') = n
      BY <1>0, <1>1, <1>2, <1>3, Written
    <2>3. /\ Bodies \subseteq Bodies'
          /\ \A b \in Bodies' : b \in stems'[b] /\ stems'[b] \subseteq 1 .. b
          /\ \A b \in Bodies : TypedHere(b) <=> TypedHere(b)'
      BY <1>0, <1>2, <1>3, <2>1, WrittenBodies
    <2> QED
      BY <2>2, <2>3
  <1>5. page' = [edit |-> page.edit + 1, body |-> n]
        /\ UNCHANGED <<draft, Baseline!client, Baseline!reads, loaded, editing, queued, shown>>
    BY <1>0, <1>4 DEF Baseline!OtherPublishes
  <1>6. n \in Bodies'
    BY <1>2, <1>4 DEF Bodies
  <1>7. Baseline!TypeOK'
    BY <1>1, <1>2, <1>4, <1>5 DEF Baseline!TypeOK, Baseline!client, Baseline!reads
  <1>8. BodiesInv'
    <2>1. page'.edit # 0 /\ page'.body = n
      BY <1>1, <1>5 DEF Baseline!TypeOK
    <2> QED
      BY <1>1, <1>4, <1>5, <1>6, <2>1 DEF BodiesInv, Baseline!client, Baseline!reads, TypedHere
  <1>9. ReadsInv' /\ StoreKnowsDraft'
    BY <1>1, <1>4, <1>5 DEF ReadsInv, StoreKnowsDraft, Baseline!client, Baseline!reads, TypedHere
  <1> QED
    BY <1>7, <1>8, <1>9 DEF BaseInv

LEMMA TypeBodyBase ==
    ASSUME Baseline!BaselineAssumption, BaseInv, Baseline!TypeBody
    PROVE  BaseInv'
  <1>1. Baseline!TypeOK /\ BodiesInv /\ ReadsInv /\ StoreKnowsDraft
    BY DEF BaseInv
  <1>0. PICK n, S : n = Len(stems) + 1 /\ S = stems[shown] \cup {n}
    OBVIOUS
  <1>2. n \in Nat /\ Len(stems) \in Nat /\ shown \in Bodies
    BY <1>0, <1>1, BodiesAreNumbers DEF Baseline!TypeBody, BodiesInv
  <1>3. S \in SUBSET Nat /\ n \in S /\ S \subseteq 1 .. n /\ S # {n}
    <2>1. shown \in stems[shown] /\ stems[shown] \subseteq 1 .. shown /\ shown \in 1 .. Len(stems)
      BY <1>1, <1>2 DEF BodiesInv, Bodies
    <2> QED
      BY <1>0, <1>2, <2>1
  <1>4. stems' = Append(stems, S)
    BY <1>0 DEF Baseline!TypeBody
  <1>5. /\ stems' \in Seq(SUBSET Nat) /\ Len(stems') = n
        /\ Bodies \subseteq Bodies'
        /\ \A b \in Bodies' : b \in stems'[b] /\ stems'[b] \subseteq 1 .. b
        /\ \A b \in Bodies : TypedHere(b) <=> TypedHere(b)'
        /\ TypedHere(n)'
    <2>1. stems' \in Seq(SUBSET Nat) /\ Len(stems') = n
      BY <1>0, <1>1, <1>3, <1>4, Written
    <2>2. /\ Bodies \subseteq Bodies'
          /\ \A b \in Bodies' : b \in stems'[b] /\ stems'[b] \subseteq 1 .. b
          /\ \A b \in Bodies : TypedHere(b) <=> TypedHere(b)'
          /\ TypedHere(n)'
      BY <1>0, <1>2, <1>3, <1>4, WrittenBodies
    <2> QED
      BY <2>1, <2>2
  <1>6. PICK base : base = Baseline!Baseline(loaded)
    OBVIOUS
  <1>7. base \in Nat
    BY <1>1, <1>6 DEF Baseline!Baseline, Baseline!TypeOK
  <1>8. /\ loaded # 0 /\ shown' = n /\ queued' = [base |-> base, body |-> n]
        /\ UNCHANGED <<page, draft, Baseline!client, Baseline!reads, loaded, editing>>
    BY <1>0, <1>6 DEF Baseline!TypeBody
  <1>9. n \in Bodies'
    BY <1>2, <1>5 DEF Bodies
  <1>10. Baseline!TypeOK'
    BY <1>1, <1>2, <1>5, <1>7, <1>8 DEF Baseline!TypeOK, Baseline!client, Baseline!reads
  <1>11. BodiesInv'
    BY <1>1, <1>5, <1>8, <1>9 DEF BodiesInv, Baseline!client, Baseline!reads, TypedHere
  <1>12. ReadsInv' /\ StoreKnowsDraft'
    BY <1>1, <1>5, <1>8 DEF ReadsInv, StoreKnowsDraft, Baseline!client, Baseline!reads, TypedHere
  <1> QED
    BY <1>10, <1>11, <1>12 DEF BaseInv

(* The draft after a save: its baseline and body. *)
LEMMA SavedDraft ==
    ASSUME Baseline!BaselineAssumption, Baseline!TypeOK, NEW base \in Nat, NEW body \in Nat
    PROVE  /\ Baseline!Upserted(base, body) \in DraftRow /\ Baseline!Upserted(base, body) # None
           /\ draft = None => Baseline!Upserted(base, body) = [base |-> base, body |-> body]
           /\ draft # None => /\ Baseline!Upserted(base, body).base = draft.base
                              /\ Baseline!Upserted(base, body).body = IF body = 0 THEN draft.body
                                   ELSE body
  BY DEF Baseline!Upserted, DraftRow, Baseline!TypeOK, Baseline!BaselineAssumption

(* A step that writes no body. *)
LEMMA SaveBase ==
    ASSUME Baseline!BaselineAssumption, BaseInv, NEW base \in Nat, NEW body \in Nat,
           draft' = Baseline!Upserted(base, body), storeDraft' = draft'.base,
           body # 0 => TypedHere(body),
           UNCHANGED <<page, storePage, own, readPage, loaded, editing, shown, stems, readDraft>>,
           queued' \in {queued, None}
    PROVE  BaseInv'
  <1>1. Baseline!TypeOK /\ BodiesInv /\ ReadsInv /\ StoreKnowsDraft
    BY DEF BaseInv
  <1>2. /\ draft' \in DraftRow /\ draft' # None
        /\ draft'.body # 0 => TypedHere(draft'.body)
    <2>1. PICK row : row = Baseline!Upserted(base, body)
      OBVIOUS
    <2>2. row \in DraftRow /\ row # None
      BY <1>1, <2>1, SavedDraft
    <2>3. row.body = body \/ (draft # None /\ row.body = draft.body)
      <3>1. CASE draft = None
        BY <1>1, <2>1, <3>1, SavedDraft
      <3>2. CASE draft # None
        BY <1>1, <2>1, <3>2, SavedDraft
      <3> QED
        BY <3>1, <3>2
    <2> QED
      BY <1>1, <2>1, <2>2, <2>3 DEF BodiesInv
  <1>3. Baseline!TypeOK'
    BY <1>1, <1>2 DEF Baseline!TypeOK, DraftRow
  <1>4. BodiesInv'
    BY <1>1, <1>2 DEF BodiesInv, Bodies, TypedHere
  <1>5. ReadsInv' /\ StoreKnowsDraft'
    BY <1>1, <1>2 DEF ReadsInv, StoreKnowsDraft, Bodies, TypedHere
  <1> QED
    BY <1>3, <1>4, <1>5 DEF BaseInv

LEMMA BaselineIsNumber ==
    ASSUME Baseline!TypeOK, NEW given \in Nat
    PROVE  Baseline!Baseline(given) \in Nat
  BY DEF Baseline!Baseline, Baseline!TypeOK

LEMMA ReadingBase ==
    ASSUME Baseline!BaselineAssumption, BaseInv, Baseline!ReadDraft \/ Baseline!ReadPage
             \/ Baseline!Loaded
    PROVE  BaseInv'
  <1>1. Baseline!TypeOK /\ BodiesInv /\ ReadsInv /\ StoreKnowsDraft
    BY DEF BaseInv
  <1>2. CASE Baseline!ReadDraft
    <2>1. /\ loaded = 0 /\ readDraft'.read /\ readDraft'.value = draft
          /\ readDraft'.read \in BOOLEAN /\ storeDraft' = storeDraft
          /\ UNCHANGED <<page, draft, storePage, own, readPage, loaded, editing, queued, shown,
               stems>>
      BY <1>1, <1>2 DEF Baseline!ReadDraft, Baseline!Read, StoreKnowsDraft
    <2>2. Baseline!TypeOK' /\ StoreKnowsDraft'
      BY <1>1, <2>1 DEF Baseline!TypeOK, StoreKnowsDraft
    <2>3. BodiesInv' /\ ReadsInv'
      BY <1>1, <2>1 DEF BodiesInv, ReadsInv, Bodies, TypedHere, Baseline!TypeOK, DraftRow
    <2> QED
      BY <2>2, <2>3 DEF BaseInv
  <1>3. CASE Baseline!ReadPage
    <2>1. /\ loaded = 0 /\ readPage'.read /\ readPage'.value = page
          /\ readPage'.read \in BOOLEAN /\ storePage' = page.edit
          /\ UNCHANGED <<page, draft, storeDraft, own, readDraft, loaded, editing, queued, shown,
               stems>>
      BY <1>3 DEF Baseline!ReadPage, Baseline!Read
    <2>2. Baseline!TypeOK' /\ StoreKnowsDraft'
      BY <1>1, <2>1 DEF Baseline!TypeOK, StoreKnowsDraft
    <2>3. BodiesInv' /\ ReadsInv'
      BY <1>1, <2>1 DEF BodiesInv, ReadsInv, Bodies, TypedHere, Baseline!TypeOK, PageRow
    <2> QED
      BY <2>2, <2>3 DEF BaseInv
  <1>4. CASE Baseline!Loaded
    <2> DEFINE d == readDraft.value
    <2>1. /\ d \in DraftRow \cup {None} /\ (d # None /\ d.body # 0 => TypedHere(d.body))
          /\ readPage.value \in PageRow /\ readPage.value.body \in Bodies
          /\ loaded = 0 /\ queued = None
      BY <1>1, <1>4 DEF Baseline!Loaded, ReadsInv, BodiesInv
    <2>2. loaded' \in Nat /\ shown' \in Bodies
      <3>1. PICK v : v = readPage.value
        OBVIOUS
      <3>2. /\ loaded' = IF d # None THEN d.base ELSE v.edit
            /\ shown' = IF d # None /\ d.body # 0 THEN d.body ELSE v.body
        BY <1>4, <3>1 DEF Baseline!Loaded
      <3> HIDE DEF d
      <3>3. v.edit \in Nat /\ v.body \in Bodies /\ (d # None => d.base \in Nat)
        BY <2>1, <3>1 DEF PageRow, DraftRow
      <3> QED
        BY <2>1, <3>2, <3>3 DEF TypedHere
    <2>3. ~ readDraft'.read /\ ~ readPage'.read /\ readDraft'.read \in BOOLEAN
            /\ readPage'.read \in BOOLEAN
          /\ UNCHANGED <<page, draft, Baseline!client, editing, queued, stems>>
      BY <1>4 DEF Baseline!Loaded, Baseline!NotRead
    <2>4. Baseline!TypeOK' /\ StoreKnowsDraft'
      BY <1>1, <2>2, <2>3, BodiesAreNumbers DEF Baseline!TypeOK, StoreKnowsDraft, Baseline!client
    <2>5. BodiesInv' /\ ReadsInv'
      BY <1>1, <2>1, <2>2, <2>3 DEF BodiesInv, ReadsInv, Bodies, TypedHere, Baseline!client
    <2> QED
      BY <2>4, <2>5 DEF BaseInv
  <1> QED
    BY <1>2, <1>3, <1>4

LEMMA WritingBase ==
    ASSUME Baseline!BaselineAssumption, BaseInv, Baseline!Rename \/ Baseline!Publish
    PROVE  BaseInv'
  <1>1. Baseline!TypeOK /\ BodiesInv /\ ReadsInv /\ StoreKnowsDraft
    BY DEF BaseInv
  <1>2. page \in PageRow
    BY <1>1 DEF Baseline!TypeOK, PageRow
  <1>3. CASE Baseline!Rename
    <2>1. /\ page' \in PageRow /\ page'.edit # 0 /\ page'.body = page.body
          /\ storePage' = page'.edit /\ own' \in {own, page'.edit}
          /\ UNCHANGED <<draft, storeDraft, Baseline!reads, loaded, editing, queued, shown, stems>>
      BY <1>2, <1>3 DEF Baseline!Rename, PageRow, Baseline!recordOwnPageWrite
    <2>2. Baseline!TypeOK' /\ StoreKnowsDraft'
      BY <1>1, <2>1 DEF Baseline!TypeOK, StoreKnowsDraft, Baseline!reads, PageRow
    <2>3. BodiesInv' /\ ReadsInv'
      BY <1>1, <2>1 DEF BodiesInv, ReadsInv, Bodies, TypedHere, Baseline!reads
    <2> QED
      BY <2>2, <2>3 DEF BaseInv
  <1>4. CASE Baseline!Publish
    <2>1. /\ page' \in PageRow /\ page'.edit # 0
          /\ draft # None /\ page'.body = IF draft.body = 0 THEN page.body ELSE draft.body
          /\ storePage' = page'.edit /\ own' \in {own, page'.edit} /\ editing' \in BOOLEAN
          /\ draft' = None /\ storeDraft' = None
          /\ UNCHANGED <<Baseline!reads, loaded, queued, shown, stems>>
      <3>1. PICK edit, body : /\ edit = page.edit + 1
                              /\ body = IF draft.body = 0 THEN page.body ELSE draft.body
        OBVIOUS
      <3>2. /\ page' = [edit |-> edit, body |-> body] /\ draft # None
            /\ draft' = None /\ storeDraft' = None /\ editing' = FALSE
            /\ Baseline!recordOwnPageWrite(page'.edit) /\ storePage' = page'.edit
            /\ UNCHANGED <<Baseline!reads, loaded, queued, shown, stems>>
        BY <1>4, <3>1 DEF Baseline!Publish
      <3>3. edit \in Nat /\ edit # 0 /\ body \in Nat
        BY <1>1, <1>2, <3>1, <3>2 DEF Baseline!TypeOK, PageRow
      <3>4. page' \in PageRow /\ page'.edit = edit /\ page'.body = body
        BY <3>2, <3>3 DEF PageRow
      <3> QED
        BY <3>1, <3>2, <3>3, <3>4 DEF Baseline!recordOwnPageWrite
    <2>2. Baseline!TypeOK' /\ StoreKnowsDraft'
      BY <1>1, <2>1 DEF Baseline!TypeOK, StoreKnowsDraft, Baseline!reads, PageRow
    <2>3. BodiesInv' /\ ReadsInv'
      BY <1>1, <2>1 DEF BodiesInv, ReadsInv, Bodies, TypedHere, Baseline!reads
    <2> QED
      BY <2>2, <2>3 DEF BaseInv
  <1> QED
    BY <1>3, <1>4

LEMMA BaseStep ==
    ASSUME Baseline!BaselineAssumption, BaseInv, [Baseline!Next]_(Baseline!vars)
    PROVE  BaseInv'
  <1>1. Baseline!TypeOK /\ BodiesInv /\ ReadsInv /\ StoreKnowsDraft
    BY DEF BaseInv
  <1>2. CASE Baseline!OtherPublishes
    BY <1>2, OtherPublishesBase
  <1>3. CASE Baseline!ReadDraft \/ Baseline!ReadPage \/ Baseline!Loaded
    BY <1>3, ReadingBase
  <1>4. CASE Baseline!TypeBody
    BY <1>4, TypeBodyBase
  <1>5. CASE Baseline!SendBody
    <2>1. queued \in DraftRow /\ TypedHere(queued.body)
      BY <1>1, <1>5 DEF Baseline!SendBody, BodiesInv, Baseline!TypeOK, DraftRow
    <2>2. PICK base, body : base = queued.base /\ body = queued.body
      OBVIOUS
    <2>3. base \in Nat /\ body \in Nat /\ TypedHere(body)
      BY <2>1, <2>2 DEF DraftRow
    <2>4. /\ draft' = Baseline!Upserted(base, body) /\ storeDraft' = draft'.base /\ queued' = None
          /\ UNCHANGED <<page, storePage, own, readPage, loaded, editing, shown, stems, readDraft>>
      BY <1>5, <2>2 DEF Baseline!SendBody, Baseline!reads
    <2> QED
      BY <2>3, <2>4, SaveBase
  <1>6. CASE Baseline!SaveTitle
    <2>1. PICK base : base = Baseline!Baseline(storePage)
      OBVIOUS
    <2>2. base \in Nat
      BY <1>1, <2>1, BaselineIsNumber DEF Baseline!TypeOK
    <2>3. /\ draft' = Baseline!Upserted(base, 0) /\ storeDraft' = draft'.base /\ queued' = queued
          /\ UNCHANGED <<page, storePage, own, readPage, loaded, editing, shown, stems, readDraft>>
      BY <1>6, <2>1 DEF Baseline!SaveTitle, Baseline!reads
    <2> QED
      BY <2>2, <2>3, SaveBase
  <1>7. CASE Baseline!Rename \/ Baseline!Publish
    BY <1>7, WritingBase
  <1>8. CASE Baseline!Reopen \/ Baseline!ToggleEdit \/ Baseline!RefreshStore
               \/ UNCHANGED Baseline!vars
    <2>1. /\ UNCHANGED <<page, draft, storeDraft, own, Baseline!reads, queued, shown, stems>>
          /\ (loaded' = loaded \/ (queued = None /\ loaded' = 0))
          /\ storePage' \in {storePage, page.edit} /\ editing' \in BOOLEAN
      <3>1. CASE Baseline!Reopen
        BY <1>1, <3>1 DEF Baseline!Reopen, Baseline!client, Baseline!TypeOK
      <3>2. CASE Baseline!ToggleEdit
        BY <1>1, <3>2 DEF Baseline!ToggleEdit, Baseline!client, Baseline!TypeOK
      <3>3. CASE Baseline!RefreshStore
        BY <1>1, <3>3 DEF Baseline!RefreshStore, Baseline!TypeOK
      <3>4. CASE UNCHANGED Baseline!vars
        BY <1>1, <3>4 DEF Baseline!vars, Baseline!client, Baseline!reads, Baseline!TypeOK
      <3> QED
        BY <1>8, <3>1, <3>2, <3>3, <3>4
    <2>2. Baseline!TypeOK' /\ StoreKnowsDraft'
      BY <1>1, <2>1 DEF Baseline!TypeOK, StoreKnowsDraft, Baseline!reads
    <2>3. BodiesInv' /\ ReadsInv'
      BY <1>1, <2>1 DEF BodiesInv, ReadsInv, Bodies, TypedHere, Baseline!reads
    <2> QED
      BY <2>2, <2>3 DEF BaseInv
  <1> QED
    BY <1>2, <1>3, <1>4, <1>5, <1>6, <1>7, <1>8 DEF Baseline!Next

-----------------------------------------------------------------------------
(* The client never conflicts with itself *)

\* This client has drafted nothing and written nothing yet.
Unwritten == draft = None /\ own = 0

\* body was the page's at version edit, and is not what others made of it since.
Seen(edit, body) ==
  edit <= page.edit /\ (edit < page.edit => page.body \notin stems[body])

\* Until its first draft, what the client reads, shows and types is of the page
\* alone, at the version that it has loaded.
SeenInv ==
  Unwritten =>
    /\ readDraft.read => readDraft.value = None
    /\ readPage.read => Seen(readPage.value.edit, readPage.value.body)
    /\ loaded # 0 => Seen(loaded, shown)

LEMMA SeenStep ==
    ASSUME Baseline!BaselineAssumption, BaseInv, SeenInv, [Baseline!Next]_(Baseline!vars)
    PROVE  SeenInv'
  <1>1. Baseline!TypeOK /\ BodiesInv /\ ReadsInv
    BY DEF BaseInv
  <1> SUFFICES ASSUME Unwritten'
               PROVE  SeenInv'
    BY DEF SeenInv
  <1>2. page \in PageRow /\ page.edit \in Nat
    BY <1>1 DEF Baseline!TypeOK, PageRow
  <1>3. CASE Baseline!OtherPublishes
    <2>1. PICK n : n = Len(stems) + 1
      OBVIOUS
    <2>2. /\ n \in Nat /\ n \notin Bodies /\ \A b \in Bodies : stems'[b] = stems[b]
               /\ n \notin stems[b]
          /\ Len(stems') = n
      <3>1. {n} \in SUBSET Nat /\ Len(stems) \in Nat
        BY <1>1, <2>1, BodiesAreNumbers
      <3>2. stems' = Append(stems, {n})
        BY <1>3, <2>1 DEF Baseline!OtherPublishes
      <3>3. Len(stems') = n /\ \A b \in Bodies : stems'[b] = stems[b]
        BY <1>1, <2>1, <3>1, <3>2, Written
      <3>4. \A b \in Bodies : b < n /\ stems[b] \subseteq 1 .. b
        BY <1>1, <2>1, <3>1 DEF BodiesInv, Bodies
      <3> QED
        BY <2>1, <3>1, <3>3, <3>4 DEF Bodies
    <2>3. page'.edit = page.edit + 1 /\ page'.body = n
          /\ UNCHANGED <<draft, own, readDraft, readPage, loaded, shown>>
      BY <1>3, <2>1, <2>2 DEF Baseline!OtherPublishes, Baseline!client, Baseline!reads
    <2>4. Unwritten
      BY <2>3 DEF Unwritten
    <2>5. \A e \in Nat, b \in Bodies : Seen(e, b) => Seen(e, b)'
      BY <1>2, <2>2, <2>3 DEF Seen
    <2>6. readPage.read => readPage.value.edit \in Nat /\ readPage.value.body \in Bodies
      BY <1>1 DEF ReadsInv, PageRow
    <2>7. loaded # 0 => loaded \in Nat /\ shown \in Bodies
      BY <1>1 DEF BodiesInv, Baseline!TypeOK
    <2>8. readPage'.read => Seen(readPage.value.edit, readPage.value.body)'
      BY <2>3, <2>4, <2>5, <2>6 DEF SeenInv, Seen
    <2>9. loaded' # 0 => Seen(loaded, shown)'
      BY <2>3, <2>4, <2>5, <2>7 DEF SeenInv, Seen
    <2> QED
      BY <2>3, <2>4, <2>8, <2>9 DEF SeenInv
  <1>4. CASE Baseline!ReadDraft \/ Baseline!ReadPage
    BY <1>1, <1>2, <1>4 DEF Baseline!ReadDraft, Baseline!ReadPage, Baseline!Read, SeenInv,
      Unwritten, Seen, ReadsInv
  <1>5. CASE Baseline!Loaded
    <2>1. Unwritten /\ readDraft.read /\ readPage.read
      BY <1>5 DEF Baseline!Loaded, Unwritten, Baseline!client
    <2>2. readDraft.value = None /\ Seen(readPage.value.edit, readPage.value.body)
      BY <2>1 DEF SeenInv
    <2>3. /\ loaded' = readPage.value.edit /\ shown' = readPage.value.body
          /\ ~ readDraft'.read /\ ~ readPage'.read /\ UNCHANGED <<page, stems>>
      BY <1>5, <2>2 DEF Baseline!Loaded, Baseline!NotRead
    <2> QED
      BY <2>2, <2>3 DEF SeenInv, Seen
  <1>6. CASE Baseline!TypeBody
    <2>1. PICK n, S : n = Len(stems) + 1 /\ S = stems[shown] \cup {n}
      OBVIOUS
    <2>2. shown \in Bodies /\ page.body \in Bodies /\ Len(stems) \in Nat /\ loaded # 0
      BY <1>1, <1>6, BodiesAreNumbers DEF BodiesInv, Baseline!TypeBody
    <2>3. S \in SUBSET Nat
      BY <1>1, <2>1, <2>2, BodiesAreNumbers
    <2>4. /\ stems' = Append(stems, S) /\ shown' = n
          /\ UNCHANGED <<page, draft, own, readDraft, readPage, loaded>>
      BY <1>6, <2>1 DEF Baseline!TypeBody, Baseline!client, Baseline!reads
    <2>5. stems'[n] = S
      BY <1>1, <2>1, <2>3, <2>4, Written
    <2>6. page.body # n
      BY <2>1, <2>2 DEF Bodies
    <2>7. Unwritten /\ ~ readDraft.read /\ ~ readPage.read
      BY <1>1, <2>2, <2>4 DEF Unwritten, ReadsInv
    <2> QED
      BY <2>1, <2>2, <2>4, <2>5, <2>6, <2>7 DEF SeenInv, Seen
  <1>7. CASE Baseline!SendBody \/ Baseline!SaveTitle
    <2>1. ASSUME NEW base \in Nat, NEW body \in Nat, draft' = Baseline!Upserted(base, body)
          PROVE  FALSE
      BY <1>1, <2>1, SavedDraft DEF Unwritten
    <2>2. CASE Baseline!SendBody
      <3>1. queued.base \in Nat /\ queued.body \in Nat
        BY <1>1, <2>2 DEF Baseline!SendBody, Baseline!TypeOK
      <3> QED
        BY <2>1, <2>2, <3>1 DEF Baseline!SendBody
    <2>3. CASE Baseline!SaveTitle
      <3>1. Baseline!Baseline(storePage) \in Nat
        BY <1>1, BaselineIsNumber DEF Baseline!TypeOK
      <3> QED
        BY <2>1, <2>3, <3>1 DEF Baseline!SaveTitle
    <2> QED
      BY <1>7, <2>2, <2>3
  <1>8. CASE Baseline!Rename \/ Baseline!Publish
    <2>1. page'.edit = page.edit + 1 /\ Baseline!recordOwnPageWrite(page'.edit)
      BY <1>2, <1>8 DEF Baseline!Rename, Baseline!Publish, PageRow
    <2> QED
      BY <1>1, <1>2, <2>1 DEF Baseline!recordOwnPageWrite, Unwritten, Baseline!TypeOK
  <1>9. CASE Baseline!Reopen \/ Baseline!ToggleEdit \/ Baseline!RefreshStore
               \/ UNCHANGED Baseline!vars
    <2>1. /\ UNCHANGED <<page, draft, own, readDraft, readPage, shown, stems>>
          /\ loaded' \in {loaded, 0}
      BY <1>9 DEF Baseline!Reopen, Baseline!ToggleEdit, Baseline!RefreshStore, Baseline!vars,
        Baseline!client, Baseline!reads
    <2> QED
      BY <2>1 DEF SeenInv, Seen, Unwritten
  <1> QED
    BY <1>3, <1>4, <1>5, <1>6, <1>7, <1>8, <1>9 DEF Baseline!Next

LEMMA InitBase ==
    ASSUME Baseline!BaselineAssumption, Baseline!Init
    PROVE  BaseInv /\ SeenInv
  <1>1. /\ page \in PageRow /\ page.edit = 1 /\ page.body = 1 /\ draft = None /\ storePage = 1
        /\ storeDraft = None /\ own = 0 /\ ~readDraft.read /\ ~readPage.read
        /\ readDraft.read \in BOOLEAN /\ readPage.read \in BOOLEAN
        /\ loaded = 0 /\ editing \in BOOLEAN /\ queued = None /\ shown = 0
    BY DEF Baseline!Init, Baseline!NotRead, PageRow
  <1>2. /\ stems \in Seq(SUBSET Nat) /\ Bodies = 1 .. 1
        /\ stems[1] = {1}
    <2>1. stems = <<{1}>>
      BY DEF Baseline!Init
    <2> QED
      BY <2>1 DEF Bodies
  <1>3. Baseline!TypeOK
    BY <1>1, <1>2 DEF Baseline!TypeOK, PageRow
  <1>4. \A b \in Bodies : b \in stems[b] /\ stems[b] \subseteq 1 .. b
    <2>1. \A b \in Bodies : b = 1
      BY <1>2
    <2> QED
      BY <1>2, <2>1
  <1>5. BodiesInv /\ ReadsInv /\ StoreKnowsDraft
    BY <1>1, <1>2, <1>4 DEF BodiesInv, ReadsInv, StoreKnowsDraft
  <1>6. SeenInv
    BY <1>1 DEF SeenInv
  <1> QED
    BY <1>3, <1>5, <1>6 DEF BaseInv

(* The state is of its types in every behavior, whatever the bounds. *)
THEOREM BaselineTypes ==
    ASSUME Baseline!BaselineAssumption
    PROVE  Baseline!Spec => []Baseline!TypeOK
  <1>1. Baseline!Init => BaseInv
    BY InitBase
  <1>2. BaseInv /\ [Baseline!Next]_(Baseline!vars) => BaseInv'
    BY BaseStep
  <1>3. BaseInv => Baseline!TypeOK
    BY DEF BaseInv
  <1> QED
    BY <1>1, <1>2, <1>3, PTL DEF Baseline!Spec

LEMMA SeenIsSavable ==
    ASSUME Baseline!BaselineAssumption, BaseInv, SeenInv
    PROVE  Baseline!NoSelfConflict
  <1>1. Baseline!TypeOK /\ BodiesInv /\ StoreKnowsDraft
    BY DEF BaseInv
  <1> SUFFICES ASSUME loaded # 0, page.body \in stems[shown], own \in {0, page.edit}, draft = None
               PROVE  Baseline!Baseline(loaded) = page.edit
    BY DEF Baseline!NoSelfConflict, Baseline!CanUpsert
  <1>2. storeDraft = None /\ page.edit \in Nat /\ page.edit # 0 /\ loaded \in Nat
    BY <1>1 DEF StoreKnowsDraft, Baseline!TypeOK, BodiesInv
  <1>3. CASE own = 0
    <2>1. Seen(loaded, shown)
      BY <1>3 DEF SeenInv, Unwritten
    <2>2. loaded = page.edit
      BY <1>2, <2>1 DEF Seen
    <2> QED
      BY <1>2, <1>3, <2>2 DEF Baseline!Baseline
  <1>4. CASE own = page.edit
    BY <1>2, <1>4 DEF Baseline!Baseline
  <1> QED
    BY <1>3, <1>4

(* In every behavior, refreshes of the store included, what is typed over the *)
(* page's current body is not refused for a publish of this client's own.     *)
THEOREM NeverConflictsWithItself ==
    ASSUME Baseline!BaselineAssumption
    PROVE  Baseline!Spec => []Baseline!NoSelfConflict
  <1>1. Baseline!Init => BaseInv /\ SeenInv
    BY InitBase
  <1>2. BaseInv /\ SeenInv /\ [Baseline!Next]_(Baseline!vars) => (BaseInv /\ SeenInv)'
    BY BaseStep, SeenStep
  <1>3. BaseInv /\ SeenInv => Baseline!NoSelfConflict
    BY SeenIsSavable
  <1> QED
    BY <1>1, <1>2, <1>3, PTL DEF Baseline!Spec

-----------------------------------------------------------------------------
(* No body is replaced unseen *)

\* body was written from the page's, unless this client wrote that itself.
Covers(body) == Baseline!Foreign(page.body) => page.body \in stems[body]

\* A version the client may name in the place of its draft's.
Names(edit) ==
  \/ edit \in {storePage, own, loaded}
  \/ queued # None /\ edit = queued.base

\* The client could save, or publish what it has saved.
UpToDate == IF draft = None THEN Names(page.edit) ELSE draft.base = page.edit

\* No version is ahead of the page's.
VersionsBehind ==
  /\ storePage <= page.edit /\ own <= page.edit /\ loaded <= page.edit
  /\ draft # None => draft.base <= page.edit
  /\ queued # None => queued.base <= page.edit

\* While the editor loads, nothing else of this client's happens.
LoadsAlone ==
  /\ readDraft.read => readDraft.value = draft
  /\ readPage.read =>
       LET read == readPage.value IN
       /\ read.edit <= page.edit /\ (read.edit = page.edit => read.body = page.body)
       /\ storePage = read.edit /\ own <= read.edit
       /\ draft # None => draft.base <= read.edit

\* Whatever is at the page's version was written from the page's body.
CoverInv ==
  /\ VersionsBehind /\ LoadsAlone
  /\ loaded # 0 /\ UpToDate => Covers(shown)
  /\ draft # None /\ draft.body # 0 /\ draft.base = page.edit => Covers(draft.body)

LEMMA CoverReads ==
    ASSUME Baseline!BaselineAssumption, BaseInv, CoverInv, Baseline!ReadDraft \/ Baseline!ReadPage
             \/ Baseline!Loaded
    PROVE  CoverInv'
  <1>1. Baseline!TypeOK /\ BodiesInv /\ ReadsInv
    BY DEF BaseInv
  <1>2. VersionsBehind /\ LoadsAlone
        /\ (draft # None /\ draft.body # 0 /\ draft.base = page.edit => Covers(draft.body))
    BY DEF CoverInv
  <1>3. CASE Baseline!ReadDraft
    <2>1. /\ loaded = 0 /\ readDraft'.value = draft
          /\ UNCHANGED <<page, draft, storePage, own, readPage, loaded, queued, stems>>
      BY <1>3 DEF Baseline!ReadDraft, Baseline!Read
    <2>2. VersionsBehind' /\ LoadsAlone'
      BY <1>2, <2>1 DEF VersionsBehind, LoadsAlone
    <2> QED
      BY <1>2, <2>1, <2>2 DEF CoverInv, Covers, Baseline!Foreign
  <1>4. CASE Baseline!ReadPage
    <2>1. /\ loaded = 0 /\ readPage'.value = page /\ storePage' = page.edit
          /\ UNCHANGED <<page, draft, own, readDraft, loaded, queued, stems>>
      BY <1>4 DEF Baseline!ReadPage, Baseline!Read
    <2>2. page.edit \in Nat
      BY <1>1 DEF Baseline!TypeOK
    <2>3. VersionsBehind' /\ LoadsAlone'
      BY <1>2, <2>1, <2>2 DEF VersionsBehind, LoadsAlone
    <2> QED
      BY <1>2, <2>1, <2>3 DEF CoverInv, Covers, Baseline!Foreign
  <1>5. CASE Baseline!Loaded
    <2>1. PICK read : read = readPage.value
      OBVIOUS
    <2>2. /\ readDraft.value = draft /\ loaded = 0 /\ queued = None
          /\ read.edit \in Nat /\ read.body \in Bodies
          /\ read.edit <= page.edit /\ (read.edit = page.edit => read.body = page.body)
          /\ storePage = read.edit /\ own <= read.edit /\ (draft # None => draft.base <= read.edit)
      BY <1>1, <1>2, <1>5, <2>1 DEF Baseline!Loaded, LoadsAlone, ReadsInv, BodiesInv, PageRow
    <2>3. /\ loaded' = IF draft # None THEN draft.base ELSE read.edit
          /\ shown' = IF draft # None /\ draft.body # 0 THEN draft.body ELSE read.body
          /\ ~readDraft'.read /\ ~readPage'.read
          /\ UNCHANGED <<page, draft, storePage, own, queued, stems>>
      BY <1>5, <2>1, <2>2 DEF Baseline!Loaded, Baseline!NotRead, Baseline!client
    <2>4. /\ page.edit \in Nat /\ own \in Nat /\ (draft # None => draft.base \in Nat)
          /\ page.body \in stems[page.body]
      BY <1>1 DEF Baseline!TypeOK, BodiesInv
    <2>5. VersionsBehind' /\ LoadsAlone'
      BY <1>2, <2>2, <2>3, <2>4 DEF VersionsBehind, LoadsAlone
    <2>6. UpToDate' => Covers(shown)'
      <3>1. CASE draft = None
        <4>1. UpToDate' => page.edit \in {read.edit, own}
          BY <2>2, <2>3, <3>1 DEF UpToDate, Names
        <4>2. UpToDate' => shown' = page.body
          BY <2>2, <2>3, <2>4, <3>1, <4>1
        <4> QED
          BY <2>3, <2>4, <4>2 DEF Covers
      <3>2. CASE draft # None /\ draft.body = 0
        <4>1. UpToDate' => shown' = page.body
          BY <2>2, <2>3, <2>4, <3>2 DEF UpToDate
        <4> QED
          BY <2>3, <2>4, <4>1 DEF Covers
      <3>3. CASE draft # None /\ draft.body # 0
        BY <1>2, <2>3, <3>3 DEF UpToDate, Covers, Baseline!Foreign
      <3> QED
        BY <3>1, <3>2, <3>3
    <2> QED
      BY <1>2, <2>3, <2>5, <2>6 DEF CoverInv, Covers, Baseline!Foreign
  <1> QED
    BY <1>3, <1>4, <1>5

LEMMA CoverTypes ==
    ASSUME Baseline!BaselineAssumption, BaseInv, CoverInv, Baseline!TypeBody
    PROVE  CoverInv'
  <1>1. Baseline!TypeOK /\ BodiesInv /\ ReadsInv /\ StoreKnowsDraft /\ VersionsBehind
    BY DEF BaseInv, CoverInv
  <1>2. PICK n, S, base : n = Len(stems) + 1 /\ S = stems[shown] \cup {n}
          /\ base = Baseline!Baseline(loaded)
    OBVIOUS
  <1>3. /\ stems' = Append(stems, S) /\ shown' = n /\ queued' = [base |-> base, body |-> n]
        /\ loaded # 0 /\ UNCHANGED <<page, draft, Baseline!client, Baseline!reads, loaded>>
    BY <1>2 DEF Baseline!TypeBody
  <1>4. shown \in Bodies /\ page.body \in Bodies /\ Len(stems) \in Nat
    BY <1>1, <1>3, BodiesAreNumbers DEF BodiesInv
  <1>5. S \in SUBSET Nat
    BY <1>1, <1>2, <1>4, BodiesAreNumbers
  <1>6. stems'[n] = S /\ \A b \in Bodies : stems'[b] = stems[b]
    BY <1>1, <1>2, <1>3, <1>5, Written
  <1>7. ~readDraft'.read /\ ~readPage'.read
    BY <1>1, <1>3 DEF ReadsInv, Baseline!reads
  <1>8. IF draft = None THEN base \in {own, loaded} ELSE base \in {draft.base, own, loaded}
    BY <1>1, <1>2 DEF Baseline!Baseline, StoreKnowsDraft
  <1>9. queued' # None /\ queued'.base = base
    BY <1>1, <1>3, <1>2, <1>4, <1>8 DEF Baseline!TypeOK, Baseline!BaselineAssumption
  <1>10. VersionsBehind' /\ LoadsAlone'
    BY <1>1, <1>3, <1>7, <1>8, <1>9 DEF VersionsBehind, LoadsAlone, Baseline!client
  <1>11. UpToDate' => UpToDate
    BY <1>3, <1>8, <1>9 DEF UpToDate, Names, Baseline!client
  <1>12. \A b \in Bodies : Covers(b) => Covers(b)'
    BY <1>3, <1>4, <1>6 DEF Covers, Baseline!Foreign
  <1>13. Covers(shown) => Covers(shown)'
    BY <1>2, <1>3, <1>4, <1>6 DEF Covers, Baseline!Foreign
  <1>14. draft # None /\ draft.body # 0 => draft.body \in Bodies
    BY <1>1 DEF BodiesInv, TypedHere
  <1>15. draft' # None /\ draft'.body # 0 /\ draft'.base = page'.edit => Covers(draft.body)'
    BY <1>3, <1>12, <1>14 DEF CoverInv, Covers
  <1> QED
    BY <1>3, <1>10, <1>11, <1>13, <1>15 DEF CoverInv

(* A save by the editor that loaded the page, of what it shows or of no body. *)
LEMMA CoverSaves ==
    ASSUME Baseline!BaselineAssumption, BaseInv, CoverInv, loaded # 0,
           NEW base \in Nat, NEW body \in Nat, Baseline!CanUpsert(base), body \in {0, shown},
           draft = None => Names(base), base <= page.edit,
           draft' = Baseline!Upserted(base, body), queued' \in {queued, None},
           UNCHANGED <<page, storePage, own, Baseline!reads, loaded, shown, stems>>
    PROVE  CoverInv'
  <1>1. Baseline!TypeOK /\ BodiesInv /\ ReadsInv /\ VersionsBehind
    BY DEF BaseInv, CoverInv
  <1>2. ~readDraft'.read /\ ~readPage'.read
    BY <1>1 DEF ReadsInv, Baseline!reads
  <1>3. /\ draft' # None
        /\ draft'.base = (IF draft = None THEN base ELSE draft.base)
        /\ draft'.body = (IF draft # None /\ body = 0 THEN draft.body ELSE body)
    <2>1. CASE draft = None
      <3>1. draft' = [base |-> base, body |-> body] /\ draft' # None
        BY <1>1, <2>1, SavedDraft
      <3> QED
        BY <2>1, <3>1
    <2>2. CASE draft # None
      BY <1>1, <2>2, SavedDraft
    <2> QED
      BY <2>1, <2>2
  <1>4. VersionsBehind' /\ LoadsAlone'
    BY <1>1, <1>2, <1>3 DEF VersionsBehind, LoadsAlone
  <1>5. UpToDate' => UpToDate
    BY <1>3 DEF UpToDate, Baseline!CanUpsert
  <1>6. UpToDate' => Covers(shown)
    BY <1>5 DEF CoverInv
  <1>7. \A b : Covers(b) <=> Covers(b)'
    BY DEF Covers, Baseline!Foreign
  <1>8. draft'.body # 0 /\ draft'.base = page.edit => Covers(draft'.body)
    <2>1. CASE body = shown
      BY <1>3, <1>6, <2>1 DEF UpToDate, CoverInv
    <2>2. CASE body = 0
      BY <1>3, <2>2 DEF CoverInv
    <2> QED
      BY <2>1, <2>2
  <1>9. UpToDate' => Covers(shown)'
    BY <1>6 DEF Covers, Baseline!Foreign
  <1>10. draft'.body # 0 /\ draft'.base = page.edit => Covers(draft.body)'
    BY <1>8 DEF Covers, Baseline!Foreign
  <1> QED
    BY <1>4, <1>9, <1>10 DEF CoverInv

LEMMA CoverWrites ==
    ASSUME Baseline!BaselineAssumption, BaseInv, CoverInv, ~ActsLoading, Baseline!Rename
             \/ Baseline!Publish
    PROVE  CoverInv'
  <1>1. Baseline!TypeOK /\ BodiesInv /\ ReadsInv /\ StoreKnowsDraft /\ VersionsBehind
    BY DEF BaseInv, CoverInv
  <1>2. PICK edit : edit = page.edit
    OBVIOUS
  <1>3. edit \in Nat /\ own \in Nat /\ page \in PageRow
    BY <1>1, <1>2 DEF Baseline!TypeOK, PageRow
  <1>4. /\ loaded # 0 /\ page'.edit = edit + 1 /\ storePage' = page'.edit
             /\ own' \in {own, page'.edit}
        /\ draft' = None /\ UNCHANGED <<Baseline!reads, loaded, queued, shown, stems>>
    <2>1. CASE Baseline!Rename
      <3>1. draft = None
        BY <1>1, <2>1 DEF Baseline!Rename, StoreKnowsDraft, Baseline!TypeOK,
          Baseline!BaselineAssumption
      <3>2. page' = [page EXCEPT !.edit = edit + 1]
        BY <1>2, <2>1 DEF Baseline!Rename
      <3>3. page'.edit = edit + 1
        BY <1>3, <3>2 DEF PageRow
      <3> QED
        BY <2>1, <3>1, <3>3 DEF Baseline!Rename, Baseline!Usable, Baseline!recordOwnPageWrite
    <2>2. CASE Baseline!Publish
      <3>1. page'.edit = edit + 1
        BY <1>2, <2>2 DEF Baseline!Publish
      <3> QED
        BY <2>2, <3>1 DEF Baseline!Publish, Baseline!Usable, Baseline!recordOwnPageWrite
    <2> QED
      BY <2>1, <2>2
  <1>5. ~readDraft'.read /\ ~readPage'.read
    BY <1>1, <1>4 DEF ReadsInv, Baseline!reads
  <1>6. VersionsBehind' /\ LoadsAlone'
    BY <1>1, <1>2, <1>3, <1>4, <1>5 DEF VersionsBehind, LoadsAlone, Baseline!TypeOK
  <1>7. Covers(shown)'
    <2>1. CASE Baseline!Rename
      <3>1. UpToDate /\ page'.body = page.body
        <4>1. draft = None
          BY <1>1, <2>1 DEF Baseline!Rename, StoreKnowsDraft, Baseline!TypeOK,
            Baseline!BaselineAssumption
        <4>2. page'.body = page.body
          BY <1>3, <2>1 DEF Baseline!Rename, PageRow
        <4> QED
          BY <2>1, <4>1, <4>2 DEF Baseline!Rename, UpToDate, Names
      <3> QED
        BY <1>4, <3>1 DEF CoverInv, Covers, Baseline!Foreign
    <2>2. CASE Baseline!Publish /\ draft.body = 0
      <3>1. UpToDate /\ page'.body = page.body
        BY <2>2 DEF Baseline!Publish, UpToDate
      <3> QED
        BY <1>4, <3>1 DEF CoverInv, Covers, Baseline!Foreign
    <2>3. CASE Baseline!Publish /\ draft.body # 0
      <3>1. page'.body = draft.body /\ TypedHere(draft.body)
        BY <1>1, <2>3 DEF Baseline!Publish, BodiesInv
      <3> QED
        BY <1>4, <3>1 DEF Covers, Baseline!Foreign, TypedHere
    <2> QED
      BY <2>1, <2>2, <2>3
  <1> QED
    BY <1>4, <1>6, <1>7 DEF CoverInv

LEMMA CoverStep ==
    ASSUME Baseline!BaselineAssumption, ~Refreshes, ~ActsLoading, BaseInv, CoverInv,
             [Baseline!Next]_(Baseline!vars)
    PROVE  CoverInv'
  <1>1. Baseline!TypeOK /\ BodiesInv /\ ReadsInv /\ StoreKnowsDraft /\ VersionsBehind /\ LoadsAlone
    BY DEF BaseInv, CoverInv
  <1>2. CASE Baseline!OtherPublishes
    <2>1. PICK edit : edit = page.edit
      OBVIOUS
    <2>2. edit \in Nat /\ page'.edit = edit + 1
          /\ UNCHANGED <<draft, storePage, own, Baseline!reads, loaded, queued>>
      BY <1>1, <1>2, <2>1 DEF Baseline!OtherPublishes, Baseline!client, Baseline!TypeOK
    <2>3. /\ storePage \in Nat /\ own \in Nat /\ loaded \in Nat
          /\ (draft # None => draft.base \in Nat) /\ (queued # None => queued.base \in Nat)
          /\ (readPage.read => readPage.value.edit \in Nat)
      BY <1>1 DEF Baseline!TypeOK, ReadsInv, PageRow
    <2>4. VersionsBehind'
      BY <1>1, <2>1, <2>2, <2>3 DEF VersionsBehind
    <2>5. LoadsAlone'
      BY <1>1, <2>1, <2>2, <2>3 DEF LoadsAlone, Baseline!reads
    <2>6. ~UpToDate' /\ ~(draft' # None /\ draft'.base = page'.edit)
      BY <1>1, <2>1, <2>2, <2>3 DEF UpToDate, Names, VersionsBehind
    <2> QED
      BY <2>4, <2>5, <2>6 DEF CoverInv
  <1>3. CASE Baseline!ReadDraft \/ Baseline!ReadPage \/ Baseline!Loaded
    BY <1>3, CoverReads
  <1>4. CASE Baseline!TypeBody
    BY <1>4, CoverTypes
  <1>5. CASE Baseline!SendBody
    <2>1. PICK base, body : base = queued.base /\ body = queued.body
      OBVIOUS
    <2>2. /\ base \in Nat /\ body \in Nat /\ Baseline!CanUpsert(base) /\ body = shown /\ loaded # 0
          /\ base <= page.edit /\ Names(base)
      BY <1>1, <1>5, <2>1 DEF Baseline!SendBody, Baseline!TypeOK, BodiesInv, VersionsBehind, Names
    <2>3. /\ draft' = Baseline!Upserted(base, body) /\ queued' = None
          /\ UNCHANGED <<page, storePage, own, Baseline!reads, loaded, shown, stems>>
      BY <1>5, <2>1 DEF Baseline!SendBody
    <2> QED
      BY <2>2, <2>3, CoverSaves
  <1>6. CASE Baseline!SaveTitle
    <2>1. PICK base : base = Baseline!Baseline(storePage)
      OBVIOUS
    <2>2. base \in Nat
      BY <1>1, <2>1, BaselineIsNumber DEF Baseline!TypeOK
    <2>3. base <= page.edit /\ (draft = None => Names(base))
      BY <1>1, <2>1 DEF Baseline!Baseline, StoreKnowsDraft, VersionsBehind, Names
    <2>4. /\ loaded # 0 /\ Baseline!CanUpsert(base) /\ draft' = Baseline!Upserted(base, 0)
               /\ queued' = queued
          /\ UNCHANGED <<page, storePage, own, Baseline!reads, loaded, shown, stems>>
      BY <1>6, <2>1 DEF Baseline!SaveTitle, Baseline!Usable
    <2> QED
      BY <2>2, <2>3, <2>4, CoverSaves
  <1>7. CASE Baseline!Rename \/ Baseline!Publish
    BY <1>7, CoverWrites
  <1>8. CASE Baseline!Reopen \/ Baseline!ToggleEdit \/ Baseline!RefreshStore
               \/ UNCHANGED Baseline!vars
    <2>1. /\ UNCHANGED <<page, draft, storePage, own, Baseline!reads, queued, shown, stems>>
          /\ loaded' \in {loaded, 0}
      BY <1>8 DEF Baseline!Reopen, Baseline!ToggleEdit, Baseline!RefreshStore, Baseline!vars,
        Baseline!client, Baseline!reads
    <2>2. VersionsBehind' /\ LoadsAlone'
      BY <1>1, <2>1 DEF VersionsBehind, LoadsAlone, Baseline!reads, Baseline!TypeOK
    <2>3. loaded' # 0 /\ UpToDate' => Covers(shown)'
      BY <2>1 DEF CoverInv, UpToDate, Names, Covers, Baseline!Foreign
    <2>4. draft' # None /\ draft'.body # 0 /\ draft'.base = page'.edit => Covers(draft.body)'
      BY <2>1 DEF CoverInv, Covers, Baseline!Foreign
    <2> QED
      BY <2>2, <2>3, <2>4 DEF CoverInv
  <1> QED
    BY <1>2, <1>3, <1>4, <1>5, <1>6, <1>7, <1>8 DEF Baseline!Next

LEMMA InitCover ==
    ASSUME Baseline!Init
    PROVE  CoverInv
  <1>1. /\ page.edit = 1 /\ draft = None /\ storePage = 1 /\ own = 0
        /\ ~readDraft.read /\ ~readPage.read /\ loaded = 0 /\ queued = None
    BY DEF Baseline!Init, Baseline!NotRead
  <1> QED
    BY <1>1 DEF CoverInv, VersionsBehind, LoadsAlone

(* When neither the store's page is refreshed nor the title or Publish used     *)
(* before the editor has loaded, a publish replaces another user's body only    *)
(* by one that was written from it, whatever the versions and bodies.           *)
THEOREM NothingReplacedUnseen ==
    ASSUME Baseline!BaselineAssumption, ~Refreshes, ~ActsLoading
    PROVE  Baseline!Spec => Baseline!PublishReplacesWhatTheEditorShowed
  <1>1. Baseline!Init => BaseInv /\ CoverInv
    BY InitBase, InitCover
  <1>2. BaseInv /\ CoverInv /\ [Baseline!Next]_(Baseline!vars) => (BaseInv /\ CoverInv)'
    BY BaseStep, CoverStep
  <1>3. BaseInv /\ CoverInv /\ [Baseline!Next]_(Baseline!vars) =>
          [Baseline!Publish /\ draft.body # 0 /\ Baseline!Foreign(page.body)
            => page.body \in stems[draft.body]]_(Baseline!vars)
    BY DEF CoverInv, Covers, Baseline!Publish
  <1> QED
    BY <1>1, <1>2, <1>3, PTL DEF Baseline!Spec, Baseline!PublishReplacesWhatTheEditorShowed

-----------------------------------------------------------------------------
(* The title field *)

(* Unless the field came to hold a stored title again, what was typed is in it; *)
(* and a stored title in it is what was typed only while its write is under way, *)
(* or the next title to arrive would take its place.                            *)
TypedIsSafe ==
  typed # None /\ ~back =>
    /\ buffer.text = typed
    /\ buffer.text = Title!asBuffer(props.title).text
         => titleInflight # None /\ titleInflight.text = typed

TitleInv == Title!TypeOK /\ TypedIsSafe

\* The specification without its fairness.
TitleSafeSpec == Title!Init /\ [][Title!Next]_(Title!vars)

LEMMA AsBufferIs ==
    ASSUME NEW title \in Title!Stored \cup {Blank}
    PROVE  Title!asBuffer(title) \in Title!Buffer /\ ~Title!asBuffer(title).padded
  BY DEF Title!asBuffer, Title!Plain, Title!Buffer, Title!Texts, Title!Stored

LEMMA SentIs ==
    ASSUME NEW b \in Title!Buffer,
           NEW p \in [title : Title!Stored \cup {Blank}, target : {"draft", "page"}],
           NEW w \in Title!Write \cup {None}
    PROVE  /\ Title!Sent(b, p, w) \in Title!Write \cup {None}
           /\ w # None => Title!Sent(b, p, w) = w
           /\ Title!Sent(b, p, w) # w => Title!Sent(b, p, w).text = b.text
  <1> DEFINE sent == [target |-> p.target, title |-> Title!asStored(b.text), text |-> b.text,
                      late |-> FALSE]
  <1>1. b.text \in Title!Texts /\ p.target \in {"draft", "page"}
    BY DEF Title!Buffer
  <1>2. Title!asStored(b.text) \in Title!Stored
    BY <1>1 DEF Title!asStored, Title!Stored, Title!Texts
  <1>3. sent \in Title!Write /\ sent.text = b.text
    BY <1>1, <1>2 DEF Title!Write
  <1>4. Title!Sent(b, p, w) \in {w, sent} /\ (w # None => Title!Sent(b, p, w) = w)
    BY DEF Title!Sent
  <1> HIDE DEF sent
  <1> QED
    BY <1>3, <1>4

LEMMA ViewIs ==
    ASSUME NEW pub \in BOOLEAN, NEW ofPage \in Title!Stored, NEW inEdit \in BOOLEAN,
           NEW ofDraft \in Title!Stored \cup {Blank, None}, pub \/ ofDraft # None
    PROVE  Title!View(pub, ofPage, ofDraft, inEdit)
             \in [title : Title!Stored \cup {Blank}, target : {"draft", "page"}]
  BY DEF Title!View

(* The buffer that follows the store keeps what was typed, unless the write of *)
(* it is under way.                                                           *)
LEMMA FollowedIs ==
    ASSUME Title!TypeOK,
           NEW b \in Title!Buffer, b.text = buffer.text, b.padded => b = buffer,
           NEW p \in [title : Title!Stored \cup {Blank}, target : {"draft", "page"}]
    PROVE  /\ Title!Followed(b, props, p) \in Title!Buffer
           /\ TypedIsSafe /\ typed # None /\ ~back =>
                \/ Title!Followed(b, props, p).text = typed
                \/ /\ Title!Followed(b, props, p) = Title!asBuffer(p.title)
                   /\ titleInflight # None /\ titleInflight.text = typed
  <1>1. Title!asBuffer(p.title) \in Title!Buffer
    BY AsBufferIs
  <1>2. Title!Followed(b, props, p) \in {b, Title!asBuffer(p.title)}
        /\ (Title!Followed(b, props, p) = b \/ b = Title!asBuffer(props.title))
    BY DEF Title!Followed
  <1> QED
    BY <1>1, <1>2 DEF TypedIsSafe

LEMMA NotedIs ==
    ASSUME Title!Noted, typed' # None /\ ~back' => buffer'.text = typed'
    PROVE  TypedIsSafe'
  BY DEF Title!Noted, TypedIsSafe

LEMMA RendersKeeps ==
    ASSUME TitleInv, Title!Renders, titlePublished' \in BOOLEAN, pageTitle' \in Title!Stored,
           draftTitle' \in Title!Stored \cup {Blank, None}, titlePublished' \/ draftTitle' # None,
           titleEditing' \in BOOLEAN, titleInflight' \in Title!Write \cup {None},
           titleInflight # None => titleInflight'.text = titleInflight.text
    PROVE  TitleInv'
  <1> DEFINE now == Title!View(titlePublished', pageTitle', draftTitle', titleEditing')
  <1>1. props' = now /\ now \in [title : Title!Stored \cup {Blank}, target : {"draft", "page"}]
    BY ViewIs DEF Title!Renders
  <1>2. buffer \in Title!Buffer
    BY DEF TitleInv, Title!TypeOK
  <1>3. buffer' = Title!Followed(buffer, props, now)
    BY <1>1 DEF Title!Renders
  <1> HIDE DEF now
  <1>4. buffer' \in Title!Buffer
    BY <1>1, <1>2, <1>3, FollowedIs DEF TitleInv
  <1>5. typed' \in {typed, None} /\ back' \in BOOLEAN /\ due' \in BOOLEAN
    BY DEF TitleInv, Title!TypeOK, Title!Renders, Title!Noted
  <1>6. Title!TypeOK'
    BY <1>1, <1>4, <1>5 DEF TitleInv, Title!TypeOK, Title!Renders
  <1>7. ASSUME typed' # None, ~back'
        PROVE  buffer'.text = typed'
    <2>1. typed' = typed /\ ~back
      BY <1>5, <1>7 DEF Title!Renders, Title!Noted
    <2>2. \/ buffer'.text = typed
          \/ /\ buffer' = Title!asBuffer(now.title)
             /\ titleInflight # None /\ titleInflight.text = typed
      BY <1>1, <1>2, <1>3, <1>7, <2>1, FollowedIs DEF TitleInv
    <2>3. buffer' = Title!asBuffer(now.title)
            => titleInflight' # None /\ titleInflight'.text = buffer'.text
      BY <1>1, <1>7 DEF Title!Renders, Title!Noted
    <2> QED
      BY <2>1, <2>2, <2>3
  <1> QED
    BY <1>6, <1>7, NotedIs DEF TitleInv, Title!Renders

LEMMA FieldKeeps ==
    ASSUME TitleInv, Title!Type \/ Title!Cancel \/ Title!Commit \/ Title!Leave \/ Title!Unmount
    PROVE  TitleInv'
  <1> USE DEF TitleInv
  <1> DEFINE View == [title : Title!Stored \cup {Blank}, target : {"draft", "page"}]
  <1>1. /\ buffer \in Title!Buffer /\ buffer.text \in Title!Texts /\ props \in View
        /\ titleInflight \in Title!Write \cup {None}
        /\ Title!Plain(buffer.text) \in Title!Buffer /\ Title!Plain(buffer.text).text = buffer.text
        /\ ~Title!Plain(buffer.text).padded
    BY DEF Title!TypeOK, Title!Buffer, Title!Plain
  <1>2. CASE Title!Type
    <2>1. /\ buffer' \in Title!Buffer /\ buffer'.text \in Title!Texts
          /\ typed' \in {None, buffer'.text}
      BY <1>2 DEF Title!Type, Title!Buffer
    <2>2. Title!TypeOK'
      BY <1>2, <2>1 DEF Title!TypeOK, Title!Type, Title!store
    <2>3. TypedIsSafe'
      BY <1>2, <2>1 DEF TypedIsSafe, Title!Type
    <2> QED
      BY <2>2, <2>3
  <1>3. CASE Title!Cancel
    <2>1. buffer' \in Title!Buffer
      BY <1>1, <1>3, AsBufferIs DEF Title!Cancel
    <2>2. Title!TypeOK'
      BY <1>3, <2>1 DEF Title!TypeOK, Title!Cancel, Title!store, Title!Noted
    <2>3. TypedIsSafe'
      BY <1>3 DEF TypedIsSafe, Title!Cancel
    <2> QED
      BY <2>2, <2>3
  <1>4. CASE Title!Commit
    <2>1. titleInflight' \in Title!Write \cup {None}
      BY <1>1, <1>4, SentIs DEF Title!Commit
    <2>2. Title!TypeOK'
      BY <1>1, <1>4, <2>1 DEF Title!TypeOK, Title!Commit, Title!store, Title!Noted
    <2>3. typed' # None /\ ~back' => buffer'.text = typed'
      BY <1>1, <1>4 DEF TypedIsSafe, Title!Commit, Title!Noted
    <2> QED
      BY <1>4, <2>2, <2>3, NotedIs DEF Title!Commit
  <1>5. CASE Title!Leave
    <2> DEFINE now == Title!View(titlePublished, pageTitle, draftTitle, FALSE)
               plain == Title!Plain(buffer.text)
    <2>1. now \in View /\ props' = now
      BY <1>5, ViewIs DEF Title!TypeOK, Title!Leave
    <2>2. buffer' = Title!Followed(plain, props, now)
          /\ titleInflight' = Title!Sent(buffer, now, titleInflight)
      BY <1>5, <2>1 DEF Title!Leave
    <2> HIDE DEF now
    <2>3. buffer' \in Title!Buffer
          /\ (TypedIsSafe /\ typed # None /\ ~back =>
                \/ buffer'.text = typed
                \/ /\ buffer' = Title!asBuffer(now.title)
                   /\ titleInflight # None /\ titleInflight.text = typed)
      <3> HIDE DEF plain
      <3>1. /\ plain \in Title!Buffer /\ plain.text = buffer.text
            /\ plain.padded => plain = buffer
        BY <1>1 DEF plain
      <3> QED
        BY <2>1, <2>2, <3>1, FollowedIs
    <2>4. titleInflight' \in Title!Write \cup {None}
          /\ (titleInflight # None => titleInflight' = titleInflight)
      BY <1>1, <2>1, <2>2, SentIs
    <2>5. typed' = typed /\ Title!TypeOK'
      BY <1>5, <2>1, <2>3, <2>4 DEF Title!TypeOK, Title!Leave, Title!store, Title!Noted
    <2>6. ASSUME typed' # None, ~back'
          PROVE  buffer'.text = typed'
      <3>1. ~back
        BY <1>5, <2>5, <2>6 DEF Title!Leave, Title!Noted
      <3>2. buffer' = Title!asBuffer(now.title)
              => titleInflight' # None /\ titleInflight'.text = buffer'.text
        BY <1>5, <2>1, <2>6 DEF Title!Leave, Title!Noted
      <3> QED
        BY <2>3, <2>4, <2>5, <2>6, <3>1, <3>2
    <2> QED
      BY <1>5, <2>5, <2>6, NotedIs DEF Title!Leave
  <1>6. CASE Title!Unmount
    <2>1. titleInflight' \in Title!Write \cup {None}
      BY <1>1, <1>6, SentIs DEF Title!Unmount
    <2>2. buffer' \in Title!Buffer /\ buffer'.text = buffer.text
      BY <1>1, <1>6 DEF Title!Unmount
    <2>3. Title!TypeOK'
      BY <1>1, <1>6, <2>1, <2>2 DEF Title!TypeOK, Title!Unmount, Title!store, Title!Noted
    <2>4. typed' # None /\ ~back' => buffer'.text = typed'
      BY <1>6, <2>2 DEF TypedIsSafe, Title!Unmount, Title!Noted
    <2> QED
      BY <1>6, <2>3, <2>4, NotedIs DEF Title!Unmount
  <1> QED
    BY <1>2, <1>3, <1>4, <1>5, <1>6

LEMMA AnsweredKeeps ==
    ASSUME TitleInv, NEW w \in Title!Write, titleInflight = w, Title!Noted,
           NEW p \in [title : Title!Stored \cup {Blank}, target : {"draft", "page"}],
           Title!Answered(w, p),
           typed' \in {typed, None}, typed' # None => typed # w.text \/ p = props
    PROVE  /\ buffer' \in Title!Buffer /\ titleInflight' \in Title!Write \cup {None}
           /\ due' \in BOOLEAN /\ props' = p
           /\ TypedIsSafe'
  <1> DEFINE b == IF titleMounted THEN Title!Followed(buffer, props, p) ELSE buffer
  <1>1. buffer \in Title!Buffer /\ Title!TypeOK
    BY DEF TitleInv, Title!TypeOK
  <1>2. b \in Title!Buffer /\ b.text \in Title!Texts
    BY <1>1, FollowedIs DEF Title!Buffer
  <1>3. /\ props' = p /\ titleInflight' = Title!Continued(b, p, w)
        /\ buffer' = IF b.text # w.text THEN Title!Plain(b.text) ELSE b
        /\ due' = (due /\ b.text = buffer.text)
    BY Zenon DEF Title!Answered
  <1>4. TypedIsSafe /\ typed # None /\ ~back =>
          b.text = typed \/ (b = Title!asBuffer(p.title) /\ w.text = typed)
    BY <1>1, FollowedIs DEF TypedIsSafe
  <1>5. p = props => b = buffer
    BY DEF Title!Followed
  <1> HIDE DEF b
  <1>6. buffer' \in Title!Buffer /\ buffer'.text = b.text
    BY <1>2, <1>3 DEF Title!Plain, Title!Buffer
  <1>7. titleInflight' \in Title!Write \cup {None}
    <2>1. None \in Title!Write \cup {None}
      OBVIOUS
    <2>2. Title!Sent(b, p, None) \in Title!Write \cup {None}
      BY <1>2, <2>1, SentIs
    <2> QED
      BY <1>3, <2>2 DEF Title!Continued
  <1>8. typed' # None /\ ~back' => buffer'.text = typed'
    BY <1>4, <1>5, <1>6 DEF TitleInv, TypedIsSafe, Title!Noted
  <1> QED
    BY <1>1, <1>3, <1>6, <1>7, <1>8, NotedIs DEF Title!TypeOK

LEMMA AnswersKeep ==
    ASSUME Title!TitleAssumption, TitleInv, Title!WriteOk \/ Title!WriteFails
    PROVE  TitleInv'
  <1> DEFINE w == titleInflight
             View == [title : Title!Stored \cup {Blank}, target : {"draft", "page"}]
  <1>1. w \in Title!Write /\ w # None
    BY DEF TitleInv, Title!TypeOK, Title!WriteOk, Title!WriteFails
  <1>2. typed \in Title!Texts \cup {None} /\ props \in View /\ titleEditing \in BOOLEAN
    BY DEF TitleInv, Title!TypeOK
  <1>3. CASE Title!WriteOk
    <2> DEFINE now == Title!View(titlePublished', pageTitle', draftTitle', titleEditing)
               p == IF titleMounted THEN now ELSE props
    <2>1. w.title \in Title!Stored /\ w.title # None
      BY <1>1 DEF Title!Write, Title!Stored, Title!TitleAssumption
    <2>2. /\ titlePublished' \in BOOLEAN /\ pageTitle' \in Title!Stored
          /\ draftTitle' \in Title!Stored \cup {Blank, None}
          /\ titlePublished' \/ draftTitle' # None
      BY <1>3, <2>1 DEF TitleInv, Title!TypeOK, Title!WriteOk
    <2>3. p \in View
      BY <1>2, <2>2, ViewIs
    <2>4. Title!Answered(w, p) /\ Title!Noted
      BY <1>3 DEF Title!WriteOk
    <2>5. typed' \in {typed, None} /\ (typed' # None => typed # w.text)
      BY <1>3 DEF Title!WriteOk
    <2> HIDE DEF p, w
    <2>6. /\ buffer' \in Title!Buffer /\ titleInflight' \in Title!Write \cup {None}
          /\ due' \in BOOLEAN /\ props' = p /\ TypedIsSafe'
      BY <1>1, <2>3, <2>4, <2>5, AnsweredKeeps DEF w
    <2>7. back' \in BOOLEAN
      BY <2>4 DEF TitleInv, Title!TypeOK, Title!Noted
    <2> QED
      BY <1>2, <1>3, <2>2, <2>3, <2>5, <2>6, <2>7 DEF TitleInv, Title!TypeOK, Title!WriteOk
  <1>4. CASE Title!WriteFails
    <2>1. Title!Answered(w, props) /\ Title!Noted /\ typed' = typed
      BY <1>4 DEF Title!WriteFails
    <2>2. /\ buffer' \in Title!Buffer /\ titleInflight' \in Title!Write \cup {None}
          /\ due' \in BOOLEAN /\ props' = props /\ TypedIsSafe'
      BY <1>1, <1>2, <2>1, AnsweredKeeps
    <2>3. back' \in BOOLEAN
      BY <2>1 DEF TitleInv, Title!TypeOK, Title!Noted
    <2> QED
      BY <1>2, <1>4, <2>1, <2>2, <2>3 DEF TitleInv, Title!TypeOK, Title!WriteFails, Title!store
  <1> QED
    BY <1>3, <1>4

LEMMA ChangesKeep ==
    ASSUME Title!TitleAssumption, TitleInv,
           Title!Enter \/ Title!PageArrives \/ Title!DraftArrives \/ Title!Publish
    PROVE  TitleInv'
  <1> USE DEF TitleInv
  <1>1. None \notin Title!Stored \cup {Blank}
    BY DEF Title!Stored, Title!TitleAssumption
  <1>2. CASE Title!Enter
    BY <1>2, RendersKeeps DEF Title!TypeOK, Title!Enter, Title!store
  <1>3. CASE Title!PageArrives
    BY <1>3, RendersKeeps DEF Title!TypeOK, Title!PageArrives
  <1>4. CASE Title!DraftArrives
    <2>1. draftTitle' \in Title!Stored \cup {Blank, None}
      BY <1>4 DEF Title!DraftArrives
    <2> QED
      BY <1>4, <2>1, RendersKeeps DEF Title!TypeOK, Title!DraftArrives
  <1>5. CASE Title!Publish
    <2>1. pageTitle' \in Title!Stored
      BY <1>5 DEF Title!TypeOK, Title!Publish, Title!Write
    <2>2. /\ titleInflight' \in Title!Write \cup {None}
          /\ titleInflight # None => titleInflight'.text = titleInflight.text
      <3>1. CASE UNCHANGED titleInflight
        BY <3>1 DEF Title!TypeOK
      <3>2. CASE titleInflight = None /\ titleInflight' = None
        BY <3>2
      <3>3. CASE titleInflight # None
                 /\ titleInflight' =
                      [titleInflight EXCEPT !.late = (titleInflight.target = "draft")]
        BY <3>3 DEF Title!TypeOK, Title!Write
      <3> QED
        BY <1>5, <3>1, <3>2, <3>3 DEF Title!Publish
    <2> QED
      BY <1>5, <2>1, <2>2, RendersKeeps DEF Title!TypeOK, Title!Publish
  <1> QED
    BY <1>2, <1>3, <1>4, <1>5

(* The types of the title area, and what was typed is where it cannot get lost. *)
THEOREM TitleInvariant ==
    ASSUME Title!TitleAssumption
    PROVE  TitleSafeSpec => []TitleInv
  <1>1. Title!Init => TitleInv
    <2> SUFFICES ASSUME Title!Init
                 PROVE  TitleInv
      OBVIOUS
    <2>1. /\ titlePublished \in BOOLEAN /\ titleEditing \in BOOLEAN
          /\ pageTitle \in Title!Stored /\ draftTitle \in Title!Stored \cup {Blank, None}
          /\ titlePublished \/ draftTitle # None
      BY DEF Title!Init, Title!Stored, Title!TitleAssumption
    <2>2. props \in [title : Title!Stored \cup {Blank}, target : {"draft", "page"}]
      BY <2>1, ViewIs DEF Title!Init
    <2>3. buffer \in Title!Buffer
      BY <2>2, AsBufferIs DEF Title!Init
    <2> QED
      BY <2>1, <2>2, <2>3 DEF Title!Init, TitleInv, Title!TypeOK, TypedIsSafe
  <1>2. TitleInv /\ [Title!Next]_(Title!vars) => TitleInv'
    <2>1. ASSUME TitleInv, UNCHANGED Title!vars
          PROVE  TitleInv'
      BY <2>1
      DEF TitleInv, TypedIsSafe, Title!TypeOK, Title!vars, Title!store, Title!ghosts,
          Title!counts, Title!asBuffer, Title!Plain
    <2> QED
      BY <2>1, FieldKeeps, AnswersKeep, ChangesKeep DEF Title!Next
  <1> QED
    BY <1>1, <1>2, PTL DEF TitleSafeSpec

(* What was typed stays in the field or on its way, whatever titles and answers *)
(* arrive, for any titles and numbers of edits, changes and failures.           *)
THEOREM WhatIsTypedStays ==
    ASSUME Title!TitleAssumption
    PROVE  TitleSafeSpec => []Title!TypedStays
  <1>1. TitleInv => Title!TypedStays
    BY DEF TitleInv, TypedIsSafe, Title!TypedStays, Title!TypedIsHeld
  <1> QED
    BY <1>1, TitleInvariant, PTL

=============================================================================
