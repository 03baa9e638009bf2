---------------------------- MODULE PagePresence ----------------------------
(***************************************************************************)
(* Who is editing a page.  The server derives it from the drafts: saves    *)
(* and ended sessions broadcast a snapshot, the saves of one editor at     *)
(* most once per Interval; a snapshot is stamped, then queried, then       *)
(* published.  A viewer of the page fetches one when it opens it, receives *)
(* the broadcasts in any order, keeps the newest and lets it expire by     *)
(* itself.  Times are kept as ages, so that the clock never stops.         *)
(***************************************************************************)
EXTENDS Naturals, FiniteSets

CONSTANTS
  Editors,
  Timeout,    \* ActiveEditorTimeoutMs
  Interval,   \* presenceBroadcastMinIntervalMs
  None,       \* no draft, no entry, nothing under way
  Ties,       \* two snapshots may be taken in one millisecond
  Fails,      \* the editors query may fail
  Losses,     \* broadcasts and the viewer's fetch may be lost
  Overlaps,   \* a session may be ended while one of its saves is under way
  MaxStay,    \* bound on the age a request under way may reach
  MaxEvents   \* bound on the broadcasts on their way

PresenceAssumption ==
  /\ Interval \in Nat /\ Timeout \in Nat /\ 0 < Interval /\ Interval < Timeout
  /\ {Ties, Fails, Losses, Overlaps} \subseteq BOOLEAN
  /\ MaxStay \in Nat /\ MaxEvents \in Nat \ {0}
  /\ None \notin Nat /\ None \notin Editors
  /\ None \notin [step : {"done", "stamped"}, at : Nat]
  /\ None \notin [at : Nat, who : SUBSET Editors]
  /\ None \notin [step : {"asked", "stamped", "queried"}, at : Nat, who : SUBSET Editors]

VARIABLES
  drafts,    \* the age of each editor's draft, or None
  times,     \* presenceBroadcastTimes: the age of each editor's entry, or None
  tasks,     \* requests of each editor and kind under way: [step, at] or None
  events,    \* broadcasts on their way to the viewer: [at, who]
  viewing,   \* the viewer has the page open
  snapshot,  \* the viewer's: [at, who] or None
  expired,   \* its timeout had passed when the viewer last looked at the clock
  fetch      \* the viewer's read: [step, at, who] or None

server == <<drafts, times, tasks>>
viewer == <<viewing, snapshot, expired, fetch>>
vars == <<server, events, viewer>>

Kinds == {"save", "end"}
Old == Timeout + 1
Ages == 0..Old

NewTask == [step |-> "done", at |-> 0]
NewFetch == [step |-> "asked", at |-> 0, who |-> {}]

Init ==
  /\ drafts = [u \in Editors |-> None]
  /\ times = [u \in Editors |-> None]
  /\ tasks = [u \in Editors |-> [k \in Kinds |-> None]]
  /\ events = {}
  /\ viewing = FALSE /\ snapshot = None /\ expired = FALSE /\ fetch = None

\* GetPageActiveEditors.
Active == {u \in Editors : drafts[u] # None /\ drafts[u] <= Timeout}

-----------------------------------------------------------------------------
(* Time *)

Older(age) == IF age = None \/ age = Old THEN age ELSE age + 1
Aged(r) == IF r = None THEN None ELSE [r EXCEPT !.at = Older(@)]

IsLate(r) == r # None /\ r.at >= MaxStay

Tick ==
  /\ \A u \in Editors, k \in Kinds : ~IsLate(tasks[u][k])
  /\ ~IsLate(fetch)
  /\ drafts' = [u \in Editors |-> Older(drafts[u])]
  /\ times' = [u \in Editors |-> Older(times[u])]
  /\ tasks' = [u \in Editors |-> [k \in Kinds |-> Aged(tasks[u][k])]]
  /\ events' = {Aged(e) : e \in events}
  /\ snapshot' = Aged(snapshot)
  /\ fetch' = Aged(fetch)
  /\ UNCHANGED <<viewing, expired>>

\* The stamps of this millisecond.
Stamped == {"stamped", "queried"}
StampedNow ==
  \/ \E u \in Editors, k \in Kinds :
       tasks[u][k] # None /\ tasks[u][k].step = "stamped" /\ tasks[u][k].at = 0
  \/ \E e \in events : e.at = 0
  \/ snapshot # None /\ snapshot.at = 0
  \/ fetch # None /\ fetch.step \in Stamped /\ fetch.at = 0
MayStamp == StampedNow => Ties

-----------------------------------------------------------------------------
(* The server *)

MayAsk(u) == Overlaps \/ \A k \in Kinds : tasks[u][k] = None

Put(u, k, task) == tasks' = [tasks EXCEPT ![u][k] = task]

\* UpdatePageDraft has committed.
Save(u) ==
  /\ tasks[u]["save"] = None /\ MayAsk(u)
  /\ drafts' = [drafts EXCEPT ![u] = 0]
  /\ Put(u, "save", NewTask)
  /\ UNCHANGED <<times, events, viewer>>

\* A discard or a publish has committed.
End(u) ==
  /\ tasks[u]["end"] = None /\ MayAsk(u)
  /\ drafts[u] # None
  /\ drafts' = [drafts EXCEPT ![u] = None]
  /\ Put(u, "end", NewTask)
  /\ UNCHANGED <<times, events, viewer>>

Suppressed(u) == times[u] # None /\ times[u] < Interval

\* maybeBroadcastDraftPresence claims its slot and stamps.
Claim(u) ==
  /\ tasks[u]["save"] # None /\ tasks[u]["save"].step = "done"
  /\ IF Suppressed(u)
     THEN Put(u, "save", None) /\ UNCHANGED times
     ELSE /\ MayStamp
          /\ Put(u, "save", [NewTask EXCEPT !.step = "stamped"])
          /\ times' = [times EXCEPT ![u] = 0]
  /\ UNCHANGED <<drafts, events, viewer>>

Cleared(u) == [times EXCEPT ![u] = None]

\* endDraftPresenceSession.
Announce(u) ==
  /\ tasks[u]["end"] # None /\ tasks[u]["end"].step = "done"
  /\ MayStamp
  /\ Put(u, "end", [NewTask EXCEPT !.step = "stamped"])
  /\ times' = Cleared(u)
  /\ UNCHANGED <<drafts, events, viewer>>

\* CompareAndDelete of the claimed slot.
Released(u, k) ==
  IF k = "save" /\ times[u] = tasks[u][k].at THEN [times EXCEPT ![u] = None] ELSE times

\* The query, and the broadcast sets out: it arrives at any later time.
Query(u, k) ==
  /\ tasks[u][k] # None /\ tasks[u][k].step = "stamped"
  /\ Put(u, k, None)
  /\ \/ /\ Cardinality(events) < MaxEvents
        /\ events' = events \cup {[at |-> tasks[u][k].at, who |-> Active]}
        /\ UNCHANGED times
     \/ Fails /\ times' = Released(u, k) /\ UNCHANGED events
  /\ UNCHANGED <<drafts, viewer>>

\* GetPageActiveEditors of the service.
ServeFetch ==
  /\ fetch # None
  /\ \/ fetch.step = "asked" /\ MayStamp /\ fetch' = [fetch EXCEPT !.step = "stamped", !.at = 0]
     \/ fetch.step = "stamped" /\ fetch' = [fetch EXCEPT !.step = "queried", !.who = Active]
  /\ UNCHANGED <<server, events, viewing, snapshot, expired>>

-----------------------------------------------------------------------------
(* The viewer: usePagePresence *)

Shows(s) == snapshot' = s /\ expired' = (s.at >= Timeout)

OpenPage ==
  /\ ~viewing
  /\ viewing' = TRUE /\ fetch' = NewFetch
  /\ UNCHANGED <<server, events, snapshot, expired>>

LeavePage ==
  /\ viewing
  /\ viewing' = FALSE /\ snapshot' = None /\ expired' = FALSE /\ fetch' = None
  /\ UNCHANGED <<server, events>>

FetchArrives ==
  /\ fetch # None /\ fetch.step = "queried"
  /\ fetch' = None
  /\ IF snapshot # None /\ snapshot.at <= fetch.at
     THEN UNCHANGED <<snapshot, expired>>
     ELSE Shows([at |-> fetch.at, who |-> fetch.who])
  /\ UNCHANGED <<server, events, viewing>>

\* Mutant of IsNewer: the last to arrive is kept.
IsNewerAlways(e) == TRUE
IsNewer(e) == snapshot = None \/ e.at <= snapshot.at

EventArrives(e) ==
  /\ events' = events \ {e}
  /\ IF viewing /\ IsNewer(e) THEN Shows(e) ELSE UNCHANGED <<snapshot, expired>>
  /\ UNCHANGED <<server, viewing, fetch>>

\* Mutant of Expires: the viewer waits for the next snapshot.
ExpiresNever == FALSE
Expires == snapshot # None /\ snapshot.who # {} /\ snapshot.at >= Timeout /\ ~expired

\* The timer set for the snapshot.
TimerFires ==
  /\ Expires
  /\ expired' = TRUE
  /\ UNCHANGED <<server, events, viewing, snapshot, fetch>>

Lose ==
  /\ Losses
  /\ \/ \E e \in events : events' = events \ {e} /\ UNCHANGED fetch
     \/ fetch # None /\ fetch' = None /\ UNCHANGED events
  /\ UNCHANGED <<server, viewing, snapshot, expired>>

Next ==
  \/ Tick
  \/ \E u \in Editors : Save(u) \/ End(u) \/ Claim(u) \/ Announce(u)
  \/ \E u \in Editors, k \in Kinds : Query(u, k)
  \/ ServeFetch \/ OpenPage \/ LeavePage \/ FetchArrives \/ TimerFires \/ Lose
  \/ \E e \in events : EventArrives(e)

Spec == Init /\ [][Next]_vars

\* The clock and the viewer's timer run, requests are answered, broadcasts
\* arrive or are lost.
Fairness ==
  /\ WF_vars(Tick) /\ WF_vars(TimerFires)
  /\ \A u \in Editors : WF_vars(Claim(u)) /\ WF_vars(Announce(u))
  /\ \A u \in Editors, k \in Kinds : WF_vars(Query(u, k))
  /\ WF_vars(ServeFetch) /\ WF_vars(FetchArrives)
  /\ WF_vars(\E e \in events : EventArrives(e))

-----------------------------------------------------------------------------
(* Properties *)

Shown == IF snapshot = None \/ expired THEN {} ELSE snapshot.who

TypeOK ==
  /\ \A u \in Editors : drafts[u] \in Ages \cup {None} /\ times[u] \in Ages \cup {None}
  /\ \A u \in Editors, k \in Kinds :
       tasks[u][k] # None =>
         tasks[u][k].step \in {"done", "stamped"} /\ tasks[u][k].at \in Ages
  /\ \A e \in events : e.at \in Ages /\ e.who \subseteq Editors
  /\ Cardinality(events) <= MaxEvents
  /\ viewing \in BOOLEAN /\ expired \in BOOLEAN
  /\ snapshot # None => viewing /\ snapshot.at \in Ages /\ snapshot.who \subseteq Editors
  /\ fetch # None => viewing /\ fetch.step \in {"asked"} \cup Stamped

\* Nothing is under way that could still change what the viewer shows.
Quiet ==
  /\ \A u \in Editors, k \in Kinds : tasks[u][k] = None
  /\ events = {} /\ fetch = None /\ viewing

\* "so the next autosave retries immediately instead of waiting out the full
\* throttle window", "a later session starts unthrottled" (page_presence.go):
\* whose saves are being suppressed is on screen.
NobodySuppressedUnseen ==
  Quiet => \A u \in Active : Suppressed(u) => u \in Shown

\* "clients use it to discard out-of-order snapshots" (page_presence.go): with
\* every broadcast delivered, in any order, nobody whose session has ended is
\* shown.
EndedSessionsAreGone ==
  Quiet => \A u \in Shown : drafts[u] # None

\* "active_timeout_ms lets it expire the snapshot's editors on its own"
\* (page_presence.go): whatever is lost, nobody stays on screen for ever
\* without editing.
NobodyStaysForEver == \A u \in Editors : []<>(u \notin Shown \/ u \in Active)
=============================================================================
