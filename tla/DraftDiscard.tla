---------------------------- MODULE DraftDiscard ----------------------------
(***************************************************************************)
(* DraftPublish with one more history variable: the edit sessions that were *)
(* open when their user discarded the draft.  app.DeletePageDraft discards  *)
(* unconditionally and says which late autosaves can bring a draft back.    *)
(***************************************************************************)
EXTENDS DraftPublish

VARIABLE
    discarded   \* history: how many sessions preceded the user's last discard

dvars == <<vars, discarded>>

DInit ==
    /\ Init
    /\ discarded = [u \in Users |-> [p \in Pages |-> 0]]

\* Every step of DraftPublish; a discard also records the sessions it closes.
DNext ==
    \/ /\ Tick \/ SpaceStep
       /\ UNCHANGED discarded
    \/ FinishSave /\ UNCHANGED discarded
    \/ \E r \in Reqs : PublishStep(r) /\ UNCHANGED discarded
    \/ \E p \in Pages : PageStep(p) /\ UNCHANGED discarded
    \/ \E u \in Users, p \in Pages :
           /\ DraftStep(u, p)
           /\ discarded' = IF Held(u, p) /\ drafts'[u][p] = NoDraft
                           THEN [discarded EXCEPT ![u][p] = Len(sessions[u][p])]
                           ELSE discarded

DSpec == DInit /\ [][DNext]_dvars

-----------------------------------------------------------------------------

\* The draft of a published page does not come back by a save of a session that
\* was open when it was discarded.  app/page_draft.go says so ("a published
\* page is protected"); it fails when nobody edited the page meanwhile.
DiscardedEditStaysDiscarded ==
    \A u \in Users, p \in Pages :
        Held(u, p) /\ Live(p) => drafts[u][p].opener > discarded[u][p]

=============================================================================
