----------------------------- MODULE TypedTexts -----------------------------
(***************************************************************************)
(* What the page editor promises about the texts typed in it, whatever it  *)
(* does about debouncing, chaining, retrying and flushing its saves: each  *)
(* page's draft on the server holds a text that was typed in that page,    *)
(* it only ever moves on to a later one, and a publish takes what the      *)
(* draft holds.                                                            *)
(***************************************************************************)
EXTENDS Naturals

CONSTANTS Pages, Texts   \* the pages, and the numbers of the texts to be typed

VARIABLES texts,      \* the texts typed in each page, numbered as typed
          stored,     \* the last text of each page that reached its draft
          published   \* the text each page was last published with

Init ==
  /\ texts = [p \in Pages |-> {}]
  /\ stored = [p \in Pages |-> 0]
  /\ published = [p \in Pages |-> 0]

\* A text nobody typed before is typed in one page.
Type(p) ==
  /\ \E v \in Texts : /\ \A q \in Pages : v \notin texts[q]
                      /\ texts' = [texts EXCEPT ![p] = @ \cup {v}]
  /\ UNCHANGED <<stored, published>>

\* The draft moves on to a later text of the same page.
Store(p) ==
  /\ \E v \in texts[p] : v > stored[p] /\ stored' = [stored EXCEPT ![p] = v]
  /\ UNCHANGED <<texts, published>>

Publish(p) ==
  /\ published' = [published EXCEPT ![p] = stored[p]]
  /\ UNCHANGED <<texts, stored>>

Next == \E p \in Pages : Type(p) \/ Store(p) \/ Publish(p)

Spec == Init /\ [][Next]_<<texts, stored, published>>
=============================================================================
