---------------------------- MODULE SidebarWidth ----------------------------
(***************************************************************************)
(* A resizable panel: its divider (pointer drag with a snap to the default *)
(* width, keyboard, double click) over the width that every reader of the  *)
(* panel shares (hooks/sidebar_width) and that is written to localStorage  *)
(* when the drag ends.  The divider lies on the panel's moving edge: a     *)
(* gesture begins there, and only a drag captures the pointer.             *)
(***************************************************************************)
EXTENDS Integers

CONSTANTS
  MinWidth, MaxWidth, DefaultWidth,
  SnapDistance, Step,  \* SNAP_DISTANCE, KEYBOARD_STEP
  Pointers,   \* where the pointer can be
  Edge,       \* where the panel's fixed edge is
  Side,       \* 1: the handle is on the right of its panel (side 'left'), -1: on its left
  Unset,      \* no width stored or read yet
  Strays,     \* a button that does not drag may be released on the divider
  Interrupts  \* the panel may close during a drag

WidthAssumption ==
  /\ {MinWidth, MaxWidth, DefaultWidth} \subseteq Nat
  /\ MinWidth <= DefaultWidth /\ DefaultWidth <= MaxWidth
  /\ SnapDistance \in Nat /\ Step \in Nat \ {0}
  /\ Pointers \subseteq Int /\ Edge \in Int /\ Side \in {1, -1}
  /\ Unset \notin Nat
  /\ {Strays, Interrupts} \subseteq BOOLEAN

VARIABLES
  width,       \* widths: the live value the readers share
  saved,       \* localStorage's width, or Unset
  open,        \* the divider is mounted
  dragging,
  startX, startWidth,  \* the refs of the drag
  lastWidth,   \* the last width the drag asked for
  resizing     \* the panel's: no transition while it is resized

drag == <<dragging, startX, startWidth, lastWidth>>
vars == <<width, saved, open, drag, resizing>>

Widths == MinWidth..MaxWidth
Clamp(w) == IF w < MinWidth THEN MinWidth ELSE IF w > MaxWidth THEN MaxWidth ELSE w

Near(v, w) == v - w <= SnapDistance /\ w - v <= SnapDistance
Snap(w) == IF Near(w, DefaultWidth) THEN DefaultWidth ELSE w

\* Where the handle of a panel of width w is.
Handle(w) == Edge + Side * w

\* Mutant of WidthFor: the drag also snaps to the width it last asked for.
WidthForSticky(x) ==
  LET w == Clamp(Snap(startWidth + Side * (x - startX)))
  IN IF Near(w, lastWidth) THEN lastWidth ELSE w
WidthFor(x) == Clamp(Snap(startWidth + Side * (x - startX)))

\* The width a fresh product reads: the stored one, or the default.
Restored == Clamp(IF saved = Unset THEN DefaultWidth ELSE saved)

Refs(x, w) == startX' = x /\ startWidth' = w /\ lastWidth' = w

Init ==
  /\ saved \in Widths \cup {Unset}
  /\ width = Restored
  /\ open = TRUE
  /\ dragging = FALSE /\ startX = 0 /\ startWidth = 0 /\ lastWidth = width
  /\ resizing = FALSE

Resize(w) == width' = w /\ resizing' = TRUE
ResizeEnd(w) == width' = w /\ saved' = w /\ resizing' = FALSE

-----------------------------------------------------------------------------

PointerDown ==
  /\ open /\ ~dragging
  /\ dragging' = TRUE
  /\ Refs(Handle(width), width)
  /\ UNCHANGED <<width, saved, open, resizing>>

PointerMove(x) ==
  /\ dragging
  /\ Resize(WidthFor(x))
  /\ lastWidth' = WidthFor(x)
  /\ UNCHANGED <<saved, open, dragging, startX, startWidth>>

PointerUp(x) ==
  /\ dragging
  /\ ResizeEnd(WidthFor(x))
  /\ dragging' = FALSE
  /\ UNCHANGED <<open, startX, startWidth, lastWidth>>

\* The release of a button that never pressed the handle: the width is set
\* from the refs of an earlier drag, and nothing ends.
StrayUp ==
  /\ Strays /\ open /\ ~dragging
  /\ Resize(WidthFor(Handle(width)))
  /\ UNCHANGED <<saved, open, drag>>

PointerCancel ==
  /\ dragging
  /\ ResizeEnd(lastWidth)
  /\ dragging' = FALSE
  /\ UNCHANGED <<open, startX, startWidth, lastWidth>>

DoubleClick ==
  /\ open /\ ~dragging
  /\ ResizeEnd(DefaultWidth)
  /\ UNCHANGED <<open, drag>>

Stepped(by) == Clamp(width + by)

\* An arrow or Home on the focused handle, in a drag too.
Key ==
  /\ open
  /\ \E w \in {Stepped(Step), Stepped(-Step), DefaultWidth} : ResizeEnd(w)
  /\ UNCHANGED <<open, drag>>

\* The panel closes, by its toggle, a route or fullscreen; its divider and the
\* refs of the divider go with it.
Close ==
  /\ open /\ (dragging => Interrupts)
  /\ open' = FALSE /\ dragging' = FALSE
  /\ UNCHANGED <<width, saved, startX, startWidth, lastWidth, resizing>>

Reopen ==
  /\ ~open
  /\ open' = TRUE
  /\ startX' = 0 /\ startWidth' = 0 /\ lastWidth' = width
  /\ UNCHANGED <<width, saved, dragging, resizing>>

Reload ==
  /\ width' = Restored
  /\ open' = TRUE /\ dragging' = FALSE /\ resizing' = FALSE
  /\ startX' = 0 /\ startWidth' = 0 /\ lastWidth' = Restored
  /\ UNCHANGED saved

Next ==
  \/ PointerDown \/ StrayUp \/ PointerCancel \/ DoubleClick \/ Key
  \/ \E x \in Pointers : PointerMove(x) \/ PointerUp(x)
  \/ Close \/ Reopen \/ Reload

Spec == Init /\ [][Next]_vars

-----------------------------------------------------------------------------
(* Properties *)

TypeOK ==
  /\ width \in Widths /\ saved \in Widths \cup {Unset}
  /\ {open, dragging, resizing} \subseteq BOOLEAN
  /\ startX \in Int /\ startWidth \in Widths \cup {0} /\ lastWidth \in Widths
  /\ dragging => open

\* "Drag with setWidth and persist once on release with commitWidth"
\* (hooks/sidebar_width.ts): between gestures the width on screen is the one a
\* reload restores.
AtRestIsSaved == ~dragging => width = Restored

\* "Snapping is applied to the pointer's raw width so it can't compound"
\* (resizable_divider.tsx): wherever a drag has been, bringing the pointer back
\* to where it began brings the width back, or the default beside it.
Reverses == \A x \in Pointers : PointerMove(x) /\ x = startX => width' = Snap(startWidth)
DragReverses == [][Reverses]_vars
=============================================================================
