------------------------------- MODULE Repaint -------------------------------
(***************************************************************************)
(* What the dirty region promises: src/jive_framework.c. The screen is       *)
(* drawn into the hidden one of two buffers, which then becomes the visible  *)
(* one; only the dirty region, and the one of the frame before, is drawn.    *)
(***************************************************************************)
EXTENDS Region

CONSTANT Picture    \* what a cell may show

VARIABLES
    now,      \* what every cell should show
    front,    \* the visible buffer
    back,     \* the buffer that is drawn next
    dirty,    \* jive_dirty_region
    last,     \* last_dirty_region
    torn,     \* the buffers show what they should not: a frame of a transition,
              \* or a change that was not marked; until the whole screen is drawn
    double    \* SDL_Flip() exchanges two buffers, or copies one

vars == <<now, front, back, dirty, last, torn, double>>

Init ==
    /\ now \in [Cells -> Picture]
    /\ front \in [Cells -> Picture]
    /\ back \in [Cells -> Picture]
    /\ dirty = [x |-> 0, w |-> 0]
    /\ last = [x |-> 0, w |-> 0]
    /\ torn = TRUE
    /\ double \in BOOLEAN

\* Everything that changes is in a region that is marked for redrawing.
Damaged(d) ==
    /\ now' \in [Cells -> Picture]
    /\ \A c \in Cells : (In(c, dirty) \/ now'[c] # now[c]) => In(c, d)

Change ==
    /\ \E d \in Rects : Damaged(d) /\ dirty' = d
    /\ UNCHANGED <<front, back, last, torn, double>>

\* A change that is not marked, or not in full, or that clears the buffers
Tear ==
    /\ now' \in [Cells -> Picture] /\ dirty' \in Rects
    /\ front' \in [Cells -> Picture] /\ back' \in [Cells -> Picture]
    /\ torn' = TRUE
    /\ UNCHANGED <<last, double>>

\* SDL_Flip: what was drawn is shown.
Flip(drawn) ==
    /\ front' = drawn
    /\ back' = IF double THEN front ELSE drawn

\* A frame, with the changes of its layout and its animations
Draw ==
    /\ \E d \in Rects :
          /\ Damaged(d) /\ d.w # 0
          /\ Flip([c \in Cells |-> IF In(c, Union(d, last)) THEN now'[c] ELSE back[c]])
          /\ last' = d
          /\ dirty' = [d EXCEPT !.w = 0]
    /\ torn' = (torn /\ last' # Screen)
    /\ UNCHANGED double

\* A frame that fails has drawn some of the region, and is not shown.
Fail ==
    /\ \E d \in Rects :
          /\ Damaged(d) /\ d.w # 0 /\ dirty' = d
          /\ back' \in [Cells -> Picture]
          /\ \A c \in Cells : ~In(c, Union(d, last)) => back'[c] = back[c]
    /\ UNCHANGED <<front, last, torn, double>>

\* A frame of a transition draws over everything and leaves the region alone.
Transition ==
    /\ \E d \in Rects : Damaged(d) /\ dirty' = d
    /\ front' \in [Cells -> Picture] /\ Flip(front')
    /\ torn' = TRUE
    /\ UNCHANGED <<last, double>>

Next == Change \/ Tear \/ Draw \/ Fail \/ Transition
Spec == Init /\ [][Next]_vars

-----------------------------------------------------------------------------
TypeOK ==
    /\ now \in [Cells -> Picture] /\ front \in [Cells -> Picture] /\ back \in [Cells -> Picture]
    /\ dirty \in Rects /\ last \in Rects
    /\ torn \in BOOLEAN /\ double \in BOOLEAN

\* Outside the dirty region the visible buffer shows what it should, although
\* every frame draws one buffer only and one region of it.
UpToDate == ~torn => \A c \in Cells : ~In(c, dirty) => front[c] = now[c]

\* What the next frame draws if it is drawn at all
Stale(c) == In(c, last) \/ (dirty.w # 0 /\ In(c, Union(dirty, last)))

\* The hidden buffer also lacks what the frame before has drawn; a frame that
\* fails spoils no more than the next one draws.
HiddenBuffer == ~torn => \A c \in Cells : ~Stale(c) => back[c] = now[c]
=============================================================================
