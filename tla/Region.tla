------------------------------- MODULE Region --------------------------------
(* Rectangles of the screen: jive_utils.c. One axis stands for both.          *)
EXTENDS Integers

CONSTANT Width      \* cells of the screen
ASSUME WidthAssumption == Width \in Nat \ {0}

Cells == 0 .. Width - 1
Rects == {r \in [x : 0 .. Width, w : 0 .. Width] : r.x + r.w <= Width}
In(c, r) == r.x <= c /\ c < r.x + r.w
Screen == [x |-> 0, w |-> Width]

\* jive_rect_union
Union(a, b) ==
    LET x0 == IF a.x < b.x THEN a.x ELSE b.x
        x1 == IF a.x + a.w > b.x + b.w THEN a.x + a.w ELSE b.x + b.w
    IN  [x |-> x0, w |-> x1 - x0]

\* jive_redraw
Redraw(d, r) == IF d.w # 0 THEN Union(d, r) ELSE r
=============================================================================
