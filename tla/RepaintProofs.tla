---------------------------- MODULE RepaintProofs ----------------------------
(***************************************************************************)
(* For every width and whatever the cells may show: drawing only the dirty   *)
(* region and that of the frame before keeps the screen up to date.          *)
(***************************************************************************)
EXTENDS Repaint, TLAPS

\* jive_rect_union covers both rectangles and stays on the screen, and
\* jive_redraw therefore loses nothing of the dirty region.
LEMMA UnionCovers ==
    ASSUME NEW a \in Rects, NEW b \in Rects
    PROVE  /\ Union(a, b) \in Rects
           /\ \A c \in Cells : In(c, a) \/ In(c, b) => In(c, Union(a, b))
BY WidthAssumption DEF Rects, Union, In, Cells

THEOREM RedrawCovers ==
    ASSUME NEW d \in Rects, NEW r \in Rects
    PROVE  /\ Redraw(d, r) \in Rects
           /\ \A c \in Cells : In(c, d) \/ In(c, r) => In(c, Redraw(d, r))
<1>1. CASE d.w # 0
  BY <1>1, UnionCovers DEF Redraw
<1>2. CASE d.w = 0
  BY <1>2 DEF Redraw, In, Rects, Cells
<1>. QED  BY <1>1, <1>2

\* A region that covers another still covers it with a third one joined on.
LEMMA UnionGrows ==
    ASSUME NEW a \in Rects, NEW b \in Rects, NEW l \in Rects, a.w # 0,
           \A c \in Cells : In(c, a) => In(c, b)
    PROVE  b.w # 0 /\ \A c \in Cells : In(c, Union(a, l)) => In(c, Union(b, l))
<1>1. In(a.x, a) /\ In(a.x + a.w - 1, a) /\ a.x \in Cells /\ a.x + a.w - 1 \in Cells
  BY WidthAssumption DEF Rects, In, Cells
<1>2. b.x <= a.x /\ a.x + a.w <= b.x + b.w
  BY <1>1, WidthAssumption DEF In, Rects
<1>. QED  BY <1>2, WidthAssumption DEF Rects, In, Cells, Union

-----------------------------------------------------------------------------
IInv == TypeOK /\ UpToDate /\ HiddenBuffer

LEMMA InitInv == Init => IInv
BY WidthAssumption DEF Init, IInv, TypeOK, UpToDate, HiddenBuffer, Rects

LEMMA ScreenIsRect == Screen \in Rects
BY WidthAssumption DEF Screen, Rects

\* Nothing that is drawn or changed outside of a region that grows spoils what
\* is outside of it.
LEMMA StaleGrows ==
    ASSUME IInv, NEW d \in Rects, \A c \in Cells : In(c, dirty) => In(c, d),
           dirty' = d, last' = last, NEW c \in Cells, Stale(c)
    PROVE  Stale(c)'
<1>1. CASE In(c, last)
  BY <1>1 DEF Stale
<1>2. CASE dirty.w # 0 /\ In(c, Union(dirty, last))
  BY <1>2, UnionGrows DEF Stale, IInv, TypeOK
<1>. QED  BY <1>1, <1>2 DEF Stale

LEMMA ChangeStep == IInv /\ Change => IInv'
<1> SUFFICES ASSUME IInv, Change PROVE IInv'
  OBVIOUS
<1>1. PICK d \in Rects : Damaged(d) /\ dirty' = d
  BY DEF Change
<1>2. TypeOK'
  BY <1>1 DEF IInv, TypeOK, Change, Damaged
<1>3. UpToDate'
  BY <1>1 DEF IInv, UpToDate, Change, Damaged
<1>4. HiddenBuffer'
  <2> SUFFICES ASSUME ~torn', NEW c \in Cells, ~Stale(c)' PROVE back'[c] = now'[c]
    BY DEF HiddenBuffer
  <2>1. ~Stale(c)
    BY <1>1, StaleGrows DEF Change, Damaged
  <2>2. now'[c] = now[c]
    <3>1. In(c, d) => In(c, Union(d, last))
      BY UnionCovers DEF IInv, TypeOK
    <3>2. ~In(c, d)
      BY <1>1, <3>1 DEF Stale, Change, In, Rects, Cells
    <3>. QED  BY <1>1, <3>2 DEF Damaged
  <2>. QED  BY <2>1, <2>2 DEF IInv, HiddenBuffer, Change
<1>. QED  BY <1>2, <1>3, <1>4 DEF IInv

LEMMA TearStep == IInv /\ Tear => IInv'
BY DEF IInv, Tear, TypeOK, UpToDate, HiddenBuffer

LEMMA FlipType ==
    ASSUME IInv, NEW drawn \in [Cells -> Picture], Flip(drawn)
    PROVE  front' \in [Cells -> Picture] /\ back' \in [Cells -> Picture]
BY DEF Flip, IInv, TypeOK

LEMMA DrawStep == IInv /\ Draw => IInv'
<1> SUFFICES ASSUME IInv, Draw PROVE IInv'
  OBVIOUS
<1> DEFINE Drawn(d) == [c \in Cells |-> IF In(c, Union(d, last)) THEN now'[c] ELSE back[c]]
<1>1. PICK d \in Rects : /\ Damaged(d) /\ d.w # 0 /\ Flip(Drawn(d))
                         /\ last' = d /\ dirty' = [d EXCEPT !.w = 0]
  BY DEF Draw
<1>2. TypeOK'
  <2>1. dirty' \in Rects /\ last' \in Rects
    <3>1. d \in [x : 0 .. Width, w : 0 .. Width] /\ 0 \in 0 .. Width
      BY WidthAssumption DEF Rects
    <3>2. [d EXCEPT !.w = 0] \in [x : 0 .. Width, w : 0 .. Width]
      BY <3>1
    <3>3. [d EXCEPT !.w = 0].x + [d EXCEPT !.w = 0].w <= Width
      BY <3>1, WidthAssumption
    <3>. QED  BY <1>1, <3>2, <3>3 DEF Rects
  <2>2. Drawn(d) \in [Cells -> Picture]
    BY <1>1 DEF IInv, TypeOK, Damaged
  <2>3. now' \in [Cells -> Picture]
    BY <1>1 DEF Damaged
  <2>4. torn' \in BOOLEAN /\ double' \in BOOLEAN
    BY DEF Draw, IInv, TypeOK
  <2>. QED  BY <1>1, <2>1, <2>2, <2>3, <2>4, FlipType DEF TypeOK
<1>3. ASSUME NEW c \in Cells, ~torn' PROVE Drawn(d)[c] = now'[c]
  <2>1. CASE In(c, Union(d, last))
    BY <2>1
  <2>2. CASE ~In(c, Union(d, last))
    <3>1. ~In(c, d) /\ ~In(c, last)
      BY <2>2, UnionCovers DEF IInv, TypeOK
    <3>2. now'[c] = now[c] /\ ~In(c, dirty)
      BY <1>1, <3>1 DEF Damaged
    <3>3. CASE torn
      \* The whole screen was drawn.
      <4>1. d = Screen
        BY <1>1, <1>3, <3>3 DEF Draw
      <4>. QED  BY <4>1, <3>1, WidthAssumption DEF Screen, In, Cells
    <3>4. CASE ~torn
      <4>1. ~Stale(c)
        <5>1. dirty.w # 0 /\ In(c, Union(dirty, last)) => In(c, Union(d, last))
          BY <1>1, UnionGrows DEF Damaged, IInv, TypeOK
        <5>. QED  BY <5>1, <3>1, <2>2 DEF Stale
      <4>2. back[c] = now[c]
        BY <3>4, <4>1 DEF IInv, HiddenBuffer
      <4>. QED  BY <2>2, <3>2, <4>2
    <3>. QED  BY <3>3, <3>4 DEF IInv, TypeOK
  <2>. QED  BY <2>1, <2>2
<1>4. UpToDate'
  BY <1>1, <1>3 DEF UpToDate, Flip
<1>5. HiddenBuffer'
  <2> SUFFICES ASSUME ~torn', NEW c \in Cells, ~Stale(c)' PROVE back'[c] = now'[c]
    BY DEF HiddenBuffer
  <2>1. ~In(c, d)
    BY <1>1 DEF Stale
  <2>2. now'[c] = now[c] /\ ~In(c, dirty)
    BY <1>1, <2>1 DEF Damaged
  <2>3. ~torn
    <3>1. ASSUME torn PROVE FALSE
      <4>1. d = Screen
        BY <1>1, <3>1 DEF Draw
      <4>. QED  BY <4>1, <2>1, WidthAssumption DEF Screen, In, Cells
    <3>. QED  BY <3>1
  <2>4. front[c] = now'[c]
    BY <2>2, <2>3 DEF IInv, UpToDate
  <2>5. CASE double
    BY <1>1, <2>4, <2>5 DEF Flip
  <2>6. CASE ~double
    BY <1>1, <1>3, <2>6 DEF Flip
  <2>. QED  BY <2>5, <2>6
<1>. QED  BY <1>2, <1>4, <1>5 DEF IInv

LEMMA FailStep == IInv /\ Fail => IInv'
<1> SUFFICES ASSUME IInv, Fail PROVE IInv'
  OBVIOUS
<1>1. PICK d \in Rects :
         /\ Damaged(d) /\ d.w # 0 /\ dirty' = d
         /\ back' \in [Cells -> Picture]
         /\ \A c \in Cells : ~In(c, Union(d, last)) => back'[c] = back[c]
  BY DEF Fail
<1>2. TypeOK'
  BY <1>1 DEF IInv, TypeOK, Fail, Damaged
<1>3. UpToDate'
  BY <1>1 DEF IInv, UpToDate, Fail, Damaged
<1>4. HiddenBuffer'
  <2> SUFFICES ASSUME ~torn', NEW c \in Cells, ~Stale(c)' PROVE back'[c] = now'[c]
    BY DEF HiddenBuffer
  <2>1. ~Stale(c)
    BY <1>1, StaleGrows DEF Fail, Damaged
  <2>2. ~In(c, Union(d, last))
    BY <1>1 DEF Stale, Fail
  <2>3. ~In(c, d)
    BY <2>2, UnionCovers DEF IInv, TypeOK
  <2>4. now'[c] = now[c]
    BY <1>1, <2>3 DEF Damaged
  <2>. QED  BY <1>1, <2>1, <2>2, <2>4 DEF IInv, HiddenBuffer, Fail
<1>. QED  BY <1>2, <1>3, <1>4 DEF IInv

LEMMA TransitionStep == IInv /\ Transition => IInv'
<1> SUFFICES ASSUME IInv, Transition PROVE IInv'
  OBVIOUS
<1>1. front' \in [Cells -> Picture] /\ back' \in [Cells -> Picture]
  BY DEF Transition, Flip, IInv, TypeOK
<1>. QED  BY <1>1 DEF IInv, Transition, TypeOK, UpToDate, HiddenBuffer, Damaged

LEMMA StutterStep == IInv /\ UNCHANGED vars => IInv'
BY DEF vars, IInv, TypeOK, UpToDate, HiddenBuffer, Stale

\* The inductive invariant: neither buffer is stale outside what is still to
\* be drawn in it.
THEOREM BuffersCorrect == Spec => []IInv
<1>1. IInv /\ [Next]_vars => IInv'
  BY ChangeStep, TearStep, DrawStep, FailStep, TransitionStep, StutterStep DEF Next
<1>. QED  BY InitInv, <1>1, PTL DEF Spec

\* Whatever changes and is marked, and whichever frames fail, the screen shows
\* what it should outside the dirty region.
THEOREM ScreenUpToDate == Spec => []UpToDate
<1>1. IInv => UpToDate
  BY DEF IInv
<1>. QED  BY BuffersCorrect, <1>1, PTL
=============================================================================
