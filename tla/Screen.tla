------------------------------- MODULE Screen --------------------------------
(***************************************************************************)
(* Layout and drawing: src/jive_widget.c, jive_window.c, the drawing half of *)
(* jive_framework.c, and the window stack of jive/ui/Window.lua that drives  *)
(* them. Every widget has a peer with three origins, which are compared to   *)
(* jive_origin only: they are kept here as flags, TRUE for "equal". A change *)
(* clears flags up to the window; once per frame the window is laid out      *)
(* again as far as flags are cleared, and the dirty region is drawn.         *)
(***************************************************************************)
EXTENDS Region, Sequences, FiniteSets, SequencesExt

CONSTANTS
    Windows,        \* windows
    Transparent,    \* windows that are drawn over the window below: popups
    ContextMenus,   \* windows that are drawn over a snapshot of the screen
    Brief,          \* transient windows, shown with showBriefly()
    Bare,           \* windows that do not show the global widgets
    Globals,        \* widgets of the Framework, shown on every other window
    Parent,         \* the parent of every other widget
    Root,           \* widgets with layoutRoot set, windows and menus
    Place,          \* the bounds that a widget may be given by its parent
    MaxChanges      \* bound: calls from Lua

Widgets == Windows \cup Globals \cup DOMAIN Parent
None == [x |-> 0, w |-> 0]

ASSUME TreeAssumption ==
    /\ IsFiniteSet(Widgets) /\ Windows # {}
    /\ Windows \cap Globals = {} /\ DOMAIN Parent \cap (Windows \cup Globals) = {}
    /\ Root \in SUBSET Widgets /\ Windows \subseteq Root
    /\ Transparent \in SUBSET Windows /\ ContextMenus \in SUBSET (Windows \ Transparent)
    /\ Brief \in SUBSET Windows /\ Bare \in SUBSET Windows
    /\ \A w \in DOMAIN Parent : Parent[w] \in Windows \cup DOMAIN Parent
    /\ MaxChanges \in Nat

ASSUME PlaceAssumption == \A w \in Widgets : Place[w] \in SUBSET Rects /\ Place[w] # {}

VARIABLES
    stack,          \* Framework.windowStack, the top window first
    visible,        \* windows that were sent EVENT_SHOW, and not EVENT_HIDE
    owner,          \* the parent of the global widgets
    peer,           \* per widget: does its peer exist, skin_origin, layout_origin
                    \* and child_origin (equal to jive_origin), and its bounds
    want,           \* the bounds that the parent's layout gives a widget
    look,           \* what a widget looks like
    background,     \* jive_background
    pending,        \* next_jive_origin differs from jive_origin
    update,         \* update_screen
    transition,     \* Framework.transition
    front, back, dirty, last, torn, double,     \* see Repaint
    exposed,        \* history: a change was not marked in full, see Hide, SetBackground
                    \* and SetVideoMode
    changes

windowVars == <<stack, visible, owner, transition>>
vars == <<windowVars, peer, want, look, background, pending, update,
          front, back, dirty, last, torn, double, exposed, changes>>

-----------------------------------------------------------------------------
(* The tree *)

ParentOf(w) == IF w \in Globals THEN owner ELSE Parent[w]

\* The parents of each widget in the tree, up to its window
Above ==
    LET up[n \in Nat] == [w \in DOMAIN Parent |->
            {Parent[w]} \cup (IF n > 0 /\ Parent[w] \in DOMAIN Parent THEN up[n - 1][Parent[w]] ELSE {})]
    IN  up[Cardinality(DOMAIN Parent)]

\* A widget and all of its parents
Line(w) ==
    {w} \cup (IF w \in Windows THEN {} ELSE IF w \in Globals THEN {owner} ELSE Above[w])

WindowOf(w) == CHOOSE v \in Line(w) : v \in Windows

\* zWidgets of a window include the global ones: showFrameworkWidgets.
Children(w) ==
    {c \in DOMAIN Parent : Parent[c] = w} \cup (IF w \in Windows \ Bare THEN Globals ELSE {})

\* The first window of st that is not transparent
Cover(st) ==
    CHOOSE i \in DOMAIN st : st[i] \notin Transparent /\ \A j \in 1 .. i - 1 : st[j] \in Transparent

\* The windows that are drawn when st is the stack
Drawn(st) == {st[i] : i \in {i \in DOMAIN st : \A j \in 1 .. i - 1 : st[j] \in Transparent}}

\* A layout of the windows of st marks the whole screen.
Filled(st) == \A v \in Drawn(st) \ Transparent : Place[v] = {Screen}

\* A context menu is drawn over its snapshot, _bg, and not over the background.
\* All that are shown at a time share one.
Snapped(st) == Drawn(st) \cap ContextMenus # {}

\* jiveL_widget_redraw asks for the visible flag; children got theirs from the
\* window, global widgets when they were added.
IsVisible(w) == w \in Globals \/ WindowOf(w) \in visible

-----------------------------------------------------------------------------
(* The picture *)

Background(st, bg) == IF Snapped(st) THEN <<4>> ELSE <<bg>>

\* Is w drawn when st is the stack?
Appears(w, st) ==
    IF w \in Globals THEN ~(Drawn(st) \subseteq Bare) ELSE WindowOf(w) \in Drawn(st)

PictureOf(p, st, lk, bg) ==
    [c \in Cells |->
        {Background(st, bg)} \cup
            {<<w, lk[w]>> : w \in {w \in Widgets : In(c, p[w].at) /\ Appears(w, st)}}]

now == PictureOf(peer, stack, look, background)

Animated == {<<2>>}
Partial == {<<3>>}

Buffers == INSTANCE Repaint WITH
    Picture <- SUBSET ((Widgets \X {0, 1}) \cup {<<i>> : i \in 0 .. 4})

-----------------------------------------------------------------------------
(* jive_widget.c: a layout works on s, the peers and the dirty region. *)

Layouts ==
    [peer : [Widgets -> [made : BOOLEAN, skin : BOOLEAN, layout : BOOLEAN, child : BOOLEAN, at : Rects]],
     dirty : Rects]

\* Each element of q in its turn
Each(Step(_, _), s, q) ==
    LET after[n \in 0 .. Len(q)] == IF n = 0 THEN s ELSE Step(after[n - 1], q[n])
    IN  after[Len(q)]

RedrawWidget(s, w) ==
    IF IsVisible(w) /\ s.peer[w].made
    THEN [s EXCEPT !.dirty = Redraw(s.dirty, s.peer[w].at)] ELSE s

\* jive_getpeer, called by every _skin, makes the peer; then skin_origin is set.
CheckSkin(s, w) == [s EXCEPT !.peer[w].made = TRUE, !.peer[w].skin = TRUE]

\* Is there a layout root below v, on the way up from w?
RootBelow(s, w, v) ==
    \E u \in Line(w) \ {v} : v \in Line(u) /\ u \in Root /\ s.peer[u].made

ReLayout_ToRoot(s, w) ==
    [s EXCEPT !.peer = [v \in Widgets |->
        IF v \in Line(w) /\ s.peer[v].made /\ ~RootBelow(s, w, v)
        THEN [s.peer[v] EXCEPT !.child = FALSE, !.layout = FALSE] ELSE s.peer[v]]]

\* Marks the widget and its parents up to a layout root for layout, and all of
\* its parents as having such children.
ReLayout(s, w) ==
    [s EXCEPT !.peer = [v \in Widgets |->
        IF v \in Line(w) /\ s.peer[v].made
        THEN [s.peer[v] EXCEPT !.child = FALSE, !.layout = @ /\ RootBelow(s, w, v)] ELSE s.peer[v]]]

\* The old bounds are redrawn in any case, the new ones if they differ.
SetBounds(s, w, r) ==
    LET t == RedrawWidget(CheckSkin(s, w), w)
    IN  IF t.peer[w].at = r THEN t
        ELSE RedrawWidget(ReLayout([t EXCEPT !.peer[w].at = r], w), w)

\* _layout: a parent gives bounds to its children, a window to itself as well.
Layout(s, w) ==
    LET PlaceChild(u, c) == SetBounds(u, c, want[c])
        t == Each(PlaceChild, s, SetToSeq(Children(w)))
    IN  IF w \in Windows THEN SetBounds(t, w, want[w]) ELSE t

LayoutIfMarked(s, w) ==
    IF s.peer[w].made /\ s.peer[w].layout THEN s
    ELSE Layout([CheckSkin(s, w) EXCEPT !.peer[w].layout = TRUE], w)

\* The children, if they need it: below says how they are checked.
CheckChildren(below, s, w) ==
    LET Below(t, c) == below[c][t]
    IN  IF s.peer[w].child THEN s
        ELSE Each(Below, [s EXCEPT !.peer[w].child = TRUE], SetToSeq(Children(w)))

CheckLayoutWith(below, s, w) == CheckChildren(below, LayoutIfMarked(s, w), w)

\* No tree is deeper than it has widgets.
CheckLayout(s, w) ==
    LET levels[n \in 0 .. Cardinality(Widgets)] ==
            [v \in Widgets |-> [t \in Layouts |->
                IF n = 0 THEN t ELSE CheckLayoutWith(levels[n - 1], t, v)]]
    IN  levels[Cardinality(Widgets)][w][s]

-----------------------------------------------------------------------------
(* jive_window.c *)

\* One round: the window, and the global widgets, if they need layout
Round(s, w) ==
    IF s.peer[w].child THEN s
    ELSE Each(CheckLayout, CheckLayout(s, w), SetToSeq(Globals))

\* Up to four rounds: the layout of a parent marks the children it moves, and itself.
CheckWindow(s, w) ==
    Round(Round(Round(Round([s EXCEPT !.peer[w].made = TRUE], w), w), w), w)

\* The window below a transparent one comes first.
CheckWindows_TopOnly(s) == CheckWindow(s, stack[1])

CheckWindows(s) ==
    LET n == Cover(stack)
    IN  Each(CheckWindow, s, [i \in 1 .. n |-> stack[n + 1 - i]])

-----------------------------------------------------------------------------
(* The drawing half of jive_framework.c *)

S == [peer |-> peer, dirty |-> dirty]

Commit(s) == peer' = s.peer /\ dirty' = s.dirty

\* A new jive_origin differs from every origin of every peer.
Forgotten(s) ==
    [s EXCEPT !.peer = [w \in Widgets |->
        [@[w] EXCEPT !.skin = FALSE, !.layout = FALSE, !.child = FALSE]]]

LaidOut == CheckWindows(IF pending THEN Forgotten(S) ELSE S)

\* Is anything else than before where nothing is marked?
Unmarked == \E c \in Cells : now'[c] # now[c] /\ ~In(c, dirty')

\* _draw_screen and SDL_Flip(), with the transition that is running
DrawTransition(s) ==
    /\ transition' \in BOOLEAN             \* the last frame ends it: _killTransition
    /\ Commit(IF transition' THEN s ELSE [s EXCEPT !.dirty = Screen])
    /\ Buffers!Flip([c \in Cells |-> Animated])
    /\ torn' = TRUE
    /\ UNCHANGED last

DrawDirty_OneBuffer(s) ==
    /\ Commit([s EXCEPT !.dirty.w = 0])
    /\ Buffers!Flip([c \in Cells |-> IF In(c, s.dirty) THEN now'[c] ELSE back[c]])
    /\ last' = s.dirty
    /\ torn' = (torn /\ s.dirty # Screen)

DrawDirty(s) ==
    /\ Commit([s EXCEPT !.dirty.w = 0])
    /\ Buffers!Flip([c \in Cells |->
          IF In(c, Union(s.dirty, last)) THEN now'[c] ELSE back[c]])
    /\ last' = s.dirty
    /\ torn' = (torn /\ s.dirty # Screen)

DrawNothing(s) ==
    /\ Commit(s)
    /\ UNCHANGED <<front, back, last, torn>>

DrawMarked(s) == IF s.dirty.w # 0 THEN DrawDirty(s) ELSE DrawNothing(s)

\* jiveL_update_screen, called once per frame
UpdateScreen ==
    /\ update /\ stack # <<>>
    /\ UNCHANGED <<stack, visible, owner, want, look, background, update, double, changes>>
    /\ \/ transition /\ DrawTransition(LaidOut)
       \/ ~transition /\ DrawMarked(LaidOut) /\ UNCHANGED transition
    /\ pending' = FALSE
    /\ exposed' = (exposed /\ torn')

DrawPartly(s) ==
    /\ s.dirty.w # 0
    /\ Commit(s)
    /\ back' = [c \in Cells |-> IF In(c, Union(s.dirty, last)) THEN Partial ELSE back[c]]

\* An error in a draw method ends the frame before the flip.
DrawFails ==
    /\ update /\ stack # <<>> /\ ~transition
    /\ DrawPartly(LaidOut)
    /\ pending' = FALSE
    /\ changes < MaxChanges /\ changes' = changes + 1
    /\ UNCHANGED <<windowVars, want, look, background, update, front, last, torn, double, exposed>>

-----------------------------------------------------------------------------
(* Calls from Lua, between two frames *)

Call(s) ==
    /\ changes < MaxChanges /\ changes' = changes + 1
    /\ Commit(s)
    /\ torn' = (torn \/ Unmarked)
    /\ UNCHANGED <<front, back, last, double>>

\* A widget looks different: reDraw().
Touch(w) ==
    /\ look' = [look EXCEPT ![w] = 1 - @]
    /\ UNCHANGED <<windowVars, want, background, pending, update, exposed>>
    /\ Call(RedrawWidget(S, w))

\* A widget needs other bounds: reLayout(). A layout root below a window does not
\* ask its parent, its bounds do not depend on what is in it.
Resize(w, r) ==
    /\ want[w] # r /\ w \notin Root \ Windows
    /\ want' = [want EXCEPT ![w] = r]
    /\ UNCHANGED <<windowVars, look, background, pending, update, exposed>>
    /\ Call(ReLayout(S, w))

\* setBounds(), setPosition() and setSize() called outside of a layout
Move(w, r) ==
    /\ UNCHANGED <<windowVars, want, look, background, pending, update, exposed>>
    /\ Call(SetBounds(S, w, r))

StyleChanged ==
    /\ pending' = TRUE
    /\ UNCHANGED <<windowVars, want, look, background, update, exposed>>
    /\ Call([S EXCEPT !.dirty = Redraw(dirty, Screen)])

\* Marks nothing: the layout does.
SetBackground_KeepsOrigin ==
    /\ background' = 1 - background
    /\ UNCHANGED <<windowVars, want, look, pending, update, exposed>>
    /\ Call(S)

\* Does a change that marks nothing stay wrong beside the windows that are drawn?
Exposed == ~transition /\ dirty # Screen /\ ~Filled(stack)

\* The layout marks where the windows are; a snapshot hides the background.
SetBackground ==
    /\ background' = 1 - background
    /\ pending' = TRUE
    /\ exposed' = (exposed \/ (Exposed /\ ~Snapped(stack)))
    /\ UNCHANGED <<windowVars, want, look, update>>
    /\ Call(S)

\* The buffers are new and empty.
SetVideoMode ==
    /\ changes < MaxChanges /\ changes' = changes + 1
    /\ pending' = TRUE
    /\ front' = [c \in Cells |-> {}] /\ back' = front'
    /\ torn' = TRUE
    /\ exposed' = (exposed \/ Exposed)
    /\ UNCHANGED <<windowVars, peer, want, look, background, update, dirty, last, double>>

\* Framework:draw() of a snapshot: a layout, and no frame
Snapshot ==
    /\ stack # <<>>
    /\ pending' = FALSE
    /\ UNCHANGED <<windowVars, want, look, background, update, exposed>>
    /\ Call(LaidOut)

SuspendUpdates ==
    /\ update /\ update' = FALSE
    /\ UNCHANGED <<windowVars, want, look, background, pending, exposed>>
    /\ Call(S)

\* Cancels a transition and draws at once.
ResumeUpdates ==
    /\ ~update /\ update' = TRUE /\ stack # <<>>
    /\ UNCHANGED <<stack, visible, owner, want, look, background, double, changes>>
    /\ transition' = FALSE
    /\ DrawMarked(LaidOut)
    /\ pending' = FALSE
    /\ exposed' = (torn' /\ (exposed \/ transition))

-----------------------------------------------------------------------------
(* jive/ui/Window.lua *)

\* table.delete()
Delete(st, w) ==
    IF \E i \in DOMAIN st : st[i] = w THEN RemoveAt(st, CHOOSE i \in DOMAIN st : st[i] = w) ELSE st

\* hideContextMenus(): the context menus with nothing above them but context menus
\* and transient windows. A window that is either leaves them alone.
Dismissed(w) ==
    IF w \in ContextMenus \cup Brief THEN {}
    ELSE {stack[i] : i \in {i \in DOMAIN stack :
            stack[i] \in ContextMenus /\ \A j \in 1 .. i : stack[j] \in ContextMenus \cup Brief}}

\* The windows that are sent EVENT_HIDE: what was drawn before the window, but
\* nothing if that was a context menu. The window below it was sent EVENT_SHOW as
\* the menu was dismissed, and stays visible.
Covered(w, rest) ==
    IF w \in Transparent \/ (stack # <<>> /\ Head(stack) \in Dismissed(w)) THEN {} ELSE Drawn(rest)

\* The window at the bottom, the home menu, is opaque and stays there.
Show(w, animated) ==
    LET below == Each(Delete, stack, SetToSeq(Dismissed(w)))
        rest == Delete(below, w)
    IN  /\ stack = <<>> => w \notin Transparent \cup ContextMenus
        /\ stack # <<>> => Head(stack) # w /\ Last(stack) # w
        /\ stack' = <<w>> \o rest
        /\ visible' = (((visible \ Dismissed(w)) \cup Drawn(below)) \ Covered(w, rest)) \cup {w}
        /\ owner' = w
        /\ transition' = (animated /\ rest # <<>>)
        /\ UNCHANGED <<want, look, background, pending, update, exposed>>
        /\ Call([S EXCEPT !.dirty = Redraw(dirty, Screen)])

\* Redraws only the window that is now on top.
Hide(w, animated) ==
    LET rest == Delete(stack, w)
        top == Head(rest)
        shown == Drawn(rest)
    IN  /\ stack # <<>> /\ w \in {stack[i] : i \in 1 .. Len(stack) - 1}
        /\ stack' = rest
        /\ UNCHANGED <<want, look, background, pending, update>>
        /\ IF w \in visible
           THEN /\ visible' = (visible \cup shown) \ {w}
                /\ owner' = rest[Cover(rest)]
                /\ transition' = animated
                /\ Call([S EXCEPT !.dirty =
                      IF peer[top].made THEN Redraw(@, peer[top].at) ELSE @])
                /\ exposed' = (exposed \/ (~animated /\ (transition \/ dirty' # Screen)))
           ELSE Call(S) /\ UNCHANGED <<visible, owner, transition, exposed>>

\* A bump: a transition that changes nothing
Bump ==
    /\ stack # <<>> /\ ~transition /\ transition' = TRUE
    /\ UNCHANGED <<stack, visible, owner, want, look, background, pending, update, exposed>>
    /\ Call(S)

-----------------------------------------------------------------------------
Init ==
    /\ stack = <<>> /\ visible = {} /\ owner = CHOOSE w \in Windows : TRUE
    /\ peer = [w \in Widgets |->
          [made |-> FALSE, skin |-> FALSE, layout |-> FALSE, child |-> FALSE, at |-> None]]
    /\ want = [w \in Widgets |-> CHOOSE r \in Place[w] : TRUE]
    /\ look = [w \in Widgets |-> 0]
    /\ background = 0 /\ pending = FALSE /\ update = TRUE /\ transition = FALSE
    /\ front = [c \in Cells |-> {}] /\ back = front
    /\ dirty = None /\ last = None
    /\ torn = TRUE /\ double \in BOOLEAN
    /\ exposed = FALSE /\ changes = 0

Lua ==
    \/ \E w \in Widgets : Touch(w)
    \/ \E w \in Widgets, r \in UNION {Place[w] : w \in Widgets} : r \in Place[w] /\ (Resize(w, r) \/ Move(w, r))
    \/ StyleChanged \/ SetBackground \/ SetVideoMode \/ Snapshot \/ SuspendUpdates \/ ResumeUpdates
    \/ \E w \in Windows, animated \in BOOLEAN : Show(w, animated) \/ Hide(w, animated)
    \/ Bump

Next == UpdateScreen \/ DrawFails \/ Lua

Spec == Init /\ [][Next]_vars

-----------------------------------------------------------------------------
TypeOK ==
    /\ \A i \in DOMAIN stack : stack[i] \in Windows
    /\ visible \in SUBSET Windows /\ owner \in Windows
    /\ \A w \in Widgets : peer[w].at \in Place[w] \cup {None}
    /\ dirty \in Rects /\ last \in Rects

\* The screen is drawn as the dirty region promises, so that UpToDate of Repaint
\* holds: every layout, every move and every frame marks what it changes.
RefinesRepaint == Buffers!Spec

\* Nothing wrong stays on the screen: when no frame is to come, it shows what it
\* should, though backgrounds and video modes change without marking anything
\* and rely on the layout; except after a window is hidden without a transition
\* while the new top window does not cover the screen, or a transition is cut,
\* or the video mode changes under a context menu, or either changes under another
\* opaque window that does not fill the screen: its layout marks its own place.
Healed ==
    /\ TypeOK
    /\ (~transition /\ ~pending /\ dirty.w = 0 /\ stack # <<>>) => (torn => exposed)

\* A widget on the screen that needs layout is found from its window: all of its
\* parents know that they have such children. (The global widgets change parents
\* when the stack does, and then the new one does not know.)
DirtyIsFound ==
    \A w \in DOMAIN Parent :
        (WindowOf(w) \in Drawn(stack) /\ peer[w].made /\ ~(peer[w].layout /\ peer[w].child))
            => \/ pending
               \/ ~peer[ParentOf(w)].child /\ ~peer[WindowOf(w)].child

\* After the layout of a frame every widget has the bounds its parent wants for
\* it, within the four rounds that a window gets.
LayoutSettles ==
    [][UpdateScreen
        => \A w \in Widgets \ Globals : WindowOf(w) \in Drawn(stack) =>
              /\ peer'[w].at = want[w] /\ peer'[w].skin /\ peer'[w].child
              /\ w \notin Windows => peer'[w].layout]_vars
=============================================================================
