-------------------------------- MODULE Measure --------------------------------
(***************************************************************************)
(* What widgets ask for and tell of themselves: the bounds they would like,  *)
(* where the mouse is in them, where the lines of labels and text areas are   *)
(* drawn, and the letters of the wheel of a text input (jive_widget.c,        *)
(* jive_label.c, jive_textarea.c, jive_slider.c, jive_menu.c,                 *)
(* jive_textinput.c, jive_font.c, jive_group.c). Layouts are in Layout.       *)
(***************************************************************************)
EXTENDS Layout

XY_NIL == -1     \* JIVE_XY_NIL
Nil == -2        \* nil

Or(asked, nothing, def) == IF asked = nothing THEN def ELSE asked

\* What all widgets answer for their preferred_bounds, with a width and a height of
\* their own where the skin has none
Asks(p, w, h) ==
    [x |-> Or(p.x, XY_NIL, Nil), y |-> Or(p.y, XY_NIL, Nil), w |-> Or(p.w, WH_NIL, w), h |-> Or(p.h, WH_NIL, h)]

\* jiveL_widget_get_preferred_bounds
WidgetAsks(p) == Asks(p, Nil, Nil)

\* jiveL_slider_get_preferred_bounds: "bg" is the least size of its background
SliderAsks(p, horizontal, bg) ==
    IF horizontal THEN Asks(p, WH_FILL, bg.h) ELSE Asks(p, bg.w, WH_FILL)

\* jiveL_menu_get_preferred_bounds: no higher than its items need, at most "most"
MenuAsks_Rows(p, m, most) ==
    [Asks(p, Nil, Nil) EXCEPT
        !.h = IF most = WH_NIL THEN @ ELSE Max2(most, (m.listSize * m.itemHeight) \div m.itemsPerLine)]
MenuAsks(p, m, most) ==
    [Asks(p, Nil, Nil) EXCEPT
        !.h = IF most = WH_NIL THEN @ ELSE Min2(most, (m.listSize * m.itemHeight) \div m.itemsPerLine)]

\* jiveL_textinput_get_preferred_bounds
TextinputAsks(p) ==
    [Asks(p, WH_FILL, WH_NIL) EXCEPT !.x = Or(p.x, XY_NIL, 0), !.y = Or(p.y, XY_NIL, 0)]

\* jiveL_textarea_get_preferred_bounds: it has been laid out in its bounds before
TextareaAsks(p, area) ==
    IF area.lines = 0 THEN [x |-> Nil, y |-> Nil, w |-> 0, h |-> 0]
    ELSE Asks(p, area.bounds.w + area.padding.left + area.padding.right,
              area.lines * area.lineHeight + area.padding.top + area.padding.bottom)

\* jiveL_label_get_preferred_bounds
LabelAsks(p, label) ==
    Asks(p, label.textW + label.padding.left + label.padding.right,
         label.textH + label.padding.top + label.padding.bottom)

-----------------------------------------------------------------------------
(* Fonts *)

\* load_ttf_font: "ttf" is what SDL_ttf says of the font, and how high its H and its g
\* reach, Nil if it lacks them
FontOf(ttf) ==
    LET cap == Or(ttf.H, Nil, ttf.ascent)
        descent == Or(ttf.g, Nil, ttf.descent)
    IN  [ascend |-> ttf.ascent, capheight |-> cap, height |-> cap - descent + 1]

\* jive_font_offset: what is above the capital letters of a line
FontOffset(font) == font.ascend - font.capheight

-----------------------------------------------------------------------------
(* Labels *)

\* The format of line i: that of the skin, or else the label's own. The offset is
\* always that of the label's own font (jiveL_label_skin).
Format(label, i) == IF i \in DOMAIN label.formats THEN label.formats[i] ELSE label.base

\* prepare, for lines that are "widths" wide: a label without text keeps the size it had.
Prepared(label, widths) ==
    IF widths = <<>> THEN [label EXCEPT !.widths = <<>>]
    ELSE [label EXCEPT
            !.widths = widths,
            !.textW = Max({widths[i] : i \in DOMAIN widths}),
            !.textH = FoldLeft(LAMBDA sum, i : sum + Format(label, i).lineHeight, 0, [i \in DOMAIN widths |-> i])]

\* jiveL_label_layout: where the pictures of the lines go
LabelLayout(label) ==
    LET top == VAlign(label, label.align, label.textH)
        y(i) == FoldLeft(LAMBDA sum, k : sum + Format(label, k).lineHeight, top, [k \in 1 .. i - 1 |-> k])
    IN  [i \in DOMAIN label.widths |->
            [x |-> HAlign(label, label.align, label.widths[i]), y |-> y(i) - FontOffset(label.base.font)]]

\* jiveL_label_animate: the handle, 0 if none, and the offset of the text
Animate(label, on) ==
    IF on THEN [label EXCEPT !.offset = -100, !.handle = IF @ = 0 THEN 1 ELSE @]
    ELSE [label EXCEPT !.offset = 0, !.handle = 0]

-----------------------------------------------------------------------------
(* Text areas *)

\* jiveL_textarea_draw: the lines from the first one on, and one more that is seen
\* while they scroll by "pixels"; y is that of the capital letters.
DrawnLines(area) ==
    LET last == Min2(area.top + area.visible, area.lines - 1)
        y == area.bounds.y + area.padding.top + area.pixels + (IF area.header THEN area.yOffset ELSE 0)
    IN  [i \in area.top .. last |-> y + (i - area.top) * area.lineHeight]

\* What is drawn of them: a header may use the height of its menu.
TextClip(area) ==
    [y |-> area.bounds.y + area.padding.top,
     h |-> IF area.header THEN area.menuH - area.padding.top - area.padding.bottom
           ELSE area.bounds.h - area.padding.top]

\* invalidate
Invalidated(area) == [area EXCEPT !.lines = 0]

-----------------------------------------------------------------------------
(* Groups and menus: what is drawn *)

\* jiveL_group_iterate: all that are not hidden, in their order if they have one
GroupIterates(g) == SelectSeq(IF g.ordered = <<>> THEN g.widgets ELSE g.ordered, LAMBDA v : ~v.hidden)

\* jiveL_group_draw: those of them that still belong to the group
GroupDraws(g) == SelectSeq(GroupIterates(g), LAMBDA v : v.parent = g.id)

-----------------------------------------------------------------------------
(* The mouse *)

\* jiveL_widget_mouse_inside
MouseInside(v, at) ==
    /\ v.bounds.x <= at.x /\ at.x < v.bounds.x + v.bounds.w
    /\ v.bounds.y <= at.y /\ at.y < v.bounds.y + v.bounds.h

\* jiveL_widget_mouse_bounds
MouseBounds(v, at) ==
    [x |-> at.x - v.bounds.x - v.padding.left, y |-> at.y - v.bounds.y - v.padding.top,
     w |-> InnerW(v), h |-> InnerH(v)]

-----------------------------------------------------------------------------
(* The wheel of a text input *)

\* strchr: also of the end of the text, which is after the last character
Find(chars, c) == IF c = 0 THEN Len(chars) + 1 ELSE CHOOSE i \in DOMAIN chars : chars[i] = c

Wrapped(chars, i) == IF i < 1 THEN Len(chars) ELSE IF i > Len(chars) THEN 1 ELSE i

\* The cursor is after the last character, at which there is none yet.
IsNew_AtLast(shown, at) == at > 1 /\ at >= Len(shown)
IsNew(shown, at) == at > 1 /\ at > Len(shown)

\* jiveL_textinput_draw, with a cursor that covers a character: what is drawn next to
\* it. What is before an empty text is a byte of its length, 0.
Wheel(chars, text, cursor, indent) ==
    LET shown == SubSeq(text, indent + 1, Len(text))
        at == IF text = <<>> THEN cursor - 1 ELSE cursor - indent
        byte(i) == IF i \in DOMAIN shown THEN shown[i] ELSE 0
        isNew == IsNew(shown, at)
        found == Find(chars, byte(IF isNew THEN at - 1 ELSE at))
    IN  [up |-> chars[Wrapped(chars, found - 1)],
         down |-> chars[Wrapped(chars, IF isNew THEN found ELSE found + 1)]]

\* Textinput.lua, _scroll: the character that replaces the one at the cursor
Scrolled(chars, text, cursor, dir) ==
    LET isNew == cursor > Len(text)
        old == IF ~isNew THEN text[cursor] ELSE IF cursor > 1 THEN text[cursor - 1] ELSE 0
        found == IF old = 0 THEN 1 ELSE Find(chars, old)
    IN  chars[Wrapped(chars, found + (IF isNew /\ dir > 0 THEN dir - 1 ELSE dir))]

-----------------------------------------------------------------------------
(* Properties *)

\* Bounds as a widget has them: in what it asks for, where it was not told otherwise
InAsked(label, asked) == [label EXCEPT !.bounds = Rect(0, 0, asked.w, asked.h)]

\* A size or place that the skin gives is asked for as it is, by every widget; what it
\* does not give never comes out as one of the marks for "none", but of a text input.
AsksAsTold(p, own, m) ==
    \A a \in {WidgetAsks(p), SliderAsks(p, TRUE, own), SliderAsks(p, FALSE, own), MenuAsks(p, m, WH_NIL), TextinputAsks(p)} :
        /\ p.x # XY_NIL => a.x = p.x
        /\ p.y # XY_NIL => a.y = p.y
        /\ p.w # WH_NIL => a.w = p.w
        /\ p.h # WH_NIL => a.h = p.h
        /\ a.x # XY_NIL /\ a.y # XY_NIL /\ a.w # WH_NIL
        /\ a.h = WH_NIL => a = TextinputAsks(p)

\* A label that gets what it asks for shows every line between its paddings, one below
\* the other, and the capital letters of lines in its own font at the top of their
\* line. One that has lost its text still asks for what it needed before.
LabelFits(label, widths, p) ==
    LET l == Prepared(Prepared(label, <<4>>), widths)
        inner == InAsked(l, LabelAsks(p, l))
        capTop(i) == LabelLayout(inner)[i].y + FontOffset(Format(l, i).font)
    IN  /\ \A i \in DOMAIN widths :
            /\ LabelLayout(inner)[i].x \in l.padding.left .. inner.bounds.w - l.padding.right - widths[i]
            /\ Format(l, i).font = l.base.font =>
                  /\ capTop(i) >= l.padding.top
                  /\ capTop(i) + Format(l, i).lineHeight <= inner.bounds.h - l.padding.bottom
            /\ i > 1 => LabelLayout(inner)[i].y = LabelLayout(inner)[i - 1].y + Format(l, i - 1).lineHeight
       /\ widths = <<>> => LabelAsks(p, l) = LabelAsks(p, Prepared(label, <<4>>))
       /\ \A on \in BOOLEAN : Animate(Animate(label, on), ~on).handle = (IF on THEN 0 ELSE 1)

\* A text area that gets the height it asks for draws all of its lines in its clip; while
\* it scrolls there are lines in all of the clip as long as there is text, if lines
\* fill its height. It never draws a line that it does not have, and none at all from
\* when its text changes to its next layout.
LinesDrawn(area, p) ==
    LET all == [area EXCEPT !.bounds.h = TextareaAsks(p, area).h, !.top = 0, !.visible = area.lines, !.pixels = 0]
        clip == TextClip(area)
        ys == DrawnLines(area)
    IN  /\ DOMAIN ys \subseteq 0 .. area.lines - 1 /\ DOMAIN DrawnLines(Invalidated(area)) = {}
        /\ ~area.header /\ area.lines > 0 =>
              \A i \in 0 .. area.lines - 1 :
                  /\ i \in DOMAIN DrawnLines(all)
                  /\ DrawnLines(all)[i] >= TextClip(all).y
                  /\ DrawnLines(all)[i] + area.lineHeight <= TextClip(all).y + TextClip(all).h
        /\ ~area.header /\ area.padding.bottom = 0 /\ clip.h = area.visible * area.lineHeight
              /\ area.top + area.visible < area.lines =>
              \A y \in clip.y .. clip.y + clip.h - 1 : \E i \in DOMAIN ys : y \in ys[i] .. ys[i] + area.lineHeight - 1

\* A menu that gets the height it asks for is no higher than its items, and has no
\* scroll bar if that was all of them and they fill its lines.
MenuFitsAsked(m, p, most) ==
    LET h == MenuAsks(p, m, most).h
        rows == m.listSize \div m.itemsPerLine
        got == [m EXCEPT !.bounds.h = h]
    IN  most # WH_NIL =>
        /\ h <= most /\ h * m.itemsPerLine <= m.listSize * m.itemHeight
        /\ rows * m.itemsPerLine = m.listSize /\ h = rows * m.itemHeight => ~HasScrollbar(got)
        /\ m.listSize > 0 /\ h < most => NumWidgets(got) + m.itemsPerLine > m.listSize

\* The mouse is inside a widget on its pixels and nowhere else, and what it is told of
\* the place is within the widget's inner size exactly between its paddings.
MouseFound(v, at) ==
    LET b == MouseBounds(v, at)
    IN  /\ MouseInside(v, at) <=> <<at.x, at.y>> \in Cells(v.bounds)
        /\ b.x \in 0 .. b.w - 1 /\ b.y \in 0 .. b.h - 1 =>
              MouseInside(v, at)

\* The wheel shows what one step up or down will make of the character at the cursor.
WheelPredicts(chars, text, cursor, indent) ==
    /\ Wheel(chars, text, cursor, indent).down = Scrolled(chars, text, cursor, 1)
    /\ Wheel(chars, text, cursor, indent).up = Scrolled(chars, text, cursor, -1)

\* What is hidden, or was given to another parent, is not drawn; the rest is, once each.
DrawnOnce(g) ==
    \A v \in Range(g.widgets) :
        Cardinality({i \in DOMAIN GroupDraws(g) : GroupDraws(g)[i] = v}) =
            IF v.hidden \/ v.parent # g.id THEN 0 ELSE 1
=============================================================================
