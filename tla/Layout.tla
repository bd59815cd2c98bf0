-------------------------------- MODULE Layout --------------------------------
(***************************************************************************)
(* Where widgets go: the layouts of groups, menus, sliders and icons, the    *)
(* alignment that they share, and what tiles and clips make of the result    *)
(* (jive_group.c, jive_menu.c, jive_slider.c, jive_icon.c, jive_widget.c,    *)
(* jive_surface.c). A rectangle is a record of Sint16 x, y and Uint16 w, h.  *)
(***************************************************************************)
EXTENDS Integers, Sequences, FiniteSets, SequencesExt, FiniteSetsExt

WH_NIL == 65535
WH_FILL == 65534

Min2(a, b) == IF a < b THEN a ELSE b
Max2(a, b) == IF a > b THEN a ELSE b

\* Division of C, which rounds to zero
Quotient(a, b) == IF a >= 0 THEN a \div b ELSE -((-a) \div b)

Uint16(n) == n % 65536
Rect(x, y, w, h) == [x |-> x, y |-> y, w |-> Uint16(w), h |-> Uint16(h)]
Inset(n) == [left |-> n, top |-> n, right |-> n, bottom |-> n]

\* The space between the paddings of a widget
InnerW(widget) == widget.bounds.w - widget.padding.left - widget.padding.right
InnerH(widget) == widget.bounds.h - widget.padding.top - widget.padding.bottom

Inside(r, s) ==
    r.x >= s.x /\ r.y >= s.y /\ r.x + r.w <= s.x + s.w /\ r.y + r.h <= s.y + s.h

Apart(r, s) ==
    \/ r.w = 0 \/ r.h = 0 \/ s.w = 0 \/ s.h = 0
    \/ r.x + r.w <= s.x \/ s.x + s.w <= r.x
    \/ r.y + r.h <= s.y \/ s.y + s.h <= r.y

Cells(r) == (r.x .. r.x + r.w - 1) \X (r.y .. r.y + r.h - 1)

-----------------------------------------------------------------------------
(* Alignment *)

\* jive_widget_halign, jive_widget_valign: an offset within the widget. What is
\* too wide starts at the left; what is too high sticks out as it may.
HAlign(widget, align, width) ==
    IF InnerW(widget) < width \/ align \in {"left", "top-left", "bottom-left"} THEN widget.padding.left
    ELSE IF align \in {"center", "top", "bottom"} THEN ((InnerW(widget) - width) \div 2) + widget.padding.left
    ELSE widget.bounds.w - widget.padding.right - width

VAlign(widget, align, height) ==
    CASE align \in {"top", "top-left", "top-right"} -> widget.padding.top
      [] align \in {"center", "left", "right"} ->
            widget.padding.top + Quotient(InnerH(widget) - height, 2)
      [] OTHER -> widget.bounds.h - widget.padding.bottom - height

-----------------------------------------------------------------------------
(* Groups: widgets side by side, or with the axes turned, one below the other *)

\* A group with its axes exchanged: the vertical layout is the horizontal one.
TurnedRect(r) == [x |-> r.y, y |-> r.x, w |-> r.h, h |-> r.w]
TurnedInset(i) == [left |-> i.top, top |-> i.left, right |-> i.bottom, bottom |-> i.right]
TurnedWidget(v) == [v EXCEPT !.border = TurnedInset(@), !.w = v.h, !.h = v.w]
Turned(g) ==
    [g EXCEPT !.bounds = TurnedRect(@), !.padding = TurnedInset(@),
              !.widgets = [i \in DOMAIN @ |-> TurnedWidget(@[i])]]

Border(v) == IF v.hidden THEN Inset(0) ELSE v.border

\* First pass: the widths that are asked for, with borders; a widget that fills
\* the group has none yet, one that is hidden none at all.
Asked(g) == [i \in DOMAIN g.widgets |->
    LET v == g.widgets[i]
    IN  IF v.hidden THEN 0
        ELSE IF v.w = WH_FILL THEN WH_FILL ELSE v.w + v.border.left + v.border.right]

\* What is left for the widgets that fill the group is shared; nothing goes beyond
\* its end.
Filled_IgnoresFixed(g) ==
    LET fills == {i \in DOMAIN g.widgets : Asked(g)[i] = WH_FILL}
    IN  [i \in DOMAIN g.widgets |->
            IF i \in fills THEN Quotient(InnerW(g), Cardinality(fills)) ELSE Asked(g)[i]]

Filled(g) ==
    LET fills == {i \in DOMAIN g.widgets : Asked(g)[i] = WH_FILL}
        fixed == FoldFunctionOnSet(+, 0, Asked(g), DOMAIN g.widgets \ fills)
    IN  [i \in DOMAIN g.widgets |->
            IF i \in fills THEN Quotient(InnerW(g) - fixed, Cardinality(fills)) ELSE Asked(g)[i]]

Widths(g) ==
    FoldLeft(LAMBDA acc, w :
                LET room == InnerW(g) - acc.sum
                    got == IF w > room THEN Max2(0, room) ELSE w
                IN  [sum |-> acc.sum + got, all |-> Append(acc.all, got)],
             [sum |-> 0, all |-> <<>>], Filled(g)).all

\* The height of all widgets: the highest, to which every later border is added.
Height(g) ==
    LET grown(h, v) ==
            IF v.hidden THEN h
            ELSE Max2(h, v.h) + v.border.top + v.border.bottom
        h == FoldLeft(grown, 0, g.widgets)
    IN  IF h = WH_NIL THEN h ELSE IF h = WH_FILL THEN InnerH(g) ELSE Min2(h, InnerH(g))

\* Second pass
SideBySide(g) ==
    [i \in DOMAIN g.widgets |->
        LET before == FoldFunctionOnSet(+, 0, Widths(g), 1 .. i - 1)
            b == Border(g.widgets[i])
        IN  Rect(g.bounds.x + g.padding.left + before + b.left,
                 g.bounds.y + g.padding.top + b.top,
                 Widths(g)[i] - b.left - b.right,
                 Height(g) - b.top - b.bottom)]

GroupLayout(g) ==
    IF g.vertical THEN [i \in DOMAIN g.widgets |-> TurnedRect(SideBySide(Turned(g))[i])]
    ELSE SideBySide(g)

\* What a group asks for itself, whatever its orientation: hidden widgets count, its
\* paddings do not.
GroupPreferred(g) ==
    LET outer(v) == [w |-> v.w + v.border.left + v.border.right, h |-> v.h + v.border.top + v.border.bottom]
    IN  [w |-> FoldLeft(LAMBDA sum, v : sum + outer(v).w, 0, g.widgets),
         h |-> FoldLeft(LAMBDA high, v : Max2(high, outer(v).h), 0, g.widgets)]

-----------------------------------------------------------------------------
(* Menus: items in lines, and a scrollbar at the right if not all are shown *)

NumWidgets(m) == (m.bounds.h \div m.itemHeight) * m.itemsPerLine

HasScrollbar(m) == ~m.hideScrollbar /\ m.listSize > NumWidgets(m)

ScrollbarW(m) == IF HasScrollbar(m) THEN m.barWidth + m.barBorder.left + m.barBorder.right ELSE 0

Scrollbar(m) ==
    Rect(m.bounds.x + m.bounds.w - ScrollbarW(m) + m.barBorder.left,
         m.bounds.y + m.barBorder.top,
         ScrollbarW(m) - m.barBorder.left - m.barBorder.right,
         m.bounds.h)

ItemW(m) == Quotient(InnerW(m) - ScrollbarW(m), m.itemsPerLine)

MenuLayout(m) ==
    [i \in 1 .. m.items |->
        Rect(m.bounds.x + m.padding.left + ((i - 1) % m.itemsPerLine) * ItemW(m),
             m.bounds.y + m.padding.top + ((i - 1) \div m.itemsPerLine) * m.itemHeight,
             ItemW(m), m.itemHeight)]

-----------------------------------------------------------------------------
(* Sliders: where the bubble goes, along the slider *)

BubbleX(s) == ((s.length - s.tile) * (s.value - 1)) \div (s.range - 1)

BubbleW(s) == (((s.length - s.tile) * (s.size - 1)) \div (s.range - 1)) + s.tile

\* The pill is at the far end of a bubble that starts at 1.
PillX(s) == BubbleW(s) - s.tile

-----------------------------------------------------------------------------
(* Icons: the frames of an animation side by side in one picture *)

\* prepare: without a frame rate the picture is one frame
Frames(icon) == IF icon.frameRate = 0 THEN 1 ELSE icon.img.w \div icon.frameWidth
FrameW(icon) == IF icon.frameRate = 0 THEN icon.img.w ELSE icon.frameWidth

\* jiveL_icon_animate
NextFrame(icon) == IF icon.frame + 1 >= Frames(icon) THEN 0 ELSE icon.frame + 1

\* jiveL_icon_draw, jiveL_icon_get_preferred_bounds
FrameRect(icon) == [x |-> FrameW(icon) * icon.frame, y |-> 0, w |-> FrameW(icon), h |-> icon.img.h]
IconPreferred(icon) ==
    [w |-> icon.img.w \div Frames(icon) + icon.padding.left + icon.padding.right,
     h |-> icon.img.h + icon.padding.top + icon.padding.bottom]

-----------------------------------------------------------------------------
(* Tiles: nine images, numbered clockwise from the top left, with 0 inside; *)
(* a tile is what each of them has for a size, if it is loaded *)

\* _init_tile_sizes
SizeOf(t, pieces, side) == Max({0} \cup {t[i][side] : i \in pieces \cap DOMAIN t})

Single(t) == 0 \in DOMAIN t /\ 1 \notin DOMAIN t /\ SizeOf(t, {1, 7, 8}, "w") = 0

TileW(t) == <<IF Single(t) THEN t[0].w ELSE SizeOf(t, {1, 7, 8}, "w"), SizeOf(t, {3, 4, 5}, "w")>>
TileH(t) == <<IF Single(t) THEN t[0].h ELSE SizeOf(t, {1, 2, 3}, "h"), SizeOf(t, {5, 6, 7}, "h")>>

\* jive_tile_get_min_size, jive_tile_blit, jive_tile_blit_centered
MinW(t) == TileW(t)[1] + TileW(t)[2]
MinH(t) == TileH(t)[1] + TileH(t)[2]

BlitRect(t, d) == [d EXCEPT !.w = IF @ = 0 THEN MinW(t) ELSE @, !.h = IF @ = 0 THEN MinH(t) ELSE @]

CenteredRect(t, d) ==
    LET w == Max2(d.w, MinW(t)) h == Max2(d.h, MinH(t))
    IN  [x |-> d.x - w \div 2, y |-> d.y - h \div 2, w |-> w, h |-> h]

\* _blit_tile: the corners first, then the edges and the middle between them
Areas(t, d) ==
    LET some(pieces, n) == IF pieces \cap DOMAIN t = {} THEN 0 ELSE n
        ox(pieces) == some(pieces, Min2(TileW(t)[1], d.w))
        ow(pieces) == some(pieces, Min2(TileW(t)[2], d.w))
        oy(pieces) == some(pieces, Min2(TileH(t)[1], d.h))
        oh(pieces) == some(pieces, Min2(TileH(t)[2], d.h))
        x == ox({1, 7, 8})   w == ow({3, 4, 5})
        y == oy({1, 2, 3})   h == oh({5, 6, 7})
    IN  [i \in DOMAIN t |->
          CASE i = 1 -> <<d.x, d.y, x, y>>
            [] i = 3 -> <<d.x + d.w - w, d.y, w, y>>
            [] i = 5 -> <<d.x + d.w - w, d.y + d.h - h, w, h>>
            [] i = 7 -> <<d.x, d.y + d.h - h, x, h>>
            [] i = 2 -> <<d.x + ox({1, 7}), d.y, d.w - ox({1, 7}) - ow({3, 5}), y>>
            [] i = 4 -> <<d.x + d.w - w, d.y + y, w, d.h - y - oh({5, 7})>>
            [] i = 6 -> <<d.x + ox({1, 7}), d.y + d.h - h, d.w - ox({1, 7}) - w, h>>
            [] i = 8 -> <<d.x, d.y + y, x, d.h - y - h>>
            [] i = 0 -> <<d.x + x, d.y + y, d.w - x - w, d.h - y - h>>]

\* blit_area: the image again and again, cut at the end
Drawn(area) == Cells([x |-> area[1], y |-> area[2], w |-> area[3], h |-> area[4]])

-----------------------------------------------------------------------------
(* Pictures that are resized: jive_surface_resize with the aspect kept *)

Resized(s, d) ==
    IF d.w * s.h <= d.h * s.w
    THEN LET h == (s.h * d.w) \div s.w IN [x |-> 0, y |-> (d.h - h) \div 2, w |-> d.w, h |-> h]
    ELSE LET w == (s.w * d.h) \div s.h IN [x |-> (d.w - w) \div 2, y |-> 0, w |-> w, h |-> d.h]

-----------------------------------------------------------------------------
(* Clips: what a widget draws on. The clip of the SDL surface is in pixels of *)
(* the surface; that of JiveSurface is moved by its offset. *)

\* jive_rect_intersection
Intersection(a, b) ==
    LET x0 == Max2(a.x, b.x) y0 == Max2(a.y, b.y)
        x1 == Min2(a.x + a.w, b.x + b.w) y1 == Min2(a.y + a.h, b.y + b.h)
    IN  IF x1 < x0 \/ y1 < y0 THEN [x |-> 0, y |-> 0, w |-> 0, h |-> 0]
        ELSE [x |-> x0, y |-> y0, w |-> x1 - x0, h |-> y1 - y0]

Moved(r, offset) == [r EXCEPT !.x = @ + offset.x, !.y = @ + offset.y]

\* jive_surface_get_clip, jive_surface_set_clip, jive_surface_push_clip; SDL keeps
\* a clip within the surface.
GetClip(srf) == [srf.clip EXCEPT !.x = @ - srf.offset.x, !.y = @ - srf.offset.y]
SetClip(srf, r) == [srf EXCEPT !.clip = Intersection(Moved(r, srf.offset), srf.size)]
PushClip(srf, r) == SetClip(srf, Intersection(r, GetClip(srf)))

\* jiveL_menu_draw and jiveL_textarea_draw draw their contents with a clip and an
\* offset, jiveL_icon_draw with a clip. "path" is the widget and those it is in;
\* what the innermost draws on, and what is left when all are done:
Entered(srf, v) == [PushClip(srf, v.bounds) EXCEPT !.offset.y = v.scroll + (IF v.own THEN 0 ELSE @)]

Left(srf, v, before) == SetClip([srf EXCEPT !.offset = before.offset], GetClip(before))

-----------------------------------------------------------------------------
(* What layouts promise *)

InnerRect(g) ==
    [x |-> g.bounds.x + g.padding.left, y |-> g.bounds.y + g.padding.top, w |-> InnerW(g), h |-> InnerH(g)]

\* A widget has a place if its share is as wide as its borders.
Placed(g) ==
    LET t == IF g.vertical THEN Turned(g) ELSE g
    IN  {i \in DOMAIN g.widgets :
            /\ ~g.widgets[i].hidden
            /\ Widths(t)[i] >= t.widgets[i].border.left + t.widgets[i].border.right
            /\ Height(t) >= t.widgets[i].border.top + t.widgets[i].border.bottom}

\* A group keeps its widgets between its paddings and apart, gives those of a fixed
\* size that size, and leaves less than a pixel for each that fills it. It does not
\* when a widget that fills it gets less than nothing because the others are too
\* wide: it is then over the one before; nor when the height of one that fills it is,
\* with its borders, WH_NIL.
GroupFits(g) ==
    LET t == IF g.vertical THEN Turned(g) ELSE g
        r == GroupLayout(g)
        fills == {i \in DOMAIN t.widgets : Asked(t)[i] = WH_FILL}
        fixed == FoldFunctionOnSet(+, 0, Asked(t), DOMAIN t.widgets \ fills)
        total == FoldFunctionOnSet(+, 0, Widths(t), DOMAIN t.widgets)
    IN  /\ (fills = {} \/ fixed <= InnerW(t)) /\ Height(t) # WH_NIL =>
            /\ \A i \in Placed(g) : Inside(r[i], InnerRect(g))
            /\ \A i, j \in Placed(g) : i # j => Apart(r[i], r[j])
        /\ total <= InnerW(t)
        /\ fixed <= InnerW(t) =>
            /\ \A i \in DOMAIN t.widgets \ fills : Widths(t)[i] = Asked(t)[i]
            /\ fills # {} => InnerW(t) - total < Cardinality(fills)

\* A row of widgets of fixed sizes that is given what it prefers, and its paddings,
\* gives each of them all it asks for.
PreferredSuffices(g) ==
    LET p == GroupPreferred(g)
        given == [g EXCEPT !.bounds.w = p.w + g.padding.left + g.padding.right,
                           !.bounds.h = p.h + g.padding.top + g.padding.bottom]
        r == SideBySide(given)
    IN  (\A i \in DOMAIN g.widgets : WH_FILL \notin {g.widgets[i].w, g.widgets[i].h}) =>
            \A i \in DOMAIN g.widgets :
                ~g.widgets[i].hidden => r[i].w = g.widgets[i].w /\ r[i].h >= g.widgets[i].h

\* An animation shows only whole frames, and an icon of the size it prefers all of one.
FramesFit(icon) ==
    LET all == [x |-> 0, y |-> 0, w |-> icon.img.w, h |-> icon.img.h]
        widget == [bounds |-> Rect(0, 0, IconPreferred(icon).w, IconPreferred(icon).h), padding |-> icon.padding]
    IN  /\ Inside(FrameRect(icon), all)
        /\ Inside(FrameRect([icon EXCEPT !.frame = NextFrame(icon)]), all)
        /\ FrameW(icon) <= InnerW(widget) /\ icon.img.h <= InnerH(widget)

\* The items of a menu as wide as its scrollbar are apart from it and each other, and those that a menu without
\* padding at the top counts as shown are shown.
MenuFits(m) ==
    LET r == MenuLayout(m)
    IN  InnerW(m) >= ScrollbarW(m) =>
        /\ \A i, j \in DOMAIN r : i # j => Apart(r[i], r[j])
        /\ \A i \in DOMAIN r : HasScrollbar(m) => r[i].x + r[i].w <= Scrollbar(m).x
        /\ m.padding.top = 0 =>
            \A i \in DOMAIN r : i <= NumWidgets(m) => Inside(r[i], m.bounds)

\* The bubble of a slider shows values of its range without leaving it, ends at its
\* end with the last value, and never goes back when the value goes on.
SliderFits(s) ==
    /\ s.value + s.size <= s.range + 1 => BubbleX(s) + BubbleW(s) <= s.length
    /\ s.value = s.range => BubbleX(s) + s.tile = s.length
    /\ BubbleW(s) >= s.tile
    /\ BubbleX(s) <= BubbleX([s EXCEPT !.value = @ + 1])
    /\ PillX(s) = BubbleX([s EXCEPT !.value = s.size])

\* What fits a widget is aligned between its paddings.
AlignedFits(widget, align, w, h) ==
    /\ w <= InnerW(widget) =>
        HAlign(widget, align, w) \in widget.padding.left .. widget.bounds.w - widget.padding.right - w
    /\ h <= InnerH(widget) =>
        VAlign(widget, align, h) \in widget.padding.top .. widget.bounds.h - widget.padding.bottom - h

\* A frame of nine images, or a bar of three, is drawn on each pixel of its place
\* once, and on none beyond.
Complete(t) == DOMAIN t \in {0 .. 8, {1, 2, 3}, {1, 8, 7}}

TilesFit(t, place) ==
    \A d \in {BlitRect(t, place), CenteredRect(t, place)} :
        d.w >= MinW(t) /\ d.h >= MinH(t) =>
            LET areas == Areas(t, d)
                shown == {i \in DOMAIN t : areas[i][3] > 0 /\ areas[i][4] > 0}
            IN  /\ \A i \in shown : Drawn(areas[i]) \subseteq Cells(d)
                /\ Complete(t) => \A i, j \in shown : i # j => Drawn(areas[i]) \cap Drawn(areas[j]) = {}
                /\ DOMAIN t = 0 .. 8 => UNION {Drawn(areas[i]) : i \in shown} = Cells(d)

\* A picture that is resized fits, in the middle, with one side all of the new.
ResizedFits(s, d) ==
    LET r == Resized(s, d)
    IN  /\ Inside(r, [x |-> 0, y |-> 0, w |-> d.w, h |-> d.h])
        /\ r.w = d.w \/ r.h = d.h
        /\ d.w - r.w - 2 * r.x \in {0, 1} /\ d.h - r.h - 2 * r.y \in {0, 1}

\* A widget inside another draws on nothing outside of either, and leaves clip and
\* offset as it found them.
ClipsNest(srf, outer, inner) ==
    LET a == Entered(srf, outer)
        b == Entered(a, inner)
        back == Left(b, inner, a)
    IN  /\ Cells(b.clip) \subseteq Cells(a.clip) /\ Cells(a.clip) \subseteq Cells(srf.clip)
        /\ back.offset = a.offset /\ Cells(back.clip) = Cells(a.clip)
        /\ Left(back, outer, srf).offset = srf.offset
        /\ Cells(Left(back, outer, srf).clip) = Cells(srf.clip)
=============================================================================
