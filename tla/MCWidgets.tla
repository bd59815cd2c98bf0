------------------------------ MODULE MCWidgets ------------------------------
(* Every algorithm, on every small input: "input" is what one of them is given;  *)
(* or a text input, with the keys that it is given.                            *)
EXTENDS Layout, TLC

VARIABLES input, kind, value, recent, cursor, cursorWidth, shrunk, indent, drawn, frame

typing == <<kind, value, recent, cursor, cursorWidth, shrunk, indent, drawn, frame>>

K == INSTANCE TextInput WITH
    Chars <- <<"a", "W">>, Fixed <- ".", CharW <- [c \in {"a", "W", "."} |-> IF c = "W" THEN 2 ELSE 1],
    AreaW <- 5, CursorW <- 2, Groups <- 2, GroupLen <- 2, MaxLen <- 4

CharBytes == [c \in {"a", "W", "e", " ", "-", ".", "\n"} |-> IF c = "e" THEN 2 ELSE 1]
CharWidth == [c \in DOMAIN CharBytes |-> IF c = "W" THEN 3 ELSE 1]

D == INSTANCE Surface

T == INSTANCE TextLayout WITH Bytes <- CharBytes, Width <- CharWidth, MaxChars <- 3

Sizes == {0, 1, 3}
Insets == {Inset(0), Inset(1), [left |-> 0, top |-> 1, right |-> 2, bottom |-> 0]}
GroupItems ==
    [w : {2, WH_FILL}, h : {2, WH_FILL}, border : Insets, hidden : {FALSE}]
        \cup {[w |-> 3, h |-> 9, border |-> Inset(1), hidden |-> TRUE]}
Bounds == {Rect(0, 0, 4, 5), Rect(-2, 3, 11, 6)}
Padded == [bounds : Bounds, padding : {Inset(0), Inset(1)}]

LayoutGroup ==
    \E n \in 0 .. 3, p \in Padded, vertical \in BOOLEAN : \E items \in [1 .. n -> GroupItems] :
        input' = [kind |-> "group", bounds |-> p.bounds, padding |-> p.padding, vertical |-> vertical, widgets |-> items]

LayoutMenu ==
    \E p \in Padded, height \in 1 .. 3, line \in 1 .. 3, items \in 0 .. 6, more \in 0 .. 3,
       bar \in 0 .. 2, border \in Insets, hide \in BOOLEAN :
        input' = [kind |-> "menu", bounds |-> p.bounds, padding |-> p.padding, itemHeight |-> height,
                  itemsPerLine |-> line, items |-> items, listSize |-> items + more,
                  barWidth |-> bar, barBorder |-> border, hideScrollbar |-> hide]

MoveSlider ==
    \E length \in 1 .. 9, tile \in 0 .. 2, range \in 2 .. 6 : \E at, size \in 1 .. range :
        /\ tile <= length
        /\ input' = [kind |-> "slider", length |-> length, tile |-> tile, range |-> range,
                     value |-> at, size |-> size]

AnimateIcon ==
    \E w \in 1 .. 7, h, pad \in 0 .. 2, rate \in 0 .. 1, width \in 1 .. 7 :
        /\ width <= w
        /\ \E k \in 0 .. (IF rate = 0 THEN 0 ELSE (w \div width) - 1) :
            input' = [kind |-> "icon", img |-> [w |-> w, h |-> h], padding |-> Inset(pad),
                      frameRate |-> rate, frameWidth |-> width, frame |-> k]

Aligns == {"left", "right", "top", "bottom", "center", "top-left", "top-right", "bottom-left", "bottom-right"}

AlignContent ==
    \E p \in Padded, align \in Aligns, w, h \in 0 .. 12 :
        input' = [kind |-> "align", widget |-> p, align |-> align, w |-> w, h |-> h]

Pieces == {0 .. 8, {1, 2, 3}, {1, 8, 7}, {0}, {0, 2, 6}, {1, 2, 3, 4}}

DrawTile ==
    \E pieces \in Pieces, l, r, a, b \in 0 .. 2, w, h \in 1 .. 2, d \in [x : {5}, y : {0}, w : 0 .. 5, h : {0, 2, 4}] :
        input' = [kind |-> "tile", place |-> d,
                  tile |-> [i \in pieces |->
                    [w |-> CASE i \in {1, 7, 8} -> l [] i \in {3, 4, 5} -> r [] OTHER -> w,
                     h |-> CASE i \in {1, 2, 3} -> a [] i \in {5, 6, 7} -> b [] OTHER -> h]]]

ResizePicture ==
    \E sw, sh, w, h \in 1 .. 6 : input' = [kind |-> "resize", from |-> [w |-> sw, h |-> sh], to |-> [w |-> w, h |-> h]]

Clips == [x : {-1, 0, 2}, y : {0, 1}, w : {0, 2, 3}, h : {1, 4}]
Clipped == [bounds : Clips, scroll : {-1, 0, 2}, own : BOOLEAN]

NestClips ==
    \E clip \in {Rect(0, 0, 4, 3), Rect(1, 1, 2, 2)}, dy \in {-1, 0}, outer, inner \in Clipped :
        input' = [kind |-> "clip", outer |-> outer, inner |-> inner,
                  surface |-> [size |-> Rect(0, 0, 4, 3), clip |-> clip, offset |-> [x |-> 0, y |-> dy]]]

Offsets == {[x |-> 0, y |-> 0], [x |-> -2, y |-> 3]}
Made == {D!New(4, 3), D!LoadData(9, [w |-> 2, h |-> 2]), D!LoadData(9, <<>>), D!drawText([w |-> 3, h |-> 1]),
         D!release(D!New(1, 2)), [D!New(4, 3) EXCEPT !.pixels = "tile"]}
Surfaces == {D!setOffset(srf, o.x, o.y) : srf \in Made, o \in Offsets}

DrawShape ==
    \E srf \in Surfaces, name \in DOMAIN D!Parameters : \E a \in [DOMAIN D!Parameters[name] -> {-3, 1, 40}] :
        input' = [kind |-> "shape", srf |-> srf, name |-> name, args |-> a]

DrawPicture ==
    \E src \in {srf \in Surfaces : srf.offset.x = 0}, dst \in Surfaces, sx, sy \in 0 .. 1, sw \in 0 .. 5, sh \in {0, 2}, dx, dy \in {-1, 0, 3}, clip \in {1, 4} :
        input' = [kind |-> "blit", src |-> src, dst |-> D!setClip(dst, 1 - dst.offset.x, 0 - dst.offset.y, clip, 3),
                  sx |-> sx, sy |-> sy, sw |-> sw, sh |-> sh, dx |-> dx, dy |-> dy]

ClipSurface ==
    \E srf \in Surfaces, x, y \in -3 .. 3, w, h \in 0 .. 4 :
        input' = [kind |-> "setclip", srf |-> srf, x |-> x, y |-> y, w |-> w, h |-> h]

ComparePictures ==
    \E m, n \in 0 .. 3 : \E one \in [1 .. m -> 1 .. 3], two \in [1 .. n -> 1 .. 3] :
        input' = [kind |-> "compare", one |-> one, two |-> two]

PlacePieces ==
    \E how \in {"vtiles", "htiles"}, sizes \in [1 .. 3 -> [w : 1 .. 2, h : 1 .. 2]], w, h \in 3 .. 6 :
        input' = [kind |-> "pieces", how |-> how, pieces |-> D!Placed(how, sizes), place |-> Rect(0, 0, w, h)]

Pictures == {<<>>} \cup [w : {4, 9}, h : {3}]
StartScreen ==
    \E info \in [w : 3 .. 8, h : {6}, bpp : {0, 16}, wm : BOOLEAN], splash \in Pictures, own \in BOOLEAN :
        input' = [kind |-> "start", info |-> info, splash |-> splash,
                  fitting |-> IF own THEN [w |-> info.w, h |-> info.h] ELSE <<>>]

Codes == {0, 9, 127, 128, 2047, 2048, 65535, 65536, 1114111} \ {0}
ReadText == \E n \in 0 .. 3 : \E codes \in [1 .. n -> Codes] : input' = [kind |-> "utf8", codes |-> codes]

SplitLabel ==
    \E n \in 0 .. 5 : \E text \in [1 .. n -> {"a", "e", " ", "\n"}] : input' = [kind |-> "label", text |-> text]

WrapText ==
    \E n \in 0 .. 5, w \in 3 .. 5, visible \in {1, 3}, header, hide \in BOOLEAN :
    \E text \in [1 .. n -> {"a", "W", " ", "-", ".", "\n"}] :
        /\ header => ~hide
        /\ input' = [kind |-> "wrap", text |-> text, bounds |-> Rect(0, 0, w, 9), padding |-> Inset(0),
                     visible |-> visible, header |-> header, hideScrollbar |-> hide, scrollbar |-> FALSE,
                     barWidth |-> 1]

ScrollLabel ==
    \E w \in {30, 60, 100}, textW \in {60, 100}, labelW \in {25, 50, 80}, step \in {5, 7} :
        /\ w <= textW
        /\ input' = [kind |-> "scroll", w |-> w, textW |-> textW, labelW |-> labelW, step |-> step,
                     offset |-> T!PAD_START, drawn |-> 0, stopped |-> FALSE]

\* jiveL_label_do_animate, again and again
Scroll == input.kind = "scroll" /\ input' = T!Animated(input)

Init ==
    /\ K!Init
    /\ \/ input = [kind |-> "keys"]
       \/ input = [kind |-> "none"] /\ kind = "text" /\ value = <<>> /\ recent = 0

Next ==
    \/ K!Next /\ input.kind = "keys" /\ UNCHANGED input
    \/ /\ UNCHANGED typing
       /\ input.kind = "none"
       /\ \/ LayoutGroup \/ LayoutMenu \/ MoveSlider \/ AnimateIcon \/ AlignContent
          \/ DrawTile \/ ResizePicture \/ NestClips
          \/ DrawShape \/ DrawPicture \/ ClipSurface \/ ComparePictures \/ PlacePieces
          \/ StartScreen \/ ReadText \/ SplitLabel \/ WrapText \/ ScrollLabel
    \/ Scroll /\ UNCHANGED typing

Spec == Init /\ [][Next]_<<input, typing>>

-----------------------------------------------------------------------------
(* Properties *)

\* Layouts put widgets where they fit, apart from each other (jiveL_group_layout,
\* jiveL_menu_layout, jiveL_slider_draw, jive_widget_halign, jive_widget_valign), and what
\* is drawn there stays in its place and covers it once (_blit_tile, jive_surface_resize,
\* jive_surface_push_clip).
LayoutsFit ==
    /\ input.kind = "group" => GroupFits(input) /\ PreferredSuffices(input)
    /\ input.kind = "menu" => MenuFits(input)
    /\ input.kind = "slider" => SliderFits(input)
    /\ input.kind = "align" => AlignedFits(input.widget, input.align, input.w, input.h)
    /\ input.kind = "tile" => TilesFit(input.tile, input.place)
    /\ input.kind = "resize" => ResizedFits(input.from, input.to)
    /\ input.kind = "icon" => FramesFit(input)
    /\ input.kind = "clip" => ClipsNest(input.surface, input.outer, input.inner)

\* A method of a surface draws what was asked for, where it was asked for and inside the
\* clip rectangle, and nothing on a surface that was released (jive_surface.c); the
\* images of a column or a row follow each other as they were given; and the screen
\* starts as large as its splash picture or the other way round (jiveL_initSDL).
DrawnAsAsked ==
    /\ input.kind = "shape" => D!DrawnAsAsked(input.srf, input.name, input.args)
    /\ input.kind = "blit" =>
        /\ D!BlitInPlace(input.src, input.sx, input.sy, input.sw, input.sh, input.dst, input.dx, input.dy)
        /\ D!ReleaseIsSafe(input.src, input.dst, [w |-> 2, h |-> 1])
    /\ input.kind = "setclip" => D!ClipKept(input.srf, input.x, input.y, input.w, input.h)
    /\ input.kind = "start" => D!StartsAsShown(input.info, input.fitting, input.splash)
    /\ input.kind = "compare" => D!CompareIsFair(input.one, input.two, 3)
    /\ input.kind = "pieces" =>
        LET areas == Areas(input.pieces, input.place)
            order == IF input.how = "vtiles" THEN <<1, 8, 7>> ELSE <<1, 2, 3>>
            from(k) == areas[order[k]][IF input.how = "vtiles" THEN 2 ELSE 1]
        IN  \A k \in 1 .. 2 : from(k) + (areas[order[k]][IF input.how = "vtiles" THEN 4 ELSE 3]) <= from(k + 1)

\* Text is shown as it is, character by character (utf8_get_char), line by line (a
\* label's prepare), word by word (wordwrap), and all of it as it scrolls by
\* (jiveL_label_do_animate, jiveL_label_draw).
TextShown ==
    /\ input.kind = "utf8" => T!ReadsUtf8(input.codes)
    /\ input.kind = "label" => T!KeepsText(input.text)
    /\ input.kind = "wrap" => T!WrapsWords(input.text, input)
    /\ input.kind = "scroll" => T!ScrollsSmoothly(input)

\* A text input draws from within its value and shows its cursor (Textinput.lua,
\* jiveL_textinput_draw).
TextInputSound == input.kind = "keys" => K!TextInputSound
=============================================================================
