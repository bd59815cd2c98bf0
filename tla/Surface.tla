------------------------------- MODULE Surface -------------------------------
(***************************************************************************)
(* Drawing on a surface (src/src/jive_surface.c): what the methods of the Lua *)
(* class ask SDL_gfx and SDL to draw. A surface has a size, a clip rectangle  *)
(* in its own coordinates and an offset that every method adds to its         *)
(* coordinates. Its pixels are its "own", those of the image of a "tile", or   *)
(* "none": release() has freed them, or they could not be loaded. SDL clips.  *)
(***************************************************************************)
EXTENDS Integers, Sequences, FiniteSets

Nothing == <<>>   \* no result: nil in Lua

Sint16(n) == ((n + 32768) % 65536) - 32768
Uint16(n) == n % 65536

\* The call made of SDL_gfx, if any
Gfx(srf, shape, args) ==
    IF srf.pixels # "own" THEN Nothing ELSE <<shape, [i \in DOMAIN args |-> Sint16(args[i])]>>
X(srf, x) == Sint16(x) + srf.offset.x
Y(srf, y) == Sint16(y) + srf.offset.y

pixelColor(srf, x, y) == Gfx(srf, "pixel", <<X(srf, x), Y(srf, y)>>)
hlineColor(srf, x1, x2, y) == Gfx(srf, "hline", <<X(srf, x1), X(srf, x2), Y(srf, y)>>)
vlineColor(srf, x, y1, y2) == Gfx(srf, "vline", <<X(srf, x), Y(srf, y1), Y(srf, y2)>>)
rectangleColor(srf, x1, y1, x2, y2) == Gfx(srf, "rectangle", <<X(srf, x1), Y(srf, y1), X(srf, x2), Y(srf, y2)>>)
boxColor_Size(srf, x1, y1, x2, y2) == Gfx(srf, "filledRectangle", <<X(srf, x1), Y(srf, y1), Sint16(x2), Sint16(y2)>>)
boxColor(srf, x1, y1, x2, y2) == Gfx(srf, "filledRectangle", <<X(srf, x1), Y(srf, y1), X(srf, x2), Y(srf, y2)>>)
lineColor(srf, x1, y1, x2, y2) == Gfx(srf, "line", <<X(srf, x1), Y(srf, y1), X(srf, x2), Y(srf, y2)>>)
aalineColor(srf, x1, y1, x2, y2) == Gfx(srf, "aaline", <<X(srf, x1), Y(srf, y1), X(srf, x2), Y(srf, y2)>>)
aacircleColor(srf, x, y, r) == Gfx(srf, "aacircle", <<X(srf, x), Y(srf, y), r>>)
filledCircleColor(srf, x, y, r) == Gfx(srf, "filledCircle", <<X(srf, x), Y(srf, y), r>>)
ellipseColor(srf, x, y, rx, ry) == Gfx(srf, "ellipse", <<X(srf, x), Y(srf, y), rx, ry>>)
aaellipseColor(srf, x, y, rx, ry) == Gfx(srf, "aaellipse", <<X(srf, x), Y(srf, y), rx, ry>>)
filledEllipseColor(srf, x, y, rx, ry) == Gfx(srf, "filledEllipse", <<X(srf, x), Y(srf, y), rx, ry>>)
pieColor(srf, x, y, rad, start, end) == Gfx(srf, "pie", <<X(srf, x), Y(srf, y), rad, start, end>>)
trigonColor(srf, x1, y1, x2, y2, x3, y3) ==
    Gfx(srf, "trigon", <<X(srf, x1), Y(srf, y1), X(srf, x2), Y(srf, y2), X(srf, x3), Y(srf, y3)>>)
aatrigonColor(srf, x1, y1, x2, y2, x3, y3) ==
    Gfx(srf, "aatrigon", <<X(srf, x1), Y(srf, y1), X(srf, x2), Y(srf, y2), X(srf, x3), Y(srf, y3)>>)
filledTrigonColor(srf, x1, y1, x2, y2, x3, y3) ==
    Gfx(srf, "filledTrigon", <<X(srf, x1), Y(srf, y1), X(srf, x2), Y(srf, y2), X(srf, x3), Y(srf, y3)>>)

-----------------------------------------------------------------------------
(* The methods of Surface.lua: "a" is the sequence of their arguments.            *)

pixel(srf, a) == pixelColor(srf, a[1], a[2])
hline(srf, a) == hlineColor(srf, a[1], a[2], a[3])
vline(srf, a) == vlineColor(srf, a[1], a[2], a[3])
rectangle(srf, a) == rectangleColor(srf, a[1], a[2], a[3], a[4])
filledRectangle(srf, a) == boxColor(srf, a[1], a[2], a[3], a[4])
\* x1, x2, y1, y2
line(srf, a) == lineColor(srf, a[1], a[3], a[2], a[4])
aaline(srf, a) == aalineColor(srf, a[1], a[3], a[2], a[4])
circle(srf, a) == aacircleColor(srf, a[1], a[2], a[3])
aacircle(srf, a) == aacircleColor(srf, a[1], a[2], a[3])
filledCircle(srf, a) == filledCircleColor(srf, a[1], a[2], a[3])
ellipse(srf, a) == ellipseColor(srf, a[1], a[2], a[3], a[4])
aaellipse(srf, a) == aaellipseColor(srf, a[1], a[2], a[3], a[4])
filledEllipse(srf, a) == filledEllipseColor(srf, a[1], a[2], a[3], a[4])
pie(srf, a) == pieColor(srf, a[1], a[2], a[3], a[4], a[5])
filledPie(srf, a) == pieColor(srf, a[1], a[2], a[3], a[4], a[5])
trigon(srf, a) == trigonColor(srf, a[1], a[2], a[3], a[4], a[5], a[6])
aatrigon(srf, a) == aatrigonColor(srf, a[1], a[2], a[3], a[4], a[5], a[6])
filledTrigon(srf, a) == filledTrigonColor(srf, a[1], a[2], a[3], a[4], a[5], a[6])

methods(srf, name, a) ==
    CASE name = "pixel" -> pixel(srf, a) [] name = "hline" -> hline(srf, a) [] name = "vline" -> vline(srf, a)
      [] name = "rectangle" -> rectangle(srf, a) [] name = "filledRectangle" -> filledRectangle(srf, a)
      [] name = "line" -> line(srf, a) [] name = "aaline" -> aaline(srf, a)
      [] name = "circle" -> circle(srf, a) [] name = "aacircle" -> aacircle(srf, a)
      [] name = "filledCircle" -> filledCircle(srf, a) [] name = "ellipse" -> ellipse(srf, a)
      [] name = "aaellipse" -> aaellipse(srf, a) [] name = "filledEllipse" -> filledEllipse(srf, a)
      [] name = "pie" -> pie(srf, a) [] name = "filledPie" -> filledPie(srf, a)
      [] name = "trigon" -> trigon(srf, a) [] name = "aatrigon" -> aatrigon(srf, a)
      [] name = "filledTrigon" -> filledTrigon(srf, a)

-----------------------------------------------------------------------------
(* Surfaces *)

Fresh(w, h) ==
    [pixels |-> "own", w |-> w, h |-> h, offset |-> [x |-> 0, y |-> 0],
     clip |-> [x |-> 0, y |-> 0, w |-> w, h |-> h], alpha |-> 255]

\* newRGB, newRGBA
New(w, h) == IF w = 0 \/ h = 0 THEN Nothing ELSE Fresh(Uint16(w), Uint16(h))

\* loadImageData: data that is no picture gives a surface all the same.
LoadData(len, picture) ==
    IF len = 0 THEN Nothing
    ELSE IF picture = Nothing THEN [Fresh(0, 0) EXCEPT !.pixels = "none"] ELSE Fresh(picture.w, picture.h)

\* drawText: the picture is what SDL_ttf has rendered
drawText(picture) == IF picture = Nothing THEN [Fresh(0, 0) EXCEPT !.pixels = "none"] ELSE Fresh(picture.w, picture.h)

\* _resolve_SDL_surface finds pixels.
Resolved(srf) == srf.pixels # "none"

\* rotozoom, zoom, shrink: "turned" is the size that SDL_gfx gives the new one
Derived(srf, turned) == IF Resolved(srf) THEN Fresh(turned.w, turned.h) ELSE Nothing

setOffset(srf, x, y) == [srf EXCEPT !.offset = [x |-> Sint16(x), y |-> Sint16(y)]]

release(srf) == IF srf.pixels = "own" THEN [srf EXCEPT !.pixels = "none"] ELSE srf

saveBMP(srf) == srf.pixels = "own"

\* The nine places of the images of loadTiles, loadVTiles and loadHTiles
Placed(how, paths) ==
    CASE how = "tiles" -> [i \in 0 .. 8 |-> paths[i + 1]]
      [] how = "vtiles" -> [i \in {1, 8, 7} |-> paths[CASE i = 1 -> 1 [] i = 8 -> 2 [] i = 7 -> 3]]
      [] how = "htiles" -> [i \in {1, 2, 3} |-> paths[i]]

-----------------------------------------------------------------------------
(* Clip rectangles, blits and comparisons                                         *)

\* SDL_SetClipRect keeps what is on the surface.
Cut(low, high, size) == LET from == IF low < 0 THEN 0 ELSE low
                            to == IF high > size THEN size ELSE high
                        IN  [from |-> from, length |-> IF to > from THEN to - from ELSE 0]

SetClipRect(srf, x, y, w, h) ==
    IF srf.pixels # "own" THEN srf
    ELSE LET left == Sint16(x + srf.offset.x)
             top == Sint16(y + srf.offset.y)
             across == Cut(left, left + w, srf.w)
             down == Cut(top, top + h, srf.h)
         IN  [srf EXCEPT !.clip = [x |-> across.from, y |-> down.from, w |-> across.length, h |-> down.length]]

GetClipRect(srf) ==
    IF srf.pixels # "own" THEN [x |-> 0, y |-> 0, w |-> 0, h |-> 0]
    ELSE [srf.clip EXCEPT !.x = @ - srf.offset.x, !.y = @ - srf.offset.y]

\* Lua gives integers, and gets numbers of 16 bits.
setClip(srf, x, y, w, h) == SetClipRect(srf, Uint16(x), Uint16(y), Uint16(w), Uint16(h))
getClip(srf) == LET r == GetClipRect(srf) IN <<Uint16(r.x), Uint16(r.y), r.w, r.h>>

\* The size of a tile is that of its image.
getSize(srf) == IF srf.pixels = "none" THEN <<0, 0>> ELSE <<srf.w, srf.h>>
getBytes(srf) == IF srf.pixels # "own" THEN 0 ELSE srf.w * srf.h * 4

InClip(srf, x, y) ==
    x \in srf.clip.x .. srf.clip.x + srf.clip.w - 1 /\ y \in srf.clip.y .. srf.clip.y + srf.clip.h - 1

\* Which pixel of "src" is drawn where on "dst"
SDL_BlitSurface(src, sx, sy, sw, sh, dst, dx, dy) ==
    {p \in (0 .. src.w - 1) \X (0 .. src.h - 1) \X (0 .. dst.w - 1) \X (0 .. dst.h - 1) :
        /\ Resolved(src) /\ dst.pixels = "own"
        /\ p[1] \in sx .. sx + sw - 1 /\ p[2] \in sy .. sy + sh - 1
        /\ p[3] = dx + p[1] - sx /\ p[4] = dy + p[2] - sy
        /\ InClip(dst, p[3], p[4])}

BlitAll(src, dst, dx, dy) ==
    SDL_BlitSurface(src, 0, 0, src.w, src.h, dst, Sint16(dx + dst.offset.x), Sint16(dy + dst.offset.y))
BlitPart(src, sx, sy, sw, sh, dst, dx, dy) ==
    SDL_BlitSurface(src, Sint16(sx), Sint16(sy), sw, sh, dst, Sint16(dx + dst.offset.x), Sint16(dy + dst.offset.y))

blit(src, dst, dx, dy) == BlitAll(src, dst, Uint16(dx), Uint16(dy))
blitClip(src, sx, sy, sw, sh, dst, dx, dy) ==
    BlitPart(src, Uint16(sx), Uint16(sy), Uint16(sw), Uint16(sh), dst, Uint16(dx), Uint16(dy))

\* blitAlpha, of an opaque picture, leaves it with the alpha it was drawn with. The
\* picture must have pixels: SDL_SetAlpha does not look.
blitAlpha(src, dst, dx, dy, alpha) ==
    [drawn |-> IF alpha % 256 = 0 THEN {} ELSE BlitAll(src, dst, Uint16(dx), Uint16(dy)),
     src |-> [src EXCEPT !.alpha = alpha % 256]]

\* Which share of the pixels of "a" and "b" is equal; {} are the pixels of a surface
\* that has none. The rounding of a float is left out.
compare(a, b, key) ==
    IF DOMAIN a # DOMAIN b \/ a = Nothing THEN 0
    ELSE LET equal == {p \in DOMAIN a : a[p] = b[p] \/ a[p] = key \/ b[p] = key}
         IN  (100 * Cardinality(equal)) \div Cardinality(DOMAIN a)

-----------------------------------------------------------------------------
(* The surface of the screen                                                       *)

WindowFlags == {"hardware", "double", "resizable"}

\* jive_surface_set_video_mode: the surface that SDL has is kept if it is as asked for.
SetVideoMode(sdl, w, h, bpp, fullscreen, wm) ==
    LET flags == IF fullscreen THEN {"fullscreen"} ELSE WindowFlags
        mask == IF wm THEN {"fullscreen"} \cup WindowFlags ELSE {"hardware", "double"}
        kept == /\ sdl # Nothing /\ sdl.w = w /\ sdl.h = h
                /\ bpp # 0 => sdl.bpp = bpp
                /\ sdl.flags \cap mask = flags \cap mask
    IN  IF kept THEN sdl ELSE [w |-> w, h |-> h, bpp |-> bpp, flags |-> flags]

Middle(screen, size) == IF size < screen THEN (screen - size) \div 2 ELSE 0

\* jiveL_initSDL: a window is as large as the splash picture; without a window manager
\* the screen is as it is, and a splash picture of its size is preferred.
InitSDL(info, fitting, splash) ==
    LET shown == IF ~info.wm /\ fitting # Nothing THEN fitting ELSE splash
        size == IF info.wm /\ shown # Nothing THEN shown ELSE [w |-> info.w, h |-> info.h]
    IN  [video |-> SetVideoMode(Nothing, size.w, size.h, info.bpp, ~info.wm, info.wm),
         splash |-> shown,
         at |-> IF shown = Nothing THEN Nothing ELSE <<Middle(size.w, shown.w), Middle(size.h, shown.h)>>,
         bounds |-> size]

-----------------------------------------------------------------------------
(* Properties *)

\* The splash picture is in the middle of the screen if it fits, and in the corner if not;
\* asked for again, the mode of the screen stays, unless the size or the kind of window
\* is another one.
StartsAsShown(info, fitting, splash) ==
    LET start == InitSDL(info, fitting, splash)
        again(w, full) == SetVideoMode(start.video, w, start.bounds.h, 0, full, info.wm)
    IN  /\ start.video.w = start.bounds.w /\ start.video.h = start.bounds.h
        /\ start.splash # Nothing =>
              LET left == start.at[1]
                  right == start.bounds.w - start.splash.w - left
              IN  IF start.splash.w <= start.bounds.w THEN left >= 0 /\ right - left \in {0, 1} ELSE left = 0
        /\ again(start.bounds.w, ~info.wm) = start.video
        /\ again(start.bounds.w + 1, ~info.wm) # start.video
        /\ again(start.bounds.w, info.wm) # start.video

\* What Surface.lua says of the methods
Parameters ==
    [pixel |-> <<"x", "y">>, hline |-> <<"x", "x", "y">>, vline |-> <<"x", "y", "y">>,
     rectangle |-> <<"x", "y", "x", "y">>, filledRectangle |-> <<"x", "y", "x", "y">>,
     line |-> <<"x", "y", "x", "y">>, aaline |-> <<"x", "y", "x", "y">>,
     circle |-> <<"x", "y", "r">>, aacircle |-> <<"x", "y", "r">>, filledCircle |-> <<"x", "y", "r">>,
     ellipse |-> <<"x", "y", "r", "r">>, aaellipse |-> <<"x", "y", "r", "r">>, filledEllipse |-> <<"x", "y", "r", "r">>,
     pie |-> <<"x", "y", "r", "a", "a">>, filledPie |-> <<"x", "y", "r", "a", "a">>,
     trigon |-> <<"x", "y", "x", "y", "x", "y">>, aatrigon |-> <<"x", "y", "x", "y", "x", "y">>,
     filledTrigon |-> <<"x", "y", "x", "y", "x", "y">>]

\* Drawn is the shape that was asked for, all of its points moved by the offset.
AsDocumented(srf, name, a) ==
    srf.pixels = "own" =>
        methods(srf, name, a) =
            <<name, [i \in DOMAIN a |-> a[i] + (CASE Parameters[name][i] = "x" -> srf.offset.x
                                                  [] Parameters[name][i] = "y" -> srf.offset.y
                                                  [] OTHER -> 0)]>>

\* Four methods do something else: lines take x1, x2, y1, y2, and a circle or a pie is
\* drawn as another kind of circle or pie.
DrawnAsAsked(srf, name, a) ==
    /\ name \notin {"line", "aaline", "circle", "filledPie"} => AsDocumented(srf, name, a)
    /\ srf.pixels # "own" => methods(srf, name, a) = Nothing

\* Whatever the offset, a clip rectangle that was read can be set again, although
\* places left of the offset are read as large numbers; and a picture is drawn at
\* the place asked for, where the clip rectangle allows it and nowhere else.
ClipKept(srf, x, y, w, h) ==
    LET clipped == setClip(srf, x, y, w, h)
        read == getClip(clipped)
    IN  /\ setClip(clipped, read[1], read[2], read[3], read[4]) = clipped
        /\ srf.pixels = "own" => \A i \in x .. x + w - 1, j \in y .. y + h - 1 :
            LET at == <<i + srf.offset.x, j + srf.offset.y>>
            IN  at \in (0 .. srf.w - 1) \X (0 .. srf.h - 1) => InClip(clipped, at[1], at[2])

BlitInPlace(src, sx, sy, sw, sh, dst, dx, dy) ==
    LET drawn == blitClip(src, sx, sy, sw, sh, dst, dx, dy)
        at(p) == <<p[1] - sx + dx + dst.offset.x, p[2] - sy + dy + dst.offset.y>>
    IN  /\ drawn \subseteq blit(src, dst, dx - sx, dy - sy)
        /\ Resolved(src) => \A alpha \in {0, 1, 255} :
            blitAlpha(src, dst, dx, dy, alpha).drawn \in {blit(src, dst, dx, dy), {}}
        /\ Resolved(src) /\ dst.pixels = "own" =>
            \A p \in (0 .. src.w - 1) \X (0 .. src.h - 1) :
                p[1] \in sx .. sx + sw - 1 /\ p[2] \in sy .. sy + sh - 1 =>
                    (InClip(dst, at(p)[1], at(p)[2]) <=> (p \o at(p)) \in drawn)

\* What release() has freed is empty, draws nothing and nothing is drawn on it, and
\* only the surfaces made from it before can still be seen; a tile's image is not freed,
\* it is shared.
ReleaseIsSafe(srf, other, turned) ==
    LET r == release(srf)
    IN  /\ srf.pixels # "tile" => getSize(r) = <<0, 0>> /\ getBytes(r) = 0 /\ ~saveBMP(r) /\ Derived(r, turned) = Nothing
        /\ srf.pixels # "tile" => blit(r, other, 0, 0) = {} /\ blit(other, r, 0, 0) = {}
        /\ srf.pixels = "tile" => blit(r, other, 0, 0) = blit(srf, other, 0, 0) /\ getSize(r) = getSize(srf)
        /\ Resolved(srf) => Resolved(Derived(srf, turned)) /\ getClip(Derived(srf, turned)) = <<0, 0, turned.w, turned.h>>

\* Surfaces compare as equal if and only if no pixel differs that is not the key's.
CompareIsFair(a, b, key) ==
    /\ compare(a, b, key) = compare(b, a, key) /\ compare(a, b, key) \in 0 .. 100
    /\ DOMAIN a = DOMAIN b /\ a # Nothing =>
        (compare(a, b, key) = 100 <=> \A p \in DOMAIN a : key \in {a[p], b[p]} \/ a[p] = b[p])
=============================================================================
