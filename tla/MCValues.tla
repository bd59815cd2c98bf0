------------------------------- MODULE MCValues -------------------------------
(* Every small input of the functions that read values: "input" is what one of    *)
(* them is given. Or what an event goes through (Events.tla), when it is          *)
(* "dispatch": two listeners are global, one is unused, one is of the window and  *)
(* one of each of its two widgets, of which the first belongs to the framework.   *)
EXTENDS Measure, TLC

VARIABLES input, lists, ticks, focus, mouseFocus, disp, events, changes

\* TLC counts with 32 bits: a word is of 20 here.
E(wide) == INSTANCE EventValue WITH
    Unspecified <- "unspecified", Nil <- -99999, Error <- <<>>, Word <- 1048576, Wide <- wide
V == INSTANCE StyleValues WITH
    Error <- [error |-> 1], Failed <- [t |-> "failed", v |-> 0], Crash <- -1, DefaultFont <- -2

Listeners == {"global1", "global2", "unused1", "window1", "first1", "second1"}

D == INSTANCE Events WITH
    Widgets <- <<"first", "second">>, GlobalWidgets <- {"first"}, Nobody <- "nobody",
    Ids <- Listeners,
    Place <- [i \in Listeners |->
                 CASE i = "unused1" -> "unused" [] i = "window1" -> "window"
                   [] i = "first1" -> "first" [] i = "second1" -> "second" [] OTHER -> "global"],
    Mask <- [i \in Listeners |->
                CASE i = "first1" -> {"key", "show", "mouse_down", "mouse_up"}
                  [] i = "second1" -> {"show", "mouse_down", "mouse_up"}
                  [] i = "window1" -> {"key", "mouse_up"} [] OTHER -> {"key"}],
    Priority <- [i \in Listeners |-> 1],
    MaxTicks <- 2, MaxEvents <- 3, MaxChanges <- 1

ASSUME D!PlacesAssumption

Endless == [error |-> "hangs"]
Wild == -1

\* Decades of twice as many bins as subbands; four levels of power
M == INSTANCE Spectrum WITH
    ScaleExponent <- 1, MinSubbands <- 4, MaxSubbands <- 8, MinInput <- 16, PowerMap <- <<362, 2048, 11585>>,
    Hangs <- Endless, Crash <- Wild, Garbage <- -2

L == INSTANCE Log WITH Unset <- "unset"

H == INSTANCE Heap WITH Globals <- 0

eventVars == <<lists, ticks, focus, mouseFocus, disp, events, changes>>

Given == {-32769, -1, 0, 5, 65537, 524288, 1048577}
MakeEvent ==
    \E type \in E(TRUE)!Types, n \in 0 .. 5 : \E a \in [1 .. n -> IF n > 3 THEN {-1, 0, 65537} ELSE Given] :
    \E mem \in [code : {7, 40000}, value : {40001}, active : BOOLEAN] :
        input' = [kind |-> "event", type |-> type, args |-> a, mem |-> mem]

Bytes == {V!Number(0), V!Number(128), V!String("left")}
Colours == {V!Table(a) : a \in UNION {[1 .. n -> Bytes] : n \in {0, 2, 3, 4}}}
Formats ==
    {V!Table(a) : a \in
        {<<>>, "font" :> V!Object(3), "height" :> V!Number(7), "font" :> V!Object(5) @@ "height" :> V!Number(8)}}
        \cup {V!Table("fg" :> c @@ "font" :> V!Object(4)) : c \in {c \in Colours : 4 \notin DOMAIN c.v}}

Scalars == {V!Nil, V!Number(3), V!Boolean(TRUE), V!Boolean(FALSE), V!String("top"), V!String("none"), V!Object(9)}

ReadValue == \E x \in Scalars \cup Colours : input' = [kind |-> "style", x |-> x]
ReadFormats ==
    \E keys \in SUBSET {1, 2, 3} : \E a \in [keys -> Formats] : input' = [kind |-> "formats", found |-> V!Table(a)]

\* What a skin may say of the bounds of a widget
Told == [x : {XY_NIL, 3}, y : {XY_NIL, 0}, w : {WH_NIL, 5}, h : {WH_NIL, 4}]
Free == [x |-> XY_NIL, y |-> XY_NIL, w |-> WH_NIL, h |-> WH_NIL]
Paddings == {Inset(0), [left |-> 1, top |-> 2, right |-> 3, bottom |-> 1]}

Fonts == {FontOf(ttf) : ttf \in [ascent : {6}, H : {Nil, 4}, descent : {-3}, g : {Nil, -2}]}
Formatted == {[font |-> f, lineHeight |-> h] : f \in Fonts, h \in {4, 7}}

AskLabel ==
    \E n \in 0 .. 3, padding \in Paddings, align \in {"left", "center", "bottom-right", "top"}, base, other \in Formatted :
    \E widths \in [1 .. n -> {0, 3, 8}], formats \in {<<>>, <<other>>, <<other, base>>} :
        input' = [kind |-> "label", widths |-> widths,
                  label |-> [bounds |-> Rect(0, 0, 9, 9), padding |-> padding, align |-> align, base |-> base,
                             formats |-> formats, widths |-> <<>>, textW |-> 0, textH |-> 0, offset |-> 0, handle |-> 0]]

AskArea ==
    \E lines, top, visible \in 0 .. 4, height \in 1 .. 3, pixels \in -2 .. 0, padding \in Paddings, h \in 4 .. 12, header \in BOOLEAN :
        /\ -pixels < height /\ top + visible <= Max2(lines, visible)
        /\ input' = [kind |-> "area",
                     area |-> [bounds |-> Rect(0, 5, 9, h), padding |-> padding, lines |-> lines, lineHeight |-> height,
                               top |-> top, visible |-> visible, pixels |-> pixels, header |-> header, yOffset |-> -1, menuH |-> 9]]

AskMenu ==
    \E size \in 0 .. 5, height, line \in 1 .. 3, most \in {0, 2, 5, 9, 14, WH_NIL}, p \in Told, hide \in BOOLEAN :
        input' = [kind |-> "menu", most |-> most, p |-> p,
                  menu |-> [bounds |-> Rect(0, 0, 9, 9), padding |-> Inset(0), listSize |-> size, itemHeight |-> height,
                            itemsPerLine |-> line, hideScrollbar |-> hide]]

PointAt ==
    \E x, y \in 0 .. 6, padding \in Paddings, bounds \in {Rect(-1, 2, 4, 3), Rect(0, 0, 6, 6), Rect(3, 3, 0, 2)} :
        input' = [kind |-> "mouse", v |-> [bounds |-> bounds, padding |-> padding], at |-> [x |-> x, y |-> y]]

TurnWheel ==
    \E n \in 0 .. 3, wheel \in 1 .. 4 : \E text \in [1 .. n -> 1 .. wheel], cursor \in 1 .. n + 1 :
    \E indent \in 0 .. Max2(0, cursor - 2) :
        input' = [kind |-> "wheel", chars |-> [i \in 1 .. wheel |-> i], text |-> text, cursor |-> cursor, indent |-> indent]

DrawGroup ==
    \E n \in 0 .. 3 : \E hidden \in [1 .. n -> BOOLEAN], parent \in [1 .. n -> 1 .. 2], order \in Permutations(1 .. n) :
        LET all == [i \in 1 .. n |-> [id |-> i, hidden |-> hidden[i], parent |-> parent[i]]]
        IN  \E ordered \in {<<>>, [i \in 1 .. n |-> all[order[i]]]} :
                input' = [kind |-> "draw", group |-> [id |-> 1, widgets |-> all, ordered |-> ordered]]

\* A meter of every shape, after another that had two bars or none on the right
SetUpSpectrum ==
    \E width \in {0, 3, 7, 12, 18}, left \in {1, 2, 3}, right \in {1, 2, 5}, mono, clip1, clip2, flipped, playing \in BOOLEAN :
    \E before \in {[bars |-> 0, perBar |-> 0], [bars |-> 2, perBar |-> 1]}, loud \in {0, 9, 400} :
        input' = [kind |-> "spectrum", before |-> before, loud |-> loud, playing |-> playing,
                  p |-> [mono |-> mono, width |-> <<width, width>>, bar |-> <<left, right>>,
                         clip |-> <<clip1, clip2>>, flipped |-> <<flipped, ~flipped>>]]

SetUpDecades == \E bands \in {4, 8, 16, 32} : input' = [kind |-> "decades", bands |-> bands, window |-> 4 * bands]

\* The player writes a frame of two samples at a time.
ReadSamples ==
    \E frames \in 1 .. 5, n \in 0 .. 6 : \E frame \in 0 .. frames - 1, loud \in {-32768, -300, 255, 32767} :
        input' = [kind |-> "samples", idx |-> 2 * frame, len |-> 2 * frames, n |-> n,
                  samples |-> [i \in 1 .. n |-> IF i = 1 THEN loud ELSE 300]]

Confs == [stdout : {"unset", "ERROR"}, syslog : {"unset", "INFO"},
          categories : {<<>>, <<[name |-> "a", level |-> "INFO"]>>,
                        <<[name |-> "b", level |-> "WARN"], [name |-> "a", level |-> "loud"]>>}]
LogCalls ==
    [op : {"logger"}, name : {"a", "b"}] \cup [op : {"setLevel"}, name : {"a", "b"}, level : {"DEBUG", "ERROR"}]
        \cup [op : {"init"}, found : {<<>>} \cup {<<conf>> : conf \in Confs}]
SetLevels == \E n \in 0 .. 3 : \E calls \in [1 .. n -> LogCalls] : input' = [kind |-> "log", calls |-> calls]

FindFile ==
    \E dirs \in {<<>>, <<"d">>, <<"e", "d">>, <<"d", "e", "d">>} : \E exists \in SUBSET ({"", "home", "d", "e"} \X {"f"}) :
        input' = [kind |-> "find", exists |-> exists,
                  templates |-> [i \in DOMAIN dirs |-> [dir |-> dirs[i], file |-> "?.lua"]]]

Objects(refs) ==
    {[kind |-> "table", entries |-> refs, env |-> {}, meta |-> m] : m \in {{}, {2}}}
        \cup {[kind |-> "userdata", entries |-> {}, env |-> {}, meta |-> refs],
              [kind |-> "function", entries |-> {}, env |-> refs, meta |-> {}]}
Object == UNION {Objects(refs) : refs \in {{}, {1}, {0, 2}}}
InspectHeap ==
    \E refs \in SUBSET {1, 2}, more \in SUBSET {1, 2}, o1, o2, later \in Object :
        LET heap == (0 :> [kind |-> "table", entries |-> refs, env |-> {}, meta |-> {}]) @@ (1 :> o1) @@ (2 :> o2)
        IN  input' = [kind |-> "heap", before |-> heap, now |-> [heap EXCEPT ![0].entries = more, ![1] = later]]

Init ==
    /\ D!Init
    /\ \/ input = [kind |-> "dispatch"]
       \/ input = [kind |-> "none"] /\ focus = "nobody" /\ \A place \in D!Places : lists[place] = <<>>

Next ==
    \/ /\ input.kind = "none"
       /\ \/ MakeEvent \/ ReadValue \/ ReadFormats
          \/ SetUpSpectrum \/ SetUpDecades \/ ReadSamples \/ SetLevels \/ FindFile \/ InspectHeap
          \/ AskLabel \/ AskArea \/ AskMenu \/ PointAt \/ TurnWheel \/ DrawGroup
       /\ UNCHANGED eventVars
    \/ input.kind = "dispatch" /\ D!Next /\ UNCHANGED input

Spec == Init /\ [][Next]_<<input, eventVars>>

-----------------------------------------------------------------------------
(* Properties *)

HeardOnce == D!HeardOnce /\ D!InOrder
ConsumedStops == D!ConsumedStops

\* What is read is what was given: of an event by the one getter that is for it, of a
\* skin's style line by line, of the levels of a log the last one set, of the files the
\* user's first; and an inspection of the heap counts what is there (jive_event.c,
\* jive_style.c, log.c, system.c, jive_debug.c).
ReadAsGiven ==
    /\ input.kind = "event" => \A wide \in BOOLEAN : E(wide)!ReadsBack(input.type, input.args, input.mem)
    /\ input.kind = "style" => V!ValuesRead(input.x, 5)
    /\ input.kind = "formats" => V!FormatsRead(input.found, 11)
    /\ input.kind = "log" => L!LevelsKept(input.calls, {"a", "b"})
    /\ input.kind = "find" => L!UserFilesFirst("f", input.templates, "home", input.exists)
    /\ input.kind = "heap" => H!HeapCounted(input.before, input.now)

\* A meter shows as many bars as fit, each from subbands of its own, and the last samples
\* that were played (visualizer_spectrum_init, visualizer_spectrum, visualizer_vumeter).
\* One with less room than a bar is never set up: the loop for the logarithm has no end.
MetersRead ==
    /\ input.kind = "spectrum" =>
          LET setup == M!SetUp(input.p, input.before)
              power == [c \in M!Channels |-> [s \in 1 .. setup.bands |-> (input.loud * s) \div c]]
          IN  IF setup = Endless THEN M!Fit(input.p, 1) = 0
              ELSE M!BarsFit(input.p, setup) /\ M!BarsShown(setup, power, input.playing)
    /\ input.kind = "decades" => M!DecadesTile(input)
    /\ input.kind = "samples" =>
          /\ input.n > 0 => M!SamplesAreLast(input.idx, input.len, input.n)
          /\ \A playing \in BOOLEAN : (M!VuMeter(playing, input.samples, input.n) = Wild) = (input.n = 0)

\* A widget that gets the size it asks for shows all of its lines or items, with no
\* gap between them (the _get_preferred_bounds of jive_label.c, jive_textarea.c and
\* jive_menu.c with their layouts and draws).
AskedSuffices ==
    /\ input.kind = "label" => LabelFits(input.label, input.widths, Free)
    /\ input.kind = "area" => LinesDrawn(input.area, Free)
    /\ input.kind = "menu" => /\ MenuFitsAsked(input.menu, input.p, input.most)
                              /\ AsksAsTold(input.p, [w |-> 2, h |-> 1], input.menu)

\* What is drawn is what input acts on: the widgets that belong to a group and are not
\* hidden, the pixels of a widget, and the letters of the wheel that a step up or down
\* would choose (jiveL_group_draw, jiveL_widget_mouse_inside, jiveL_textinput_draw,
\* Textinput.lua _scroll).
SeenIsActedOn ==
    /\ input.kind = "draw" => DrawnOnce(input.group)
    /\ input.kind = "mouse" => MouseFound(input.v, input.at)
    /\ input.kind = "wheel" => WheelPredicts(input.chars, input.text, input.cursor, input.indent)
=============================================================================
