-------------------------------- MODULE Peers --------------------------------
(***************************************************************************)
(* What the peers of widgets hold: the _skin and gc functions of             *)
(* jive_group.c, jive_window.c, jive_label.c, jive_menu.c, jive_textarea.c,  *)
(* jive_textinput.c, jive_slider.c and jive_icon.c. Fonts, tiles and         *)
(* surfaces count their references; a peer keeps what its style gave it from *)
(* one skinning to the next, and gives it back when it is collected.         *)
(***************************************************************************)
EXTENDS Naturals, FiniteSets

CONSTANTS
    Widgets,
    Kinds,      \* what the widgets may be: functions to group, window, ... , icon
    Fonts, Images,
    Null,       \* no tile or surface
    MaxLost     \* bound: references that nobody will give back

VARIABLES
    kind,       \* of every widget, once and for all
    count,      \* references that the C code counts for a font or an image
    script,     \* references of Lua: of the skin, mostly
    held,       \* what the peer of every widget holds in each field
    lost        \* history: references that a peer forgot

vars == <<kind, count, script, held, lost>>

Resources == Fonts \cup Images

\* The fields of the peers, and what skinning does to them: "swap" takes the new
\* one and frees the old one if they differ, "first" frees the old one first,
\* "over" forgets the old one.
GroupSkin == [tile |-> "swap"]
WindowSkin == [tile |-> "swap", image |-> "swap"]
SliderSkin == [tile |-> "swap", image |-> "swap"]
IconSkin == [tile |-> "swap", image |-> "swap", value |-> "swap"]
LabelSkin == [font |-> "first", tile |-> "swap"]
MenuSkin == [font |-> "over"]
TextareaSkin == [font |-> "over", tile |-> "swap"]
\* Three fonts and five tiles, all treated alike
TextinputSkin == [font |-> "over", tile |-> "swap"]

Fields(k) ==
    CASE k = "group" -> GroupSkin [] k = "window" -> WindowSkin [] k = "slider" -> SliderSkin
      [] k = "icon" -> IconSkin [] k = "label" -> LabelSkin [] k = "menu" -> MenuSkin
      [] k = "textarea" -> TextareaSkin [] k = "textinput" -> TextinputSkin

\* What the gc functions free: that of icons leaves the tile.
GroupGc == {"tile"}
WindowGc == {"tile", "image"}
SliderGc == {"tile", "image"}
IconGc == {"image", "value"}
LabelGc == {"font", "tile"}
MenuGc == {"font"}
TextareaGc == {"font", "tile"}
TextinputGc == {"font", "tile"}

Collected(k) ==
    CASE k = "group" -> GroupGc [] k = "window" -> WindowGc [] k = "slider" -> SliderGc
      [] k = "icon" -> IconGc [] k = "label" -> LabelGc [] k = "menu" -> MenuGc
      [] k = "textarea" -> TextareaGc [] k = "textinput" -> TextinputGc

Nothing(w) == [f \in DOMAIN Fields(kind[w]) |-> Null]

Init ==
    /\ kind \in Kinds
    /\ count = [r \in Resources |-> 0]
    /\ script = [r \in Resources |-> 0]
    /\ held = [w \in Widgets |-> Nothing(w)]
    /\ lost = [r \in Resources |-> 0]

-----------------------------------------------------------------------------
\* The skin loads a font or an image, and Lua collects it.
Load(r) ==
    /\ script[r] = 0
    /\ script' = [script EXCEPT ![r] = 1]
    /\ count' = [count EXCEPT ![r] = @ + 1]
    /\ UNCHANGED <<kind, held, lost>>

Drop(r) ==
    /\ script[r] > 0
    /\ script' = [script EXCEPT ![r] = 0]
    /\ count' = [count EXCEPT ![r] = @ - 1]
    /\ UNCHANGED <<kind, held, lost>>

\* What the style may give for a field: what Lua has, or no tile or surface. An
\* icon shows the image of the skin, or the one that it was given.
Looks(w, f, look) ==
    CASE f = "font" -> {r \in Fonts : script[r] > 0}
      [] f \in {"tile", "image"} -> {r \in Images : script[r] > 0} \cup {Null}
      [] f = "value" -> {look.image, held[w].value}

Replaced(w, look, r) == {f \in DOMAIN look : held[w][f] = r /\ Fields(kind[w])[f] = "over"}

\* A tile that is not replaced is not counted again.
Freed(w, look, r) ==
    {f \in DOMAIN look : held[w][f] = r /\ Fields(kind[w])[f] # "over"
                         /\ (Fields(kind[w])[f] = "first" \/ look[f] # r)}

Taken_NotCounted(w, look, r) ==
    {f \in DOMAIN look : look[f] = r /\ Fields(kind[w])[f] # "swap"}

Taken(w, look, r) ==
    {f \in DOMAIN look : look[f] = r /\ ~(Fields(kind[w])[f] = "swap" /\ held[w][f] = r)}

Skin(w) ==
    \E look \in [DOMAIN Fields(kind[w]) -> Resources \cup {Null}] :
        /\ \A f \in DOMAIN look : look[f] \in Looks(w, f, look)
        /\ held' = [held EXCEPT ![w] = look]
        /\ count' = [r \in Resources |->
              count[r] + Cardinality(Taken(w, look, r)) - Cardinality(Freed(w, look, r))]
        /\ lost' = [r \in Resources |-> lost[r] + Cardinality(Replaced(w, look, r))]
        /\ \A r \in Resources : lost'[r] <= MaxLost
        /\ UNCHANGED <<kind, script>>

\* Icon:setValue() shows a surface of Lua instead of the one of the skin.
SetImage(w) ==
    \E r \in Images :
        /\ kind[w] = "icon" /\ script[r] > 0 /\ held[w].value # r
        /\ held' = [held EXCEPT ![w].value = r]
        /\ count' = [q \in Resources |->
              count[q] + (IF q = r THEN 1 ELSE 0) - (IF q = held[w].value THEN 1 ELSE 0)]
        /\ UNCHANGED <<kind, script, lost>>

\* The widget is collected; a new one takes its place here.
Collect(w) ==
    LET by(r, fields) == Cardinality({f \in fields : held[w][f] = r})
    IN  /\ held' = [held EXCEPT ![w] = Nothing(w)]
        /\ count' = [r \in Resources |-> count[r] - by(r, Collected(kind[w]))]
        /\ lost' = [r \in Resources |-> lost[r] + by(r, DOMAIN held[w] \ Collected(kind[w]))]
        /\ \A r \in Resources : lost'[r] <= MaxLost
        /\ UNCHANGED <<kind, script>>

Next ==
    \/ \E r \in Resources : Load(r) \/ Drop(r)
    \/ \E w \in Widgets : Skin(w) \/ SetImage(w) \/ Collect(w)

Spec == Init /\ [][Next]_vars

-----------------------------------------------------------------------------
\* The fields of peers that hold r
Holders(r) ==
    {p \in Widgets \X {"font", "tile", "image", "value"} :
        p[2] \in DOMAIN held[p[1]] /\ held[p[1]][p[2]] = r}

\* Nothing that a peer or Lua holds is freed, and nothing is kept for ever but
\* the fonts that menus, textareas and textinputs forget when they are skinned
\* again, and the background of icons.
HeldIsCounted ==
    \A r \in Resources :
        /\ count[r] = script[r] + lost[r] + Cardinality(Holders(r))
        /\ lost[r] > 0 => \E w \in Widgets :
              IF r \in Fonts THEN kind[w] \in {"menu", "textarea", "textinput"} ELSE kind[w] = "icon"
=============================================================================
