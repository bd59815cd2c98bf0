----------------------------- MODULE StyleValues -----------------------------
(***************************************************************************)
(* What a widget reads out of a value of a skin (src/jive_style.c): values   *)
(* of Lua are tagged with their type, tables are functions, a function of a  *)
(* skin is what it returns, or Failed. A colour of 32 bits is its 4 bytes.   *)
(* Lookup of the value by the path of styles is in module Style.             *)
(***************************************************************************)
EXTENDS Integers, Sequences, FiniteSets, FiniteSetsExt

CONSTANTS Error,    \* luaL_error
          Failed,   \* the error of a function of a skin, which is logged
          Crash,    \* a read through NULL
          DefaultFont

Black == <<0, 0, 0, 255>>

Nil == [t |-> "nil", v |-> 0]
Number(n) == [t |-> "number", v |-> n]
Boolean(b) == [t |-> "boolean", v |-> b]
String(s) == [t |-> "string", v |-> s]
Table(f) == [t |-> "table", v |-> f]
Object(o) == [t |-> "userdata", v |-> o]
Function(result) == [t |-> "function", v |-> result]

IsNil(x) == x.t = "nil"

\* jiveL_style_rawvalue found nothing: the default
Or(found, def) == IF IsNil(found) THEN def ELSE found

\* jiveL_style_value
styleValue(found, def) ==
    LET x == Or(found, def) IN IF x.t = "function" THEN x.v ELSE x

ToInteger(x) == CASE x.t = "number" -> x.v [] x.t = "boolean" -> IF x.v THEN 1 ELSE 0 [] OTHER -> 0

\* lua_call makes nil of what a failing function does not return.
Called(x) == IF x = Failed THEN Nil ELSE x

At(table, i) == IF i \in DOMAIN table.v THEN table.v[i] ELSE Nil

\* jive_style_int
styleInt(found, def) == ToInteger(Called(styleValue(found, Number(def))))

-----------------------------------------------------------------------------
(* Arrays: their functions are not run. *)

\* jiveL_style_array_value
arrayValue(found, n, key, def) ==
    IF found.t # "table" THEN def
    ELSE LET entry == At(found, n)
         IN  IF IsNil(entry) THEN def ELSE Or(At(entry, key), def)

\* jive_style_array_size: the array may have holes; other keys count as 0.
arraySize(found) ==
    LET x == Called(styleValue(found, Nil))
    IN  IF x.t # "table" THEN 0 ELSE Max({0} \cup (DOMAIN x.v \cap Nat))

\* jive_style_array_int
arrayInt(found, n, key, def) == ToInteger(arrayValue(found, n, key, Number(def)))

\* jive_style_array_font has no default: there is nothing behind a nil.
arrayFont(found, n, key) ==
    LET x == arrayValue(found, n, key, Nil) IN IF x.t = "userdata" THEN x.v ELSE Crash

-----------------------------------------------------------------------------
(* Colours: components are bytes; a larger one would run into its neighbour.  *)

\* What follows the lookup in jiveL_style_color and jiveL_style_array_color. An empty
\* table means "not set", and so does a failing function, which leaves the table of
\* the cache on the stack.
Colour(x) ==
    IF x = Failed THEN Nil
    ELSE IF IsNil(x) THEN Nil
    ELSE IF x.t # "table" THEN Error
    ELSE IF DOMAIN x.v = {} THEN Nil
    ELSE IF \E i \in 1 .. 3 : At(x, i).t # "number" THEN Error
    ELSE Number([i \in 1 .. 4 |-> IF i = 4 /\ At(x, 4).t # "number" THEN 255 ELSE At(x, i).v])

IfSet(colour, def) ==
    IF colour = Error THEN Error
    ELSE IF IsNil(colour) THEN [colour |-> def, set |-> FALSE] ELSE [colour |-> colour.v, set |-> TRUE]

\* jiveL_style_color, jive_style_color
styleColor(found, def) == IfSet(Colour(styleValue(found, Nil)), def)

\* jiveL_style_array_color, jive_style_array_color
arrayColor(found, n, key, def) == IfSet(Colour(arrayValue(found, n, key, Nil)), def)

-----------------------------------------------------------------------------
\* jive_style_font: a failing function leaves a table of the cache on the stack, and
\* no font is behind it.
styleFont(found) ==
    LET x == styleValue(found, Nil)
    IN  IF x = Failed THEN Crash
        ELSE IF IsNil(x) THEN DefaultFont ELSE IF x.t = "userdata" THEN x.v ELSE Crash

\* jive_style_image, jive_style_tile
styleObject(found, def) ==
    LET x == Called(styleValue(found, Object(def))) IN IF x.t = "userdata" THEN x.v ELSE def

Options == {"center", "left", "right", "top", "bottom", "top-left", "top-right", "bottom-left", "bottom-right"}

\* jive_style_align: luaL_checkoption
styleAlign(found, def) ==
    LET x == Called(styleValue(found, Nil))
    IN  IF IsNil(x) THEN def
        ELSE IF x.t # "string" THEN Error ELSE IF x.v \in Options THEN x.v ELSE Error

\* jive_style_insets: left, top, right, bottom
styleInsets(found) ==
    LET x == Called(styleValue(found, Nil))
    IN  CASE x.t = "number" -> [i \in 1 .. 4 |-> x.v]
          [] x.t = "table" -> IF \E i \in 1 .. 4 : At(x, i).t \notin {"nil", "number"} THEN Error
                              ELSE [i \in 1 .. 4 |-> At(x, i).v]
          [] OTHER -> [i \in 1 .. 4 |-> 0]

\* The formats of a label's lines (jiveL_label_skin): the height is that of its font
\* when the skin has none.
LabelFormats(found, capheight) ==
    [i \in 1 .. arraySize(found) |->
        [font |-> arrayFont(found, i, "font"), height |-> arrayInt(found, i, "height", capheight),
         fg |-> arrayColor(found, i, "fg", Black), sh |-> arrayColor(found, i, "sh", Black)]]

-----------------------------------------------------------------------------
(* Properties *)

\* Of a list of formats a label takes every one: a height, a colour or a font that is
\* given is used, none that belongs to another line, and the default when there is
\* none. An entry without a font, or a hole before the last entry, brings it down.
FormatsRead(found, capheight) ==
    LET formats == LabelFormats(found, capheight)
        Given(i, key) == IF i \in DOMAIN found.v THEN IF IsNil(found.v[i]) THEN Nil ELSE At(found.v[i], key) ELSE Nil
    IN  found.t = "table" =>
        /\ \A i \in DOMAIN found.v \cap Nat : i \in DOMAIN formats
        /\ \A i \in DOMAIN formats :
            /\ formats[i].font = (IF Given(i, "font").t = "userdata" THEN Given(i, "font").v ELSE Crash)
            /\ formats[i].height = (IF IsNil(Given(i, "height")) THEN capheight ELSE Given(i, "height").v)
            /\ formats[i].fg # Error =>
                  formats[i].fg.set <=> (~IsNil(Given(i, "fg")) /\ DOMAIN Given(i, "fg").v # {})

\* A value of a skin reads the same whether it stands there or a function returns it;
\* a function that fails counts as no value, but 0 for a number, and brings down what
\* asks it for a font. Other types are refused or ignored, never taken for the value.
ValuesRead(x, n) ==
    /\ ~IsNil(x) => \A found \in {x, Function(x)} :
        /\ styleInt(found, n) = (IF x.t = "number" THEN x.v ELSE IF x.t = "boolean" THEN IF x.v THEN 1 ELSE 0 ELSE 0)
        /\ styleInsets(found) = styleInsets(x) /\ styleAlign(found, "left") = styleAlign(x, "left")
        /\ styleColor(found, Black) = styleColor(x, Black)
        /\ styleObject(found, n) = (IF x.t = "userdata" THEN x.v ELSE n)
        /\ styleFont(found) = (IF x.t = "userdata" THEN x.v ELSE Crash)
    /\ IsNil(x) => styleInt(x, n) = n /\ styleFont(x) = DefaultFont /\ styleObject(x, n) = n
    /\ LET found == Function(Failed)
       IN  /\ styleInt(found, n) = 0 /\ styleAlign(found, "left") = "left" /\ styleObject(found, n) = n
           /\ styleColor(found, Black) = [colour |-> Black, set |-> FALSE]
           /\ styleFont(found) = Crash
    /\ x.t = "table" => LET c == styleColor(x, Black)
                        IN  (c # Error /\ c.set) => \A i \in 1 .. 3 : c.colour[i] = x.v[i].v
=============================================================================
