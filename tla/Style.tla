-------------------------------- MODULE Style --------------------------------
(***************************************************************************)
(* How widgets get their looks: src/jive_style.c. The styles of a widget and *)
(* its parents make a path; the value of a key is at the longest end of the  *)
(* path that the skin knows. A widget keeps its path from one skinning to    *)
(* the next, and what was found is cached by path.                           *)
(***************************************************************************)
EXTENDS Naturals, Sequences

CONSTANTS
    Widgets,
    Chain,          \* the widgets from the window down to the innermost one
    Names,          \* styles and style modifiers
    NoName,         \* no style modifier
    Skins,          \* skins: each gives values to some paths
    WindowStyles,     \* the skin of the window itself
    Default,        \* the default that the widget's _skin passes
    MaxSets         \* bound: changes of styles

ChainAssumption ==
    /\ Chain \in Seq(Widgets)
    /\ \A w \in Widgets : \E i \in DOMAIN Chain : Chain[i] = w
    /\ \A i, j \in DOMAIN Chain : Chain[i] = Chain[j] => i = j

VARIABLES
    style, modifier,    \* of every widget
    stylePath,          \* _stylePath of every widget
    skinned,            \* the widget needs no _skin
    shown,              \* the value in the peer of the widget
    skin,               \* jive.ui.style
    cache,              \* jiveStyleCache, with the marker Nothing for nil
    missed,             \* history: widgets with a grandparent that changed
    sets

vars == <<style, modifier, stylePath, skinned, shown, skin, cache, missed, sets>>

Nothing == 0     \* nil, no value of a style

At(w) == CHOOSE i \in DOMAIN Chain : Chain[i] = w

\* jiveL_style_path: modifiers come before the style they modify.
Part(styles, modifiers, w) ==
    (IF modifiers[w] = NoName THEN <<>> ELSE <<modifiers[w]>>) \o <<styles[w]>>

PathOf(styles, modifiers, w) ==
    LET to[i \in 0 .. Len(Chain)] ==
            IF i = 0 THEN <<>> ELSE to[i - 1] \o Part(styles, modifiers, Chain[i])
    IN  to[At(w)]

Path(w) == PathOf(style, modifier, w)

\* search_path, jiveL_style_find_value
Find(tables, path) ==
    LET known == {i \in 1 .. Len(path) : SubSeq(path, i, Len(path)) \in DOMAIN tables}
    IN  IF known = {} THEN Nothing
        ELSE tables[SubSeq(path, CHOOSE i \in known : \A j \in known : i <= j, Len(path))]

\* jiveL_style_rawvalue: the skin, then the skin of the window, then the default
Value(found, path) ==
    IF found # Nothing THEN found
    ELSE LET own == Find(WindowStyles, path) IN IF own # Nothing THEN own ELSE Default

Cached(c, path) == IF path \in DOMAIN c THEN c[path] ELSE Find(skin, path)

Filled(c, path) == [p \in DOMAIN c \cup {path} |-> Cached(c, p)]

Init ==
    /\ style \in [Widgets -> Names] /\ modifier = [w \in Widgets |-> NoName]
    /\ stylePath = [w \in Widgets |-> <<>>]
    /\ skinned = [w \in Widgets |-> FALSE]
    /\ shown = [w \in Widgets |-> Default]
    /\ skin \in Skins
    /\ cache = [p \in {} |-> Nothing]
    /\ missed = {} /\ sets = 0

-----------------------------------------------------------------------------
\* The widget and its children are skinned again; their children are not.
ReSkin(w) == skinned' = [v \in Widgets |-> skinned[v] /\ At(v) \notin {At(w), At(w) + 1}]

Restyled(w) ==
    /\ sets < MaxSets /\ sets' = sets + 1
    /\ ReSkin(w)
    /\ missed' = missed \cup {v \in Widgets : At(v) > At(w) + 1}
    /\ UNCHANGED <<stylePath, shown, skin, cache>>

SetStyle(w, name) ==
    /\ style[w] # name /\ style' = [style EXCEPT ![w] = name]
    /\ Restyled(w)
    /\ UNCHANGED modifier

SetStyleModifier(w, name) ==
    /\ modifier[w] # name /\ modifier' = [modifier EXCEPT ![w] = name]
    /\ Restyled(w)
    /\ UNCHANGED style

\* A skin is loaded, then Framework:styleChanged() is called.
StyleChanged_KeepsCache(tables) ==
    /\ skin' = tables
    /\ skinned' = [w \in Widgets |-> FALSE]
    /\ UNCHANGED <<style, modifier, stylePath, shown, cache, missed>>

StyleChanged(tables) ==
    /\ skin' = tables
    /\ skinned' = [w \in Widgets |-> FALSE]
    /\ cache' = [p \in {} |-> Nothing]
    /\ UNCHANGED <<style, modifier, stylePath, shown, missed>>

\* A layout skins what needs it. Every _skin begins with a new path.
Skinned == {w \in Widgets : ~skinned[w]}

Frame ==
    LET filled == [p \in DOMAIN cache \cup {Path(w) : w \in Skinned} |-> Cached(cache, p)]
    IN  /\ Skinned # {}
        /\ skinned' = [w \in Widgets |-> TRUE]
        /\ stylePath' = [w \in Widgets |-> IF w \in Skinned THEN Path(w) ELSE stylePath[w]]
        /\ cache' = filled
        /\ shown' = [w \in Widgets |->
              IF w \in Skinned THEN Value(filled[Path(w)], Path(w)) ELSE shown[w]]
        /\ missed' = missed \ Skinned
        /\ UNCHANGED <<style, modifier, skin, sets>>

\* styleValue() from Lua goes by the path that the widget has.
StyleValue(w) ==
    LET path == IF stylePath[w] = <<>> THEN Path(w) ELSE stylePath[w]
    IN  /\ stylePath' = [stylePath EXCEPT ![w] = path]
        /\ cache' = Filled(cache, path)
        /\ UNCHANGED <<style, modifier, skinned, shown, skin, missed, sets>>

Next ==
    \/ \E w \in Widgets, name \in Names : SetStyle(w, name)
    \/ \E w \in Widgets, name \in Names \cup {NoName} : SetStyleModifier(w, name)
    \/ \E tables \in Skins : sets < MaxSets /\ sets' = sets + 1 /\ StyleChanged(tables)
    \/ Frame
    \/ \E w \in Widgets : StyleValue(w)

Spec == Init /\ [][Next]_vars

-----------------------------------------------------------------------------
\* What is cached is what the skin says, and a widget that is skinned looks as
\* the skin says for its styles and those of its parents; unless the style of a
\* grandparent changed, which only the children are told.
LooksAsStyled ==
    /\ \A p \in DOMAIN cache : cache[p] = Find(skin, p)
    /\ \A w \in Widgets \ missed :
          skinned[w] => shown[w] = Value(Find(skin, Path(w)), Path(w))
=============================================================================
