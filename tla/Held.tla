-------------------------------- MODULE Held ---------------------------------
(***************************************************************************)
(* What is held and must be given back: fonts that are open (jive_font.c),   *)
(* the fonts and images in the peers of widgets (jive_label.c and the other  *)
(* widgets), and the memory shared with a player (visualizer.c); and what is *)
(* kept and must not go stale: the styles of widgets (jive_style.c). They    *)
(* have no variable in common.                                              *)
(***************************************************************************)
EXTENDS Integers, FiniteSets

CONSTANTS
    Fonts, Missing,     \* fonts, by name and size: those that can be opened, and others
    MaxUses,            \* bound: references to one font
    Widgets, Kinds,     \* widgets, and the kinds that they may be of
    Images,             \* tiles and surfaces
    MaxLost,            \* bound: references that nobody will give back
    Blocks, Recent, MaxTime,    \* of shared memory, see Visualizer.tla
    None,               \* no tile, surface, block or style modifier
    Chain, Styles, Skins, WindowStyles, DefaultStyle, MaxSets     \* see Style.tla

ASSUME HeldAssumption ==
    /\ Fonts \cap Missing = {} /\ Fonts \cap Images = {}
    /\ None \notin Fonts \cup Images \cup Blocks
    /\ IsFiniteSet(Widgets)
    /\ Kinds \subseteq [Widgets -> {"group", "window", "slider", "icon",
                                   "label", "menu", "textarea", "textinput"}]
    /\ {MaxUses, Recent, MaxTime} \subseteq Nat

VARIABLES
    fonts, ttf, uses,                   \* FontList.tla
    kind, count, script, held, lost,    \* Peers.tla
    now, named, player, block, mapped, running, lastopen, meter,    \* Visualizer.tla
    style, modifier, stylePath, skinned, shown, skin, cache, missed, sets       \* Style.tla

F == INSTANCE FontList WITH Fonts <- Fonts \cup Missing

P == INSTANCE Peers WITH Null <- None

V == INSTANCE Visualizer WITH Nil <- None

S == INSTANCE Style WITH
    Widgets <- {Chain[i] : i \in DOMAIN Chain}, Names <- Styles, NoName <- None, Default <- DefaultStyle

ASSUME ChainAssumption == S!ChainAssumption

HeldSpec == F!Spec /\ P!Spec /\ V!Spec

\* What somebody holds is open, counted and mapped, and let go of when it is left
\* (jive_font.c, the _skin and __gc of the widgets, visualizer.c).
HeldIsThere == F!HeldIsOpen /\ P!HeldIsCounted /\ V!SharedMemory

\* See Style.tla (jive_style.c).
LooksAsStyled == S!LooksAsStyled
=============================================================================
