----------------------------- MODULE MCResources -----------------------------
(* Two tiles with up to two images, of four files, in a pool of four entries;  *)
(* two fonts and one that is missing; a window, a menu and an item; two widgets  *)
(* of every kind that holds fonts and images. Two blocks of shared memory, and  *)
(* a file of settings. They share nothing: one of them moves, so that their    *)
(* states add up.                                                              *)
EXTENDS Files, Held, TLC

VARIABLES images, n_images, lru, tiles, booted, fetched, wild,
    moves   \* the one that does

CONSTANTS Paths, Broken, Icon, Tiles, Nil, Slots, MaxImages, MaxLoaded, MaxRefs,
    window, menu, item, plain, bold, w1, w2

I == INSTANCE ImagePool

At1 == <<plain>> :> 1
At2 == (<<plain, plain>> :> 2) @@ (<<bold>> :> 3)
At3 == (<<bold, plain>> :> 4) @@ (<<plain>> :> 5) @@ (<<plain, bold, plain>> :> 6)

MCChain == <<window, menu, item>>
MCSkins == {At1, At2, At3}
MCWindowStyles == <<plain>> :> 7

\* Every kind of widget
MCKinds ==
    {w1 :> "icon" @@ w2 :> "label", w1 :> "group" @@ w2 :> "menu",
     w1 :> "window" @@ w2 :> "textarea", w1 :> "slider" @@ w2 :> "textinput"}

styleVars == <<style, modifier, stylePath, skinned, shown, skin, cache, missed, sets>>
fontVars == <<fonts, ttf, uses>>
peerVars == <<kind, count, script, held, lost>>
meterVars == <<now, named, player, block, mapped, running, lastopen, meter>>
imageVars == <<images, n_images, lru, tiles, booted, fetched, wild>>

AllInit ==
    /\ moves \in {"images", "fonts", "style", "peers", "meters", "files"}
    /\ Init /\ I!Init /\ S!Init /\ F!Init /\ P!Init /\ V!Init
    /\ moves # "files" => build = "fsync"
    /\ moves # "style" => skin = At1 /\ style = [w \in {window, menu, item} |-> plain]
    /\ moves # "peers" => kind[w2] = "label"

AllNext ==
    \/ moves = "images" /\ I!Next /\ UNCHANGED <<moves, styleVars, fontVars, peerVars, meterVars, vars>>
    \/ moves = "style" /\ S!Next /\ UNCHANGED <<moves, imageVars, fontVars, peerVars, meterVars, vars>>
    \/ moves = "fonts" /\ F!Next /\ UNCHANGED <<moves, imageVars, styleVars, peerVars, meterVars, vars>>
    \/ moves = "peers" /\ P!Next /\ UNCHANGED <<moves, imageVars, styleVars, fontVars, meterVars, vars>>
    \/ moves = "meters" /\ V!Next /\ UNCHANGED <<moves, imageVars, styleVars, fontVars, peerVars, vars>>
    \/ moves = "files" /\ Next /\ UNCHANGED <<moves, imageVars, styleVars, fontVars, peerVars, meterVars>>

AllSpec == AllInit /\ [][AllNext]_<<moves, imageVars, styleVars, fontVars, peerVars, meterVars, vars>>

\* The pool of images (ImagePool.tla)
PoolAgrees == I!PoolAgrees
DrawnFromMemory == I!DrawnFromMemory

Same == Permutations(Tiles) \cup Permutations(Paths \ Broken)
=============================================================================
