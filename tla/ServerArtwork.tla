--------------------------- MODULE ServerArtwork ----------------------------
(***************************************************************************)
(* The artwork of one server (Artwork.tla), and the cache of its pictures    *)
(* seen from inside (ArtworkCache.tla). They have no variable in common:     *)
(* "moves" says which of them a behaviour is about.                          *)
(***************************************************************************)
EXTENDS Artwork

CONSTANTS Pictures, Absent, Loading, Sizes, Limit, MaxEntries   \* see ArtworkCache.tla

VARIABLES moves, stored, age, tailUsed, orphaned

C == INSTANCE ArtworkCache WITH Keys <- Pictures, cache <- stored

ASSUME CacheAssumption == C!ConstantsAssumption

cacheVars == <<stored, age, tailUsed, orphaned>>

BothInit == Init /\ C!Init /\ moves \in {"artwork", "cache"}

BothNext ==
    /\ UNCHANGED moves
    /\ \/ moves = "artwork" /\ Next /\ UNCHANGED cacheVars
       \/ moves = "cache" /\ C!Next /\ UNCHANGED vars

BothSpec == BothInit /\ [][BothNext]_<<moves, vars, cacheVars>>

-----------------------------------------------------------------------------
(* The promises of ArtworkCache *)

\* The links, the table and the total of the cache agree (ArtworkCache.lua).
CacheIntact == C!CacheIntact

\* set() frees the least recently used first (ArtworkCache.lua).
FreesLeastRecent == C!FreesLeastRecent
=============================================================================
