------------------------------ MODULE ImagePool ------------------------------
(***************************************************************************)
(* Tiles and the images they are drawn with: src/jive_surface.c. A tile has  *)
(* up to nine images. An image is shared by all tiles with its path, and is  *)
(* loaded when a tile is drawn; the least recently drawn ones are unloaded   *)
(* when too many are. Everything is counted by hand.                         *)
(***************************************************************************)
EXTENDS Naturals, Sequences, FiniteSets, SequencesExt, FiniteSetsExt

CONSTANTS
    Paths,      \* image files that Lua asks for
    Broken,     \* those that IMG_Load cannot read
    Icon,       \* "jive/app.png", which initSDL loads first
    Tiles,      \* addresses that calloc may return
    Nil,        \* a null pointer
    Slots,      \* images per tile: 0 is the middle, or a single image
    MaxImages,  \* MAX_IMAGES
    MaxLoaded,  \* MAX_LOADED_IMAGES
    MaxRefs     \* bound: references to one tile

Index == 0 .. MaxImages - 1

VARIABLES
    images,     \* path, ref_count, loaded, tile
    n_images,
    lru,        \* the images in the list from lruHead to lruTail
    tiles,      \* refcount, image, and TILE_FLAG_IMAGE of every tile
    booted,     \* initSDL has run
    fetched,    \* history: the images that the last step read from files
    wild        \* history: memory of a tile was used after free()

vars == <<images, n_images, lru, tiles, booted, fetched, wild>>

NoImage == [path |-> Nil, refs |-> 0, loaded |-> FALSE, tile |-> Nil]
NoTile == [refs |-> 0, image |-> [s \in Slots |-> 0], single |-> FALSE]

Init ==
    /\ images = [i \in Index |-> NoImage]
    /\ n_images = 1
    /\ lru = <<>>
    /\ tiles = [t \in Tiles |-> NoTile]
    /\ booted = FALSE /\ fetched = {} /\ wild = FALSE

Live == {t \in Tiles : tiles[t].refs > 0}

-----------------------------------------------------------------------------
(* Operations on the pool, s: images, n_images and lru *)

Pool == [images |-> images, n |-> n_images, lru |-> lru, fetched |-> {}]

Commit(s) == images' = s.images /\ n_images' = s.n /\ lru' = s.lru /\ fetched' = s.fetched

\* The first entry that is free or has the path, or the next one. The search
\* starts at 0, and ends at a free entry even if the path comes later.
Entry(s, path) ==
    LET fit == {i \in 0 .. s.n - 1 : s.images[i].refs = 0 \/ s.images[i].path = path}
    IN  IF fit = {} THEN s.n ELSE Min(fit)

\* _new_image: the pool, and the index of the image in it, which is 0 when the
\* pool is full
NewImage(s, path) ==
    LET i == Entry(s, path)
    IN  IF i >= MaxImages THEN [pool |-> s, index |-> 0]
        ELSE [pool |-> [s EXCEPT !.images[i].refs = @ + 1,
                                 !.images[i].path = path,
                                 !.n = IF i = s.n THEN i + 1 ELSE @],
              index |-> i]

\* _unload_image
Unload(s, i) ==
    [s EXCEPT !.images[i].loaded = FALSE, !.lru = SelectSeq(@, LAMBDA j : j # i)]

\* _use_image
Use(s, i) ==
    LET listed == i \in Range(s.lru)
        t == [s EXCEPT !.lru = <<i>> \o SelectSeq(@, LAMBDA j : j # i)]
    IN  IF ~listed /\ Len(t.lru) > MaxLoaded THEN Unload(t, Last(t.lru)) ELSE t

\* _load_image
Load(s, i) ==
    IF s.images[i].path \in Broken THEN s
    ELSE Use([s EXCEPT !.images[i].loaded = TRUE, !.fetched = @ \cup {i}], i)

\* _load_tile_images: first the images that are loaded become the most recent
\* ones, so that loading the others does not unload them.
ImagesOf(t) == SelectSeq([s \in 1 .. Cardinality(Slots) |-> tiles[t].image[s - 1]], LAMBDA i : i # 0)

LoadTileImages_OnePass(s, t) ==
    FoldLeft(LAMBDA p, i : IF p.images[i].loaded THEN Use(p, i) ELSE Load(p, i), s, ImagesOf(t))

LoadTileImages(s, t) ==
    LET used == FoldLeft(LAMBDA p, i : IF p.images[i].loaded THEN Use(p, i) ELSE p, s, ImagesOf(t))
    IN  FoldLeft(LAMBDA p, i : IF p.images[i].loaded THEN p ELSE Load(p, i), used, ImagesOf(t))

-----------------------------------------------------------------------------
(* Calls *)

\* jive_tile_load_image: there is one tile for all who ask for the same image.
LoadImage_NewTile(path) ==
    \E t \in Tiles \ Live :
        LET new == NewImage(Pool, path)
        IN  /\ Commit([new.pool EXCEPT !.images[new.index].tile = t])
            /\ tiles' = [tiles EXCEPT ![t] =
                  [NoTile EXCEPT !.refs = 1, !.image[0] = new.index, !.single = TRUE]]
            /\ UNCHANGED wild

LoadImage_Shared(path) ==
    LET new == NewImage(Pool, path)
        t == new.pool.images[new.index].tile
        fresh == [new.pool EXCEPT !.images[new.index].refs = @ - 1]
    IN  /\ t # Nil /\ tiles[t].refs < MaxRefs
        /\ Commit(fresh)
        /\ tiles' = [tiles EXCEPT ![t].refs = @ + 1]
        /\ wild' = (wild \/ ~(tiles[t].refs > 0 /\ tiles[t].single /\ tiles[t].image[0] = new.index))

LoadImage(path) ==
    LET new == NewImage(Pool, path)
    IN  IF new.pool.images[new.index].tile = Nil
        THEN LoadImage_NewTile(path) ELSE LoadImage_Shared(path)

\* jive_tile_load_tiles: a path that is Nil was not given, or not found.
LoadTiles(path) ==
    LET step(acc, slot) ==
            IF path[slot] = Nil THEN acc
            ELSE LET new == NewImage(acc.pool, path[slot])
                 IN  [pool |-> new.pool, image |-> [acc.image EXCEPT ![slot] = new.index]]
        all == FoldLeft(step, [pool |-> Pool, image |-> NoTile.image],
                        [k \in 1 .. Cardinality(Slots) |-> k - 1])
    IN  /\ \E slot \in Slots : path[slot] # Nil
        /\ Commit(all.pool)
        /\ \E t \in Tiles \ Live :
              tiles' = [tiles EXCEPT ![t] = [refs |-> 1, image |-> all.image, single |-> FALSE]]
        /\ UNCHANGED wild

\* jive_tile_ref
Ref(t) ==
    /\ tiles[t].refs \in 1 .. MaxRefs - 1
    /\ tiles' = [tiles EXCEPT ![t].refs = @ + 1]
    /\ fetched' = {}
    /\ UNCHANGED <<images, n_images, lru, wild>>

\* jive_tile_free: an image goes with the last tile that uses it.
FreeImage_KeepsTile(s, t, i) ==
    IF s.images[i].refs > 1 THEN [s EXCEPT !.images[i].refs = @ - 1]
    ELSE LET u == IF s.images[i].loaded THEN Unload(s, i) ELSE s
         IN  [u EXCEPT !.images[i] = NoImage]

FreeImage(s, t, i) ==
    IF s.images[i].refs > 1
    THEN [s EXCEPT !.images[i].refs = @ - 1, !.images[i].tile = IF @ = t THEN Nil ELSE @]
    ELSE LET u == IF s.images[i].loaded THEN Unload(s, i) ELSE s
         IN  [u EXCEPT !.images[i] = NoImage]

Free(t) ==
    /\ tiles[t].refs > 0
    /\ IF tiles[t].refs > 1
       THEN tiles' = [tiles EXCEPT ![t].refs = @ - 1] /\ Commit(Pool)
       ELSE /\ tiles' = [tiles EXCEPT ![t] = NoTile]
            /\ Commit(FoldLeft(LAMBDA s, i : FreeImage(s, t, i), Pool, ImagesOf(t)))
    /\ UNCHANGED wild

\* jive_tile_blit, jive_surface_blit from a tile
Blit(t) ==
    /\ tiles[t].refs > 0
    /\ Commit(LoadTileImages(Pool, t))
    /\ UNCHANGED <<tiles, wild>>

\* initSDL loads the icon of the window and frees it again. The pool keeps the
\* entry: it has index 0, which is taken for "no image".
Boot ==
    /\ ~booted /\ booted' = TRUE
    /\ \E t \in Tiles :
          Commit([Pool EXCEPT !.images[0] = [path |-> Icon, refs |-> 1, loaded |-> FALSE, tile |-> t]])
    /\ UNCHANGED <<tiles, wild>>

Call ==
    \/ \E path \in Paths : LoadImage(path)
    \/ \E path \in [Slots -> Paths \cup {Nil}] : LoadTiles(path)
    \/ \E t \in Tiles : Ref(t) \/ Free(t) \/ Blit(t)

Next == Boot \/ (booted /\ ~wild /\ Call /\ UNCHANGED booted)

Spec == Init /\ [][Next]_vars

-----------------------------------------------------------------------------
Uses(i) == {<<t, s>> \in Live \X Slots : tiles[t].image[s] = i}

TypeOK ==
    /\ \A i \in Index : images[i].refs \in Nat /\ images[i].tile \in Tiles \cup {Nil}
    /\ n_images \in 1 .. MaxImages
    /\ \A t \in Tiles : tiles[t].refs \in 0 .. MaxRefs /\ tiles[t].image \in [Slots -> Index]

\* The list has the images that are loaded, each once, and no more than allowed.
LoadedIsListed ==
    /\ Range(lru) = {i \in Index : images[i].loaded}
    /\ IsInjective(lru) /\ Len(lru) <= MaxLoaded
    /\ ~images[0].loaded

\* An image is counted once for every place where a tile uses it, and knows the
\* tile that shows it alone, if that exists: nothing is freed while it is used,
\* nothing is kept for ever, and no freed tile is handed out, unless the pool is
\* full: then the tile of image 0 is, which was freed long ago.
PoolAgrees ==
    /\ TypeOK /\ LoadedIsListed
    /\ \A i \in Index \ {0} :
          /\ images[i].refs = Cardinality(Uses(i))
          /\ images[i].refs = 0 => images[i] = NoImage
          /\ images[i].tile # Nil =>
                images[i].tile \in Live /\ tiles[images[i].tile] =
                    [tiles[images[i].tile] EXCEPT !.single = TRUE, !.image[0] = i]
    /\ wild => \A i \in Index \ {0} : images[i].refs > 0

\* Drawing a tile loads what it needs and what is not yet loaded, though loading
\* one of its images may unload another.
DrawnFromMemory ==
    [][\A t \in Live : (Blit(t) /\ Len(ImagesOf(t)) <= MaxLoaded) =>
          /\ \A i \in Range(ImagesOf(t)) : images'[i].loaded \/ images[i].path \in Broken
          /\ \A i \in Range(ImagesOf(t)) : images[i].loaded => i \notin fetched']_vars
=============================================================================
