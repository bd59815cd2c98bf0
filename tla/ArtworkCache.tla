---------------------------- MODULE ArtworkCache ----------------------------
(***************************************************************************)
(* The compressed artwork of a server (jive/slim/ArtworkCache.lua): a table *)
(* from keys to entries, and a doubly linked list through the entries, most *)
(* recently used first, from whose other end entries are freed.             *)
(*                                                                         *)
(* An entry that its key has lost stays in the list, so entries have an     *)
(* identity, the order in which they were made; 0 is the missing link.      *)
(***************************************************************************)
EXTENDS Integers, Sequences, FiniteSets

CONSTANTS
    Keys,       \* keys of artwork
    Absent,     \* what the table has for a key it does not have
    Loading,    \* and for one marked as loading
    Sizes,      \* sizes of pictures
    Limit,      \* ARTWORK_LIMIT
    MaxEntries  \* bound: pictures stored

ConstantsAssumption ==
    /\ Sizes \subseteq Nat \ {0} /\ Limit \in Nat /\ MaxEntries \in Nat
    /\ {Absent, Loading} \cap (0 .. MaxEntries) = {} /\ Absent # Loading

VARIABLES
    cache,      \* the ArtworkCache
    age,        \* history: how many entries have been used since each one was
    tailUsed,   \* history: get() has been asked for the entry at the lru end
    orphaned    \* history: an entry has lost its key to set(), and stays in the list

vars == <<cache, age, tailUsed, orphaned>>

Entries == 1 .. Len(cache.key)

TypeOK ==
    /\ cache.key \in Seq(Keys) /\ Len(cache.key) <= MaxEntries
    /\ cache.bytes \in [Entries -> Sizes]
    /\ cache.prev \in [Entries -> 0 .. Len(cache.key)]
    /\ cache.next \in [Entries -> 0 .. Len(cache.key)]
    /\ cache.table \in [Keys -> Entries \cup {Absent, Loading}]
    /\ cache.mru \in 0 .. Len(cache.key) /\ cache.lru \in 0 .. Len(cache.key)
    /\ cache.total \in Int
    /\ age \in [Entries -> 0 .. Len(cache.key) - 1]
    /\ tailUsed \in BOOLEAN /\ orphaned \in BOOLEAN

\* free()
Empty == [ table |-> [k \in Keys |-> Absent], key |-> <<>>, bytes |-> <<>>,
           prev |-> <<>>, next |-> <<>>, mru |-> 0, lru |-> 0, total |-> 0 ]

Init ==
    /\ cache = Empty
    /\ age = <<>>
    /\ tailUsed = FALSE /\ orphaned = FALSE

Set(f, e, v) == IF e = 0 THEN f ELSE [f EXCEPT ![e] = v]

Live(c) == {e \in 1 .. Len(c.key) : c.table[c.key[e]] = e}

-----------------------------------------------------------------------------
(* set() *)

\* A new entry becomes the head of the list.
LinkNew(c, k, size) ==
    LET e == Len(c.key) + 1
    IN  [c EXCEPT !.table[k] = e,
                  !.key = Append(@, k), !.bytes = Append(@, size),
                  !.prev = Append(Set(@, c.mru, e), 0), !.next = Append(@, c.mru),
                  !.mru = e, !.lru = IF @ = 0 \/ c.mru = 0 THEN e ELSE @,
                  !.total = @ + size]

\* The tail of the list goes, and whatever its key has in the table.
FreeTail(c) ==
    [c EXCEPT !.table[c.key[c.lru]] = Absent, !.next = Set(@, c.prev[c.lru], 0),
              !.lru = c.prev[c.lru], !.total = @ - c.bytes[c.lru]]

\* One turn of the loop. Without a tail the code would index nil: an error, with the
\* total above the limit.
FreeMore(c) == IF c.total > Limit /\ c.lru # 0 THEN FreeTail(c) ELSE c

\* Free entries until the limit is kept: every turn takes a byte at least.
KeepLimit(c) ==
    LET after[n \in Nat] == IF n = 0 THEN c ELSE FreeMore(after[n - 1])
    IN  after[c.total]

Store(k, size) ==
    /\ Len(cache.key) < MaxEntries
    /\ LET linked == LinkNew(cache, k, size)
           kept   == KeepLimit(linked)
       IN  /\ cache' = kept
           /\ orphaned' = (orphaned \/ cache.table[k] \in Entries)
    /\ age' = Append([e \in Entries |-> age[e] + 1], 0)
    /\ UNCHANGED tailUsed

\* fetchArtwork() marks a key that has no picture.
Mark(k) ==
    /\ cache.table[k] = Absent
    /\ cache' = [cache EXCEPT !.table[k] = Loading]
    /\ UNCHANGED <<age, tailUsed, orphaned>>

\* cancelAllArtwork() clears the marks of the keys in its queue, and so the picture of one
\* that has got it meanwhile: a picture may arrive after its mark was cleared and set again.
Clear(k) ==
    /\ cache.table[k] # Absent
    /\ cache' = [cache EXCEPT !.table[k] = Absent]
    /\ orphaned' = (orphaned \/ cache.table[k] \in Entries)
    /\ UNCHANGED <<age, tailUsed>>

-----------------------------------------------------------------------------
(* get() *)

MoveToHead_Stays(c, e) == c

MoveToHead_ForgetsPrev(c, e) ==
    LET n == Set(c.next, c.prev[e], c.next[e])
    IN  [c EXCEPT !.next = [n EXCEPT ![e] = c.mru],
                  !.prev = Set([@ EXCEPT ![e] = 0], c.mru, e),
                  !.mru = e]

\* Unlink an entry and link it to the head.
MoveToHead(c, e) ==
    LET n == Set(c.next, c.prev[e], c.next[e])
        p == Set(c.prev, c.next[e], c.prev[e])
    IN  [c EXCEPT !.next = [n EXCEPT ![e] = c.mru],
                  !.prev = Set([p EXCEPT ![e] = 0], c.mru, e),
                  !.mru = e, !.lru = IF c.mru = 0 THEN e ELSE @]

Get(k) ==
    LET e == cache.table[k]
    IN  /\ e \in Entries /\ e # cache.mru
        /\ cache' = MoveToHead(cache, e)
        /\ age' = [f \in Entries |-> IF f = e THEN 0
                                    ELSE IF age[f] < age[e] THEN age[f] + 1 ELSE age[f]]
        /\ tailUsed' = (tailUsed \/ e = cache.lru)
        /\ UNCHANGED orphaned

\* SlimServer:free()
FreeCache ==
    /\ cache.key # <<>>
    /\ cache' = Empty
    /\ age' = <<>>
    /\ tailUsed' = FALSE /\ orphaned' = FALSE

-----------------------------------------------------------------------------
Next ==
    \/ \E k \in Keys, size \in Sizes : Store(k, size)
    \/ \E k \in Keys : Mark(k)
    \/ \E k \in Keys : Clear(k)
    \/ \E k \in Keys : Get(k)
    \/ FreeCache

Spec == Init /\ [][Next]_vars

-----------------------------------------------------------------------------
(* Properties *)

\* The entry n links along from e
Along(link, e) ==
    LET Linked(f) == IF f = 0 THEN 0 ELSE link[f]
        at[n \in Nat] == IF n = 0 THEN e ELSE Linked(at[n - 1])
    IN  at

\* The bytes of some entries
SizeOf(bytes, es) ==
    LET upTo[n \in Nat] == IF n = 0 THEN 0 ELSE upTo[n - 1] + (IF n \in es THEN bytes[n] ELSE 0)
    IN  upTo[MaxEntries]

\* As long as the tail has never been read, the list from its lru end is also the one from
\* its mru end, every picture in the table is in it, so that it can be freed, and the total
\* is the size of what it holds.  (More may follow from the mru end: a picture larger than
\* the limit is freed at once and still linked to.)
ListAgrees ==
    \/ tailUsed
    \/ \E n \in 0 .. Len(cache.key) :
           LET fromLru == Along(cache.prev, cache.lru)
               fromMru == Along(cache.next, cache.mru)
               listed == {fromLru[i] : i \in 0 .. n - 1}
           IN  /\ fromLru[n] = 0 /\ 0 \notin listed
               /\ \A i \in 0 .. n - 1 : fromMru[i] = fromLru[n - 1 - i]
               /\ Live(cache) \subseteq listed
               /\ cache.total = SizeOf(cache.bytes, listed)

\* set() frees only what was used before everything it keeps.
FreesInOrder ==
    \A e, f \in Entries :
        e \in Live(cache) \ Live(cache') /\ f \in Live(cache') => age[f] < age[e]

\* Until then, if no entry has lost its key (to another picture, or cleared: when it is freed
\* its key's new picture goes with it), set() frees the least recently used.
FreesLeastRecent == [][tailUsed \/ orphaned' \/ FreesInOrder]_vars

\* The total never leaves out a picture of the table, and the loop of set() always finds
\* enough to free, whatever was read.
LimitKept == SizeOf(cache.bytes, Live(cache)) <= cache.total /\ cache.total <= Limit

\* The list, the table and the total of the cache agree: its links are changed by hand in
\* get, set and where set frees (ArtworkCache.lua).
CacheIntact == TypeOK /\ ListAgrees /\ LimitKept
=============================================================================
