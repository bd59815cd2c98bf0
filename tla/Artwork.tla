------------------------------- MODULE Artwork -------------------------------
(***************************************************************************)
(* The artwork of one SlimServer (jive/slim/SlimServer.lua): icons ask for  *)
(* pictures by key, the keys not in the cache are queued, a task takes them *)
(* from the end of the queue and fetches a few at a time, and the sink of a *)
(* fetch puts the picture on the icons that still wait for it.              *)
(*                                                                         *)
(* The two caches are a mark per key: artworkCache holds what was fetched    *)
(* (ArtworkCache.tla has the detail), imageCache the images made of it.      *)
(* What a fetch goes through is one step, its end (SocketHttp.tla).          *)
(***************************************************************************)
EXTENDS Naturals, Sequences, FiniteSets, SequencesExt, Functions

CONSTANTS
    Icons,      \* the icons of the user interface
    Keys,       \* artwork: iconId, size and format
    RemoteKeys, \* the artwork whose URL is not on the media server
    NoKey,      \* no artwork
    MaxFetches, \* fetches at the same time (4 in the code)
    MaxQueue,   \* bound: length of the queue
    MaxFaults   \* bound: fetches that bring no picture, and frees

ASSUME KeysAssumption == RemoteKeys \subseteq Keys /\ NoKey \notin Keys
ASSUME MaxFetchesAssumption == MaxFetches \in Nat \ {0}
ASSUME BoundsAssumption == MaxQueue \in Nat /\ MaxFaults \in Nat

VARIABLES
    fetchQueue,   \* artworkFetchQueue, a stack
    fetchCount,   \* artworkFetchCount
    flight,       \* how many requests for each key are under way
    cache,        \* what artworkCache has for each key: a picture, or one without an image
    listed,       \* the keys that have had an entry in its list, and may have others there
    images,       \* what imageCache has for each key: an image, or true for an empty one
    waiting,      \* artworkThumbIcons: the key each icon waits for
    shown,        \* the picture on each icon
    taskActive,   \* artworkFetchTask is in the list of tasks
    hasPool,      \* artworkPool
    asked,        \* history: the key each icon was last asked to show
    failed,       \* history: the keys whose last fetch brought no picture
    faults

caches == <<cache, listed, images>>

vars == <<fetchQueue, fetchCount, flight, caches, waiting, shown, taskActive, hasPool,
          asked, failed, faults>>

\* The requests under way: the first, the second, ... for each key.
UnderWay == {r \in Keys \X (1 .. MaxFetches) : r[2] <= flight[r[1]]}

InFlight == Cardinality(UnderWay)

TypeOK ==
    /\ fetchQueue \in Seq(Keys) /\ Len(fetchQueue) <= MaxQueue
    /\ fetchCount \in 0 .. MaxFetches
    /\ flight \in [Keys -> 0 .. MaxFetches]
    /\ cache \in [Keys -> {"absent", "requested", "picture", "empty"}]
    /\ listed \subseteq Keys
    /\ images \in [Keys -> {"none", "image", "empty"}]
    /\ waiting \in [Icons -> Keys \cup {NoKey}]
    /\ shown \in [Icons -> Keys \cup {NoKey}]
    /\ taskActive \in BOOLEAN /\ hasPool \in BOOLEAN
    /\ asked \in [Icons -> Keys \cup {NoKey}]
    /\ failed \subseteq Keys
    /\ faults \in 0 .. MaxFaults

Init ==
    /\ fetchQueue = <<>> /\ fetchCount = 0
    /\ flight = [k \in Keys |-> 0]
    /\ cache = [k \in Keys |-> "absent"] /\ listed = {}
    /\ images = [k \in Keys |-> "none"]
    /\ waiting = [i \in Icons |-> NoKey]
    /\ shown = [i \in Icons |-> NoKey]
    /\ taskActive = FALSE /\ hasPool = FALSE
    /\ asked = [i \in Icons |-> NoKey]
    /\ failed = {}
    /\ faults = 0

Fault == faults < MaxFaults /\ faults' = faults + 1

-----------------------------------------------------------------------------
(* Calls of the applets *)

Show(i, k) == shown' = [shown EXCEPT ![i] = k] /\ waiting' = [waiting EXCEPT ![i] = NoKey]

Await(i, k) == shown' = [shown EXCEPT ![i] = NoKey] /\ waiting' = [waiting EXCEPT ![i] = k]

\* fetchArtwork(), for an image
ShowImage(i, k) ==
    /\ images[k] = "image"
    /\ Show(i, k)
    /\ UNCHANGED <<fetchQueue, caches, taskActive>>

\* for an empty one, which fetchArtwork takes for a request
AwaitEmpty(i, k) ==
    /\ images[k] = "empty"
    /\ Await(i, k)
    /\ UNCHANGED <<fetchQueue, caches, taskActive>>

\* No image: imageCache is weak, and the collector may have taken the one it had.
NoImage(k) == images[k] # "empty"

\* _loadArtworkImage() of what was fetched
Load(k, fetched) ==
    images' = [images EXCEPT ![k] = IF fetched = "picture" THEN "image" ELSE "empty"]

\* for a picture in the cache
ShowCached(i, k) ==
    /\ NoImage(k) /\ cache[k] \in {"picture", "empty"}
    /\ Load(k, cache[k])
    /\ Show(i, IF cache[k] = "picture" THEN k ELSE NoKey)
    /\ UNCHANGED <<fetchQueue, cache, listed, taskActive>>

\* for a picture already requested
AwaitRequested(i, k) ==
    /\ NoImage(k) /\ cache[k] = "requested"
    /\ Await(i, k)
    /\ UNCHANGED <<fetchQueue, caches, taskActive>>

\* for a new picture
RequestArtwork(i, k) ==
    /\ NoImage(k) /\ cache[k] = "absent"
    /\ Len(fetchQueue) < MaxQueue
    /\ cache' = [cache EXCEPT ![k] = "requested"]
    /\ Await(i, k)
    /\ fetchQueue' = Append(fetchQueue, k)
    /\ taskActive' = TRUE
    /\ UNCHANGED <<listed, images>>

FetchArtwork(i, k) ==
    /\ \/ ShowImage(i, k) \/ AwaitEmpty(i, k)
       \/ ShowCached(i, k) \/ AwaitRequested(i, k) \/ RequestArtwork(i, k)
    /\ asked' = [asked EXCEPT ![i] = k]
    /\ UNCHANGED <<fetchCount, flight, hasPool, failed, faults>>

CancelArtwork(i) ==
    /\ asked[i] # NoKey
    /\ Show(i, NoKey)
    /\ asked' = [asked EXCEPT ![i] = NoKey]
    /\ UNCHANGED <<fetchQueue, fetchCount, flight, caches, taskActive, hasPool, failed, faults>>

ReleasedFrom_None(ks) == waiting

ReleasedFrom(ks) == [i \in Icons |-> IF waiting[i] \in ks THEN NoKey ELSE waiting[i]]

\* For each key in the queue whatever the cache has goes, a picture that has come meanwhile
\* too; its entry stays in the list.
CancelAllArtwork ==
    /\ fetchQueue # <<>>
    /\ LET queued == Range(fetchQueue)
       IN  /\ cache' = [k \in Keys |-> IF k \in queued THEN "absent" ELSE cache[k]]
           /\ waiting' = ReleasedFrom(queued)
    /\ fetchQueue' = <<>>
    /\ UNCHANGED <<fetchCount, flight, listed, images, shown, taskActive, hasPool, asked, failed, faults>>

-----------------------------------------------------------------------------
(* The task and the sinks *)

Slot == fetchCount < MaxFetches

\* processArtworkQueue(): one fetch for each turn of the task.  Without a pool
\* the slot is given back, and the mark stays in the cache.
ProcessQueue ==
    /\ taskActive /\ Slot /\ fetchQueue # <<>>
    /\ LET k == Last(fetchQueue)
       IN  /\ fetchQueue' = Front(fetchQueue)
           /\ IF k \in RemoteKeys \/ hasPool
              THEN /\ fetchCount' = fetchCount + 1
                   /\ flight' = [flight EXCEPT ![k] = @ + 1]
                   /\ UNCHANGED failed
              ELSE /\ failed' = failed \cup {k}
                   /\ UNCHANGED <<fetchCount, flight>>
    /\ UNCHANGED <<caches, waiting, shown, taskActive, hasPool, asked, faults>>

SuspendTask_Early ==
    /\ taskActive
    /\ taskActive' = FALSE
    /\ UNCHANGED <<fetchQueue, fetchCount, flight, caches, waiting, shown, hasPool, asked,
                   failed, faults>>

SuspendTask ==
    /\ taskActive /\ ~(Slot /\ fetchQueue # <<>>)
    /\ taskActive' = FALSE
    /\ UNCHANGED <<fetchQueue, fetchCount, flight, caches, waiting, shown, hasPool, asked,
                   failed, faults>>

\* The sink's first lines, for a chunk or an error.
AllowMore == fetchCount' = fetchCount - 1 /\ taskActive' = TRUE

Ends(k) == flight[k] > 0 /\ flight' = [flight EXCEPT ![k] = @ - 1]

\* set(key, chunk): entries at the end of the list may have to go, this one last, and with
\* each whatever its key has now, also the mark of a newer request.
Cached(k, fetched, evicted) ==
    /\ cache' = [x \in Keys |-> IF x \in evicted THEN "absent" ELSE IF x = k THEN fetched ELSE cache[x]]
    /\ listed' = listed \cup {k}

\* What comes may not decode, or to nothing: then the icons that wait are released without.
Arrives(k) ==
    /\ Ends(k)
    /\ AllowMore
    /\ \E fetched \in {"picture", "empty"} :
          /\ \E evicted \in SUBSET (listed \cup {k}) : Cached(k, fetched, evicted)
          /\ Load(k, fetched)
          /\ IF fetched = "picture" THEN UNCHANGED faults ELSE Fault
          /\ shown' = [i \in Icons |-> IF waiting[i] # k THEN shown[i]
                                      ELSE IF fetched = "picture" THEN k ELSE NoKey]
    /\ waiting' = ReleasedFrom({k})
    /\ failed' = failed \ {k}
    /\ UNCHANGED <<fetchQueue, hasPool, asked>>

\* An error: the mark stays in the cache.
Fails(k) ==
    /\ Ends(k)
    /\ AllowMore
    /\ Fault
    /\ failed' = failed \cup {k}
    /\ UNCHANGED <<fetchQueue, caches, waiting, shown, hasPool, asked>>

\* A 200 without a body: RequestHttp does not call the sink.
EmptyAnswer(k) ==
    /\ Ends(k)
    /\ Fault
    /\ failed' = failed \cup {k}
    /\ UNCHANGED <<fetchQueue, fetchCount, caches, waiting, shown, taskActive, hasPool, asked>>

-----------------------------------------------------------------------------
(* The server *)

\* updateAddress()
OpenPool ==
    /\ ~hasPool
    /\ hasPool' = TRUE
    /\ UNCHANGED <<fetchQueue, fetchCount, flight, caches, waiting, shown, taskActive, asked,
                   failed, faults>>

\* artworkPool:close() calls the sinks of the requests on the wire with neither
\* chunk nor error; those still in the pool are sent on a new connection.
PoolClose(ks) ==
    /\ \A k \in ks : flight[k] > 0
    /\ flight' = [k \in Keys |-> IF k \in ks THEN flight[k] - 1 ELSE flight[k]]
    /\ failed' = failed \cup ks

Disconnect ==
    /\ hasPool
    /\ Fault
    /\ \E ks \in (SUBSET (Keys \ RemoteKeys)) \ {{}} : PoolClose(ks)
    /\ UNCHANGED <<fetchQueue, fetchCount, caches, waiting, shown, taskActive, hasPool, asked>>

\* free() of the current server: artworkCache is emptied; the images, and what is queued
\* or under way, stay.
Free ==
    /\ Fault
    /\ cache' = [k \in Keys |-> "absent"] /\ listed' = {}
    /\ waiting' = [i \in Icons |-> NoKey]
    /\ UNCHANGED <<fetchQueue, fetchCount, flight, images, shown, taskActive, hasPool, asked, failed>>

-----------------------------------------------------------------------------
Fetched(k) == Arrives(k) \/ Fails(k) \/ EmptyAnswer(k)

Next ==
    \/ \E i \in Icons, k \in Keys : FetchArtwork(i, k)
    \/ \E i \in Icons : CancelArtwork(i)
    \/ CancelAllArtwork
    \/ ProcessQueue
    \/ SuspendTask
    \/ \E k \in Keys : Fetched(k)
    \/ OpenPool
    \/ Disconnect
    \/ Free

Spec == Init /\ [][Next]_vars

\* The event loop runs the active tasks, and a fetch ends: with an answer, an
\* error or the timeout of the network thread.
ArtworkFairness ==
    /\ WF_vars(ProcessQueue) /\ WF_vars(SuspendTask)
    /\ \A k \in Keys : WF_vars(Fetched(k))

FairSpec == Spec /\ ArtworkFairness

-----------------------------------------------------------------------------
(* Properties *)

\* Every request under way holds one of the slots, whatever was cancelled or freed
\* in the meantime.
RequestsHoldSlots == InFlight <= fetchCount

\* A picture comes for the key, or has failed to: it is queued, under way, or its last fetch
\* brought none (then nothing asks for it again: its mark is never released).
Requested(k) == k \in Range(fetchQueue) \/ flight[k] > 0 \/ k \in failed

\* A mark stands for a request, and an icon waits only for what was requested, whatever was
\* cancelled, freed or evicted meanwhile -- or for a picture that was empty, which imageCache
\* marks like a request that nobody makes.  (A request may have lost its mark, to an older
\* entry of its key that is evicted: then the next call makes a second one.)
MarksAgree ==
    /\ \A k \in Keys : cache[k] = "requested" => Requested(k)
    /\ \A i \in Icons : waiting[i] # NoKey => Requested(waiting[i]) \/ images[waiting[i]] = "empty"

\* A late picture never replaces the one asked for since.
ShownIsAsked == \A i \in Icons : shown[i] \in {NoKey, asked[i]}

\* The task sleeps only when it has nothing to do: a slot given back or a request
\* made while it slept wakes it.
NoLostWakeup == fetchQueue # <<>> /\ Slot => taskActive

\* The queue, the task, the slots, the marks of the cache and the icons agree (SlimServer.lua keeps
\* each in a place of its own).
ArtworkAgrees == TypeOK /\ NoLostWakeup /\ RequestsHoldSlots /\ MarksAgree /\ ShownIsAsked

Starved == fetchCount = MaxFetches /\ InFlight = 0

\* The user stops asking for artwork: until then newer requests go first.
Quiet == <>[][\A i \in Icons, k \in Keys : ~FetchArtwork(i, k)]_vars

\* Then the queue drains, unless every slot has been lost.
QueueDrains == Quiet => (fetchQueue # <<>> ~> fetchQueue = <<>> \/ Starved)
=============================================================================
