---------------------------- MODULE ArtworkProofs ---------------------------
(***************************************************************************)
(* For any icons and artwork, any number of slots and whatever fails: the    *)
(* queue, the task, the slots, the marks of the cache and the icons agree.   *)
(* Then the cache from inside: for any keys, sizes and limit its links, its  *)
(* table and its total agree, and it frees the least recently used first.    *)
(***************************************************************************)
EXTENDS ServerArtwork, TLAPS, FiniteSetTheorems, WellFoundedInduction

-----------------------------------------------------------------------------
(* The inductive invariant *)

\* Types, without the bounds of TypeOK
Typed ==
    /\ fetchQueue \in Seq(Keys) /\ fetchCount \in Int
    /\ flight \in [Keys -> Nat]
    /\ cache \in [Keys -> {"absent", "requested", "picture", "empty"}]
    /\ images \in [Keys -> {"none", "image", "empty"}]
    /\ waiting \in [Icons -> Keys \cup {NoKey}] /\ shown \in [Icons -> Keys \cup {NoKey}]
    /\ asked \in [Icons -> Keys \cup {NoKey}]
    /\ taskActive \in BOOLEAN

\* An icon waits for what it was asked to show last: it is shown nothing else when the
\* picture comes.
WaitsForAsked == \A i \in Icons : waiting[i] \in {NoKey, asked[i]}

IInv == Typed /\ WaitsForAsked /\ NoLostWakeup /\ MarksAgree /\ ShownIsAsked

LEMMA InitInv == Init => IInv
<1> SUFFICES ASSUME Init PROVE IInv
  OBVIOUS
<1>1. Typed
  <2>1. <<>> \in Seq(Keys) /\ 0 \in Int
    OBVIOUS
  <2>2. /\ flight \in [Keys -> Nat] /\ cache \in [Keys -> {"absent", "requested", "picture", "empty"}]
        /\ images \in [Keys -> {"none", "image", "empty"}]
    BY DEF Init
  <2>3. waiting \in [Icons -> Keys \cup {NoKey}] /\ shown \in [Icons -> Keys \cup {NoKey}]
    BY DEF Init
  <2>4. asked \in [Icons -> Keys \cup {NoKey}]
    BY DEF Init
  <2>5. fetchQueue \in Seq(Keys) /\ fetchCount \in Int /\ taskActive \in BOOLEAN
    BY <2>1, Zenon DEF Init
  <2>. QED  BY <2>2, <2>3, <2>4, <2>5 DEF Typed
<1>2. WaitsForAsked /\ MarksAgree /\ ShownIsAsked
  BY DEF Init, WaitsForAsked, MarksAgree, ShownIsAsked
<1>3. NoLostWakeup
  BY DEF Init, NoLostWakeup
<1>. QED  BY <1>1, <1>2, <1>3 DEF IInv

\* The end of the queue is one of its keys; the others stay.
LEMMA LastAndFront ==
    ASSUME fetchQueue \in Seq(Keys), fetchQueue # <<>>
    PROVE  /\ Last(fetchQueue) \in Keys /\ Front(fetchQueue) \in Seq(Keys)
           /\ Range(fetchQueue) \subseteq Range(Front(fetchQueue)) \cup {Last(fetchQueue)}
<1>1. Len(fetchQueue) \in Nat \ {0} /\ DOMAIN fetchQueue = 1 .. Len(fetchQueue)
  OBVIOUS
<1>2. Last(fetchQueue) \in Keys
  BY <1>1 DEF Last
<1>3. /\ Front(fetchQueue) \in Seq(Keys) /\ DOMAIN Front(fetchQueue) = 1 .. Len(fetchQueue) - 1
      /\ \A i \in 1 .. Len(fetchQueue) - 1 : Front(fetchQueue)[i] = fetchQueue[i]
  BY <1>1 DEF Front
<1>4. ASSUME NEW i \in 1 .. Len(fetchQueue)
      PROVE  fetchQueue[i] \in Range(Front(fetchQueue)) \cup {Last(fetchQueue)}
  <2>1. CASE i = Len(fetchQueue)
    BY <2>1 DEF Last
  <2>2. CASE i # Len(fetchQueue)
    <3>1. i \in 1 .. Len(fetchQueue) - 1
      <4>1. \A n \in Nat, j \in Nat : j \in 1 .. n /\ j # n => j \in 1 .. n - 1
        OBVIOUS
      <4>2. i \in Nat /\ Len(fetchQueue) \in Nat
        BY <1>1
      <4>3. i \in 1 .. Len(fetchQueue) /\ i # Len(fetchQueue)
        BY <2>2
      <4>. QED  BY <4>1, <4>2, <4>3, Zenon
    <3>2. i \in DOMAIN Front(fetchQueue) /\ Front(fetchQueue)[i] = fetchQueue[i]
      BY <1>3, <3>1, Zenon
    <3>. QED  BY <3>2, Zenon DEF Range
  <2>. QED  BY <2>1, <2>2
<1>. QED  BY <1>1, <1>2, <1>3, <1>4 DEF Range

LEMMA AppendRange ==
    ASSUME fetchQueue \in Seq(Keys), NEW k \in Keys
    PROVE  /\ Append(fetchQueue, k) \in Seq(Keys)
           /\ Range(Append(fetchQueue, k)) = Range(fetchQueue) \cup {k}
<1> DEFINE longer == Append(fetchQueue, k)
<1>1. /\ Len(fetchQueue) \in Nat /\ longer \in Seq(Keys) /\ Len(longer) = Len(fetchQueue) + 1
      /\ longer[Len(longer)] = k /\ \A i \in 1 .. Len(fetchQueue) : longer[i] = fetchQueue[i]
  OBVIOUS
<1>2. DOMAIN longer = 1 .. Len(fetchQueue) + 1 /\ DOMAIN fetchQueue = 1 .. Len(fetchQueue)
  BY <1>1
<1>3. DOMAIN longer = DOMAIN fetchQueue \cup {Len(longer)}
  BY <1>1, <1>2
<1>. QED  BY <1>1, <1>2, <1>3 DEF Range

\* An icon that is released waits for nothing.
LEMMA Released == ASSUME IInv, NEW i \in Icons, CancelArtwork(i) PROVE IInv'
<1>1. Typed' /\ WaitsForAsked' /\ NoLostWakeup' /\ ShownIsAsked'
  BY DEF IInv, Typed, CancelArtwork, Show, caches, WaitsForAsked, NoLostWakeup, Slot, ShownIsAsked
<1>2. MarksAgree'
  BY DEF IInv, Typed, CancelArtwork, Show, caches, MarksAgree, Requested
<1>. QED  BY <1>1, <1>2 DEF IInv

\* A call puts the icon where it belongs, and wakes the task if it queued something.
LEMMA Calls ==
    ASSUME IInv, NEW i \in Icons, NEW k \in Keys, FetchArtwork(i, k) \/ CancelArtwork(i)
    PROVE  IInv'
<1> USE KeysAssumption DEF IInv, Typed
<1>1. CASE FetchArtwork(i, k)
  <2> USE <1>1 DEF FetchArtwork
  <2>1. CASE ShowImage(i, k) \/ ShowCached(i, k)
    <3>1. PICK p \in {k, NoKey} : Show(i, p)
      BY <2>1 DEF ShowImage, ShowCached
    <3>2. /\ images' \in [Keys -> {"none", "image", "empty"}]
          /\ \A x \in Keys : images[x] = "empty" => images'[x] = "empty"
      BY <2>1 DEF ShowImage, ShowCached, NoImage, Load, caches
    <3>3. UNCHANGED <<fetchQueue, fetchCount, flight, cache, taskActive, failed>>
      BY <2>1 DEF ShowImage, ShowCached, caches
    <3>4. Typed' /\ WaitsForAsked' /\ NoLostWakeup' /\ ShownIsAsked'
      BY <3>1, <3>2, <3>3 DEF Show, WaitsForAsked, NoLostWakeup, Slot, ShownIsAsked
    <3>5. MarksAgree'
      BY <3>1, <3>2, <3>3 DEF Show, MarksAgree, Requested
    <3>. QED  BY <3>4, <3>5
  <2>2. CASE AwaitEmpty(i, k) \/ AwaitRequested(i, k)
    <3>1. Await(i, k) /\ (images[k] = "empty" \/ cache[k] = "requested")
      BY <2>2 DEF AwaitEmpty, AwaitRequested
    <3>2. UNCHANGED <<fetchQueue, fetchCount, flight, cache, images, taskActive, failed>>
      BY <2>2 DEF AwaitEmpty, AwaitRequested, caches
    <3>3. Typed' /\ WaitsForAsked' /\ NoLostWakeup' /\ ShownIsAsked'
      BY <3>1, <3>2 DEF Await, WaitsForAsked, NoLostWakeup, Slot, ShownIsAsked
    <3>4. MarksAgree'
      BY <3>1, <3>2 DEF Await, MarksAgree, Requested
    <3>. QED  BY <3>3, <3>4
  <2>3. CASE RequestArtwork(i, k)
    <3> USE <2>3 DEF RequestArtwork, Await
    <3>1. fetchQueue' \in Seq(Keys) /\ Range(fetchQueue') = Range(fetchQueue) \cup {k}
      BY AppendRange
    <3>2. Typed'
      BY <3>1
    <3>3. WaitsForAsked' /\ ShownIsAsked' /\ NoLostWakeup'
      BY DEF WaitsForAsked, ShownIsAsked, NoLostWakeup
    <3>4. MarksAgree'
      BY <3>1 DEF MarksAgree, Requested
    <3>. QED  BY <3>2, <3>3, <3>4
  <2>. QED  BY <2>1, <2>2, <2>3
<1>2. CASE CancelArtwork(i)
  BY <1>2, Released
<1>. QED  BY <1>1, <1>2

LEMMA CancelAll == IInv /\ CancelAllArtwork => IInv'
<1> SUFFICES ASSUME IInv, CancelAllArtwork PROVE IInv'
  OBVIOUS
<1> USE KeysAssumption DEF IInv, Typed, CancelAllArtwork, ReleasedFrom
<1>1. Typed' /\ NoLostWakeup' /\ ShownIsAsked'
  BY DEF NoLostWakeup, ShownIsAsked
<1>2. WaitsForAsked'
  BY DEF WaitsForAsked
<1>3. MarksAgree'
  BY DEF MarksAgree, Requested
<1>. QED  BY <1>1, <1>2, <1>3

\* The key that leaves the queue is under way, or has failed for want of a pool.
LEMMA TaskSteps == IInv /\ (ProcessQueue \/ SuspendTask) => IInv'
<1> SUFFICES ASSUME IInv, ProcessQueue \/ SuspendTask PROVE IInv'
  OBVIOUS
<1> USE DEF IInv, Typed
<1>1. CASE ProcessQueue
  <2> DEFINE k == Last(fetchQueue)
  <2>1. /\ k \in Keys /\ Front(fetchQueue) \in Seq(Keys)
        /\ Range(fetchQueue) \subseteq Range(Front(fetchQueue)) \cup {k}
    BY <1>1, LastAndFront DEF ProcessQueue
  <2>2. /\ fetchQueue' = Front(fetchQueue) /\ taskActive /\ fetchCount' \in Int
        /\ UNCHANGED <<cache, images, waiting, shown, taskActive, asked>>
    BY <1>1 DEF ProcessQueue, caches
  <2>3. /\ flight' \in [Keys -> Nat] /\ failed \subseteq failed'
        /\ \A x \in Keys : flight[x] > 0 => flight'[x] > 0
        /\ flight'[k] > 0 \/ k \in failed'
    <3>1. CASE k \in RemoteKeys \/ hasPool
      <4>1. flight' = [flight EXCEPT ![k] = @ + 1] /\ failed' = failed
        BY <1>1, <3>1 DEF ProcessQueue
      <4>. QED  BY <2>1, <4>1
    <3>2. CASE ~(k \in RemoteKeys \/ hasPool)
      BY <1>1, <3>2 DEF ProcessQueue
    <3>. QED  BY <3>1, <3>2
  <2>4. Typed' /\ WaitsForAsked' /\ ShownIsAsked' /\ NoLostWakeup'
    BY <2>1, <2>2, <2>3 DEF WaitsForAsked, ShownIsAsked, NoLostWakeup
  <2>5. MarksAgree'
    BY <2>1, <2>2, <2>3 DEF MarksAgree, Requested
  <2>. QED  BY <2>4, <2>5
<1>2. CASE SuspendTask
  BY <1>2 DEF SuspendTask, caches, WaitsForAsked, NoLostWakeup, Slot, MarksAgree, Requested, ShownIsAsked
<1>. QED  BY <1>1, <1>2

\* However a fetch ends: with a picture the mark goes and the icons that wait are released,
\* without one the key has failed.
LEMMA Endings == ASSUME IInv, NEW k \in Keys, Fetched(k) PROVE IInv'
<1> USE KeysAssumption DEF IInv, Typed, Ends
<1>1. CASE Arrives(k)
  <2> USE <1>1 DEF Arrives, AllowMore, ReleasedFrom
  <2>1. PICK fetched \in {"picture", "empty"} :
           /\ \E evicted \in SUBSET (listed \cup {k}) : Cached(k, fetched, evicted)
           /\ Load(k, fetched)
           /\ shown' = [i \in Icons |-> IF waiting[i] # k THEN shown[i]
                                       ELSE IF fetched = "picture" THEN k ELSE NoKey]
    OBVIOUS
  <2>2. /\ images' \in [Keys -> {"none", "image", "empty"}]
        /\ \A x \in Keys : x # k /\ images[x] = "empty" => images'[x] = "empty"
    BY <2>1 DEF Load
  <2>3. /\ cache' \in [Keys -> {"absent", "requested", "picture", "empty"}]
        /\ \A x \in Keys : cache'[x] = "requested" => x # k /\ cache[x] = "requested"
    BY <2>1 DEF Cached
  <2>4. Typed'
    <3>1. shown' \in [Icons -> Keys \cup {NoKey}] /\ waiting' \in [Icons -> Keys \cup {NoKey}]
      BY <2>1
    <3>2. /\ fetchQueue' \in Seq(Keys) /\ fetchCount' \in Int /\ flight' \in [Keys -> Nat]
          /\ asked' \in [Icons -> Keys \cup {NoKey}] /\ taskActive' \in BOOLEAN
      OBVIOUS
    <3>. QED  BY <2>2, <2>3, <3>1, <3>2
  <2>5. WaitsForAsked' /\ ShownIsAsked' /\ NoLostWakeup'
    BY <2>1 DEF WaitsForAsked, ShownIsAsked, NoLostWakeup
  <2>6. \A x \in Keys : x # k /\ Requested(x) => Requested(x)'
    BY DEF Requested
  <2>7. MarksAgree'
    BY <2>2, <2>3, <2>6 DEF MarksAgree
  <2>. QED  BY <2>4, <2>5, <2>7
<1>2. CASE Fails(k)
  BY <1>2 DEF Fails, caches, AllowMore, WaitsForAsked, ShownIsAsked, NoLostWakeup, MarksAgree, Requested
<1>3. CASE EmptyAnswer(k)
  BY <1>3 DEF EmptyAnswer, caches, WaitsForAsked, ShownIsAsked, NoLostWakeup, Slot, MarksAgree, Requested
<1>. QED  BY <1>1, <1>2, <1>3 DEF Fetched

LEMMA ServerSteps == IInv /\ (OpenPool \/ Disconnect \/ Free) => IInv'
<1> SUFFICES ASSUME IInv, OpenPool \/ Disconnect \/ Free PROVE IInv'
  OBVIOUS
<1> USE KeysAssumption DEF IInv, Typed
<1>1. CASE OpenPool
  BY <1>1 DEF OpenPool, caches, WaitsForAsked, ShownIsAsked, NoLostWakeup, Slot, MarksAgree, Requested
<1>2. CASE Disconnect
  <2>1. PICK ks \in SUBSET Keys : PoolClose(ks)
    BY <1>2 DEF Disconnect
  <2>2. UNCHANGED <<fetchQueue, fetchCount, cache, images, waiting, shown, taskActive, asked>>
    BY <1>2 DEF Disconnect, caches
  <2>3. flight' \in [Keys -> Nat] /\ failed' = failed \cup ks /\ \A x \in Keys \ ks : flight'[x] = flight[x]
    BY <2>1 DEF PoolClose
  <2>. QED  BY <2>2, <2>3 DEF WaitsForAsked, ShownIsAsked, NoLostWakeup, Slot, MarksAgree, Requested
<1>3. CASE Free
  BY <1>3 DEF Free, WaitsForAsked, ShownIsAsked, NoLostWakeup, Slot, MarksAgree, Requested
<1>. QED  BY <1>1, <1>2, <1>3

\* For any artwork and any number of slots the task does not sleep while it has work
\* (processArtworkQueue), a mark stands for a request and whoever waits, waits for one or for
\* a picture that was empty (fetchArtwork, cancelAllArtwork, the sink), and no late picture
\* replaces a newer one.
THEOREM ArtworkCorrect == Spec => [](NoLostWakeup /\ MarksAgree /\ ShownIsAsked)
<1>1. Init => IInv
  BY InitInv
<1>2. IInv /\ [Next]_vars => IInv'
  <2> SUFFICES ASSUME IInv, [Next]_vars PROVE IInv'
    OBVIOUS
  <2>1. ASSUME NEW i \in Icons, NEW k \in Keys, FetchArtwork(i, k) PROVE IInv'
    BY <2>1, Calls
  <2>2. ASSUME NEW i \in Icons, CancelArtwork(i) PROVE IInv'
    BY <2>2, Released
  <2>3. ASSUME NEW k \in Keys, Fetched(k) PROVE IInv'
    BY <2>3, Endings
  <2>4. CASE CancelAllArtwork
    BY <2>4, CancelAll
  <2>5. CASE ProcessQueue \/ SuspendTask
    BY <2>5, TaskSteps
  <2>6. CASE OpenPool \/ Disconnect \/ Free
    BY <2>6, ServerSteps
  <2>7. CASE UNCHANGED vars
    BY <2>7 DEF vars, caches, IInv, Typed, WaitsForAsked, NoLostWakeup, Slot, MarksAgree, Requested, ShownIsAsked
  <2>. QED  BY <2>1, <2>2, <2>3, <2>4, <2>5, <2>6, <2>7 DEF Next
<1>3. IInv => NoLostWakeup /\ MarksAgree /\ ShownIsAsked
  BY DEF IInv
<1>. QED  BY <1>1, <1>2, <1>3, PTL DEF Spec
-----------------------------------------------------------------------------
(* The slots: an invariant of its own, with the bounds of the types *)

SlotsHeld == IsFiniteSet(UnderWay) /\ InFlight <= fetchCount

Counted == TypeOK /\ SlotsHeld

\* No key has more requests under way than there are slots taken: each is one of UnderWay.
LEMMA FlightBounded == ASSUME Counted, NEW k \in Keys PROVE flight[k] <= fetchCount
<1> DEFINE n == flight[k]
           number == [j \in 1 .. n |-> <<k, j>>]
<1>1. n \in 0 .. MaxFetches /\ MaxFetches \in Nat /\ fetchCount \in Nat
  BY MaxFetchesAssumption DEF Counted, TypeOK
<1>2. number \in Injection(1 .. n, UnderWay)
  BY <1>1 DEF Injection, IsInjective, UnderWay
<1>3. Cardinality(1 .. n) <= Cardinality(UnderWay)
  BY <1>2, FS_Injection DEF Counted, SlotsHeld
<1>4. Cardinality(1 .. n) = n
  BY <1>1, FS_Interval
<1>5. Cardinality(UnderWay) \in Nat
  BY FS_CardinalityType DEF Counted, SlotsHeld
<1>. QED  BY <1>1, <1>3, <1>4, <1>5 DEF Counted, SlotsHeld, InFlight

\* One request more is one more under way, when there was a slot for it.
LEMMA OneMore ==
    ASSUME Counted, Slot, NEW k \in Keys,
           flight' = [flight EXCEPT ![k] = @ + 1], fetchCount' = fetchCount + 1
    PROVE  /\ flight' \in [Keys -> 0 .. MaxFetches] /\ fetchCount' \in 0 .. MaxFetches
           /\ SlotsHeld'
<1>1. /\ flight \in [Keys -> 0 .. MaxFetches] /\ fetchCount \in 0 .. MaxFetches
      /\ MaxFetches \in Nat /\ fetchCount < MaxFetches
  BY MaxFetchesAssumption DEF Counted, TypeOK, Slot
<1>2. flight[k] <= fetchCount
  BY FlightBounded
<1>3. flight' \in [Keys -> 0 .. MaxFetches] /\ fetchCount' \in 0 .. MaxFetches
  BY <1>1, <1>2
<1>4. UnderWay' = UnderWay \cup {<<k, flight[k] + 1>>} /\ <<k, flight[k] + 1>> \notin UnderWay
  BY <1>1, <1>2 DEF UnderWay
<1>5. IsFiniteSet(UnderWay') /\ InFlight' = InFlight + 1
  BY <1>4, FS_AddElement DEF Counted, SlotsHeld, InFlight
<1>6. InFlight \in Nat /\ InFlight <= fetchCount
  BY FS_CardinalityType DEF Counted, SlotsHeld, InFlight
<1>. QED  BY <1>1, <1>3, <1>5, <1>6 DEF SlotsHeld

\* One that ends is one less; it held a slot.
LEMMA OneLess ==
    ASSUME Counted, NEW k \in Keys, Ends(k)
    PROVE  /\ flight' \in [Keys -> 0 .. MaxFetches]
           /\ IsFiniteSet(UnderWay') /\ InFlight' = InFlight - 1 /\ InFlight' \in Nat
<1>1. /\ flight \in [Keys -> 0 .. MaxFetches] /\ MaxFetches \in Nat
      /\ flight[k] > 0 /\ flight' = [flight EXCEPT ![k] = @ - 1]
  BY MaxFetchesAssumption DEF Counted, TypeOK, Ends
<1>2. flight' \in [Keys -> 0 .. MaxFetches]
  BY <1>1
<1>3. UnderWay' = UnderWay \ {<<k, flight[k]>>} /\ <<k, flight[k]>> \in UnderWay
  BY <1>1 DEF UnderWay
<1>4. IsFiniteSet(UnderWay') /\ InFlight' = InFlight - 1
  BY <1>3, FS_RemoveElement DEF Counted, SlotsHeld, InFlight
<1>5. InFlight' \in Nat
  BY <1>4, FS_CardinalityType DEF InFlight
<1>. QED  BY <1>2, <1>4, <1>5

\* Requests that a closed pool drops give no slot back.
LEMMA SomeLess ==
    ASSUME Counted, NEW ks \in SUBSET Keys, PoolClose(ks), UNCHANGED fetchCount
    PROVE  flight' \in [Keys -> 0 .. MaxFetches] /\ SlotsHeld'
<1>1. /\ flight \in [Keys -> 0 .. MaxFetches] /\ MaxFetches \in Nat /\ \A k \in ks : flight[k] > 0
      /\ flight' = [k \in Keys |-> IF k \in ks THEN flight[k] - 1 ELSE flight[k]]
  BY MaxFetchesAssumption DEF Counted, TypeOK, PoolClose
<1>2. flight' \in [Keys -> 0 .. MaxFetches]
  BY <1>1
<1>3. UnderWay' \in SUBSET UnderWay
  BY <1>1 DEF UnderWay
<1>4. IsFiniteSet(UnderWay') /\ InFlight' <= InFlight
  BY <1>3, FS_Subset DEF Counted, SlotsHeld, InFlight
<1>5. InFlight \in Nat /\ InFlight' \in Nat /\ fetchCount \in Nat /\ InFlight <= fetchCount
  BY <1>4, FS_CardinalityType DEF Counted, SlotsHeld, InFlight, TypeOK
<1>. QED  BY <1>2, <1>4, <1>5 DEF SlotsHeld

LEMMA InitCounted == Init => Counted
<1> SUFFICES ASSUME Init PROVE Counted
  OBVIOUS
<1>1. MaxFetches \in Nat /\ MaxQueue \in Nat /\ MaxFaults \in Nat
  BY MaxFetchesAssumption, BoundsAssumption
<1>2. <<>> \in Seq(Keys) /\ Len(<<>>) = 0
  OBVIOUS
<1>3. fetchQueue \in Seq(Keys) /\ Len(fetchQueue) <= MaxQueue
  BY <1>1, <1>2 DEF Init
<1>4. flight \in [Keys -> 0 .. MaxFetches] /\ \A k \in Keys : flight[k] = 0
  BY <1>1 DEF Init
<1>5. /\ cache \in [Keys -> {"absent", "requested", "picture", "empty"}]
      /\ listed \subseteq Keys /\ images \in [Keys -> {"none", "image", "empty"}]
      /\ waiting \in [Icons -> Keys \cup {NoKey}] /\ shown \in [Icons -> Keys \cup {NoKey}]
      /\ asked \in [Icons -> Keys \cup {NoKey}]
      /\ taskActive \in BOOLEAN /\ hasPool \in BOOLEAN /\ failed \subseteq Keys
  BY Zenon DEF Init
<1>6. fetchCount \in 0 .. MaxFetches /\ faults \in 0 .. MaxFaults /\ fetchCount = 0
  BY <1>1 DEF Init
<1>7. UnderWay = {}
  BY <1>1, <1>4 DEF UnderWay
<1>8. SlotsHeld
  BY <1>6, <1>7, FS_EmptySet DEF SlotsHeld, InFlight
<1>. QED  BY <1>3, <1>4, <1>5, <1>6, <1>8 DEF Counted, TypeOK

\* What does not touch the requests keeps the slots.
LEMMA SlotsKept == SlotsHeld /\ UNCHANGED <<flight, fetchCount>> => SlotsHeld'
  BY DEF SlotsHeld, UnderWay, InFlight

LEMMA FetchCounted ==
    ASSUME Counted, NEW i \in Icons, NEW k \in Keys, FetchArtwork(i, k)
    PROVE  Counted'
<1> USE KeysAssumption, MaxFetchesAssumption, BoundsAssumption DEF Counted, FetchArtwork
<1>1. SlotsHeld'
  BY SlotsKept
<1>2. CASE ShowImage(i, k) \/ ShowCached(i, k)
  <2>1. PICK p \in {k, NoKey} : Show(i, p)
    BY <1>2 DEF ShowImage, ShowCached
  <2>2. images' \in [Keys -> {"none", "image", "empty"}]
    BY <1>2 DEF ShowImage, ShowCached, Load, caches, TypeOK
  <2>3. UNCHANGED <<fetchQueue, cache, listed, taskActive>>
    BY <1>2 DEF ShowImage, ShowCached, caches
  <2>. QED  BY <1>1, <2>1, <2>2, <2>3 DEF Show, TypeOK
<1>3. CASE AwaitEmpty(i, k) \/ AwaitRequested(i, k)
  BY <1>1, <1>3 DEF AwaitEmpty, AwaitRequested, Await, caches, TypeOK
<1>4. CASE RequestArtwork(i, k)
  <2>1. fetchQueue' \in Seq(Keys) /\ Len(fetchQueue') <= MaxQueue
    BY <1>4 DEF RequestArtwork, TypeOK
  <2>. QED  BY <1>1, <1>4, <2>1 DEF RequestArtwork, Await, TypeOK
<1>. QED  BY <1>2, <1>3, <1>4

\* Cancelling leaves the requests under way alone.
LEMMA CancelCounted ==
    Counted /\ ((\E i \in Icons : CancelArtwork(i)) \/ CancelAllArtwork) => Counted'
<1> SUFFICES ASSUME Counted, (\E i \in Icons : CancelArtwork(i)) \/ CancelAllArtwork PROVE Counted'
  OBVIOUS
<1> USE KeysAssumption, BoundsAssumption DEF Counted
<1>1. CASE \E i \in Icons : CancelArtwork(i)
  BY <1>1, SlotsKept DEF CancelArtwork, Show, caches, TypeOK
<1>2. CASE CancelAllArtwork
  <2>1. <<>> \in Seq(Keys) /\ Len(<<>>) = 0
    OBVIOUS
  <2>2. fetchQueue' \in Seq(Keys) /\ Len(fetchQueue') <= MaxQueue
    BY <1>2, <2>1 DEF CancelAllArtwork
  <2>3. /\ cache' \in [Keys -> {"absent", "requested", "picture", "empty"}]
        /\ waiting' \in [Icons -> Keys \cup {NoKey}]
    BY <1>2 DEF CancelAllArtwork, ReleasedFrom, TypeOK
  <2>. QED  BY <1>2, <2>2, <2>3, SlotsKept DEF CancelAllArtwork, TypeOK
<1>. QED  BY <1>1, <1>2

\* A turn of the task takes a slot exactly when a request goes out.
LEMMA TaskCounted == Counted /\ (ProcessQueue \/ SuspendTask) => Counted'
<1> SUFFICES ASSUME Counted, ProcessQueue \/ SuspendTask PROVE Counted'
  OBVIOUS
<1> USE MaxFetchesAssumption, BoundsAssumption
<1>1. CASE ProcessQueue
  <2> DEFINE k == Last(fetchQueue)
  <2>1. fetchQueue \in Seq(Keys) /\ fetchQueue # <<>> /\ Len(fetchQueue) <= MaxQueue
    BY <1>1 DEF ProcessQueue, Counted, TypeOK
  <2>2. k \in Keys /\ Front(fetchQueue) \in Seq(Keys)
    BY <2>1, LastAndFront
  <2>3. Len(Front(fetchQueue)) <= MaxQueue
    BY <2>1 DEF Front
  <2>4. CASE k \in RemoteKeys \/ hasPool
    <3>1. /\ Slot /\ flight' = [flight EXCEPT ![k] = @ + 1] /\ fetchCount' = fetchCount + 1
          /\ failed' = failed
      BY <1>1, <2>4 DEF ProcessQueue
    <3>2. flight' \in [Keys -> 0 .. MaxFetches] /\ fetchCount' \in 0 .. MaxFetches /\ SlotsHeld'
      BY <2>2, <3>1, OneMore
    <3>. QED  BY <1>1, <2>2, <2>3, <3>1, <3>2 DEF ProcessQueue, caches, Counted, TypeOK
  <2>5. CASE ~(k \in RemoteKeys \/ hasPool)
    <3>1. UNCHANGED <<flight, fetchCount>> /\ failed' = failed \cup {k}
      BY <1>1, <2>5 DEF ProcessQueue
    <3>2. SlotsHeld'
      BY <3>1, SlotsKept DEF Counted
    <3>. QED  BY <1>1, <2>2, <2>3, <3>1, <3>2 DEF ProcessQueue, caches, Counted, TypeOK
  <2>. QED  BY <2>4, <2>5
<1>2. CASE SuspendTask
  BY <1>2, SlotsKept DEF SuspendTask, caches, Counted, TypeOK
<1>. QED  BY <1>1, <1>2

\* The sink gives back the slot of the request that ended; the empty answer gives none back.
LEMMA EndingsCounted == ASSUME Counted, NEW k \in Keys, Fetched(k) PROVE Counted'
<1> USE KeysAssumption, MaxFetchesAssumption, BoundsAssumption
<1>1. /\ Ends(k) /\ faults' \in 0 .. MaxFaults
      /\ fetchCount' = fetchCount - 1 \/ fetchCount' = fetchCount
  BY DEF Fetched, Arrives, Fails, EmptyAnswer, AllowMore, Fault, Counted, TypeOK
<1>2. /\ flight' \in [Keys -> 0 .. MaxFetches]
      /\ IsFiniteSet(UnderWay') /\ InFlight' = InFlight - 1 /\ InFlight' \in Nat
  BY <1>1, OneLess
<1>3. InFlight \in Nat /\ InFlight <= fetchCount /\ fetchCount \in 0 .. MaxFetches
  BY FS_CardinalityType DEF Counted, SlotsHeld, InFlight, TypeOK
<1>4. SlotsHeld' /\ fetchCount' \in 0 .. MaxFetches
  BY <1>1, <1>2, <1>3 DEF SlotsHeld
<1>5. CASE Arrives(k)
  <2>1. /\ cache' \in [Keys -> {"absent", "requested", "picture", "empty"}] /\ listed' \subseteq Keys
        /\ images' \in [Keys -> {"none", "image", "empty"}]
        /\ shown' \in [Icons -> Keys \cup {NoKey}] /\ waiting' \in [Icons -> Keys \cup {NoKey}]
    BY <1>5 DEF Arrives, Cached, Load, ReleasedFrom, Counted, TypeOK
  <2>. QED  BY <1>1, <1>2, <1>4, <1>5, <2>1 DEF Arrives, AllowMore, Counted, TypeOK
<1>6. CASE Fails(k)
  BY <1>1, <1>2, <1>4, <1>6 DEF Fails, caches, AllowMore, Counted, TypeOK
<1>7. CASE EmptyAnswer(k)
  BY <1>1, <1>2, <1>4, <1>7 DEF EmptyAnswer, caches, Counted, TypeOK
<1>. QED  BY <1>5, <1>6, <1>7 DEF Fetched

LEMMA ServerCounted == Counted /\ (OpenPool \/ Disconnect \/ Free) => Counted'
<1> SUFFICES ASSUME Counted, OpenPool \/ Disconnect \/ Free PROVE Counted'
  OBVIOUS
<1> USE KeysAssumption, MaxFetchesAssumption, BoundsAssumption
<1>1. CASE OpenPool
  BY <1>1, SlotsKept DEF OpenPool, caches, Counted, TypeOK
<1>2. CASE Disconnect
  <2>1. PICK ks \in SUBSET Keys : PoolClose(ks)
    BY <1>2 DEF Disconnect
  <2>2. flight' \in [Keys -> 0 .. MaxFetches] /\ SlotsHeld'
    BY <1>2, <2>1, SomeLess DEF Disconnect
  <2>. QED  BY <1>2, <2>1, <2>2 DEF Disconnect, caches, PoolClose, Fault, Counted, TypeOK
<1>3. CASE Free
  <2>1. SlotsHeld'
    BY <1>3, SlotsKept DEF Free, Counted
  <2>. QED  BY <1>3, <2>1 DEF Free, Fault, Counted, TypeOK
<1>. QED  BY <1>1, <1>2, <1>3

\* For any number of slots every request under way holds one of them, however requests
\* end and whatever is cancelled, freed or disconnected (processArtworkQueue, the sink).
THEOREM SlotsCorrect == Spec => [](TypeOK /\ RequestsHoldSlots)
<1>1. Init => Counted
  BY InitCounted
<1>2. Counted /\ [Next]_vars => Counted'
  <2> SUFFICES ASSUME Counted, [Next]_vars PROVE Counted'
    OBVIOUS
  <2>1. ASSUME NEW i \in Icons, NEW k \in Keys, FetchArtwork(i, k) PROVE Counted'
    BY <2>1, FetchCounted
  <2>2. CASE (\E i \in Icons : CancelArtwork(i)) \/ CancelAllArtwork
    BY <2>2, CancelCounted
  <2>4. CASE ProcessQueue \/ SuspendTask
    BY <2>4, TaskCounted
  <2>5. ASSUME NEW k \in Keys, Fetched(k) PROVE Counted'
    BY <2>5, EndingsCounted
  <2>6. CASE OpenPool \/ Disconnect \/ Free
    BY <2>6, ServerCounted
  <2>7. CASE UNCHANGED vars
    BY <2>7, SlotsKept DEF vars, caches, Counted, TypeOK
  <2>. QED  BY <2>1, <2>2, <2>4, <2>5, <2>6, <2>7 DEF Next
<1>3. Counted => TypeOK /\ RequestsHoldSlots
  BY DEF Counted, SlotsHeld, RequestsHoldSlots
<1>. QED  BY <1>1, <1>2, <1>3, PTL DEF Spec

\* The queue, the task, the slots, the marks of the cache and the icons agree, for any
\* icons, artwork and number of slots (SlimServer.lua keeps each in a place of its own).
THEOREM ArtworkAgreesAlways == Spec => []ArtworkAgrees
<1>1. Spec => [](TypeOK /\ RequestsHoldSlots)
  BY SlotsCorrect
<1>2. Spec => [](NoLostWakeup /\ MarksAgree /\ ShownIsAsked)
  BY ArtworkCorrect
<1>3. (TypeOK /\ RequestsHoldSlots) /\ (NoLostWakeup /\ MarksAgree /\ ShownIsAsked) => ArtworkAgrees
  BY DEF ArtworkAgrees
<1>. QED  BY <1>1, <1>2, <1>3, PTL

-----------------------------------------------------------------------------
(* The cache from inside: recursion, and sums of bytes *)

LEMMA Smallest == ASSUME NEW T \in SUBSET Nat, T # {} PROVE \E i \in T : \A j \in T : i <= j
<1> DEFINE R == OpToRel(<, Nat)
<1>1. \A x \in T, y \in T : <<y, x>> \in R <=> y < x
  BY DEF OpToRel
<1>2. IsWellFoundedOn(R, Nat)
  BY NatLessThanWellFounded
<1> HIDE DEF R
<1>3. \E x \in T : \A y \in T : ~(<<y, x>> \in R)
  BY <1>2, WFMin
<1>4. \E x \in T : \A y \in T : ~(y < x)
  BY <1>1, <1>3
<1>. QED  BY <1>4

\* Induction, over a set.
LEMMA Induct ==
    ASSUME NEW T, 0 \in T, \A n \in Nat : n \in T => n + 1 \in T
    PROVE  \A n \in Nat : n \in T
<1> DEFINE U == {n \in Nat : n \notin T}
<1>1. SUFFICES ASSUME U # {} PROVE FALSE
  OBVIOUS
<1>2. U \in SUBSET Nat
  OBVIOUS
<1>3. PICK i \in U : \A j \in U : i <= j
  BY <1>1, <1>2, Smallest
<1>4. i \in Nat /\ i \notin T /\ i # 0
  BY <1>3
<1>5. i - 1 \in Nat /\ ~(i <= i - 1) /\ (i - 1) + 1 = i
  BY <1>4
<1>6. i - 1 \notin U
  BY <1>3, <1>5
<1>. QED  BY <1>4, <1>5, <1>6

\* A value for each number, each made from the one before: up to n,
Upto(V, a, G, n, f) ==
    f \in [0 .. n -> V] /\ f[0] = a /\ \A i \in Nat : i < n => f[i + 1] = G[<<i, f[i]>>]

\* and for all.
Made(V, a, G) == \E F \in [Nat -> V] : F[0] = a /\ \A n \in Nat : F[n + 1] = G[<<n, F[n]>>]

LEMMA Recursion ==
    ASSUME NEW V, NEW a \in V, NEW G \in [Nat \X V -> V]
    PROVE  Made(V, a, G)
<1> DEFINE T == {n \in Nat : \E f : Upto(V, a, G, n, f)}
<1>1. 0 \in T
  <2> DEFINE f == [i \in 0 .. 0 |-> a]
  <2>1. f \in [0 .. 0 -> V] /\ f[0] = a
    OBVIOUS
  <2>2. \A i \in Nat : ~(i < 0)
    OBVIOUS
  <2>. QED  BY <2>1, <2>2 DEF Upto
<1>2. \A n \in Nat : n \in T => n + 1 \in T
  <2> SUFFICES ASSUME NEW n \in Nat, n \in T PROVE n + 1 \in T
    OBVIOUS
  <2>1. PICK f : Upto(V, a, G, n, f)
    OBVIOUS
  <2> DEFINE g == [i \in 0 .. n + 1 |-> IF i = n + 1 THEN G[<<n, f[n]>>] ELSE f[i]]
  <2>2. f \in [0 .. n -> V] /\ f[0] = a /\ n \in 0 .. n
    BY <2>1 DEF Upto
  <2>3. f[n] \in V /\ <<n, f[n]>> \in Nat \X V
    BY <2>2
  <2>4. G[<<n, f[n]>>] \in V
    BY <2>3
  <2>5. \A i \in 0 .. n + 1 : g[i] \in V
    BY <2>2, <2>4
  <2>6. g \in [0 .. n + 1 -> V] /\ g[0] = a
    BY <2>2, <2>5
  <2>7. ASSUME NEW i \in Nat, i < n + 1 PROVE g[i + 1] = G[<<i, g[i]>>]
    <3>1. CASE i = n
      <4>1. n + 1 \in 0 .. n + 1 /\ n \in 0 .. n + 1 /\ n # n + 1
        OBVIOUS
      <4>2. g[n + 1] = G[<<n, f[n]>>] /\ g[n] = f[n]
        BY <4>1
      <4>. QED  BY <3>1, <4>2
    <3>2. CASE i # n
      <4>1. i < n /\ i + 1 \in 0 .. n + 1 /\ i \in 0 .. n + 1 /\ i + 1 # n + 1 /\ i # n + 1
        BY <2>7, <3>2
      <4>2. f[i + 1] = G[<<i, f[i]>>]
        BY <2>1, <4>1 DEF Upto
      <4>. QED  BY <4>1, <4>2
    <3>. QED  BY <3>1, <3>2
  <2> HIDE DEF g
  <2>8. Upto(V, a, G, n + 1, g)
    BY <2>6, <2>7 DEF Upto
  <2>. QED  BY <2>8
<1>3. \A n \in Nat : n \in T
  <2> HIDE DEF T
  <2>. QED  BY <1>1, <1>2, Induct
<1>4. ASSUME NEW n \in Nat, NEW m \in Nat, NEW f, NEW g, n <= m, Upto(V, a, G, n, f), Upto(V, a, G, m, g)
      PROVE  f[n] = g[n]
  <2> DEFINE S == {i \in Nat : i <= n => f[i] = g[i]}
  <2>1. 0 \in S
    BY <1>4 DEF Upto
  <2>2. \A i \in Nat : i \in S => i + 1 \in S
    <3> SUFFICES ASSUME NEW i \in Nat, i \in S, i + 1 <= n PROVE f[i + 1] = g[i + 1]
      OBVIOUS
    <3>1. i <= n /\ i < n /\ i < m
      BY <1>4
    <3>2. f[i] = g[i]
      BY <3>1
    <3>3. f[i + 1] = G[<<i, f[i]>>] /\ g[i + 1] = G[<<i, g[i]>>]
      BY <1>4, <3>1 DEF Upto
    <3>. QED  BY <3>2, <3>3
  <2>3. \A i \in Nat : i \in S
    <3> HIDE DEF S
    <3>. QED  BY <2>1, <2>2, Induct
  <2>. QED  BY <2>3
<1> DEFINE H(n) == CHOOSE f : Upto(V, a, G, n, f)
           F == [n \in Nat |-> H(n)[n]]
<1>5. \A n \in Nat : Upto(V, a, G, n, H(n))
  BY <1>3
<1> HIDE DEF H
<1>6. \A n \in Nat : H(n)[n] \in V
  BY <1>5 DEF Upto
<1>7. F \in [Nat -> V]
  BY <1>6
<1>8. F[0] = a
  BY <1>5 DEF Upto
<1>9. ASSUME NEW n \in Nat PROVE F[n + 1] = G[<<n, F[n]>>]
  <2>1. n + 1 \in Nat /\ n <= n + 1 /\ n < n + 1
    OBVIOUS
  <2>2. H(n)[n] = H(n + 1)[n]
    BY <1>4, <1>5, <2>1
  <2>3. H(n + 1)[n + 1] = G[<<n, H(n + 1)[n]>>]
    BY <1>5, <2>1 DEF Upto
  <2>. QED  BY <2>1, <2>2, <2>3
<1>. QED  BY <1>7, <1>8, <1>9 DEF Made

\* The bytes of entries of a set are natural numbers.
Weighs(b, es) == \A e \in Nat : e \in es => b[e] \in Nat

Sums(u, b, es) ==
    /\ u \in [Nat -> Nat] /\ u[0] = 0
    /\ \A n \in Nat : u[n + 1] = u[n] + (IF n + 1 \in es THEN b[n + 1] ELSE 0)

LEMMA SumIs ==
    ASSUME NEW b, NEW es, Weighs(b, es)
    PROVE  \E u : Sums(u, b, es) /\ C!SizeOf(b, es) = u[MaxEntries]
<1> DEFINE add(n) == IF n \in es THEN b[n] ELSE 0
           G == [p \in Nat \X Nat |-> p[2] + add(p[1] + 1)]
           IsSum(f) == f = [n \in Nat |-> IF n = 0 THEN 0 ELSE f[n - 1] + add(n)]
<1>1. \A n \in Nat : add(n) \in Nat
  BY DEF Weighs
<1>2. C!SizeOf(b, es) = (CHOOSE f : IsSum(f))[MaxEntries]
  BY DEF C!SizeOf
<1> HIDE DEF add
<1>3. G \in [Nat \X Nat -> Nat]
  BY <1>1
<1>4. PICK F \in [Nat -> Nat] : F[0] = 0 /\ \A n \in Nat : F[n + 1] = G[<<n, F[n]>>]
  <2> HIDE DEF G
  <2>1. 0 \in Nat
    OBVIOUS
  <2>2. Made(Nat, 0, G)
    BY <1>3, <2>1, Recursion
  <2>. QED  BY <2>2 DEF Made
<1>5. \A n \in Nat : F[n + 1] = F[n] + add(n + 1)
  BY <1>4
<1>6. IsSum(F)
  <2>1. ASSUME NEW n \in Nat PROVE F[n] = IF n = 0 THEN 0 ELSE F[n - 1] + add(n)
    <3>1. CASE n = 0
      BY <1>4, <3>1
    <3>2. CASE n # 0
      <4>1. n - 1 \in Nat /\ (n - 1) + 1 = n
        BY <3>2
      <4>. QED  BY <1>5, <3>2, <4>1
    <3>. QED  BY <3>1, <3>2
  <2>. QED  BY <1>4, <2>1
<1> DEFINE u == CHOOSE f : IsSum(f)
<1>7. IsSum(u)
  <2> HIDE DEF IsSum
  <2>. QED  BY <1>6
<1> HIDE DEF u
<1>8. u[0] = 0 /\ \A n \in Nat : u[n + 1] = u[n] + add(n + 1)
  <2>1. \A n \in Nat : u[n] = IF n = 0 THEN 0 ELSE u[n - 1] + add(n)
    BY <1>7
  <2>2. \A n \in Nat : n + 1 \in Nat /\ n + 1 # 0 /\ (n + 1) - 1 = n
    OBVIOUS
  <2>. QED  BY <2>1, <2>2
<1>9. \A n \in Nat : u[n] \in Nat
  <2> DEFINE T == {n \in Nat : u[n] \in Nat}
  <2>1. 0 \in T /\ \A n \in Nat : n \in T => n + 1 \in T
    BY <1>1, <1>8
  <2> HIDE DEF T
  <2>2. \A n \in Nat : n \in T
    BY <2>1, Induct
  <2>. QED  BY <2>2 DEF T
<1>10. u = [n \in Nat |-> u[n]]
  BY <1>7
<1>11. u \in [Nat -> Nat]
  BY <1>9, <1>10
<1>12. Sums(u, b, es)
  BY <1>8, <1>11 DEF Sums, add
<1>. QED  BY <1>2, <1>12 DEF u

LEMMA SizeType == ASSUME NEW b, NEW es, Weighs(b, es) PROVE C!SizeOf(b, es) \in Nat
BY SumIs, CacheAssumption DEF Sums, C!ConstantsAssumption

\* More entries weigh no less,
LEMMA SizeGrows ==
    ASSUME NEW b, NEW es, NEW d, NEW fs, Weighs(b, es), Weighs(d, fs),
           \A e \in 1 .. MaxEntries : e \in es => e \in fs /\ b[e] = d[e]
    PROVE  C!SizeOf(b, es) <= C!SizeOf(d, fs)
<1>1. PICK u : Sums(u, b, es) /\ C!SizeOf(b, es) = u[MaxEntries]
  BY SumIs
<1>2. PICK w : Sums(w, d, fs) /\ C!SizeOf(d, fs) = w[MaxEntries]
  BY SumIs
<1>3. MaxEntries \in Nat
  BY CacheAssumption DEF C!ConstantsAssumption
<1> DEFINE T == {n \in Nat : n <= MaxEntries => u[n] <= w[n]}
<1>4. 0 \in T
  BY <1>1, <1>2 DEF Sums
<1>5. \A n \in Nat : n \in T => n + 1 \in T
  <2> SUFFICES ASSUME NEW n \in Nat, n \in T, n + 1 <= MaxEntries PROVE u[n + 1] <= w[n + 1]
    OBVIOUS
  <2>1. u[n] <= w[n] /\ u[n] \in Nat /\ w[n] \in Nat /\ n + 1 \in 1 .. MaxEntries /\ n + 1 \in Nat
    BY <1>1, <1>2, <1>3 DEF Sums
  <2>2. /\ u[n + 1] = u[n] + (IF n + 1 \in es THEN b[n + 1] ELSE 0)
        /\ w[n + 1] = w[n] + (IF n + 1 \in fs THEN d[n + 1] ELSE 0)
    BY <1>1, <1>2 DEF Sums
  <2>3. n + 1 \in es => n + 1 \in fs /\ b[n + 1] = d[n + 1] /\ b[n + 1] \in Nat
    BY <2>1 DEF Weighs
  <2>4. n + 1 \in fs => d[n + 1] \in Nat
    BY <2>1 DEF Weighs
  <2>. QED  BY <2>1, <2>2, <2>3, <2>4
<1> HIDE DEF T
<1>6. MaxEntries \in T
  BY <1>3, <1>4, <1>5, Induct
<1>. QED  BY <1>1, <1>2, <1>6 DEF T

\* one more adds its bytes,
LEMMA SizeAdds ==
    ASSUME NEW b, NEW es, NEW x \in 1 .. MaxEntries, x \notin es, Weighs(b, es), b[x] \in Nat
    PROVE  C!SizeOf(b, es \cup {x}) = C!SizeOf(b, es) + b[x]
<1>0. Weighs(b, es \cup {x})
  BY DEF Weighs
<1>1. PICK u : Sums(u, b, es) /\ C!SizeOf(b, es) = u[MaxEntries]
  BY SumIs
<1>2. PICK w : Sums(w, b, es \cup {x}) /\ C!SizeOf(b, es \cup {x}) = w[MaxEntries]
  BY SumIs, <1>0
<1>3. MaxEntries \in Nat /\ x \in Nat /\ x # 0 /\ x <= MaxEntries
  BY CacheAssumption DEF C!ConstantsAssumption
<1> DEFINE T == {n \in Nat : w[n] = u[n] + (IF x <= n THEN b[x] ELSE 0)}
<1>4. 0 \in T
  BY <1>1, <1>2, <1>3 DEF Sums
<1>5. \A n \in Nat : n \in T => n + 1 \in T
  <2> SUFFICES ASSUME NEW n \in Nat, n \in T PROVE w[n + 1] = u[n + 1] + (IF x <= n + 1 THEN b[x] ELSE 0)
    OBVIOUS
  <2>1. u[n] \in Nat /\ w[n] \in Nat /\ w[n] = u[n] + (IF x <= n THEN b[x] ELSE 0)
    BY <1>1, <1>2 DEF Sums
  <2>2. /\ u[n + 1] = u[n] + (IF n + 1 \in es THEN b[n + 1] ELSE 0)
        /\ w[n + 1] = w[n] + (IF n + 1 \in es \cup {x} THEN b[n + 1] ELSE 0)
    BY <1>1, <1>2 DEF Sums
  <2>3. n + 1 \in es => b[n + 1] \in Nat
    BY DEF Weighs
  <2>4. CASE n + 1 = x
    <3>1. ~(x <= n) /\ x <= n + 1 /\ n + 1 \notin es /\ n + 1 \in es \cup {x}
      BY <1>3, <2>4
    <3>. QED  BY <2>1, <2>2, <2>4, <3>1
  <2>5. CASE n + 1 # x
    <3>1. (x <= n + 1) = (x <= n)
      BY <1>3, <2>5
    <3>2. (n + 1 \in es \cup {x}) = (n + 1 \in es)
      BY <2>5
    <3>. QED  BY <2>1, <2>2, <2>3, <3>1, <3>2
  <2>. QED  BY <2>4, <2>5
<1> HIDE DEF T
<1>6. MaxEntries \in T
  BY <1>3, <1>4, <1>5, Induct
<1>. QED  BY <1>1, <1>2, <1>3, <1>6 DEF T

\* and none are nothing.
LEMMA SizeOfNone == ASSUME NEW b PROVE C!SizeOf(b, {}) = 0
<1>0. Weighs(b, {})
  BY DEF Weighs
<1>1. PICK u : Sums(u, b, {}) /\ C!SizeOf(b, {}) = u[MaxEntries]
  BY SumIs, <1>0
<1> DEFINE T == {n \in Nat : u[n] = 0}
<1>2. 0 \in T /\ \A n \in Nat : n \in T => n + 1 \in T
  BY <1>1 DEF Sums
<1> HIDE DEF T
<1>3. MaxEntries \in T
  BY <1>2, Induct, CacheAssumption DEF C!ConstantsAssumption
<1>. QED  BY <1>1, <1>3 DEF T

-----------------------------------------------------------------------------
(* The cache from inside: the list *)

Caches == [table : [Pictures -> Nat \cup {Absent, Loading}], key : Seq(Pictures), bytes : Seq(Sizes),
           prev : Seq(Nat), next : Seq(Nat), mru : Nat, lru : Nat, total : Int]

Idx(c) == 1 .. Len(c.key)

\* The parts of a cache fit together.
Shape(c) ==
    /\ c \in Caches
    /\ Len(c.key) <= MaxEntries
    /\ Len(c.bytes) = Len(c.key) /\ Len(c.prev) = Len(c.key) /\ Len(c.next) = Len(c.key)
    /\ \A e \in Idx(c) : c.prev[e] <= Len(c.key) /\ c.next[e] <= Len(c.key)
    /\ \A k \in Pictures : c.table[k] \in Idx(c) \cup {Absent, Loading}
    /\ c.mru <= Len(c.key) /\ c.lru <= Len(c.key)

\* a counts the entries used since; the one at the mru end was used last.
Aged(c, a) ==
    /\ a \in [Idx(c) -> Nat]
    /\ \A e \in Idx(c) : a[e] < Len(c.key)
    /\ \A e, f \in Idx(c) : a[e] = a[f] => e = f
    /\ \A e \in Idx(c) : c.mru \in Idx(c) /\ a[c.mru] = 0

InList(m, q) == {q[i] : i \in 1 .. m}

\* q is the list from its lru end, and from its mru end backwards, oldest first.
Chained(c, a, m, q) ==
    /\ m \in Nat /\ q \in [1 .. m -> Idx(c)]
    /\ (c.lru = 0) = (m = 0)
    /\ m # 0 => c.lru = q[1] /\ c.mru = q[m] /\ c.prev[q[m]] = 0
    /\ \A i \in 1 .. m - 1 : c.prev[q[i]] = q[i + 1] /\ c.next[q[i + 1]] = q[i]
    /\ \A i, j \in 1 .. m : i < j => a[q[j]] < a[q[i]]

\* The links of a picture in the table, in the list or not: next is older, and pictures of
\* the table link both ways.
Linked(c, a) ==
    /\ \A x \in C!Live(c) : c.next[x] # 0 => a[x] < a[c.next[x]]
    /\ \A x \in C!Live(c) : c.prev[x] # 0 => a[c.prev[x]] < a[x]
    /\ \A x, y \in C!Live(c) : c.next[y] = x <=> c.prev[x] = y

\* A picture that the list has lost is older than the list, and links to its lru end if at
\* all.
Apart(c, a, m, q) ==
    \A x \in C!Live(c) \ InList(m, q) :
        /\ \A z \in InList(m, q) : a[z] < a[x]
        /\ c.prev[x] \in InList(m, q) => c.prev[x] = c.lru

\* The total has all pictures of the table and the list; without the list it would be within
\* the limit.
Weighed(c, m, q) ==
    /\ C!SizeOf(c.bytes, C!Live(c) \cup InList(m, q)) <= c.total
    /\ c.total <= Limit + C!SizeOf(c.bytes, InList(m, q))

\* The table has each entry under its own key.
Keyed(c) == \A k \in Pictures : c.table[k] \in Idx(c) => c.key[c.table[k]] = k

ListOK(c, a, m, q) ==
    Shape(c) /\ Keyed(c) /\ Aged(c, a) /\ Chained(c, a, m, q) /\ Linked(c, a) /\ Apart(c, a, m, q) /\ Weighed(c, m, q)

\* Nothing has been lost.
Whole(c, m, q) == C!Live(c) \subseteq InList(m, q) /\ c.total = C!SizeOf(c.bytes, InList(m, q))

\* Nothing in the list has lost its key.
Current(c, m, q) == InList(m, q) \subseteq C!Live(c)

LEMMA CacheConstants ==
    /\ Sizes \subseteq Nat \ {0} /\ Limit \in Nat /\ MaxEntries \in Nat
    /\ Absent \notin 0 .. MaxEntries /\ Loading \notin 0 .. MaxEntries /\ Absent # Loading
BY CacheAssumption DEF C!ConstantsAssumption

\* What the parts of a cache are.
Parts(c) ==
    /\ Len(c.key) \in Nat /\ Len(c.key) <= MaxEntries
    /\ c.key \in [Idx(c) -> Pictures] /\ c.bytes \in [Idx(c) -> Sizes]
    /\ c.prev \in [Idx(c) -> 0 .. Len(c.key)] /\ c.next \in [Idx(c) -> 0 .. Len(c.key)]
    /\ c.table \in [Pictures -> Idx(c) \cup {Absent, Loading}]
    /\ c.mru \in 0 .. Len(c.key) /\ c.lru \in 0 .. Len(c.key) /\ c.total \in Int
    /\ 0 \notin Idx(c) /\ Absent \notin Idx(c) /\ Loading \notin Idx(c)

LEMMA PartsOf == ASSUME NEW c, Shape(c) PROVE Parts(c)
<1>1. /\ c.key \in Seq(Pictures) /\ c.bytes \in Seq(Sizes) /\ c.prev \in Seq(Nat) /\ c.next \in Seq(Nat)
      /\ c.mru \in Nat /\ c.lru \in Nat /\ c.total \in Int /\ c.table \in [Pictures -> Nat \cup {Absent, Loading}]
  BY DEF Shape, Caches
<1>2. Len(c.key) \in Nat /\ c.key \in [Idx(c) -> Pictures]
  BY <1>1 DEF Idx
<1>3. c.bytes \in [Idx(c) -> Sizes] /\ c.prev \in [Idx(c) -> Nat] /\ c.next \in [Idx(c) -> Nat]
  <2>1. \A S : \A s \in Seq(S) : s \in [1 .. Len(s) -> S]
    OBVIOUS
  <2>2. Len(c.bytes) = Len(c.key) /\ Len(c.prev) = Len(c.key) /\ Len(c.next) = Len(c.key)
    BY DEF Shape
  <2>3. c.bytes \in [Idx(c) -> Sizes]
    BY <1>1, <2>1, <2>2 DEF Idx
  <2>4. c.prev \in [Idx(c) -> Nat]
    BY <1>1, <2>1, <2>2 DEF Idx
  <2>5. c.next \in [Idx(c) -> Nat]
    BY <1>1, <2>1, <2>2 DEF Idx
  <2>. QED  BY <2>3, <2>4, <2>5
<1>4. c.prev \in [Idx(c) -> 0 .. Len(c.key)] /\ c.next \in [Idx(c) -> 0 .. Len(c.key)]
  BY <1>2, <1>3 DEF Shape
<1>5. c.table \in [Pictures -> Idx(c) \cup {Absent, Loading}]
  BY <1>1 DEF Shape
<1>6. 0 \notin Idx(c) /\ Absent \notin Idx(c) /\ Loading \notin Idx(c)
  BY <1>2, CacheConstants DEF Idx, Shape
<1>7. Len(c.key) <= MaxEntries /\ c.mru \in 0 .. Len(c.key) /\ c.lru \in 0 .. Len(c.key)
  BY <1>1, <1>2 DEF Shape
<1>. QED  BY <1>1, <1>2, <1>3, <1>4, <1>5, <1>6, <1>7 DEF Parts

LEMMA LiveIs ==
    ASSUME NEW c, Shape(c)
    PROVE  /\ C!Live(c) \subseteq Idx(c)
           /\ \A e : e \in C!Live(c) <=> e \in Idx(c) /\ c.table[c.key[e]] = e
BY DEF C!Live, Idx

\* All weights are known.
LEMMA AllWeigh ==
    ASSUME NEW c, Shape(c), NEW es, es \subseteq Idx(c)
    PROVE  Weighs(c.bytes, es) /\ C!SizeOf(c.bytes, es) \in Nat /\ es \subseteq 1 .. MaxEntries
<1>1. Parts(c)
  BY PartsOf
<1>2. \A e \in es : c.bytes[e] \in Nat
  BY <1>1, CacheConstants DEF Parts
<1>3. Weighs(c.bytes, es)
  BY <1>2 DEF Weighs
<1>4. es \subseteq 1 .. MaxEntries
  BY <1>1, CacheConstants DEF Parts, Idx
<1>. QED  BY <1>3, <1>4, SizeType

\* Links after one is written.
Written(n, last, g, f, e, v) ==
    /\ g \in [1 .. n -> 0 .. last]
    /\ \A i \in 1 .. n : g[i] = IF i = e THEN v ELSE f[i]

LEMMA SetIs ==
    ASSUME NEW n \in Nat, NEW last \in Nat, NEW f \in [1 .. n -> 0 .. last], NEW e \in 0 .. n,
           NEW v \in 0 .. last
    PROVE  Written(n, last, C!Set(f, e, v), f, e, v)
BY DEF C!Set, Written

LEMMA LinksAreSeq ==
    ASSUME NEW n \in Nat, NEW f \in [1 .. n -> 0 .. n]
    PROVE  f \in Seq(Nat) /\ Len(f) = n /\ \A i \in 1 .. n : f[i] <= n
<1>1. f \in Seq(Nat)
  <2>1. f \in [1 .. n -> Nat]
    OBVIOUS
  <2>. QED  BY <2>1
<1>. QED  BY <1>1

\* The parts make a cache again.
LEMMA ShapeOf ==
    ASSUME NEW c, Shape(c), NEW d, d \in Caches, d.key = c.key, d.bytes = c.bytes,
           d.prev \in [Idx(c) -> 0 .. Len(c.key)], d.next \in [Idx(c) -> 0 .. Len(c.key)],
           \A k \in Pictures : d.table[k] \in Idx(c) \cup {Absent, Loading},
           d.mru \in 0 .. Len(c.key), d.lru \in 0 .. Len(c.key)
    PROVE  Shape(d) /\ Idx(d) = Idx(c)
<1>1. Parts(c)
  BY PartsOf
<1>2. Len(d.prev) = Len(c.key) /\ Len(d.next) = Len(c.key)
  BY <1>1, LinksAreSeq DEF Parts, Idx
<1>3. \A e \in Idx(c) : d.prev[e] <= Len(c.key) /\ d.next[e] <= Len(c.key)
  BY <1>1 DEF Parts
<1>4. d.mru <= Len(c.key) /\ d.lru <= Len(c.key)
  BY <1>1 DEF Parts
<1>5. Len(c.key) <= MaxEntries /\ Len(c.bytes) = Len(c.key)
  BY DEF Shape
<1>6. Idx(d) = Idx(c)
  BY DEF Idx
<1>. QED  BY <1>2, <1>3, <1>4, <1>5, <1>6 DEF Shape

LEMMA FreeTailIs ==
    ASSUME NEW c, Shape(c), c.lru # 0, NEW d, d = C!FreeTail(c)
    PROVE  /\ Shape(d) /\ Idx(d) = Idx(c)
           /\ d.key = c.key /\ d.bytes = c.bytes /\ d.prev = c.prev /\ d.mru = c.mru
           /\ c.lru \in Idx(c) /\ d.lru = c.prev[c.lru] /\ d.total = c.total - c.bytes[c.lru]
           /\ d.table = [c.table EXCEPT ![c.key[c.lru]] = Absent]
           /\ \A i \in Idx(c) : d.next[i] = IF i = c.prev[c.lru] THEN 0 ELSE c.next[i]
<1>1. Parts(c)
  BY PartsOf
<1>2. c.lru \in Idx(c) /\ c.prev[c.lru] \in 0 .. Len(c.key) /\ c.key[c.lru] \in Pictures
      /\ c.bytes[c.lru] \in Nat
  <2>1. c.lru \in Idx(c)
    BY <1>1 DEF Parts, Idx
  <2>2. c.bytes[c.lru] \in Sizes
    BY <1>1, <2>1 DEF Parts
  <2>3. c.prev[c.lru] \in 0 .. Len(c.key) /\ c.key[c.lru] \in Pictures
    BY <1>1, <2>1 DEF Parts
  <2>. QED  BY <2>1, <2>2, <2>3, CacheConstants
<1> DEFINE n == C!Set(c.next, c.prev[c.lru], 0)
           t == [c.table EXCEPT ![c.key[c.lru]] = Absent]
<1>3. /\ n \in [Idx(c) -> 0 .. Len(c.key)]
      /\ \A i \in Idx(c) : n[i] = IF i = c.prev[c.lru] THEN 0 ELSE c.next[i]
  <2>1. 0 \in 0 .. Len(c.key) /\ Len(c.key) \in Nat /\ c.next \in [1 .. Len(c.key) -> 0 .. Len(c.key)]
    BY <1>1 DEF Parts, Idx
  <2>2. Written(Len(c.key), Len(c.key), n, c.next, c.prev[c.lru], 0)
    BY <1>2, <2>1, SetIs
  <2>. QED  BY <2>2 DEF Written, Idx
<1>4. t \in [Pictures -> Idx(c) \cup {Absent, Loading}]
  BY <1>1 DEF Parts
<1>5. d = [c EXCEPT !.table = t, !.next = n, !.lru = c.prev[c.lru], !.total = c.total - c.bytes[c.lru]]
  BY DEF C!FreeTail, Shape, Caches
<1>6. n \in Seq(Nat)
  BY <1>1, <1>3, LinksAreSeq DEF Parts, Idx
<1>7. t \in [Pictures -> Nat \cup {Absent, Loading}]
  BY <1>1, <1>4 DEF Parts, Idx
<1>8. c \in Caches
  BY DEF Shape
<1> HIDE DEF n, t
<1>9. /\ d.key = c.key /\ d.bytes = c.bytes /\ d.prev = c.prev /\ d.mru = c.mru
      /\ d.lru = c.prev[c.lru] /\ d.total = c.total - c.bytes[c.lru] /\ d.table = t /\ d.next = n
  BY <1>5, <1>8 DEF Caches
<1>10. c.prev[c.lru] \in Nat /\ c.total - c.bytes[c.lru] \in Int
  BY <1>1, <1>2 DEF Parts
<1>11. d \in Caches
  BY <1>5, <1>6, <1>7, <1>8, <1>10 DEF Caches
<1>12. Shape(d) /\ Idx(d) = Idx(c)
  BY <1>1, <1>2, <1>3, <1>4, <1>9, <1>11, ShapeOf DEF Parts
<1>13. t = [c.table EXCEPT ![c.key[c.lru]] = Absent]
  BY DEF t
<1>. QED  BY <1>2, <1>3, <1>9, <1>12, <1>13

LEMMA ListInjective ==
    ASSUME NEW c, NEW a, NEW m, NEW q, Shape(c), Aged(c, a), Chained(c, a, m, q)
    PROVE  /\ \A i, j \in 1 .. m : q[i] = q[j] => i = j
           /\ InList(m, q) \subseteq Idx(c)
           /\ \A i \in 1 .. m : q[i] \in Idx(c) /\ a[q[i]] \in Nat
<1>1. \A i \in 1 .. m : q[i] \in Idx(c) /\ a[q[i]] \in Nat
  BY DEF Chained, Aged
<1>2. ASSUME NEW i \in 1 .. m, NEW j \in 1 .. m, i < j PROVE q[i] # q[j]
  <2>1. a[q[j]] < a[q[i]] /\ a[q[i]] \in Nat /\ a[q[j]] \in Nat
    BY <1>1, <1>2 DEF Chained
  <2>. QED  BY <2>1
<1>3. m \in Nat
  BY DEF Chained
<1>4. \A i, j \in 1 .. m : i = j \/ i < j \/ j < i
  BY <1>3
<1>5. \A i, j \in 1 .. m : q[i] = q[j] => i = j
  BY <1>2, <1>4
<1>6. InList(m, q) \subseteq Idx(c)
  BY <1>1 DEF InList
<1>. QED  BY <1>1, <1>5, <1>6

\* The list without its oldest entry
Rest(m, q) == [i \in 1 .. m - 1 |-> q[i + 1]]

\* A turn of the loop keeps the list, and frees its oldest entry.
Freed(c, d, a, m, q) ==
    /\ ListOK(d, a, m - 1, Rest(m, q))
    /\ d.key = c.key /\ d.bytes = c.bytes /\ d.total < c.total
    /\ m \in Nat /\ m # 0 /\ q[1] \in Idx(c)
    /\ InList(m - 1, Rest(m, q)) = InList(m, q) \ {q[1]}
    /\ \A e : e \in C!Live(d) <=> e \in C!Live(c) /\ c.key[e] # c.key[q[1]]
    /\ Whole(c, m, q) => Whole(d, m - 1, Rest(m, q))
    /\ Current(c, m, q) => Current(d, m - 1, Rest(m, q))

LEMMA TailFreed ==
    ASSUME NEW c, NEW a, NEW m, NEW q, ListOK(c, a, m, q), c.lru # 0, NEW d, d = C!FreeTail(c)
    PROVE  Freed(c, d, a, m, q)
<1> DEFINE r == Rest(m, q)
<1>1. Shape(c) /\ Aged(c, a) /\ Chained(c, a, m, q) /\ Linked(c, a) /\ Apart(c, a, m, q) /\ Weighed(c, m, q)
  BY DEF ListOK
<1>2. Parts(c)
  BY <1>1, PartsOf
<1>3. /\ Shape(d) /\ Idx(d) = Idx(c)
      /\ d.key = c.key /\ d.bytes = c.bytes /\ d.prev = c.prev /\ d.mru = c.mru
      /\ c.lru \in Idx(c) /\ d.lru = c.prev[c.lru] /\ d.total = c.total - c.bytes[c.lru]
      /\ d.table = [c.table EXCEPT ![c.key[c.lru]] = Absent]
      /\ \A i \in Idx(c) : d.next[i] = IF i = c.prev[c.lru] THEN 0 ELSE c.next[i]
  BY <1>1, FreeTailIs
<1>4. m \in Nat /\ m # 0 /\ 1 \in 1 .. m /\ c.lru = q[1] /\ q[1] \in Idx(c)
  BY <1>1, <1>3 DEF Chained
<1>5. /\ \A i, j \in 1 .. m : q[i] = q[j] => i = j
      /\ InList(m, q) \subseteq Idx(c)
      /\ \A i \in 1 .. m : q[i] \in Idx(c) /\ a[q[i]] \in Nat
  BY <1>1, ListInjective
<1>6. /\ \A i \in 1 .. m - 1 : i + 1 \in 1 .. m /\ i \in 1 .. m /\ r[i] = q[i + 1] /\ i + 1 # 1
      /\ r \in [1 .. m - 1 -> Idx(c)] /\ m - 1 \in Nat
  <2>1. \A i \in 1 .. m - 1 : i + 1 \in 1 .. m /\ i \in 1 .. m /\ i + 1 # 1
    BY <1>4
  <2>2. m - 1 \in Nat
    BY <1>4
  <2>. QED  BY <1>5, <2>1, <2>2 DEF Rest
<1> HIDE DEF r
<1>7. InList(m - 1, r) = InList(m, q) \ {q[1]}
  <2>1. ASSUME NEW e \in InList(m - 1, r) PROVE e \in InList(m, q) \ {q[1]}
    <3>1. PICK i \in 1 .. m - 1 : e = r[i]
      BY DEF InList
    <3>2. e = q[i + 1] /\ i + 1 \in 1 .. m /\ q[i + 1] # q[1]
      BY <1>4, <1>5, <1>6, <3>1
    <3>. QED  BY <3>2 DEF InList
  <2>2. ASSUME NEW e \in InList(m, q) \ {q[1]} PROVE e \in InList(m - 1, r)
    <3>1. PICK i \in 1 .. m : e = q[i] /\ i # 1
      BY DEF InList
    <3>2. i - 1 \in 1 .. m - 1 /\ (i - 1) + 1 = i
      BY <1>4, <3>1
    <3>3. e = r[i - 1]
      BY <1>6, <3>1, <3>2
    <3>. QED  BY <3>2, <3>3 DEF InList
  <2>. QED  BY <2>1, <2>2
<1>8. \A e : e \in C!Live(d) <=> e \in C!Live(c) /\ c.key[e] # c.key[q[1]]
  <2>1. \A e : e \in C!Live(d) <=> e \in Idx(c) /\ d.table[c.key[e]] = e
    <3>1. Shape(d) /\ Idx(d) = Idx(c) /\ d.key = c.key
      BY <1>3
    <3>2. \A e : e \in C!Live(d) <=> e \in Idx(d) /\ d.table[d.key[e]] = e
      BY <3>1, LiveIs
    <3>. QED  BY <3>1, <3>2, Zenon
  <2>2. \A e : e \in C!Live(c) <=> e \in Idx(c) /\ c.table[c.key[e]] = e
    BY <1>1, LiveIs
  <2>3. \A e \in Idx(c) : c.key[e] \in Pictures
    BY <1>2 DEF Parts
  <2>4. \A e \in Idx(c) : d.table[c.key[e]] = IF c.key[e] = c.key[q[1]] THEN Absent ELSE c.table[c.key[e]]
    BY <1>2, <1>3, <1>4, <2>3 DEF Parts
  <2>5. \A e \in Idx(c) : e # Absent
    BY <1>2 DEF Parts
  <2>. QED  BY <2>1, <2>2, <2>4, <2>5
<1>9. Aged(d, a)
  BY <1>1, <1>3 DEF Aged
<1>10. Chained(d, a, m - 1, r)
  <2>1. (d.lru = 0) = (m - 1 = 0)
    <3>1. CASE m = 1
      BY <1>1, <1>3, <1>4, <3>1 DEF Chained
    <3>2. CASE m # 1
      <4>1. 1 \in 1 .. m - 1 /\ m - 1 # 0 /\ 1 + 1 = 2
        BY <1>4, <3>2
      <4>2. c.prev[q[1]] = q[1 + 1] /\ q[1 + 1] \in Idx(c)
        BY <1>1, <1>5, <1>6, <4>1 DEF Chained
      <4>3. d.lru # 0
        BY <1>2, <1>3, <1>4, <4>2 DEF Parts
      <4>. QED  BY <4>1, <4>3
    <3>. QED  BY <3>1, <3>2
  <2>2. m - 1 # 0 => d.lru = r[1] /\ d.mru = r[m - 1] /\ d.prev[r[m - 1]] = 0
    <3>1. SUFFICES ASSUME m - 1 # 0 PROVE d.lru = r[1] /\ d.mru = r[m - 1] /\ d.prev[r[m - 1]] = 0
      OBVIOUS
    <3>2. 1 \in 1 .. m - 1 /\ m - 1 \in 1 .. m - 1 /\ (m - 1) + 1 = m
      BY <1>4, <3>1
    <3>3. c.prev[q[1]] = q[1 + 1] /\ r[1] = q[1 + 1] /\ r[m - 1] = q[m]
      BY <1>1, <1>6, <3>2 DEF Chained
    <3>4. c.mru = q[m] /\ c.prev[q[m]] = 0
      BY <1>1, <1>4 DEF Chained
    <3>. QED  BY <1>3, <1>4, <3>3, <3>4
  <2>3. ASSUME NEW i \in 1 .. (m - 1) - 1
        PROVE  d.prev[r[i]] = r[i + 1] /\ d.next[r[i + 1]] = r[i]
    <3>1. i \in 1 .. m - 1 /\ i + 1 \in 1 .. m - 1 /\ (i + 1) + 1 \in 1 .. m /\ 1 \in 1 .. m - 1 /\ 1 + 1 \in 1 .. m
          /\ (i + 1) + 1 # 1 + 1
      BY <1>4
    <3>2. r[i] = q[i + 1] /\ r[i + 1] = q[(i + 1) + 1]
      BY <1>6, <3>1
    <3>3. c.prev[q[i + 1]] = q[(i + 1) + 1] /\ c.next[q[(i + 1) + 1]] = q[i + 1] /\ c.prev[q[1]] = q[1 + 1]
      BY <1>1, <3>1 DEF Chained
    <3>4. q[(i + 1) + 1] # q[1 + 1] /\ q[(i + 1) + 1] \in Idx(c)
      BY <1>5, <3>1
    <3>. QED  BY <1>3, <1>4, <3>2, <3>3, <3>4
  <2>4. ASSUME NEW i \in 1 .. m - 1, NEW j \in 1 .. m - 1, i < j PROVE a[r[j]] < a[r[i]]
    <3>1. i + 1 < j + 1 /\ i + 1 \in 1 .. m /\ j + 1 \in 1 .. m /\ r[i] = q[i + 1] /\ r[j] = q[j + 1]
      BY <1>4, <1>6, <2>4
    <3>. QED  BY <1>1, <3>1 DEF Chained
  <2>. QED  BY <1>3, <1>6, <2>1, <2>2, <2>3, <2>4 DEF Chained
<1>11. Linked(d, a)
  <2>1. \A x \in C!Live(d) : x \in C!Live(c) /\ x \in Idx(c)
    BY <1>1, <1>8, LiveIs
  <2>2. \A x \in C!Live(d) : d.next[x] = 0 \/ d.next[x] = c.next[x]
    BY <1>3, <2>1
  <2>3. \A x \in C!Live(d) : x # 0
    BY <1>2, <2>1 DEF Parts
  <2>4. ASSUME NEW x \in C!Live(d), NEW y \in C!Live(d), d.prev[x] = y PROVE d.next[y] = x
    <3>1. c.next[y] = x
      BY <1>1, <1>3, <2>1, <2>4 DEF Linked
    <3>2. CASE y # c.prev[q[1]]
      BY <1>3, <1>4, <2>1, <3>1, <3>2
    <3>3. CASE y = c.prev[q[1]]
      <4>1. m # 1
        BY <1>1, <2>3, <3>3 DEF Chained
      <4>2. 1 \in 1 .. m - 1
        BY <1>4, <4>1
      <4>3. c.prev[q[1]] = q[1 + 1] /\ c.next[q[1 + 1]] = q[1]
        BY <1>1, <4>2 DEF Chained
      <4>4. x = q[1]
        BY <3>1, <3>3, <4>3
      <4>. QED  BY <1>8, <4>4
    <3>. QED  BY <3>2, <3>3
  <2>5. \A x, y \in C!Live(d) : d.next[y] = x => d.prev[x] = y
    BY <1>1, <1>3, <2>1, <2>2, <2>3 DEF Linked
  <2>6. /\ \A x \in C!Live(d) : d.next[x] # 0 => a[x] < a[d.next[x]]
        /\ \A x \in C!Live(d) : d.prev[x] # 0 => a[d.prev[x]] < a[x]
    BY <1>1, <1>3, <2>1, <2>2, <2>3 DEF Linked
  <2>. QED  BY <2>4, <2>5, <2>6 DEF Linked
<1>12. Apart(d, a, m - 1, r)
  <2>1. SUFFICES ASSUME NEW x \in C!Live(d), x \notin InList(m - 1, r)
                 PROVE  /\ \A z \in InList(m - 1, r) : a[z] < a[x]
                        /\ d.prev[x] \in InList(m - 1, r) => d.prev[x] = d.lru
    BY DEF Apart
  <2>2. x \in C!Live(c) /\ x # q[1]
    BY <1>8
  <2>3. x \in C!Live(c) \ InList(m, q)
    BY <1>7, <2>1, <2>2
  <2>4. /\ \A z \in InList(m, q) : a[z] < a[x]
        /\ c.prev[x] \in InList(m, q) => c.prev[x] = c.lru
    BY <1>1, <2>3 DEF Apart
  <2>. QED  BY <1>3, <1>4, <1>7, <2>4
<1>13. /\ C!SizeOf(c.bytes, InList(m, q)) = C!SizeOf(c.bytes, InList(m - 1, r)) + c.bytes[q[1]]
       /\ C!SizeOf(c.bytes, InList(m - 1, r)) \in Nat /\ c.bytes[q[1]] \in Nat \ {0}
  <2>1. InList(m - 1, r) \subseteq Idx(c) /\ q[1] \notin InList(m - 1, r)
    BY <1>5, <1>7
  <2>2. InList(m, q) = InList(m - 1, r) \cup {q[1]}
    BY <1>4, <1>7 DEF InList
  <2>3. c.bytes[q[1]] \in Nat \ {0} /\ q[1] \in 1 .. MaxEntries
    <3>1. c.bytes[q[1]] \in Sizes
      BY <1>2, <1>4 DEF Parts
    <3>2. {q[1]} \subseteq Idx(c)
      BY <1>4
    <3>. QED  BY <1>1, <3>1, <3>2, CacheConstants, AllWeigh
  <2>4. Weighs(c.bytes, InList(m - 1, r)) /\ C!SizeOf(c.bytes, InList(m - 1, r)) \in Nat
    BY <1>1, <2>1, AllWeigh
  <2>5. C!SizeOf(c.bytes, InList(m - 1, r) \cup {q[1]}) = C!SizeOf(c.bytes, InList(m - 1, r)) + c.bytes[q[1]]
    BY <2>1, <2>3, <2>4, SizeAdds
  <2>. QED  BY <2>2, <2>3, <2>4, <2>5
<1>14. C!SizeOf(c.bytes, C!Live(d) \cup InList(m - 1, r)) + c.bytes[q[1]] <= C!SizeOf(c.bytes, C!Live(c) \cup InList(m, q))
  <2> DEFINE w == C!Live(d) \cup InList(m - 1, r)
             v == C!Live(c) \cup InList(m, q)
  <2>1. C!Live(c) \subseteq Idx(c) /\ C!Live(d) \subseteq Idx(c) /\ C!Live(d) \subseteq C!Live(c)
    BY <1>1, <1>8, LiveIs
  <2>2. w \subseteq Idx(c) /\ v \subseteq Idx(c) /\ q[1] \notin w /\ w \cup {q[1]} \subseteq v /\ w \cup {q[1]} \subseteq Idx(c)
    <3>1. q[1] \in InList(m, q)
      BY <1>4 DEF InList
    <3>2. q[1] \notin C!Live(d) /\ q[1] \notin InList(m - 1, r)
      BY <1>7, <1>8
    <3>. QED  BY <1>5, <1>7, <2>1, <3>1, <3>2
  <2> HIDE DEF w, v
  <2>3. Weighs(c.bytes, w) /\ Weighs(c.bytes, w \cup {q[1]}) /\ Weighs(c.bytes, v) /\ C!SizeOf(c.bytes, w) \in Nat
    BY <1>1, <2>2, AllWeigh
  <2>4. q[1] \in 1 .. MaxEntries
    <3>1. {q[1]} \subseteq Idx(c)
      BY <1>4
    <3>. QED  BY <1>1, <3>1, AllWeigh
  <2>5. C!SizeOf(c.bytes, w \cup {q[1]}) = C!SizeOf(c.bytes, w) + c.bytes[q[1]]
    BY <1>13, <2>2, <2>3, <2>4, SizeAdds
  <2>6. C!SizeOf(c.bytes, w \cup {q[1]}) <= C!SizeOf(c.bytes, v)
    BY <2>2, <2>3, SizeGrows
  <2>. QED  BY <2>5, <2>6 DEF w, v
<1>15. Weighed(d, m - 1, r) /\ d.total < c.total
  <2>1. C!SizeOf(c.bytes, C!Live(c) \cup InList(m, q)) \in Nat /\ C!SizeOf(c.bytes, C!Live(d) \cup InList(m - 1, r)) \in Nat
        /\ C!SizeOf(c.bytes, InList(m, q)) \in Nat
    <3>1. C!Live(c) \cup InList(m, q) \subseteq Idx(c) /\ C!Live(d) \cup InList(m - 1, r) \subseteq Idx(c)
      BY <1>1, <1>5, <1>7, <1>8, LiveIs
    <3>. QED  BY <1>1, <1>5, <3>1, AllWeigh
  <2>2. c.total \in Int /\ d.total = c.total - c.bytes[q[1]] /\ Limit \in Nat
    BY <1>2, <1>3, <1>4, CacheConstants DEF Parts
  <2>. QED  BY <1>1, <1>3, <1>13, <1>14, <2>1, <2>2 DEF Weighed
<1>16. Whole(c, m, q) => Whole(d, m - 1, r)
  <2>1. SUFFICES ASSUME Whole(c, m, q) PROVE Whole(d, m - 1, r)
    OBVIOUS
  <2>2. C!Live(d) \subseteq InList(m - 1, r)
    BY <1>7, <1>8, <2>1 DEF Whole
  <2>3. d.total = C!SizeOf(c.bytes, InList(m - 1, r))
    BY <1>3, <1>4, <1>13, <2>1 DEF Whole
  <2>. QED  BY <1>3, <2>2, <2>3 DEF Whole
<1>17. Current(c, m, q) => Current(d, m - 1, r)
  <2>1. SUFFICES ASSUME Current(c, m, q), NEW z \in InList(m - 1, r) PROVE z \in C!Live(d)
    BY DEF Current
  <2>2. z \in C!Live(c) /\ q[1] \in C!Live(c) /\ z # q[1]
    BY <1>4, <1>7, <2>1 DEF Current, InList
  <2>3. c.table[c.key[z]] = z /\ c.table[c.key[q[1]]] = q[1]
    BY <1>1, <2>2, LiveIs
  <2>. QED  BY <1>8, <2>2, <2>3
<1>18. Keyed(d)
  <2>1. Keyed(c)
    BY DEF ListOK
  <2>2. \A k \in Pictures : d.table[k] = IF k = c.key[q[1]] THEN Absent ELSE c.table[k]
    BY <1>2, <1>3, <1>4 DEF Parts
  <2>3. Absent \notin Idx(c)
    BY <1>2 DEF Parts
  <2>. QED  BY <1>3, <2>1, <2>2, <2>3 DEF Keyed
<1>19. ListOK(d, a, m - 1, r)
  BY <1>3, <1>9, <1>10, <1>11, <1>12, <1>15, <1>18 DEF ListOK
<1>. QED  BY <1>3, <1>4, <1>7, <1>8, <1>15, <1>16, <1>17, <1>19 DEF Freed, r

-----------------------------------------------------------------------------
(* The cache from inside: the loop of set() *)

\* What a few turns of the loop may make of a cache.
Turned(c, a, m, q, d, n, r) ==
    /\ ListOK(d, a, n, r) /\ d.key = c.key /\ d.bytes = c.bytes
    /\ C!Live(d) \subseteq C!Live(c)
    /\ Whole(c, m, q) => Whole(d, n, r)
    /\ Current(c, m, q) => Current(d, n, r)
    /\ Whole(c, m, q) /\ Current(c, m, q)
          => \A x \in C!Live(c) \ C!Live(d), y \in C!Live(d) : a[y] < a[x]

Turns(c, a, m, q) == {d \in Caches : \E n, r : Turned(c, a, m, q, d, n, r)}

LEMMA TurnKeeps ==
    ASSUME NEW c, NEW a, NEW m, NEW q, NEW d \in Turns(c, a, m, q)
    PROVE  /\ C!FreeMore(d) \in Turns(c, a, m, q)
           /\ C!FreeMore(d) = d \/ C!FreeMore(d).total < d.total
           /\ C!FreeMore(d) = d => d.total <= Limit \/ d.lru = 0
           /\ d.total <= Limit \/ d.lru = 0 => C!FreeMore(d) = d
<1>0. PICK n, r : Turned(c, a, m, q, d, n, r)
  BY DEF Turns
<1>1. CASE ~(d.total > Limit /\ d.lru # 0)
  <2>1. C!FreeMore(d) = d
    BY <1>1 DEF C!FreeMore
  <2>2. d.total \in Int /\ Limit \in Int
    BY CacheConstants DEF Turns, Caches
  <2>3. d.total <= Limit \/ d.lru = 0
    BY <1>1, <2>2
  <2>. QED  BY <2>1, <2>3
<1>2. CASE d.total > Limit /\ d.lru # 0
  <2> DEFINE e == C!FreeTail(d)
             s == Rest(n, r)
  <2>1. C!FreeMore(d) = e
    BY <1>2 DEF C!FreeMore
  <2>2. ListOK(d, a, n, r)
    BY <1>0 DEF Turned
  <2>3. Freed(d, e, a, n, r)
    BY <1>2, <2>2, TailFreed
  <2> HIDE DEF e
  <2>4. ASSUME Whole(c, m, q), Current(c, m, q), NEW x \in C!Live(c) \ C!Live(e), NEW y \in C!Live(e)
        PROVE  a[y] < a[x]
    <3>1. Whole(d, n, r) /\ Current(d, n, r) /\ Whole(e, n - 1, s)
      BY <1>0, <2>3, <2>4 DEF Turned, Freed
    <3>2. y \in C!Live(d) /\ y \in InList(n - 1, s)
      BY <2>3, <3>1 DEF Freed, Whole
    <3>3. CASE x \notin C!Live(d)
      BY <1>0, <2>4, <3>2, <3>3 DEF Turned
    <3>4. CASE x \in C!Live(d)
      <4>1. d.key[x] = d.key[r[1]]
        BY <2>3, <3>4 DEF Freed
      <4>2. n \in Nat /\ n # 0 /\ 1 \in 1 .. n
        BY <2>3 DEF Freed
      <4>3. r[1] \in C!Live(d)
        BY <3>1, <4>2 DEF Current, InList
      <4>4. d.table[d.key[x]] = x /\ d.table[d.key[r[1]]] = r[1]
        BY <2>2, <3>4, <4>3, LiveIs DEF ListOK
      <4>5. x = r[1]
        BY <4>1, <4>4
      <4>6. PICK i \in 1 .. n - 1 : y = r[i + 1]
        BY <3>2 DEF InList, Rest
      <4>7. i + 1 \in 1 .. n /\ 1 < i + 1
        BY <4>2
      <4>. QED  BY <2>2, <4>2, <4>5, <4>6, <4>7 DEF ListOK, Chained
    <3>. QED  BY <3>3, <3>4
  <2>5. Turned(c, a, m, q, e, n - 1, s)
    <3>1. ListOK(e, a, n - 1, s) /\ e.key = c.key /\ e.bytes = c.bytes /\ C!Live(e) \subseteq C!Live(c)
      BY <1>0, <2>3 DEF Turned, Freed
    <3>2. (Whole(c, m, q) => Whole(e, n - 1, s)) /\ (Current(c, m, q) => Current(e, n - 1, s))
      BY <1>0, <2>3 DEF Turned, Freed
    <3>. QED  BY <2>4, <3>1, <3>2 DEF Turned
  <2>6. e \in Caches
    BY <2>5 DEF Turned, ListOK, Shape
  <2>7. e \in Turns(c, a, m, q)
    BY <2>5, <2>6 DEF Turns
  <2>8. e.total < d.total /\ e.total \in Int /\ d.total \in Int /\ Limit \in Int
    BY <2>3, <2>6, CacheConstants DEF Freed, Turns, Caches
  <2>. QED  BY <1>2, <2>1, <2>7, <2>8
<1>. QED  BY <1>1, <1>2

LEMMA LimitIsKept ==
    ASSUME NEW c, NEW a, NEW m, NEW q, ListOK(c, a, m, q), NEW d, d = C!KeepLimit(c)
    PROVE  d \in Turns(c, a, m, q) /\ d.total <= Limit
<1> DEFINE V == Turns(c, a, m, q)
           G == [p \in Nat \X V |-> C!FreeMore(p[2])]
           IsLoop(f) == f = [n \in Nat |-> IF n = 0 THEN c ELSE C!FreeMore(f[n - 1])]
<1>1. d = (CHOOSE f : IsLoop(f))[c.total]
  BY DEF C!KeepLimit
<1>2. c \in V
  <2>1. Turned(c, a, m, q, c, m, q)
    BY DEF Turned
  <2>. QED  BY <2>1 DEF Turns, ListOK, Shape
<1>3. c.total \in Nat
  <2>1. Shape(c) /\ Chained(c, a, m, q) /\ Aged(c, a) /\ Weighed(c, m, q)
    BY DEF ListOK
  <2>2. C!Live(c) \cup InList(m, q) \subseteq Idx(c)
    BY <2>1, LiveIs, ListInjective
  <2>3. C!SizeOf(c.bytes, C!Live(c) \cup InList(m, q)) \in Nat
    BY <2>1, <2>2, AllWeigh
  <2>4. c.total \in Int
    BY <2>1, PartsOf DEF Parts
  <2>. QED  BY <2>1, <2>3, <2>4 DEF Weighed
<1> HIDE DEF V
<1>4. \A e \in V : C!FreeMore(e) \in V
  BY TurnKeeps DEF V
<1>5. G \in [Nat \X V -> V] /\ \A n \in Nat, e \in V : G[<<n, e>>] = C!FreeMore(e)
  BY <1>4
<1> HIDE DEF G
<1>6. Made(V, c, G)
  BY <1>2, <1>5, Recursion
<1>7. PICK F \in [Nat -> V] : F[0] = c /\ \A n \in Nat : F[n + 1] = G[<<n, F[n]>>]
  BY <1>6 DEF Made
<1>8. IsLoop(F)
  <2>1. ASSUME NEW n \in Nat PROVE F[n] = IF n = 0 THEN c ELSE C!FreeMore(F[n - 1])
    <3>1. CASE n = 0
      BY <1>7, <3>1
    <3>2. CASE n # 0
      <4>1. n - 1 \in Nat /\ (n - 1) + 1 = n
        BY <3>2
      <4>2. F[n - 1] \in V /\ F[n] = G[<<n - 1, F[n - 1]>>]
        BY <1>7, <4>1
      <4>. QED  BY <1>5, <3>2, <4>1, <4>2
    <3>. QED  BY <3>1, <3>2
  <2>. QED  BY <1>7, <2>1
<1> DEFINE u == CHOOSE f : IsLoop(f)
<1>9. IsLoop(u)
  <2> HIDE DEF IsLoop
  <2>. QED  BY <1>8
<1> HIDE DEF u
<1>10. u[0] = c /\ \A n \in Nat : u[n + 1] = C!FreeMore(u[n])
  <2>1. \A n \in Nat : u[n] = IF n = 0 THEN c ELSE C!FreeMore(u[n - 1])
    BY <1>9
  <2>2. \A n \in Nat : n + 1 \in Nat /\ n + 1 # 0 /\ (n + 1) - 1 = n
    OBVIOUS
  <2>. QED  BY <2>1, <2>2
<1>11. \A e \in V : e.total \in Int
  BY DEF V, Turns, Caches
<1> DEFINE T == {n \in Nat : u[n] \in V /\ (u[n].total <= Limit \/ u[n].lru = 0 \/ u[n].total <= c.total - n)}
<1>12. 0 \in T
  BY <1>2, <1>3, <1>10
<1>13. \A n \in Nat : n \in T => n + 1 \in T
  <2> SUFFICES ASSUME NEW n \in Nat, n \in T PROVE n + 1 \in T
    OBVIOUS
  <2>1. u[n] \in V /\ u[n + 1] = C!FreeMore(u[n])
    BY <1>10
  <2>2. u[n + 1] \in V
    BY <1>4, <2>1
  <2>3. /\ u[n + 1] = u[n] \/ u[n + 1].total < u[n].total
        /\ u[n + 1] = u[n] => u[n].total <= Limit \/ u[n].lru = 0
        /\ u[n].total <= Limit \/ u[n].lru = 0 => u[n + 1] = u[n]
    BY <2>1, TurnKeeps DEF V
  <2>4. CASE u[n].total <= Limit \/ u[n].lru = 0
    BY <2>2, <2>3, <2>4
  <2>5. CASE ~(u[n].total <= Limit \/ u[n].lru = 0)
    <3>1. u[n].total <= c.total - n /\ u[n + 1].total < u[n].total
      BY <2>3, <2>5
    <3>2. u[n].total \in Int /\ u[n + 1].total \in Int
      BY <1>11, <2>1, <2>2
    <3>3. u[n + 1].total <= c.total - (n + 1)
      BY <1>3, <3>1, <3>2
    <3>. QED  BY <2>2, <3>3
  <2>. QED  BY <2>4, <2>5
<1>14. c.total \in T
  <2> HIDE DEF T
  <2>. QED  BY <1>3, <1>12, <1>13, Induct
<1>15. d \in V /\ (d.total <= Limit \/ d.lru = 0 \/ d.total <= c.total - c.total)
  BY <1>1, <1>14 DEF u
<1>16. d.lru = 0 => d.total <= Limit
  <2>1. SUFFICES ASSUME d.lru = 0 PROVE d.total <= Limit
    OBVIOUS
  <2>2. PICK n, r : Turned(c, a, m, q, d, n, r)
    BY <1>15 DEF V, Turns
  <2>3. n = 0 /\ d.total <= Limit + C!SizeOf(d.bytes, InList(n, r))
    BY <2>1, <2>2 DEF Turned, ListOK, Chained, Weighed
  <2>4. InList(n, r) = {}
    BY <2>3 DEF InList
  <2>. QED  BY <2>3, <2>4, SizeOfNone, CacheConstants
<1>17. d.total <= Limit
  BY <1>3, <1>11, <1>15, <1>16, CacheConstants
<1>. QED  BY <1>15, <1>17 DEF V

-----------------------------------------------------------------------------
(* The cache from inside: set() *)

\* A sequence after one more
OneMoreIn(S, n, g, f, x) ==
    /\ g \in Seq(S) /\ Len(g) = n + 1 /\ g \in [1 .. n + 1 -> S]
    /\ g[n + 1] = x /\ \A i \in 1 .. n : g[i] = f[i]

LEMMA AppendIs ==
    ASSUME NEW S, NEW n \in Nat, NEW f \in [1 .. n -> S], NEW x \in S
    PROVE  OneMoreIn(S, n, Append(f, x), f, x)
<1>1. f \in Seq(S) /\ Len(f) = n
  OBVIOUS
<1>2. Append(f, x) \in Seq(S) /\ Len(Append(f, x)) = n + 1
  BY <1>1
<1>3. Append(f, x)[n + 1] = x /\ \A i \in 1 .. n : Append(f, x)[i] = f[i]
  BY <1>1
<1>4. \A g \in Seq(S) : g \in [1 .. Len(g) -> S]
  OBVIOUS
<1>5. Append(f, x) \in [1 .. n + 1 -> S]
  BY <1>2, <1>4
<1>. QED  BY <1>2, <1>3, <1>5 DEF OneMoreIn

\* Everything is one use older, and there is a new one.
Older(c, a) == Append([e \in Idx(c) |-> a[e] + 1], 0)

LEMMA OlderIs ==
    ASSUME NEW c, NEW a, Parts(c), Aged(c, a)
    PROVE  /\ Older(c, a) \in [1 .. Len(c.key) + 1 -> Nat] /\ Older(c, a)[Len(c.key) + 1] = 0
           /\ \A e \in Idx(c) : Older(c, a)[e] = a[e] + 1 /\ a[e] \in Nat
<1> DEFINE f == [e \in Idx(c) |-> a[e] + 1]
<1>1. f \in [1 .. Len(c.key) -> Nat] /\ Len(c.key) \in Nat /\ 0 \in Nat
  BY DEF Parts, Aged, Idx
<1>2. \A e \in Idx(c) : f[e] = a[e] + 1 /\ a[e] \in Nat
  BY DEF Aged
<1> HIDE DEF f
<1>3. OneMoreIn(Nat, Len(c.key), Append(f, 0), f, 0)
  BY <1>1, AppendIs
<1>. QED  BY <1>2, <1>3 DEF Older, f, Idx, OneMoreIn

\* The links and fields after a new entry, N, is linked
NewIs(c, k, size, d, N) ==
    /\ N = Len(c.key) + 1 /\ N \notin Idx(c) /\ N # 0 /\ Idx(d) = Idx(c) \cup {N} /\ Shape(d)
    /\ \A e \in Idx(c) : d.key[e] = c.key[e] /\ d.bytes[e] = c.bytes[e] /\ d.next[e] = c.next[e]
    /\ \A e \in Idx(c) : d.prev[e] = IF e = c.mru THEN N ELSE c.prev[e]
    /\ d.key[N] = k /\ d.bytes[N] = size /\ d.prev[N] = 0 /\ d.next[N] = c.mru
    /\ d.table = [c.table EXCEPT ![k] = N] /\ d.mru = N
    /\ d.lru = IF c.lru = 0 \/ c.mru = 0 THEN N ELSE c.lru
    /\ d.total = c.total + size /\ Len(d.key) = N

LEMMA LinkNewIs ==
    ASSUME NEW c, Shape(c), Len(c.key) < MaxEntries, NEW k \in Pictures, NEW size \in Sizes,
           NEW d, d = C!LinkNew(c, k, size)
    PROVE  NewIs(c, k, size, d, Len(c.key) + 1)
<1>1. Parts(c) /\ c \in Caches
  BY PartsOf DEF Shape
<1> DEFINE n == Len(c.key)
           N == n + 1
           p == C!Set(c.prev, c.mru, N)
<1>2. n \in Nat /\ N \in Nat /\ N # 0 /\ N \notin Idx(c) /\ 1 .. N = Idx(c) \cup {N} /\ n < MaxEntries /\ N <= MaxEntries
  BY <1>1, CacheConstants DEF Parts, Idx
<1>3. size \in Nat /\ 0 \in 0 .. N /\ N \in 0 .. N /\ c.mru \in 0 .. N /\ c.lru \in 0 .. N
  BY <1>1, <1>2, CacheConstants DEF Parts
<1>4. Written(n, N, p, c.prev, c.mru, N)
  <2>1. c.prev \in [1 .. n -> 0 .. N] /\ c.mru \in 0 .. n
    <3>1. 0 .. n \subseteq 0 .. N
      BY <1>2
    <3>. QED  BY <1>1, <3>1 DEF Parts, Idx
  <2>. QED  BY <1>2, <1>3, <2>1, SetIs
<1>5. p \in [1 .. n -> 0 .. N] /\ \A e \in Idx(c) : p[e] = IF e = c.mru THEN N ELSE c.prev[e]
  BY <1>4 DEF Written, Idx
<1>6. d = [c EXCEPT !.table = [c.table EXCEPT ![k] = N],
                    !.key = Append(c.key, k), !.bytes = Append(c.bytes, size),
                    !.prev = Append(p, 0), !.next = Append(c.next, c.mru),
                    !.mru = N, !.lru = IF c.lru = 0 \/ c.mru = 0 THEN N ELSE c.lru,
                    !.total = c.total + size]
  BY <1>1 DEF C!LinkNew, Caches
<1> HIDE DEF n, p
<1>7. /\ d.table = [c.table EXCEPT ![k] = N]
      /\ d.key = Append(c.key, k) /\ d.bytes = Append(c.bytes, size)
      /\ d.prev = Append(p, 0) /\ d.next = Append(c.next, c.mru)
      /\ d.mru = N /\ d.lru = (IF c.lru = 0 \/ c.mru = 0 THEN N ELSE c.lru)
      /\ d.total = c.total + size
  BY <1>1, <1>6 DEF Caches
<1>8. /\ d.key \in Seq(Pictures) /\ Len(d.key) = N /\ d.key[N] = k
      /\ \A e \in Idx(c) : d.key[e] = c.key[e]
  <2>1. c.key \in [1 .. n -> Pictures]
    BY <1>1 DEF Parts, Idx, n
  <2>2. OneMoreIn(Pictures, n, Append(c.key, k), c.key, k)
    BY <1>2, <2>1, AppendIs
  <2>. QED  BY <1>7, <2>2 DEF Idx, n, OneMoreIn
<1>9. /\ d.bytes \in Seq(Sizes) /\ Len(d.bytes) = N /\ d.bytes[N] = size
      /\ \A e \in Idx(c) : d.bytes[e] = c.bytes[e]
  <2>1. c.bytes \in [1 .. n -> Sizes]
    BY <1>1 DEF Parts, Idx, n
  <2>2. OneMoreIn(Sizes, n, Append(c.bytes, size), c.bytes, size)
    BY <1>2, <2>1, AppendIs
  <2>. QED  BY <1>7, <2>2 DEF Idx, n, OneMoreIn
<1>10. /\ d.prev \in [1 .. N -> 0 .. N] /\ Len(d.prev) = N /\ d.prev[N] = 0
       /\ \A e \in Idx(c) : d.prev[e] = IF e = c.mru THEN N ELSE c.prev[e]
  <2>1. OneMoreIn(0 .. N, n, Append(p, 0), p, 0)
    BY <1>2, <1>3, <1>5, AppendIs
  <2>. QED  BY <1>5, <1>7, <2>1 DEF Idx, n, OneMoreIn
<1>11. /\ d.next \in [1 .. N -> 0 .. N] /\ Len(d.next) = N /\ d.next[N] = c.mru
       /\ \A e \in Idx(c) : d.next[e] = c.next[e]
  <2>0. c.next \in [1 .. n -> 0 .. N]
    <3>1. 0 .. n \subseteq 0 .. N
      BY <1>2
    <3>. QED  BY <1>1, <3>1 DEF Parts, Idx, n
  <2>1. OneMoreIn(0 .. N, n, Append(c.next, c.mru), c.next, c.mru)
    BY <1>2, <1>3, <2>0, AppendIs
  <2>. QED  BY <1>7, <2>1 DEF Idx, n, OneMoreIn
<1>12. Idx(d) = Idx(c) \cup {N}
  BY <1>2, <1>8 DEF Idx
<1>13. Shape(d)
  <2>1. d.prev \in Seq(Nat) /\ d.next \in Seq(Nat)
    BY <1>2, <1>10, <1>11, LinksAreSeq
  <2>2. d.table \in [Pictures -> Nat \cup {Absent, Loading}]
    BY <1>1, <1>2, <1>7 DEF Caches
  <2>3. d.total \in Int /\ d.mru \in Nat /\ d.lru \in Nat
    BY <1>1, <1>2, <1>3, <1>7 DEF Parts
  <2>4. d \in Caches
    BY <1>1, <1>6, <1>7, <1>8, <1>9, <2>1, <2>2, <2>3 DEF Caches
  <2>5. \A e \in Idx(d) : d.prev[e] <= Len(d.key) /\ d.next[e] <= Len(d.key)
    <3>1. \A e \in 1 .. N : d.prev[e] \in 0 .. N /\ d.next[e] \in 0 .. N
      BY <1>10, <1>11
    <3>. QED  BY <1>2, <1>8, <3>1 DEF Idx
  <2>6. \A j \in Pictures : d.table[j] \in Idx(d) \cup {Absent, Loading}
    BY <1>1, <1>7, <1>12 DEF Parts
  <2>7. d.mru <= N /\ d.lru <= N
    BY <1>2, <1>3, <1>7
  <2>. QED  BY <1>2, <1>8, <1>9, <1>10, <1>11, <2>4, <2>5, <2>6, <2>7 DEF Shape
<1>. QED  BY <1>2, <1>7, <1>8, <1>9, <1>10, <1>11, <1>12, <1>13 DEF NewIs, n

\* The list with a new entry at its mru end
Longer(m, q, e) == [i \in 1 .. m + 1 |-> IF i <= m THEN q[i] ELSE e]

LEMMA LongerIs ==
    ASSUME NEW c, NEW a, NEW m, NEW q, Chained(c, a, m, q), NEW e
    PROVE  /\ m \in Nat /\ m + 1 \in Nat /\ m + 1 # 0 /\ m + 1 \in 1 .. m + 1
           /\ \A i \in 1 .. m : i \in 1 .. m + 1 /\ Longer(m, q, e)[i] = q[i] /\ q[i] \in Idx(c)
           /\ Longer(m, q, e)[m + 1] = e
           /\ Longer(m, q, e) \in [1 .. m + 1 -> Idx(c) \cup {e}]
           /\ InList(m + 1, Longer(m, q, e)) = InList(m, q) \cup {e}
<1> DEFINE r == Longer(m, q, e)
<1>1. m \in Nat /\ m + 1 \in Nat /\ m + 1 # 0 /\ m + 1 \in 1 .. m + 1 /\ ~(m + 1 <= m)
  BY DEF Chained
<1>2. \A i \in 1 .. m : i \in 1 .. m + 1 /\ i <= m /\ q[i] \in Idx(c)
  BY <1>1 DEF Chained
<1>3. \A i \in 1 .. m : r[i] = q[i]
  BY <1>2 DEF Longer
<1>4. r[m + 1] = e
  BY <1>1 DEF Longer
<1>5. \A i \in 1 .. m + 1 : i \in 1 .. m \/ i = m + 1
  BY <1>1
<1>6. r \in [1 .. m + 1 -> Idx(c) \cup {e}]
  <2>1. \A i \in 1 .. m + 1 : r[i] \in Idx(c) \cup {e}
    <3> HIDE DEF r
    <3>. QED  BY <1>2, <1>3, <1>4, <1>5
  <2>. QED  BY <2>1 DEF Longer
<1>7. InList(m + 1, r) = InList(m, q) \cup {e}
  <2> HIDE DEF r
  <2>. QED  BY <1>1, <1>2, <1>3, <1>4, <1>5 DEF InList
<1>. QED  BY <1>1, <1>2, <1>3, <1>4, <1>6, <1>7

\* A new picture is added to what the table and the list hold.
LEMMA NewLinked ==
    ASSUME NEW c, NEW a, NEW m, NEW q, ListOK(c, a, m, q), Len(c.key) < MaxEntries,
           NEW k \in Pictures, NEW size \in Sizes, NEW d, d = C!LinkNew(c, k, size)
    PROVE  /\ ListOK(d, Older(c, a), m + 1, Longer(m, q, Len(c.key) + 1))
           /\ Whole(c, m, q) => Whole(d, m + 1, Longer(m, q, Len(c.key) + 1))
           /\ c.table[k] \notin Idx(c) /\ Current(c, m, q) => Current(d, m + 1, Longer(m, q, Len(c.key) + 1))
           /\ \A e : e \in C!Live(d) <=> e = Len(c.key) + 1 \/ (e \in C!Live(c) /\ c.key[e] # k)
<1> DEFINE N == Len(c.key) + 1
           r == Longer(m, q, N)
           b == Older(c, a)
<1>1. Shape(c) /\ Aged(c, a) /\ Chained(c, a, m, q) /\ Linked(c, a) /\ Apart(c, a, m, q) /\ Weighed(c, m, q)
  BY DEF ListOK
<1>2. Parts(c)
  BY <1>1, PartsOf
<1>3. NewIs(c, k, size, d, N)
  BY <1>1, LinkNewIs
<1>4. /\ N \notin Idx(c) /\ N # 0 /\ Idx(d) = Idx(c) \cup {N} /\ Shape(d)
      /\ d.lru = (IF c.lru = 0 \/ c.mru = 0 THEN N ELSE c.lru)
      /\ d.mru = N /\ d.total = c.total + size /\ Len(d.key) = N
      /\ d.table = [c.table EXCEPT ![k] = N] /\ d.bytes[N] = size
  BY <1>3 DEF NewIs
<1>5. /\ \A e \in Idx(c) : d.key[e] = c.key[e] /\ d.bytes[e] = c.bytes[e] /\ d.next[e] = c.next[e]
      /\ \A e \in Idx(c) : d.prev[e] = IF e = c.mru THEN N ELSE c.prev[e]
      /\ d.key[N] = k /\ d.prev[N] = 0 /\ d.next[N] = c.mru
  BY <1>3 DEF NewIs
<1>6. /\ b \in [1 .. N -> Nat] /\ b[N] = 0
      /\ \A e \in Idx(c) : b[e] = a[e] + 1 /\ a[e] \in Nat
  BY <1>1, <1>2, OlderIs
<1>7. /\ m \in Nat /\ m + 1 \in Nat /\ m + 1 # 0 /\ m + 1 \in 1 .. m + 1
      /\ \A i \in 1 .. m : i \in 1 .. m + 1 /\ r[i] = q[i] /\ q[i] \in Idx(c)
      /\ r[m + 1] = N /\ r \in [1 .. m + 1 -> Idx(c) \cup {N}]
      /\ InList(m + 1, r) = InList(m, q) \cup {N}
  BY <1>1, LongerIs
<1>8. /\ \A i, j \in 1 .. m : q[i] = q[j] => i = j
      /\ InList(m, q) \subseteq Idx(c)
  BY <1>1, ListInjective
<1>9. Len(c.key) \in Nat /\ Idx(c) = 1 .. Len(c.key) /\ 1 .. N = Idx(c) \cup {N} /\ N \in Nat
  BY <1>2 DEF Parts, Idx
<1> HIDE DEF N, r, b
<1>10. \A e : e \in C!Live(d) <=> e = N \/ (e \in C!Live(c) /\ c.key[e] # k)
  <2>1. \A e : e \in C!Live(d) <=> e \in Idx(d) /\ d.table[d.key[e]] = e
    BY <1>4, LiveIs
  <2>2. \A e : e \in C!Live(c) <=> e \in Idx(c) /\ c.table[c.key[e]] = e
    BY <1>1, LiveIs
  <2>3. d.table[k] = N /\ \A j \in Pictures : j # k => d.table[j] = c.table[j]
    BY <1>2, <1>4 DEF Parts
  <2>4. \A e \in Idx(c) : c.key[e] \in Pictures /\ e # N
    BY <1>2, <1>4 DEF Parts
  <2>. QED  BY <1>4, <1>5, <2>1, <2>2, <2>3, <2>4
<1>11. \A x : x \in C!Live(d) /\ x # N => x \in C!Live(c) /\ x \in Idx(c) /\ x # 0
  <2>1. \A x : x \in C!Live(c) => x \in Idx(c) /\ x # 0
    BY <1>1, <1>2, LiveIs DEF Parts
  <2>. QED  BY <1>10, <2>1
<1>12. Aged(d, b)
  <2>1. \A e \in Idx(c) : b[e] < N
    BY <1>1, <1>6, <1>9 DEF Aged, N
  <2>2. \A e, f \in Idx(c) : b[e] = b[f] => e = f
    BY <1>1, <1>6 DEF Aged
  <2>3. \A e \in Idx(c) : b[e] # 0
    BY <1>6
  <2>4. 0 < N
    BY <1>4, <1>9
  <2>. QED  BY <1>4, <1>6, <1>9, <2>1, <2>2, <2>3, <2>4 DEF Aged
<1>13. Chained(d, b, m + 1, r)
  <2>1. CASE m = 0
    <3>1. d.lru = N /\ r[1] = N
      BY <1>1, <1>4, <1>7, <2>1 DEF Chained
    <3>2. \A i \in 1 .. (m + 1) - 1 : FALSE
      BY <2>1
    <3>3. \A i, j \in 1 .. m + 1 : ~(i < j)
      BY <2>1
    <3>. QED  BY <1>4, <1>5, <1>7, <3>1, <3>2, <3>3 DEF Chained
  <2>2. CASE m # 0
    <3>1. 1 \in 1 .. m /\ m \in 1 .. m /\ (m + 1) - 1 = m
      BY <1>7, <2>2
    <3>2. c.lru # 0 /\ c.lru = q[1] /\ c.mru = q[m] /\ c.mru # 0 /\ c.mru \in Idx(c)
      BY <1>1, <1>2, <1>7, <2>2, <3>1 DEF Chained, Parts
    <3>3. d.lru = r[1] /\ d.lru # 0
      BY <1>4, <1>7, <3>1, <3>2
    <3>4. ASSUME NEW i \in 1 .. m PROVE d.prev[r[i]] = r[i + 1] /\ d.next[r[i + 1]] = r[i]
      <4>1. CASE i = m
        BY <1>5, <1>7, <3>1, <3>2, <4>1
      <4>2. CASE i # m
        <5>1. i \in 1 .. m - 1 /\ i + 1 \in 1 .. m
          BY <1>7, <4>2
        <5>2. c.prev[q[i]] = q[i + 1] /\ c.next[q[i + 1]] = q[i]
          BY <1>1, <5>1 DEF Chained
        <5>3. q[i] # c.mru
          BY <1>8, <3>1, <3>2, <4>2
        <5>. QED  BY <1>5, <1>7, <5>1, <5>2, <5>3
      <4>. QED  BY <4>1, <4>2
    <3>5. ASSUME NEW i \in 1 .. m + 1, NEW j \in 1 .. m + 1, i < j PROVE b[r[j]] < b[r[i]]
      <4>1. i \in 1 .. m /\ (j \in 1 .. m \/ j = m + 1)
        BY <1>7, <3>5
      <4>2. CASE j = m + 1
        BY <1>6, <1>7, <4>1, <4>2
      <4>3. CASE j \in 1 .. m
        <5>1. a[q[j]] < a[q[i]] /\ q[i] \in Idx(c) /\ q[j] \in Idx(c)
          BY <1>1, <1>7, <3>5, <4>1, <4>3 DEF Chained
        <5>2. b[q[j]] = a[q[j]] + 1 /\ b[q[i]] = a[q[i]] + 1 /\ a[q[j]] \in Nat /\ a[q[i]] \in Nat
          BY <1>6, <5>1
        <5>. QED  BY SMTT(60), <1>7, <4>1, <4>3, <5>1, <5>2
      <4>. QED  BY <4>1, <4>2, <4>3
    <3>. QED  BY <1>4, <1>5, <1>7, <3>1, <3>3, <3>4, <3>5 DEF Chained
  <2>. QED  BY <2>1, <2>2
<1>14. Linked(d, b)
  <2>1. \A x, y \in Idx(c) : a[x] < a[y] => b[x] < b[y]
    BY <1>6
  <2>2. \A x \in Idx(c) : (c.next[x] # 0 => c.next[x] \in Idx(c)) /\ (c.prev[x] # 0 => c.prev[x] \in Idx(c))
    BY <1>2, <1>9 DEF Parts
  <2>3. c.mru # 0 => c.mru \in Idx(c) /\ a[c.mru] = 0
    <3>1. c.mru # 0 => c.mru \in Idx(c)
      BY <1>2, <1>9 DEF Parts
    <3>. QED  BY <1>1, <3>1 DEF Aged
  <2>4. ASSUME NEW x \in C!Live(d), d.next[x] # 0 PROVE b[x] < b[d.next[x]]
    <3>1. CASE x = N
      <4>1. c.mru # 0 /\ d.next[x] = c.mru
        BY <1>5, <2>4, <3>1
      <4>2. b[c.mru] = 1
        BY <1>6, <2>3, <4>1
      <4>. QED  BY <1>6, <3>1, <4>1, <4>2
    <3>2. CASE x # N
      <4>1. x \in C!Live(c) /\ x \in Idx(c) /\ d.next[x] = c.next[x]
        BY <1>5, <1>11, <3>2
      <4>. QED  BY <1>1, <2>1, <2>2, <2>4, <4>1 DEF Linked
    <3>. QED  BY <3>1, <3>2
  <2>5. ASSUME NEW x \in C!Live(d), d.prev[x] # 0 PROVE b[d.prev[x]] < b[x]
    <3>1. x # N
      BY <1>5, <2>5
    <3>2. x \in C!Live(c) /\ x \in Idx(c) /\ b[x] = a[x] + 1 /\ a[x] \in Nat
      BY <1>6, <1>11, <3>1
    <3>3. CASE x = c.mru
      BY <1>5, <1>6, <3>2, <3>3
    <3>4. CASE x # c.mru
      <4>1. d.prev[x] = c.prev[x]
        BY <1>5, <3>2, <3>4
      <4>. QED  BY <1>1, <2>1, <2>2, <2>5, <3>2, <4>1 DEF Linked
    <3>. QED  BY <3>3, <3>4
  <2>6. ASSUME NEW x \in C!Live(d), NEW y \in C!Live(d), d.next[y] = x PROVE d.prev[x] = y
    <3>1. CASE y = N
      <4>1. x = c.mru /\ x # N
        <5>1. c.mru # N
          BY <1>2, <1>4, <2>3
        <5>. QED  BY <1>5, <2>6, <3>1, <5>1
      <4>. QED  BY <1>5, <1>11, <3>1, <4>1
    <3>2. CASE y # N
      <4>1. y \in C!Live(c) /\ y \in Idx(c) /\ d.next[y] = c.next[y] /\ c.next[y] = x
        BY <1>5, <1>11, <2>6, <3>2
      <4>2. x # N
        BY <1>2, <1>4, <2>2, <4>1
      <4>3. x \in C!Live(c) /\ x \in Idx(c) /\ x # 0
        BY <1>11, <4>2
      <4>4. a[y] < a[x] /\ a[y] \in Nat /\ a[x] \in Nat /\ c.prev[x] = y
        BY <1>1, <1>6, <4>1, <4>3 DEF Linked
      <4>5. a[x] # 0
        BY <4>4
      <4>6. x # c.mru
        BY <2>3, <4>3, <4>5
      <4>. QED  BY <1>5, <4>3, <4>4, <4>6
    <3>. QED  BY <3>1, <3>2
  <2>7. ASSUME NEW x \in C!Live(d), NEW y \in C!Live(d), d.prev[x] = y PROVE d.next[y] = x
    <3>0. y # 0
      BY <1>4, <1>11
    <3>1. x # N
      BY <1>5, <2>7, <3>0
    <3>2. x \in C!Live(c) /\ x \in Idx(c)
      BY <1>11, <3>1
    <3>3. CASE x = c.mru
      BY <1>5, <2>7, <3>2, <3>3
    <3>4. CASE x # c.mru
      <4>1. c.prev[x] = y
        BY <1>5, <2>7, <3>2, <3>4
      <4>2. y # N
        BY <1>4, <2>2, <3>0, <3>2, <4>1
      <4>3. y \in C!Live(c) /\ y \in Idx(c)
        BY <1>11, <4>2
      <4>. QED  BY <1>1, <1>5, <3>2, <4>1, <4>3 DEF Linked
    <3>. QED  BY <3>3, <3>4
  <2>. QED  BY <2>4, <2>5, <2>6, <2>7 DEF Linked
<1>15. Apart(d, b, m + 1, r)
  <2>1. SUFFICES ASSUME NEW x \in C!Live(d), x \notin InList(m + 1, r)
                 PROVE  /\ \A z \in InList(m + 1, r) : b[z] < b[x]
                        /\ d.prev[x] \in InList(m + 1, r) => d.prev[x] = d.lru
    BY DEF Apart
  <2>2. x # N /\ x \notin InList(m, q)
    BY <1>7, <2>1
  <2>3. x \in C!Live(c) \ InList(m, q) /\ x \in Idx(c) /\ b[x] = a[x] + 1 /\ a[x] \in Nat
    BY <1>6, <1>11, <2>2
  <2>4. /\ \A z \in InList(m, q) : a[z] < a[x]
        /\ c.prev[x] \in InList(m, q) => c.prev[x] = c.lru
    BY <1>1, <2>3 DEF Apart
  <2>5. \A z \in InList(m, q) : b[z] < b[x]
    <3>1. \A z \in InList(m, q) : b[z] = a[z] + 1 /\ a[z] \in Nat
      BY <1>6, <1>8
    <3>. QED  BY <2>3, <2>4, <3>1
  <2>6. \A z \in InList(m + 1, r) : b[z] < b[x]
    BY <1>6, <1>7, <2>3, <2>5
  <2>7. CASE x = c.mru
    <3>1. m = 0
      <4>1. m # 0 => c.mru = q[m] /\ m \in 1 .. m
        BY <1>1, <1>7 DEF Chained
      <4>. QED  BY <2>2, <2>7, <4>1 DEF InList
    <3>2. d.lru = N /\ d.prev[x] = N
      BY <1>1, <1>4, <1>5, <2>3, <2>7, <3>1 DEF Chained
    <3>. QED  BY <2>6, <3>2
  <2>8. CASE x # c.mru
    <3>1. d.prev[x] = c.prev[x] /\ c.prev[x] # N
      <4>1. c.prev[x] \in 0 .. Len(c.key)
        BY <1>2, <2>3 DEF Parts
      <4>. QED  BY <1>5, <1>9, <2>3, <2>8, <4>1 DEF N
    <3>2. SUFFICES ASSUME c.prev[x] \in InList(m, q) PROVE c.prev[x] = d.lru
      BY <1>7, <2>6, <3>1
    <3>3. c.prev[x] = c.lru /\ m # 0
      <4>1. m = 0 => InList(m, q) = {}
        BY DEF InList
      <4>. QED  BY <2>4, <3>2, <4>1
    <3>4. c.lru # 0 /\ c.mru = q[m] /\ m \in 1 .. m
      BY <1>1, <1>7, <3>3 DEF Chained
    <3>5. c.mru # 0
      BY <1>2, <1>7, <3>4 DEF Parts
    <3>. QED  BY <1>4, <3>3, <3>4, <3>5
  <2>. QED  BY <2>7, <2>8
<1>16. /\ C!SizeOf(d.bytes, InList(m + 1, r)) = C!SizeOf(c.bytes, InList(m, q)) + size
       /\ C!SizeOf(d.bytes, C!Live(d) \cup InList(m + 1, r))
             <= C!SizeOf(c.bytes, C!Live(c) \cup InList(m, q)) + size
  <2>1. ASSUME NEW es, es \subseteq Idx(c)
        PROVE  C!SizeOf(d.bytes, es \cup {N}) = C!SizeOf(c.bytes, es) + size
    <3>1. es \subseteq Idx(d) /\ es \cup {N} \subseteq Idx(d) /\ N \notin es
      BY <1>4, <2>1
    <3>2. Weighs(c.bytes, es) /\ Weighs(d.bytes, es) /\ C!SizeOf(c.bytes, es) \in Nat
          /\ C!SizeOf(d.bytes, es) \in Nat /\ es \cup {N} \subseteq 1 .. MaxEntries
      BY <1>1, <1>4, <2>1, <3>1, AllWeigh
    <3>3. \A e \in es : c.bytes[e] = d.bytes[e]
      BY <1>5, <2>1
    <3>4. C!SizeOf(d.bytes, es) <= C!SizeOf(c.bytes, es) /\ C!SizeOf(c.bytes, es) <= C!SizeOf(d.bytes, es)
      BY <3>2, <3>3, SizeGrows
    <3>5. C!SizeOf(d.bytes, es) = C!SizeOf(c.bytes, es)
      BY <3>2, <3>4
    <3>6. d.bytes[N] \in Nat /\ N \in 1 .. MaxEntries
      BY <1>4, <3>2, CacheConstants
    <3>7. C!SizeOf(d.bytes, es \cup {N}) = C!SizeOf(d.bytes, es) + d.bytes[N]
      BY <3>1, <3>2, <3>6, SizeAdds
    <3>. QED  BY <1>4, <3>5, <3>7
  <2>2. C!SizeOf(d.bytes, InList(m + 1, r)) = C!SizeOf(c.bytes, InList(m, q)) + size
    BY <1>7, <1>8, <2>1
  <2> DEFINE v == C!Live(c) \cup InList(m, q)
             w == C!Live(d) \cup InList(m + 1, r)
  <2>3. v \subseteq Idx(c) /\ v \cup {N} \subseteq Idx(d) /\ w \subseteq v \cup {N}
    BY <1>1, <1>4, <1>7, <1>8, <1>10, LiveIs
  <2> HIDE DEF v, w
  <2>4. C!SizeOf(d.bytes, v \cup {N}) = C!SizeOf(c.bytes, v) + size
    BY <2>1, <2>3
  <2>5. Weighs(d.bytes, w) /\ Weighs(d.bytes, v \cup {N})
    <3>1. w \subseteq Idx(d)
      BY <2>3
    <3>. QED  BY <1>4, <2>3, <3>1, AllWeigh
  <2>6. C!SizeOf(d.bytes, w) <= C!SizeOf(d.bytes, v \cup {N})
    BY <2>3, <2>5, SizeGrows
  <2>. QED  BY <2>2, <2>4, <2>6 DEF v, w
<1>17. Weighed(d, m + 1, r)
  <2>1. C!SizeOf(c.bytes, C!Live(c) \cup InList(m, q)) \in Nat /\ C!SizeOf(c.bytes, InList(m, q)) \in Nat
    <3>1. C!Live(c) \cup InList(m, q) \subseteq Idx(c)
      BY <1>1, <1>8, LiveIs
    <3>. QED  BY <1>1, <1>8, <3>1, AllWeigh
  <2>2. C!SizeOf(d.bytes, C!Live(d) \cup InList(m + 1, r)) \in Nat
    <3>1. C!Live(d) \cup InList(m + 1, r) \subseteq Idx(d)
      BY <1>4, <1>7, <1>8, LiveIs
    <3>. QED  BY <1>4, <3>1, AllWeigh
  <2>3. c.total \in Int /\ size \in Nat /\ Limit \in Nat
    BY <1>2, CacheConstants DEF Parts
  <2>. QED  BY <1>1, <1>4, <1>16, <2>1, <2>2, <2>3 DEF Weighed
<1>18. Whole(c, m, q) => Whole(d, m + 1, r)
  BY <1>4, <1>7, <1>10, <1>16 DEF Whole
<1>19. c.table[k] \notin Idx(c) /\ Current(c, m, q) => Current(d, m + 1, r)
  <2>1. SUFFICES ASSUME c.table[k] \notin Idx(c), Current(c, m, q), NEW z \in InList(m + 1, r)
                 PROVE  z \in C!Live(d)
    BY DEF Current
  <2>2. CASE z = N
    BY <1>10, <2>2
  <2>3. CASE z # N
    <3>1. z \in C!Live(c) /\ z \in Idx(c)
      BY <1>7, <1>8, <2>1, <2>3 DEF Current
    <3>2. c.table[c.key[z]] = z
      BY <1>1, <3>1, LiveIs
    <3>. QED  BY <1>10, <2>1, <3>1, <3>2
  <2>. QED  BY <2>2, <2>3
<1>20. Keyed(d)
  <2>1. Keyed(c)
    BY DEF ListOK
  <2>2. \A j \in Pictures : d.table[j] = IF j = k THEN N ELSE c.table[j]
    BY <1>2, <1>4 DEF Parts
  <2>3. \A j \in Pictures : j # k => c.table[j] # N
    <3>1. N \in 0 .. MaxEntries
      BY <1>9, CacheConstants DEF N
    <3>2. N # Absent /\ N # Loading
      BY <3>1, CacheConstants
    <3>3. \A j \in Pictures : c.table[j] \in Idx(c) \cup {Absent, Loading}
      BY <1>2 DEF Parts
    <3>. QED  BY <1>4, <3>2, <3>3
  <2>. QED  BY <1>4, <1>5, <2>1, <2>2, <2>3 DEF Keyed
<1>21. ListOK(d, b, m + 1, r)
  BY <1>4, <1>12, <1>13, <1>14, <1>15, <1>17, <1>20 DEF ListOK
<1>. QED  BY <1>10, <1>18, <1>19, <1>21 DEF b, r, N

-----------------------------------------------------------------------------
(* The cache from inside: get() *)

\* The links and fields after entry x has moved to the head
MovedIs(c, x, d) ==
    /\ Shape(d) /\ Idx(d) = Idx(c) /\ d.key = c.key /\ d.bytes = c.bytes /\ d.table = c.table
    /\ d.total = c.total /\ d.mru = x /\ d.lru = c.lru /\ C!Live(d) = C!Live(c)
    /\ \A e \in Idx(c) : d.next[e] = IF e = x THEN c.mru ELSE IF e = c.prev[x] THEN c.next[x] ELSE c.next[e]
    /\ \A e \in Idx(c) : d.prev[e] = IF e = c.mru THEN x ELSE IF e = x THEN 0
                                     ELSE IF e = c.next[x] THEN c.prev[x] ELSE c.prev[e]

LEMMA MoveIs ==
    ASSUME NEW c, Shape(c), NEW x \in Idx(c), x # c.mru, c.mru \in Idx(c), NEW d, d = C!MoveToHead(c, x)
    PROVE  MovedIs(c, x, d)
<1>1. Parts(c) /\ c \in Caches
  BY PartsOf DEF Shape
<1> DEFINE n == Len(c.key)
           n1 == C!Set(c.next, c.prev[x], c.next[x])
           p1 == C!Set(c.prev, c.next[x], c.prev[x])
           n2 == [n1 EXCEPT ![x] = c.mru]
           p2 == [p1 EXCEPT ![x] = 0]
           p3 == C!Set(p2, c.mru, x)
<1>2. n \in Nat /\ Idx(c) = 1 .. n /\ x \in 0 .. n /\ x # 0 /\ c.mru \in 0 .. n /\ c.mru # 0 /\ 0 \in 0 .. n
      /\ c.prev[x] \in 0 .. n /\ c.next[x] \in 0 .. n
      /\ c.next \in [1 .. n -> 0 .. n] /\ c.prev \in [1 .. n -> 0 .. n]
  BY SMTT(60), <1>1 DEF Parts, Idx
<1> HIDE DEF n
<1>3. Written(n, n, n1, c.next, c.prev[x], c.next[x]) /\ Written(n, n, p1, c.prev, c.next[x], c.prev[x])
  BY <1>2, SetIs
<1> HIDE DEF n1, p1
<1>4. n2 \in [1 .. n -> 0 .. n] /\ \A e \in 1 .. n : n2[e] = IF e = x THEN c.mru ELSE n1[e]
  BY <1>2, <1>3 DEF Written
<1>5. p2 \in [1 .. n -> 0 .. n] /\ \A e \in 1 .. n : p2[e] = IF e = x THEN 0 ELSE p1[e]
  BY <1>2, <1>3 DEF Written
<1> HIDE DEF n2, p2
<1>6. Written(n, n, p3, p2, c.mru, x)
  BY <1>2, <1>5, SetIs
<1>7. d = [c EXCEPT !.next = n2, !.prev = p3, !.mru = x, !.lru = IF c.mru = 0 THEN x ELSE c.lru]
  BY <1>1 DEF C!MoveToHead, Caches, n1, n2, p1, p2
<1> HIDE DEF p3
<1>8. /\ d.key = c.key /\ d.bytes = c.bytes /\ d.table = c.table /\ d.total = c.total
      /\ d.mru = x /\ d.lru = c.lru /\ d.next = n2 /\ d.prev = p3
  BY <1>1, <1>2, <1>7 DEF Caches
<1>9. p3 \in [1 .. n -> 0 .. n]
  BY <1>6 DEF Written
<1>10. d \in Caches
  <2>1. n2 \in Seq(Nat) /\ p3 \in Seq(Nat)
    BY <1>2, <1>4, <1>9, LinksAreSeq
  <2>2. x \in Nat /\ c.lru \in Nat
    BY <1>1, <1>2 DEF Parts
  <2>. QED  BY <1>1, <1>2, <1>7, <2>1, <2>2 DEF Caches
<1>11. Shape(d) /\ Idx(d) = Idx(c)
  <2>1. d.key = c.key /\ d.bytes = c.bytes
    BY <1>8
  <2>2. d.prev \in [Idx(c) -> 0 .. Len(c.key)] /\ d.next \in [Idx(c) -> 0 .. Len(c.key)]
    BY <1>2, <1>4, <1>8, <1>9 DEF n
  <2>3. \A k \in Pictures : d.table[k] \in Idx(c) \cup {Absent, Loading}
    BY <1>1, <1>8 DEF Parts
  <2>4. d.mru \in 0 .. Len(c.key) /\ d.lru \in 0 .. Len(c.key)
    BY <1>1, <1>2, <1>8 DEF Parts, n
  <2>. QED  BY <1>10, <2>1, <2>2, <2>3, <2>4, ShapeOf
<1>12. C!Live(d) = C!Live(c)
  BY <1>8 DEF C!Live
<1>13. \A e \in Idx(c) : d.next[e] = IF e = x THEN c.mru ELSE IF e = c.prev[x] THEN c.next[x] ELSE c.next[e]
  BY <1>2, <1>3, <1>4, <1>8 DEF Written
<1>14. \A e \in Idx(c) : d.prev[e] = IF e = c.mru THEN x ELSE IF e = x THEN 0
                                     ELSE IF e = c.next[x] THEN c.prev[x] ELSE c.prev[e]
  <2>1. \A e \in 1 .. n : p3[e] = IF e = c.mru THEN x ELSE p2[e]
    BY <1>6 DEF Written
  <2>2. \A e \in 1 .. n : p1[e] = IF e = c.next[x] THEN c.prev[x] ELSE c.prev[e]
    BY <1>3 DEF Written
  <2> SUFFICES ASSUME NEW e \in 1 .. n
               PROVE  p3[e] = IF e = c.mru THEN x ELSE IF e = x THEN 0
                              ELSE IF e = c.next[x] THEN c.prev[x] ELSE c.prev[e]
    BY <1>2, <1>8
  <2>. QED  BY <1>5, <2>1, <2>2
<1>. QED  BY <1>8, <1>11, <1>12, <1>13, <1>14 DEF MovedIs

\* x has been used last, the order of the others stays.
Used(c, a, x) == [f \in Idx(c) |-> IF f = x THEN 0 ELSE IF a[f] < a[x] THEN a[f] + 1 ELSE a[f]]

LEMMA UsedIs ==
    ASSUME NEW c, NEW a, NEW x \in Idx(c), Parts(c), Aged(c, a), NEW b, b = Used(c, a, x)
    PROVE  /\ b \in [Idx(c) -> Nat] /\ b[x] = 0
           /\ \A f \in Idx(c) : f # x => b[f] # 0 /\ b[x] < b[f]
           /\ \A f, g \in Idx(c) : f # x /\ g # x /\ a[f] < a[g] => b[f] < b[g]
           /\ \A f, g \in Idx(c) : b[f] = b[g] => f = g
           /\ \A f \in Idx(c) : b[f] < Len(c.key)
<1>1. /\ \A f \in Idx(c) : a[f] \in Nat /\ a[f] < Len(c.key)
      /\ \A f, g \in Idx(c) : a[f] = a[g] => f = g
      /\ Len(c.key) \in Nat
  BY DEF Aged, Parts
<1>2. \A f \in Idx(c) : b[f] = IF f = x THEN 0 ELSE IF a[f] < a[x] THEN a[f] + 1 ELSE a[f]
  BY DEF Used
<1>3. b \in [Idx(c) -> Nat] /\ b[x] = 0
  BY <1>1, <1>2 DEF Used
<1>4. ASSUME NEW f \in Idx(c), f # x PROVE b[f] # 0 /\ b[x] < b[f] /\ b[f] < Len(c.key)
  <2>1. a[f] # a[x] /\ a[f] \in Nat /\ a[x] \in Nat /\ a[f] < Len(c.key) /\ a[x] < Len(c.key)
    BY <1>1, <1>4
  <2>2. b[f] = IF a[f] < a[x] THEN a[f] + 1 ELSE a[f]
    BY <1>2, <1>4
  <2>. QED  BY <1>1, <1>3, <2>1, <2>2
<1>5. ASSUME NEW f \in Idx(c), NEW g \in Idx(c), f # x, g # x, a[f] < a[g] PROVE b[f] < b[g]
  <2>1. a[g] # a[x] /\ a[f] # a[x] /\ a[f] \in Nat /\ a[g] \in Nat /\ a[x] \in Nat
    BY <1>1, <1>5
  <2>2. /\ b[f] = IF a[f] < a[x] THEN a[f] + 1 ELSE a[f]
        /\ b[g] = IF a[g] < a[x] THEN a[g] + 1 ELSE a[g]
    BY <1>2, <1>5
  <2>. QED  BY <1>5, <2>1, <2>2
<1>6. ASSUME NEW f \in Idx(c), NEW g \in Idx(c), b[f] = b[g] PROVE f = g
  <2>1. CASE f = x \/ g = x
    BY <1>3, <1>4, <1>6, <2>1
  <2>2. CASE f # x /\ g # x
    <3>1. a[f] = a[g] \/ a[f] < a[g] \/ a[g] < a[f]
      BY <1>1
    <3>2. ~(b[f] < b[g]) /\ ~(b[g] < b[f])
      BY <1>3, <1>6
    <3>. QED  BY <1>1, <1>5, <2>2, <3>1, <3>2
  <2>. QED  BY <2>1, <2>2
<1>7. b[x] < Len(c.key)
  BY <1>1, <1>3
<1>. QED  BY <1>3, <1>4, <1>5, <1>6, <1>7

\* Moving a picture of the table keeps the links of all pictures of the table.
LEMMA MovedLinks ==
    ASSUME NEW c, NEW a, Shape(c), Aged(c, a), Linked(c, a), NEW x \in C!Live(c), x # c.mru,
           NEW d, d = C!MoveToHead(c, x)
    PROVE  Aged(d, Used(c, a, x)) /\ Linked(d, Used(c, a, x)) /\ MovedIs(c, x, d)
           /\ x \in Idx(c) /\ c.mru \in Idx(c) /\ a[c.mru] = 0
<1> DEFINE b == Used(c, a, x)
<1>1. Parts(c) /\ x \in Idx(c) /\ x # 0
  BY PartsOf, LiveIs DEF Parts
<1>2. c.mru \in Idx(c) /\ a[c.mru] = 0 /\ c.mru # 0
  BY <1>1 DEF Aged, Parts
<1>3. MovedIs(c, x, d)
  BY <1>1, <1>2, MoveIs
<1>4. /\ Idx(d) = Idx(c) /\ d.key = c.key /\ d.mru = x /\ C!Live(d) = C!Live(c)
      /\ \A e \in Idx(c) : d.next[e] = IF e = x THEN c.mru ELSE IF e = c.prev[x] THEN c.next[x] ELSE c.next[e]
      /\ \A e \in Idx(c) : d.prev[e] = IF e = c.mru THEN x ELSE IF e = x THEN 0
                                       ELSE IF e = c.next[x] THEN c.prev[x] ELSE c.prev[e]
  BY <1>3 DEF MovedIs
<1>5. /\ b \in [Idx(c) -> Nat] /\ b[x] = 0
      /\ \A f \in Idx(c) : f # x => b[f] # 0 /\ b[x] < b[f]
      /\ \A f, g \in Idx(c) : f # x /\ g # x /\ a[f] < a[g] => b[f] < b[g]
      /\ \A f, g \in Idx(c) : b[f] = b[g] => f = g
      /\ \A f \in Idx(c) : b[f] < Len(c.key)
  BY <1>1, UsedIs
<1> HIDE DEF b
<1>6. Aged(d, b)
  BY <1>1, <1>4, <1>5 DEF Aged
<1>7. \A y \in Idx(c) : (c.next[y] # 0 => c.next[y] \in Idx(c)) /\ (c.prev[y] # 0 => c.prev[y] \in Idx(c))
                         /\ a[y] \in Nat /\ y # 0
  BY SMTT(60), <1>1 DEF Parts, Idx, Aged
<1>8. \A y \in C!Live(c) : y \in Idx(c)
  BY LiveIs
<1>9. /\ \A y \in C!Live(c) : c.next[y] # 0 => a[y] < a[c.next[y]]
      /\ \A y \in C!Live(c) : c.prev[y] # 0 => a[c.prev[y]] < a[y]
      /\ \A z, y \in C!Live(c) : c.next[y] = z <=> c.prev[z] = y
  BY DEF Linked
<1>10. ASSUME NEW y \in C!Live(c), d.next[y] # 0 PROVE b[y] < b[d.next[y]]
  <2>1. CASE y = x
    BY <1>1, <1>2, <1>4, <1>5, <2>1
  <2>2. CASE y # x /\ y = c.prev[x]
    <3>1. d.next[y] = c.next[x] /\ c.next[x] \in Idx(c) /\ c.prev[x] # 0
      BY <1>1, <1>4, <1>7, <1>8, <1>10, <2>2
    <3>2. a[y] < a[x] /\ a[x] < a[c.next[x]]
      BY <1>7, <1>8, <1>9, <2>2, <3>1
    <3>3. a[y] < a[c.next[x]] /\ c.next[x] # x
      BY <1>1, <1>7, <1>8, <3>1, <3>2
    <3>. QED  BY <1>5, <1>8, <2>2, <3>1, <3>3
  <2>3. CASE y # x /\ y # c.prev[x]
    <3>1. d.next[y] = c.next[y] /\ c.next[y] \in Idx(c) /\ a[y] < a[c.next[y]]
      BY <1>4, <1>7, <1>8, <1>9, <1>10, <2>3
    <3>2. c.next[y] # x
      BY <1>9, <2>3
    <3>. QED  BY <1>5, <1>8, <2>3, <3>1, <3>2
  <2>. QED  BY <2>1, <2>2, <2>3
<1>11. ASSUME NEW y \in C!Live(c), d.prev[y] # 0 PROVE b[d.prev[y]] < b[y]
  <2>1. y # x
    BY <1>1, <1>4, <1>11
  <2>2. CASE y = c.mru
    BY <1>1, <1>4, <1>5, <1>8, <2>1, <2>2
  <2>3. CASE y # c.mru /\ y = c.next[x]
    <3>1. d.prev[y] = c.prev[x] /\ c.prev[x] \in Idx(c)
      BY <1>1, <1>4, <1>7, <1>8, <1>11, <2>1, <2>3
    <3>2. a[c.prev[x]] < a[x] /\ a[x] < a[y] /\ c.prev[x] # x
      BY <1>1, <1>7, <1>8, <1>9, <2>3, <3>1
    <3>3. a[c.prev[x]] < a[y]
      BY <1>1, <1>7, <1>8, <3>1, <3>2
    <3>. QED  BY <1>5, <1>8, <2>1, <3>1, <3>2, <3>3
  <2>4. CASE y # c.mru /\ y # c.next[x]
    <3>1. d.prev[y] = c.prev[y] /\ c.prev[y] \in Idx(c) /\ a[c.prev[y]] < a[y]
      BY <1>4, <1>7, <1>8, <1>9, <1>11, <2>1, <2>4
    <3>. QED  BY <1>5, <1>8, <2>1, <3>1
  <2>. QED  BY <2>2, <2>3, <2>4
<1>12. ASSUME NEW z \in C!Live(c), NEW y \in C!Live(c), d.next[y] = z PROVE d.prev[z] = y
  <2>0. z \in Idx(c) /\ y \in Idx(c) /\ z # 0
    BY <1>7, <1>8
  <2>1. CASE y = x
    BY <1>2, <1>4, <1>12, <2>0, <2>1
  <2>2. CASE y # x /\ y = c.prev[x]
    <3>1. z = c.next[x] /\ a[x] < a[z]
      BY <1>4, <1>9, <1>12, <2>0, <2>2
    <3>2. z # x /\ z # c.mru
      BY <1>1, <1>2, <1>7, <2>0, <3>1
    <3>. QED  BY <1>4, <2>0, <2>2, <3>1, <3>2
  <2>3. CASE y # x /\ y # c.prev[x]
    <3>1. c.next[y] = z /\ c.prev[z] = y /\ a[y] < a[z]
      BY <1>4, <1>9, <1>12, <2>0, <2>3
    <3>2. z # x /\ z # c.mru /\ z # c.next[x]
      BY <1>2, <1>7, <1>9, <2>0, <2>3, <3>1
    <3>. QED  BY <1>4, <2>0, <3>1, <3>2
  <2>. QED  BY <2>1, <2>2, <2>3
<1>13. ASSUME NEW z \in C!Live(c), NEW y \in C!Live(c), d.prev[z] = y PROVE d.next[y] = z
  <2>0. z \in Idx(c) /\ y \in Idx(c) /\ y # 0
    BY <1>7, <1>8
  <2>1. CASE z = c.mru
    BY <1>1, <1>4, <1>13, <2>0, <2>1
  <2>2. z # x
    BY <1>1, <1>4, <1>13, <2>0
  <2>3. CASE z # c.mru /\ z = c.next[x]
    <3>1. y = c.prev[x] /\ a[y] < a[x]
      BY <1>4, <1>9, <1>13, <2>0, <2>2, <2>3
    <3>2. y # x
      BY <1>1, <1>7, <2>0, <3>1
    <3>. QED  BY <1>4, <2>0, <2>3, <3>1, <3>2
  <2>4. CASE z # c.mru /\ z # c.next[x]
    <3>1. c.prev[z] = y /\ c.next[y] = z
      BY <1>4, <1>9, <1>13, <2>0, <2>2, <2>4
    <3>2. y # x /\ y # c.prev[x]
      BY <1>9, <2>0, <2>2, <2>4, <3>1
    <3>. QED  BY <1>4, <2>0, <3>1, <3>2
  <2>. QED  BY <2>1, <2>3, <2>4
<1>14. Linked(d, b)
  BY <1>4, <1>10, <1>11, <1>12, <1>13 DEF Linked
<1>. QED  BY <1>1, <1>2, <1>3, <1>6, <1>14 DEF b

\* What get() keeps.
Got(c, a, m, q, x, d, n, r) ==
    /\ ListOK(d, Used(c, a, x), n, r) /\ d.total = c.total
    /\ Whole(c, m, q) /\ x # c.lru => Whole(d, n, r)
    /\ Current(c, m, q) => Current(d, n, r)

\* What moving x leaves to say about a list: the links and ages in it, and what it holds.
LEMMA GotFrom ==
    ASSUME NEW c, NEW a, NEW m, NEW q, ListOK(c, a, m, q), NEW x \in C!Live(c), x # c.mru, c.total <= Limit,
           NEW d, d = C!MoveToHead(c, x), NEW n, NEW r,
           Chained(d, Used(c, a, x), n, r), Apart(d, Used(c, a, x), n, r),
           InList(n, r) \subseteq InList(m, q) \cup {x},
           Whole(c, m, q) /\ x # c.lru => InList(n, r) = InList(m, q)
    PROVE  Got(c, a, m, q, x, d, n, r)
<1> DEFINE b == Used(c, a, x)
<1>1. Shape(c) /\ Aged(c, a) /\ Chained(c, a, m, q) /\ Linked(c, a) /\ Weighed(c, m, q)
  BY DEF ListOK
<1>2. Aged(d, b) /\ Linked(d, b) /\ MovedIs(c, x, d)
  BY <1>1, MovedLinks
<1>3. /\ Shape(d) /\ Idx(d) = Idx(c) /\ d.bytes = c.bytes /\ d.total = c.total /\ C!Live(d) = C!Live(c)
  BY <1>2 DEF MovedIs
<1>4. InList(m, q) \subseteq Idx(c) /\ C!Live(c) \subseteq Idx(c)
  BY <1>1, LiveIs, ListInjective
<1> DEFINE w == C!Live(d) \cup InList(n, r)
           v == C!Live(c) \cup InList(m, q)
<1>5. w \subseteq v /\ v \subseteq Idx(c) /\ InList(n, r) \subseteq Idx(c)
  BY <1>3, <1>4
<1> HIDE DEF w, v, b
<1>6. Weighs(c.bytes, w) /\ Weighs(c.bytes, v) /\ C!SizeOf(c.bytes, w) \in Nat /\ C!SizeOf(c.bytes, v) \in Nat
  <2>1. w \subseteq Idx(c)
    BY <1>5
  <2>. QED  BY <1>1, <1>5, <2>1, AllWeigh
<1>7. C!SizeOf(c.bytes, w) <= C!SizeOf(c.bytes, v)
  BY <1>5, <1>6, SizeGrows
<1>8. C!SizeOf(c.bytes, InList(n, r)) \in Nat
  BY <1>1, <1>5, AllWeigh
<1>9. c.total \in Int /\ Limit \in Nat
  BY <1>1, PartsOf, CacheConstants DEF Parts
<1>10. C!SizeOf(c.bytes, v) <= c.total
  BY <1>1 DEF Weighed, v
<1>11. C!SizeOf(d.bytes, w) <= d.total /\ d.total <= Limit + C!SizeOf(d.bytes, InList(n, r))
  BY <1>3, <1>6, <1>7, <1>8, <1>9, <1>10
<1>12. Weighed(d, n, r)
  BY <1>11 DEF Weighed, w
<1>13. Whole(c, m, q) /\ x # c.lru => Whole(d, n, r)
  BY <1>3 DEF Whole
<1>14. Current(c, m, q) => Current(d, n, r)
  BY <1>3 DEF Current
<1>15. Keyed(d)
  BY <1>2 DEF ListOK, MovedIs, Keyed
<1>16. ListOK(d, b, n, r)
  BY <1>2, <1>3, <1>12, <1>15 DEF ListOK, b
<1>. QED  BY <1>3, <1>13, <1>14, <1>16 DEF Got, b

\* The picture at the lru end is moved: both ends are the same now, and the list is lost.
LEMMA TailGot ==
    ASSUME NEW c, NEW a, NEW m, NEW q, ListOK(c, a, m, q), NEW x \in C!Live(c), x # c.mru, c.total <= Limit,
           NEW d, d = C!MoveToHead(c, x), m # 0, x = q[1]
    PROVE  Got(c, a, m, q, x, d, 1, [i \in 1 .. 1 |-> x])
<1> DEFINE b == Used(c, a, x)
           r == [i \in 1 .. 1 |-> x]
<1>1. Shape(c) /\ Aged(c, a) /\ Chained(c, a, m, q) /\ Linked(c, a)
  BY DEF ListOK
<1>2. MovedIs(c, x, d) /\ x \in Idx(c) /\ Parts(c)
  BY <1>1, MovedLinks, PartsOf
<1>3. /\ Idx(d) = Idx(c) /\ d.mru = x /\ d.lru = c.lru /\ C!Live(d) = C!Live(c) /\ d.prev[x] = 0 /\ x # 0
      /\ \A f \in Idx(c) : f # x => b[x] < b[f]
  BY <1>1, <1>2, UsedIs DEF MovedIs, Parts
<1>4. c.lru = x
  BY <1>1 DEF Chained
<1>5. InList(1, r) = {x} /\ r[1] = x /\ r \in [1 .. 1 -> Idx(c)]
  BY <1>2 DEF InList
<1> HIDE DEF b, r
<1>6. Chained(d, b, 1, r)
  <2>1. \A i \in 1 .. 1 - 1 : FALSE
    OBVIOUS
  <2>2. \A i, j \in 1 .. 1 : ~(i < j)
    OBVIOUS
  <2>. QED  BY <1>3, <1>4, <1>5, <2>1, <2>2 DEF Chained
<1>7. Apart(d, b, 1, r)
  BY <1>1, <1>3, <1>4, <1>5, LiveIs DEF Apart
<1>8. InList(1, r) \subseteq InList(m, q) \cup {x}
  BY <1>5
<1>. QED  BY <1>4, <1>6, <1>7, <1>8, GotFrom DEF b, r

\* There is no list any more: a picture moved to the head does not make one.
LEMMA NoneGot ==
    ASSUME NEW c, NEW a, NEW m, NEW q, ListOK(c, a, m, q), NEW x \in C!Live(c), x # c.mru, c.total <= Limit,
           NEW d, d = C!MoveToHead(c, x), m = 0
    PROVE  Got(c, a, m, q, x, d, m, q)
<1> DEFINE b == Used(c, a, x)
<1>1. Shape(c) /\ Aged(c, a) /\ Chained(c, a, m, q) /\ Linked(c, a)
  BY DEF ListOK
<1>2. MovedIs(c, x, d)
  BY <1>1, MovedLinks
<1>3. Idx(d) = Idx(c) /\ d.lru = c.lru
  BY <1>2 DEF MovedIs
<1>4. InList(m, q) = {}
  BY DEF InList
<1>5. Chained(d, b, m, q)
  <2>1. \A i \in 1 .. m - 1 : FALSE
    OBVIOUS
  <2>2. \A i, j \in 1 .. m : FALSE
    OBVIOUS
  <2>. QED  BY <1>1, <1>3, <2>1, <2>2 DEF Chained
<1>6. Apart(d, b, m, q)
  BY <1>4 DEF Apart
<1>. QED  BY <1>5, <1>6, GotFrom

\* A picture that the list has lost comes back to its mru end.
LEMMA LostGot ==
    ASSUME NEW c, NEW a, NEW m, NEW q, ListOK(c, a, m, q), NEW x \in C!Live(c), x # c.mru, c.total <= Limit,
           NEW d, d = C!MoveToHead(c, x), m # 0, x \notin InList(m, q)
    PROVE  Got(c, a, m, q, x, d, m + 1, Longer(m, q, x))
<1> DEFINE b == Used(c, a, x)
           r == Longer(m, q, x)
<1>1. Shape(c) /\ Aged(c, a) /\ Chained(c, a, m, q) /\ Linked(c, a) /\ Apart(c, a, m, q)
  BY DEF ListOK
<1>2. MovedIs(c, x, d) /\ x \in Idx(c) /\ Parts(c)
  BY <1>1, MovedLinks, PartsOf
<1>3. /\ b[x] = 0
      /\ \A f \in Idx(c) : f # x => b[x] < b[f]
      /\ \A f, g \in Idx(c) : f # x /\ g # x /\ a[f] < a[g] => b[f] < b[g]
  BY <1>1, <1>2, UsedIs
<1>4. /\ Idx(d) = Idx(c) /\ d.mru = x /\ d.lru = c.lru /\ C!Live(d) = C!Live(c) /\ x # 0
      /\ \A e \in Idx(c) : d.next[e] = IF e = x THEN c.mru ELSE IF e = c.prev[x] THEN c.next[x] ELSE c.next[e]
      /\ \A e \in Idx(c) : d.prev[e] = IF e = c.mru THEN x ELSE IF e = x THEN 0
                                       ELSE IF e = c.next[x] THEN c.prev[x] ELSE c.prev[e]
  BY <1>2 DEF MovedIs, Parts
<1>5. /\ m \in Nat /\ m + 1 \in Nat /\ m + 1 # 0 /\ m + 1 \in 1 .. m + 1
      /\ \A i \in 1 .. m : i \in 1 .. m + 1 /\ r[i] = q[i] /\ q[i] \in Idx(c)
      /\ r[m + 1] = x /\ r \in [1 .. m + 1 -> Idx(c)]
      /\ InList(m + 1, r) = InList(m, q) \cup {x}
  <2>1. Idx(c) \cup {x} = Idx(c)
    BY <1>2
  <2>. QED  BY <1>1, <2>1, LongerIs
<1>6. /\ \A i, j \in 1 .. m : q[i] = q[j] => i = j
      /\ InList(m, q) \subseteq Idx(c)
  BY <1>1, ListInjective
<1> HIDE DEF r, b
<1>7. 1 \in 1 .. m /\ m \in 1 .. m /\ (m + 1) - 1 = m
  BY <1>5
<1>8. c.lru # 0 /\ c.lru = q[1] /\ c.mru = q[m]
  BY <1>1 DEF Chained
<1>9. \A i \in 1 .. m : q[i] # x /\ q[i] \in InList(m, q) /\ a[q[i]] < a[x]
  <2>1. \A i \in 1 .. m : q[i] \in InList(m, q)
    BY DEF InList
  <2>2. \A z \in InList(m, q) : z # x
    OBVIOUS
  <2>. QED  BY <1>1, <2>1, <2>2 DEF Apart
<1>10. \A y \in Idx(c) : a[y] \in Nat
  BY <1>1 DEF Aged
\* x and its neighbours: its next is older, so not in the list,
<1>11. \A i \in 1 .. m : q[i] # c.next[x]
  <2> SUFFICES ASSUME NEW i \in 1 .. m, q[i] = c.next[x] PROVE FALSE
    OBVIOUS
  <2>1. c.next[x] \in Idx(c) /\ c.next[x] # 0
    BY <1>2, <1>5 DEF Parts
  <2>2. a[x] < a[q[i]]
    BY <1>1, <2>1 DEF Linked
  <2>. QED  BY <1>2, <1>5, <1>9, <1>10, <2>2
\* and its prev can only be the lru end of it.
<1>12. \A i \in 1 .. m : q[i] = c.prev[x] => i = 1
  <2> SUFFICES ASSUME NEW i \in 1 .. m, q[i] = c.prev[x] PROVE i = 1
    OBVIOUS
  <2>1. c.prev[x] = c.lru
    BY <1>1, <1>9 DEF Apart
  <2>. QED  BY <1>6, <1>7, <1>8, <2>1
<1>13. Chained(d, b, m + 1, r)
  <2>1. ASSUME NEW i \in 1 .. m PROVE d.prev[r[i]] = r[i + 1] /\ d.next[r[i + 1]] = r[i]
    <3>1. CASE i = m
      <4>1. q[m] \in Idx(c) /\ r[m] = q[m] /\ r[m + 1] = x
        BY <1>5, <1>7
      <4>. QED  BY <1>2, <1>4, <1>8, <3>1, <4>1
    <3>2. CASE i # m
      <4>1. i \in 1 .. m - 1 /\ i + 1 \in 1 .. m /\ i + 1 # 1
        BY <1>5, <3>2
      <4>2. c.prev[q[i]] = q[i + 1] /\ c.next[q[i + 1]] = q[i]
        BY <1>1, <4>1 DEF Chained
      <4>3. q[i] # c.mru
        BY <1>6, <1>7, <1>8, <3>2
      <4>4. q[i] # x /\ q[i] # c.next[x] /\ q[i + 1] # x /\ q[i + 1] # c.prev[x]
        BY <1>9, <1>11, <1>12, <4>1
      <4>. QED  BY <1>4, <1>5, <4>1, <4>2, <4>3, <4>4
    <3>. QED  BY <3>1, <3>2
  <2>2. ASSUME NEW i \in 1 .. m + 1, NEW j \in 1 .. m + 1, i < j PROVE b[r[j]] < b[r[i]]
    <3>1. i \in 1 .. m /\ (j \in 1 .. m \/ j = m + 1)
      BY <1>5, <2>2
    <3>2. CASE j = m + 1
      BY <1>3, <1>5, <1>9, <3>1, <3>2
    <3>3. CASE j \in 1 .. m
      <4>1. a[q[j]] < a[q[i]] /\ q[i] \in Idx(c) /\ q[j] \in Idx(c)
        BY <1>1, <1>5, <2>2, <3>1, <3>3 DEF Chained
      <4>. QED  BY <1>3, <1>5, <1>9, <3>1, <3>3, <4>1
    <3>. QED  BY <3>1, <3>2, <3>3
  <2>3. d.prev[x] = 0
    BY <1>2, <1>4
  <2>4. d.lru = r[1] /\ d.lru # 0
    BY <1>4, <1>5, <1>7, <1>8
  <2>. QED  BY <1>4, <1>5, <1>7, <2>1, <2>2, <2>3, <2>4 DEF Chained
<1>14. Apart(d, b, m + 1, r)
  <2>1. SUFFICES ASSUME NEW y \in C!Live(c), y \notin InList(m, q), y # x
                 PROVE  /\ \A z \in InList(m, q) \cup {x} : b[z] < b[y]
                        /\ d.prev[y] \in InList(m, q) \cup {x} => d.prev[y] = c.lru
    BY <1>4, <1>5 DEF Apart
  <2>2. y \in Idx(c)
    BY <1>1, LiveIs
  <2>3. /\ \A z \in InList(m, q) : a[z] < a[y]
        /\ c.prev[y] \in InList(m, q) => c.prev[y] = c.lru
    BY <1>1, <2>1 DEF Apart
  <2>4. \A z \in InList(m, q) : z # x /\ z \in Idx(c)
    BY <1>6
  <2>5. \A z \in InList(m, q) \cup {x} : b[z] < b[y]
    BY <1>3, <2>1, <2>2, <2>3, <2>4
  <2>6. y # c.mru
    BY <1>7, <1>8, <1>9, <2>1
  <2>7. CASE y = c.next[x]
    <3>1. d.prev[y] = c.prev[x]
      BY <1>4, <2>1, <2>2, <2>6, <2>7
    <3>2. c.prev[x] # x
      <4>1. c.prev[x] # 0 => a[c.prev[x]] < a[x]
        BY <1>1 DEF Linked
      <4>. QED  BY <1>2, <1>4, <1>10, <4>1
    <3>3. c.prev[x] \in InList(m, q) => c.prev[x] = c.lru
      BY <1>1 DEF Apart
    <3>. QED  BY <2>5, <3>1, <3>2, <3>3
  <2>8. CASE y # c.next[x]
    <3>1. d.prev[y] = c.prev[y]
      BY <1>4, <2>1, <2>2, <2>6, <2>8
    <3>2. c.prev[y] # x
      BY <1>1, <2>1, <2>8 DEF Linked
    <3>. QED  BY <2>3, <2>5, <3>1, <3>2
  <2>. QED  BY <2>7, <2>8
<1>15. InList(m + 1, r) \subseteq InList(m, q) \cup {x} /\ ~Whole(c, m, q)
  BY <1>5 DEF Whole
<1>. QED  BY <1>13, <1>14, <1>15, GotFrom DEF b, r

\* The list with its entry i moved to the mru end
MovedUp(m, q, i) == [j \in 1 .. m |-> IF j < i THEN q[j] ELSE IF j < m THEN q[j + 1] ELSE q[i]]

\* A picture of the list is moved to its mru end.
LEMMA ListedGot ==
    ASSUME NEW c, NEW a, NEW m, NEW q, ListOK(c, a, m, q), NEW x \in C!Live(c), x # c.mru, c.total <= Limit,
           NEW d, d = C!MoveToHead(c, x), NEW i \in 1 .. m, x = q[i], i # 1
    PROVE  Got(c, a, m, q, x, d, m, MovedUp(m, q, i))
<1> DEFINE b == Used(c, a, x)
           r == MovedUp(m, q, i)
<1>1. Shape(c) /\ Aged(c, a) /\ Chained(c, a, m, q) /\ Linked(c, a) /\ Apart(c, a, m, q)
  BY DEF ListOK
<1>2. MovedIs(c, x, d) /\ x \in Idx(c) /\ Parts(c)
  BY <1>1, MovedLinks, PartsOf
<1>3. /\ b[x] = 0
      /\ \A f \in Idx(c) : f # x => b[x] < b[f]
      /\ \A f, g \in Idx(c) : f # x /\ g # x /\ a[f] < a[g] => b[f] < b[g]
  BY <1>1, <1>2, UsedIs
<1>4. /\ Idx(d) = Idx(c) /\ d.mru = x /\ d.lru = c.lru /\ C!Live(d) = C!Live(c) /\ x # 0
      /\ \A e \in Idx(c) : d.next[e] = IF e = x THEN c.mru ELSE IF e = c.prev[x] THEN c.next[x] ELSE c.next[e]
      /\ \A e \in Idx(c) : d.prev[e] = IF e = c.mru THEN x ELSE IF e = x THEN 0
                                       ELSE IF e = c.next[x] THEN c.prev[x] ELSE c.prev[e]
  BY <1>2 DEF MovedIs, Parts
<1>5. /\ \A j, k \in 1 .. m : q[j] = q[k] => j = k
      /\ InList(m, q) \subseteq Idx(c)
      /\ \A j \in 1 .. m : q[j] \in Idx(c) /\ q[j] \in InList(m, q)
  BY <1>1, ListInjective DEF InList
<1>6. m \in Nat /\ m # 0 /\ c.lru = q[1] /\ c.mru = q[m] /\ c.lru # 0
  <2>1. m \in Nat
    BY <1>1 DEF Chained
  <2>2. m # 0
    BY <2>1
  <2>. QED  BY <1>1, <2>1, <2>2 DEF Chained
<1>7. i # m /\ i - 1 \in 1 .. m - 1 /\ i \in 1 .. m - 1 /\ (i - 1) + 1 = i /\ i - 1 \in 1 .. m /\ i + 1 \in 1 .. m
      /\ 1 \in 1 .. m /\ m \in 1 .. m /\ 1 < i /\ i < m
  <2>1. i # m
    BY <1>6
  <2>. QED  BY <1>6, <2>1
<1>8. c.prev[x] = q[i + 1] /\ c.next[x] = q[i - 1]
  BY <1>1, <1>7 DEF Chained
\* Where each entry goes
<1>9. /\ \A j \in 1 .. m : j < i => r[j] = q[j]
      /\ \A j \in 1 .. m : i <= j /\ j < m => j + 1 \in 1 .. m /\ r[j] = q[j + 1] /\ j + 1 # i
      /\ r[m] = x
  <2>1. ASSUME NEW j \in 1 .. m, j < i PROVE r[j] = q[j]
    BY <2>1 DEF MovedUp
  <2>2. ASSUME NEW j \in 1 .. m, i <= j, j < m PROVE j + 1 \in 1 .. m /\ r[j] = q[j + 1] /\ j + 1 # i
    <3>1. ~(j < i)
      BY <2>2
    <3>2. j + 1 \in 1 .. m /\ j + 1 # i
      BY <1>6, <2>2
    <3>. QED  BY <2>2, <3>1, <3>2 DEF MovedUp
  <2>3. ~(m < i) /\ ~(m < m)
    BY <1>6, <1>7
  <2>4. r[m] = x
    BY <1>7, <2>3 DEF MovedUp
  <2>. QED  BY <2>1, <2>2, <2>4
<1>10. \A j \in 1 .. m : \/ j < i
                         \/ i <= j /\ j < m
                         \/ j = m
  BY <1>6
<1>11. r \in [1 .. m -> Idx(c)]
  <2>1. \A j \in 1 .. m : r[j] \in Idx(c)
    <3> HIDE DEF r
    <3>. QED  BY <1>2, <1>5, <1>9, <1>10
  <2>. QED  BY <2>1 DEF MovedUp
<1> HIDE DEF r, b
<1>12. InList(m, r) = InList(m, q)
  <2>1. ASSUME NEW j \in 1 .. m PROVE r[j] \in InList(m, q)
    BY <1>5, <1>9, <1>10
  <2>2. ASSUME NEW j \in 1 .. m PROVE \E k \in 1 .. m : r[k] = q[j]
    <3>1. CASE j < i
      BY <1>9, <3>1
    <3>2. CASE j = i
      BY <1>7, <1>9, <3>2
    <3>3. CASE i < j
      <4>1. j - 1 \in 1 .. m /\ i <= j - 1 /\ j - 1 < m /\ (j - 1) + 1 = j
        BY <1>6, <3>3
      <4>. QED  BY <1>9, <4>1
    <3>. QED  BY <3>1, <3>2, <3>3
  <2>. QED  BY <2>1, <2>2 DEF InList
<1>13. Chained(d, b, m, r)
  <2>1. ASSUME NEW j \in 1 .. m - 1 PROVE d.prev[r[j]] = r[j + 1] /\ d.next[r[j + 1]] = r[j]
    <3>1. \/ j < i - 1
          \/ j = i - 1
          \/ i <= j /\ j < m - 1
          \/ j = m - 1
      BY <1>6, <1>7
    <3>2. CASE j < i - 1
      <4>1. j \in 1 .. m /\ j + 1 \in 1 .. m /\ j < i /\ j + 1 < i /\ j # i - 1 /\ j # i /\ j # m /\ j + 1 # i + 1 /\ j + 1 # i
        BY <1>6, <1>7, <3>2
      <4>2. r[j] = q[j] /\ r[j + 1] = q[j + 1]
        BY <1>9, <4>1
      <4>3. q[j] # c.mru /\ q[j] # x /\ q[j] # c.next[x] /\ q[j + 1] # x /\ q[j + 1] # c.prev[x]
        BY <1>5, <1>6, <1>7, <1>8, <4>1
      <4>4. c.prev[q[j]] = q[j + 1] /\ c.next[q[j + 1]] = q[j]
        BY <1>1 DEF Chained
      <4>. QED  BY <1>4, <1>5, <4>1, <4>2, <4>3, <4>4
    <3>3. CASE j = i - 1
      <4>1. j \in 1 .. m /\ j < i /\ j # m /\ j # i /\ i + 1 # i /\ i + 1 \in 1 .. m /\ j + 1 = i
        BY <1>6, <1>7, <3>3
      <4>2. r[j] = q[i - 1] /\ r[j + 1] = q[i + 1]
        <5>1. r[j] = q[j]
          BY <1>9, <4>1
        <5>2. i <= i /\ i < m
          BY <1>7
        <5>3. r[i] = q[i + 1]
          BY <1>9, <5>2
        <5>. QED  BY <3>3, <4>1, <5>1, <5>3
      <4>3. q[i - 1] # c.mru /\ q[i - 1] # x /\ q[i + 1] # x
        BY <1>5, <1>6, <1>7, <3>3, <4>1
      <4>4. d.prev[q[i - 1]] = q[i + 1]
        BY <1>4, <1>5, <1>7, <1>8, <4>3
      <4>5. d.next[q[i + 1]] = q[i - 1]
        BY <1>4, <1>5, <1>7, <1>8, <4>3
      <4>. QED  BY <4>2, <4>4, <4>5
    <3>4. CASE i <= j /\ j < m - 1
      <4>1. /\ j \in 1 .. m /\ j + 1 \in 1 .. m /\ i <= j + 1 /\ j < m /\ j + 1 < m /\ (j + 1) + 1 \in 1 .. m
            /\ j + 1 # m /\ j + 1 # i /\ j + 1 # i - 1 /\ (j + 1) + 1 # i + 1 /\ (j + 1) + 1 # i
        BY <1>6, <1>7, <3>4
      <4>2. r[j] = q[j + 1] /\ r[j + 1] = q[(j + 1) + 1]
        BY <1>9, <3>4, <4>1
      <4>3. q[j + 1] # c.mru /\ q[j + 1] # x /\ q[j + 1] # c.next[x] /\ q[(j + 1) + 1] # x /\ q[(j + 1) + 1] # c.prev[x]
        BY <1>5, <1>6, <1>7, <1>8, <4>1
      <4>4. c.prev[q[j + 1]] = q[(j + 1) + 1] /\ c.next[q[(j + 1) + 1]] = q[j + 1]
        <5>1. j + 1 \in 1 .. m - 1
          BY <1>6, <3>4
        <5>. QED  BY <1>1, <5>1 DEF Chained
      <4>. QED  BY <1>4, <1>5, <4>1, <4>2, <4>3, <4>4
    <3>5. CASE j = m - 1
      <4>1. j \in 1 .. m /\ i <= j /\ j < m /\ j + 1 = m
        BY <1>6, <1>7, <3>5
      <4>2. r[j] = q[m] /\ r[j + 1] = x
        BY <1>9, <4>1
      <4>3. q[m] = c.mru /\ c.mru \in Idx(c)
        BY <1>5, <1>6, <1>7
      <4>. QED  BY <1>2, <1>4, <4>2, <4>3
    <3>. QED  BY <3>1, <3>2, <3>3, <3>4, <3>5
  <2>2. ASSUME NEW j \in 1 .. m, NEW k \in 1 .. m, j < k PROVE b[r[k]] < b[r[j]]
    <3>1. ASSUME NEW h \in 1 .. m, h # m PROVE \E g \in 1 .. m : r[h] = q[g] /\ g # i /\ g = IF h < i THEN h ELSE h + 1
      <4>1. CASE h < i
        <5>1. h # i
          BY <1>7, <4>1
        <5>. QED  BY <1>9, <4>1, <5>1
      <4>2. CASE ~(h < i)
        <5>1. i <= h /\ h < m
          BY <1>6, <1>7, <1>10, <3>1, <4>2
        <5>. QED  BY <1>9, <4>2, <5>1
      <4>. QED  BY <4>1, <4>2
    <3>2. j # m
      BY <1>6, <2>2
    <3>3. PICK g \in 1 .. m : r[j] = q[g] /\ g # i /\ g = IF j < i THEN j ELSE j + 1
      BY <3>1, <3>2
    <3>4. q[g] # x /\ q[g] \in Idx(c)
      BY <1>5, <3>3
    <3>5. CASE k = m
      BY <1>3, <1>9, <3>3, <3>4, <3>5
    <3>6. CASE k # m
      <4>1. PICK h \in 1 .. m : r[k] = q[h] /\ h # i /\ h = IF k < i THEN k ELSE k + 1
        BY <3>1, <3>6
      <4>2. g < h
        BY <1>6, <1>7, <2>2, <3>3, <4>1
      <4>3. a[q[h]] < a[q[g]]
        BY <1>1, <4>2 DEF Chained
      <4>4. q[h] # x /\ q[h] \in Idx(c)
        BY <1>5, <4>1
      <4>. QED  BY <1>3, <3>3, <3>4, <4>1, <4>3, <4>4
    <3>. QED  BY <3>5, <3>6
  <2>3. d.prev[x] = 0
    BY <1>2, <1>4
  <2>4. d.lru = r[1] /\ d.lru # 0
    BY <1>4, <1>6, <1>7, <1>9
  <2>. QED  BY <1>4, <1>6, <1>9, <1>11, <2>1, <2>2, <2>3, <2>4 DEF Chained
<1>14. Apart(d, b, m, r)
  <2>1. SUFFICES ASSUME NEW y \in C!Live(c), y \notin InList(m, q)
                 PROVE  /\ \A z \in InList(m, q) : b[z] < b[y]
                        /\ d.prev[y] \in InList(m, q) => d.prev[y] = c.lru
    BY <1>4, <1>12 DEF Apart
  <2>2. y \in Idx(c) /\ y # x /\ y # c.mru /\ y # c.next[x]
    BY <1>1, <1>5, <1>6, <1>7, <1>8, <2>1, LiveIs
  <2>3. /\ \A z \in InList(m, q) : a[z] < a[y]
        /\ c.prev[y] \in InList(m, q) => c.prev[y] = c.lru
    BY <1>1, <2>1 DEF Apart
  <2>4. \A z \in InList(m, q) : b[z] < b[y]
    BY <1>3, <1>5, <2>2, <2>3
  <2>5. d.prev[y] = c.prev[y]
    BY <1>4, <2>2
  <2>. QED  BY <2>3, <2>4, <2>5
<1>15. InList(m, r) \subseteq InList(m, q) \cup {x}
  BY <1>12
<1>. QED  BY <1>12, <1>13, <1>14, <1>15, GotFrom DEF b, r

\* A read of a picture keeps what can be said, except that reading the tail loses the list.
LEMMA GetKeeps ==
    ASSUME NEW c, NEW a, NEW m, NEW q, ListOK(c, a, m, q), NEW x \in C!Live(c), x # c.mru, c.total <= Limit,
           NEW d, d = C!MoveToHead(c, x)
    PROVE  \E n, r : Got(c, a, m, q, x, d, n, r)
<1>1. CASE m = 0
  BY <1>1, NoneGot
<1>2. CASE m # 0 /\ x \notin InList(m, q)
  BY <1>2, LostGot
<1>3. CASE m # 0 /\ x \in InList(m, q)
  <2>1. PICK i \in 1 .. m : x = q[i]
    BY <1>3 DEF InList
  <2>2. CASE i = 1
    <3>1. x = q[1]
      BY <2>1, <2>2
    <3>. QED  BY <1>3, <3>1, TailGot
  <2>3. CASE i # 1
    BY <2>1, <2>3, ListedGot
  <2>. QED  BY <2>2, <2>3
<1>. QED  BY <1>1, <1>2, <1>3

-----------------------------------------------------------------------------
(* The cache from inside: every step *)

\* What holds of the cache c, the ages a, and the histories t (tailUsed) and p (orphaned).
Sound(c, a, t, p) ==
    /\ t \in BOOLEAN /\ p \in BOOLEAN /\ c.total <= Limit
    /\ \E m, q : /\ ListOK(c, a, m, q)
                 /\ t \/ Whole(c, m, q)
                 /\ t \/ p \/ Current(c, m, q)

\* What c has and d has not is older than what d has.
InOrder(c, a, d) ==
    \A e, f \in Idx(c) : e \in C!Live(c) \ C!Live(d) /\ f \in C!Live(d) => a[f] < a[e]

\* An empty cache is sound.
LEMMA EmptySound == ASSUME NEW c, c = C!Empty PROVE Sound(c, <<>>, FALSE, FALSE) /\ C!Live(c) = {}
<1>1. /\ c.table = [k \in Pictures |-> Absent] /\ c.key = <<>> /\ c.bytes = <<>> /\ c.prev = <<>> /\ c.next = <<>>
      /\ c.mru = 0 /\ c.lru = 0 /\ c.total = 0
  BY DEF C!Empty
<1>2. Len(c.key) = 0 /\ Idx(c) = {}
  BY <1>1 DEF Idx
<1>3. c \in Caches
  <2>1. c.table \in [Pictures -> Nat \cup {Absent, Loading}]
    BY <1>1
  <2>2. /\ c = [table |-> c.table, key |-> c.key, bytes |-> c.bytes, prev |-> c.prev, next |-> c.next,
                mru |-> c.mru, lru |-> c.lru, total |-> c.total]
    BY DEF C!Empty
  <2>3. c.key \in Seq(Pictures) /\ c.bytes \in Seq(Sizes) /\ c.prev \in Seq(Nat) /\ c.next \in Seq(Nat)
    BY <1>1
  <2>4. c.mru \in Nat /\ c.lru \in Nat /\ c.total \in Int
    BY <1>1
  <2>. QED  BY <2>1, <2>2, <2>3, <2>4 DEF Caches
<1>4. Shape(c)
  BY <1>1, <1>2, <1>3, CacheConstants DEF Shape
<1>5. C!Live(c) = {}
  BY <1>2, <1>4, LiveIs
<1> DEFINE q == [i \in 1 .. 0 |-> 0]
<1>6. InList(0, q) = {}
  BY DEF InList
<1>7. Chained(c, <<>>, 0, q)
  <2>1. \A i \in 1 .. 0 : FALSE
    OBVIOUS
  <2>2. \A i \in 1 .. 0 - 1 : FALSE
    OBVIOUS
  <2>3. q \in [1 .. 0 -> Idx(c)]
    BY <2>1
  <2>. QED  BY <1>1, <2>1, <2>2, <2>3 DEF Chained
<1> HIDE DEF q
<1>8. Aged(c, <<>>)
  <2>1. <<>> \in [Idx(c) -> Nat]
    BY <1>2
  <2>. QED  BY <1>2, <2>1 DEF Aged
<1>9. Weighed(c, 0, q) /\ Whole(c, 0, q) /\ Current(c, 0, q)
  <2>1. C!SizeOf(c.bytes, {}) = 0
    BY SizeOfNone
  <2>2. C!Live(c) \cup InList(0, q) = {} /\ Limit \in Nat /\ c.total = 0
    BY <1>1, <1>5, <1>6, CacheConstants
  <2>3. 0 <= c.total /\ c.total <= Limit + 0
    BY <2>2
  <2>4. Weighed(c, 0, q)
    BY <1>6, <2>1, <2>2, <2>3 DEF Weighed
  <2>. QED  BY <1>5, <1>6, <2>1, <2>2, <2>4 DEF Whole, Current
<1>10. ListOK(c, <<>>, 0, q)
  BY <1>2, <1>4, <1>5, <1>7, <1>8, <1>9 DEF ListOK, Linked, Apart, Keyed
<1>11. c.total <= Limit
  BY <1>1, CacheConstants
<1>. QED  BY <1>5, <1>9, <1>10, <1>11 DEF Sound

\* set()
LEMMA StoreSound ==
    ASSUME NEW c, NEW a, NEW t, NEW p, Sound(c, a, t, p), Len(c.key) < MaxEntries,
           NEW k \in Pictures, NEW size \in Sizes, NEW d, d = C!KeepLimit(C!LinkNew(c, k, size)),
           NEW p2, p2 = (p \/ c.table[k] \in Idx(c))
    PROVE  Sound(d, Older(c, a), t, p2) /\ (t \/ p2 \/ InOrder(c, a, d))
<1>1. PICK m, q : /\ ListOK(c, a, m, q)
                  /\ t \/ Whole(c, m, q)
                  /\ t \/ p \/ Current(c, m, q)
  BY DEF Sound
<1> DEFINE l == C!LinkNew(c, k, size)
           N == Len(c.key) + 1
           b == Older(c, a)
           s == Longer(m, q, N)
<1>2. /\ ListOK(l, b, m + 1, s)
      /\ Whole(c, m, q) => Whole(l, m + 1, s)
      /\ c.table[k] \notin Idx(c) /\ Current(c, m, q) => Current(l, m + 1, s)
      /\ \A e : e \in C!Live(l) <=> e = N \/ (e \in C!Live(c) /\ c.key[e] # k)
  BY <1>1, NewLinked
<1>3. d \in Turns(l, b, m + 1, s) /\ d.total <= Limit
  <2> HIDE DEF l, s, b
  <2>1. ListOK(l, b, m + 1, s)
    BY <1>2
  <2>2. d = C!KeepLimit(l)
    BY DEF l
  <2>. QED  BY <2>1, <2>2, LimitIsKept
<1>4. PICK n, r : Turned(l, b, m + 1, s, d, n, r)
  BY <1>3 DEF Turns
<1> HIDE DEF l, s, b
<1>5. Sound(d, b, t, p2)
  <2>1. ListOK(d, b, n, r) /\ (t \/ Whole(d, n, r)) /\ (t \/ p2 \/ Current(d, n, r))
    BY <1>1, <1>2, <1>4 DEF Turned
  <2>2. t \in BOOLEAN /\ p2 \in BOOLEAN
    BY DEF Sound
  <2>. QED  BY <1>3, <2>1, <2>2 DEF Sound
<1>6. ASSUME ~t, ~p2, NEW e \in Idx(c), NEW f \in Idx(c), e \in C!Live(c) \ C!Live(d), f \in C!Live(d)
      PROVE  a[f] < a[e]
  <2>1. Whole(l, m + 1, s) /\ Current(l, m + 1, s)
    BY <1>1, <1>2, <1>6
  <2>2. Shape(c) /\ Aged(c, a) /\ Parts(c)
    BY <1>1, PartsOf DEF ListOK
  <2>3. c.key[e] # k
    BY <1>6, <2>2, LiveIs
  <2>4. e \in C!Live(l) \ C!Live(d)
    BY <1>2, <1>6, <2>3
  <2>5. b[f] < b[e]
    BY <1>4, <1>6, <2>1, <2>4 DEF Turned
  <2>6. b[f] = a[f] + 1 /\ b[e] = a[e] + 1 /\ a[f] \in Nat /\ a[e] \in Nat
    BY <2>2, OlderIs DEF b
  <2>. QED  BY <2>5, <2>6
<1>7. t \/ p2 \/ InOrder(c, a, d)
  BY <1>6 DEF InOrder
<1>. QED  BY <1>5, <1>7 DEF b

\* A key is marked or cleared: the other pictures in the table stay.
LEMMA MarkSound ==
    ASSUME NEW c, NEW a, NEW t, NEW p, Sound(c, a, t, p), NEW k \in Pictures,
           NEW v \in {Absent, Loading},
           NEW d, d = [c EXCEPT !.table = [c.table EXCEPT ![k] = v]],
           NEW p2, p2 = (p \/ c.table[k] \in Idx(c))
    PROVE  /\ Sound(d, a, t, p2)
           /\ C!Live(d) \subseteq C!Live(c)
           /\ p2 \/ C!Live(d) = C!Live(c)
<1>1. PICK m, q : /\ ListOK(c, a, m, q)
                  /\ t \/ Whole(c, m, q)
                  /\ t \/ p \/ Current(c, m, q)
  BY DEF Sound
<1>2. Shape(c) /\ Parts(c) /\ c \in Caches
  BY <1>1, PartsOf DEF ListOK, Shape
<1>3. /\ d.key = c.key /\ d.bytes = c.bytes /\ d.prev = c.prev /\ d.next = c.next
      /\ d.mru = c.mru /\ d.lru = c.lru /\ d.total = c.total /\ d.table = [c.table EXCEPT ![k] = v]
  BY <1>2 DEF Caches
<1>4. \A j \in Pictures : d.table[j] = IF j = k THEN v ELSE c.table[j]
  BY <1>2, <1>3 DEF Parts
<1>5. d \in Caches
  <2>1. [c.table EXCEPT ![k] = v] \in [Pictures -> Nat \cup {Absent, Loading}]
    BY <1>2 DEF Caches
  <2>. QED  BY <1>2, <2>1 DEF Caches
<1>6. Shape(d) /\ Idx(d) = Idx(c)
  <2>1. d.prev \in [Idx(c) -> 0 .. Len(c.key)] /\ d.next \in [Idx(c) -> 0 .. Len(c.key)]
    BY <1>2, <1>3 DEF Parts
  <2>2. \A j \in Pictures : d.table[j] \in Idx(c) \cup {Absent, Loading}
    BY <1>2, <1>4 DEF Parts
  <2>3. d.mru \in 0 .. Len(c.key) /\ d.lru \in 0 .. Len(c.key) /\ d.key = c.key /\ d.bytes = c.bytes
    BY <1>2, <1>3 DEF Parts
  <2>. QED  BY <1>2, <1>5, <2>1, <2>2, <2>3, ShapeOf
<1>7. C!Live(d) \subseteq C!Live(c) /\ (c.table[k] \notin Idx(c) => C!Live(d) = C!Live(c))
  <2>1. \A e : e \in C!Live(d) <=> e \in Idx(c) /\ d.table[c.key[e]] = e
    <3>1. \A e : e \in C!Live(d) <=> e \in Idx(d) /\ d.table[d.key[e]] = e
      BY <1>6, LiveIs
    <3>. QED  BY <1>3, <1>6, <3>1, Zenon
  <2>2. \A e : e \in C!Live(c) <=> e \in Idx(c) /\ c.table[c.key[e]] = e
    BY <1>2, LiveIs
  <2>3. \A e \in Idx(c) : c.key[e] \in Pictures /\ e # Absent /\ e # Loading
    BY <1>2 DEF Parts
  <2>4. \A e : e \in C!Live(d) => e \in C!Live(c)
    BY <1>4, <2>1, <2>2, <2>3
  <2>5. c.table[k] \notin Idx(c) => \A e : e \in C!Live(c) => e \in C!Live(d)
    BY <1>4, <2>1, <2>2, <2>3
  <2>. QED  BY <2>4, <2>5
<1>8. Aged(d, a) /\ Chained(d, a, m, q)
  BY <1>1, <1>3, <1>6 DEF ListOK, Aged, Chained
<1>9. Linked(d, a) /\ Apart(d, a, m, q)
  BY <1>1, <1>3, <1>7 DEF ListOK, Linked, Apart
<1>10. /\ Weighed(d, m, q) /\ (Whole(c, m, q) => Whole(d, m, q))
       /\ c.table[k] \notin Idx(c) /\ Current(c, m, q) => Current(d, m, q)
  <2>1. Weighed(d, m, q)
    <3> DEFINE es == C!Live(d) \cup InList(m, q)
               fs == C!Live(c) \cup InList(m, q)
    <3>1. es \subseteq fs /\ fs \subseteq Idx(c)
      BY <1>1, <1>2, <1>7, LiveIs, ListInjective DEF ListOK
    <3> HIDE DEF es, fs
    <3>2. /\ Weighs(c.bytes, es) /\ C!SizeOf(c.bytes, es) \in Nat
          /\ Weighs(c.bytes, fs) /\ C!SizeOf(c.bytes, fs) \in Nat
      BY <1>2, <3>1, AllWeigh
    <3>3. C!SizeOf(c.bytes, es) <= C!SizeOf(c.bytes, fs)
      BY <3>1, <3>2, SizeGrows
    <3>4. C!SizeOf(c.bytes, fs) <= c.total /\ c.total <= Limit + C!SizeOf(c.bytes, InList(m, q))
      BY <1>1 DEF ListOK, Weighed, fs
    <3>5. c.total \in Int
      BY <1>2 DEF Parts
    <3>6. C!SizeOf(c.bytes, es) <= c.total
      BY <3>2, <3>3, <3>4, <3>5
    <3>. QED  BY <1>3, <3>4, <3>6 DEF Weighed, es
  <2>2. Whole(c, m, q) => Whole(d, m, q)
    BY <1>3, <1>7 DEF Whole
  <2>3. c.table[k] \notin Idx(c) /\ Current(c, m, q) => Current(d, m, q)
    BY <1>7 DEF Current
  <2>. QED  BY <2>1, <2>2, <2>3
<1>11. Keyed(d)
  <2>1. Keyed(c) /\ Absent \notin Idx(c) /\ Loading \notin Idx(c)
    BY <1>1, <1>2 DEF ListOK, Parts
  <2>. QED  BY <1>3, <1>4, <1>6, <2>1 DEF Keyed
<1>12. ListOK(d, a, m, q)
  BY <1>6, <1>8, <1>9, <1>10, <1>11 DEF ListOK
<1>13. t \in BOOLEAN /\ p2 \in BOOLEAN /\ d.total <= Limit
  BY <1>3 DEF Sound
<1>14. (t \/ Whole(d, m, q)) /\ (t \/ p2 \/ Current(d, m, q))
  BY <1>1, <1>10
<1>15. Sound(d, a, t, p2)
  BY <1>12, <1>13, <1>14 DEF Sound
<1>. QED  BY <1>7, <1>15

\* get()
LEMMA GetSound ==
    ASSUME NEW c, NEW a, NEW t, NEW p, Sound(c, a, t, p), NEW k \in Pictures, NEW x, x = c.table[k],
           x \in Idx(c), x # c.mru, NEW d, d = C!MoveToHead(c, x),
           NEW t2, t2 = (t \/ x = c.lru)
    PROVE  Sound(d, Used(c, a, x), t2, p) /\ C!Live(d) = C!Live(c)
<1>1. PICK m, q : /\ ListOK(c, a, m, q)
                  /\ t \/ Whole(c, m, q)
                  /\ t \/ p \/ Current(c, m, q)
  BY DEF Sound
<1>2. c.total <= Limit /\ x \in C!Live(c)
  BY <1>1, LiveIs DEF Sound, ListOK, Keyed
<1>3. PICK n, r : Got(c, a, m, q, x, d, n, r)
  BY <1>1, <1>2, GetKeeps
<1>4. ListOK(d, Used(c, a, x), n, r) /\ d.total <= Limit
  BY <1>2, <1>3 DEF Got
<1>5. (t2 \/ Whole(d, n, r)) /\ (t2 \/ p \/ Current(d, n, r))
  BY <1>1, <1>3 DEF Got
<1>6. t2 \in BOOLEAN /\ p \in BOOLEAN
  BY DEF Sound
<1>7. Sound(d, Used(c, a, x), t2, p)
  BY <1>4, <1>5, <1>6 DEF Sound
<1>8. Shape(c) /\ Aged(c, a) /\ Linked(c, a)
  BY <1>1 DEF ListOK
<1>9. MovedIs(c, x, d)
  BY <1>2, <1>8, MovedLinks
<1>. QED  BY <1>7, <1>9 DEF MovedIs

-----------------------------------------------------------------------------
(* The cache from inside: what its properties say *)

\* A walk along links
Walks(w, n, link, e) ==
    w[0] = e /\ \A i \in Nat : w[i] \in 0 .. n /\ w[i + 1] = IF w[i] = 0 THEN 0 ELSE link[w[i]]

LEMMA AlongIs ==
    ASSUME NEW n \in Nat, NEW link \in [1 .. n -> 0 .. n], NEW e \in 0 .. n
    PROVE  Walks(C!Along(link, e), n, link, e)
<1> DEFINE go(f) == IF f = 0 THEN 0 ELSE link[f]
           G == [p \in Nat \X (0 .. n) |-> go(p[2])]
           IsWalk(w) == w = [i \in Nat |-> IF i = 0 THEN e ELSE go(w[i - 1])]
           u == CHOOSE w : IsWalk(w)
<1>1. C!Along(link, e) = u
  BY DEF C!Along
<1>2. \A f \in 0 .. n : go(f) \in 0 .. n
  <2> SUFFICES ASSUME NEW f \in 0 .. n, f # 0 PROVE link[f] \in 0 .. n
    OBVIOUS
  <2>1. f \in 1 .. n
    OBVIOUS
  <2>. QED  BY <2>1
<1> DEFINE V == 0 .. n
<1>3. G \in [Nat \X V -> V] /\ \A i \in Nat, f \in V : G[<<i, f>>] = go(f)
  <2> HIDE DEF go
  <2>. QED  BY <1>2
<1> HIDE DEF G, go, u
<1>4. Made(V, e, G)
  <2> HIDE DEF V
  <2>1. e \in V
    BY DEF V
  <2>. QED  BY <1>3, <2>1, Recursion
<1> HIDE DEF V
<1>5. PICK F \in [Nat -> V] : F[0] = e /\ \A i \in Nat : F[i + 1] = G[<<i, F[i]>>]
  BY <1>4 DEF Made
<1>6. IsWalk(F)
  <2>1. ASSUME NEW i \in Nat PROVE F[i] = IF i = 0 THEN e ELSE go(F[i - 1])
    <3>1. CASE i = 0
      BY <1>5, <3>1
    <3>2. CASE i # 0
      <4>1. i - 1 \in Nat /\ (i - 1) + 1 = i
        BY <3>2
      <4>2. F[i - 1] \in V /\ F[i] = G[<<i - 1, F[i - 1]>>]
        BY <1>5, <4>1
      <4>. QED  BY <1>3, <3>2, <4>1, <4>2
    <3>. QED  BY <3>1, <3>2
  <2>. QED  BY <1>5, <2>1
<1>7. IsWalk(u)
  <2> HIDE DEF IsWalk
  <2>. QED  BY <1>6 DEF u
<1>8. u[0] = e /\ \A i \in Nat : u[i + 1] = go(u[i])
  <2>1. \A i \in Nat : u[i] = IF i = 0 THEN e ELSE go(u[i - 1])
    BY <1>7
  <2>2. \A i \in Nat : i + 1 \in Nat /\ i + 1 # 0 /\ (i + 1) - 1 = i
    OBVIOUS
  <2>. QED  BY <2>1, <2>2
<1> DEFINE T == {i \in Nat : u[i] \in 0 .. n}
<1>9. 0 \in T /\ \A i \in Nat : i \in T => i + 1 \in T
  <2>1. \A i \in Nat : u[i] \in 0 .. n => u[i + 1] \in 0 .. n
    BY <1>2, <1>8
  <2>2. u[0] \in 0 .. n
    BY <1>8
  <2>. QED  BY <2>1, <2>2
<1>10. \A i \in Nat : i \in T
  <2> HIDE DEF T
  <2>. QED  BY <1>9, Induct
<1>11. \A i \in Nat : u[i + 1] = IF u[i] = 0 THEN 0 ELSE link[u[i]]
  BY <1>8 DEF go
<1>. QED  BY <1>1, <1>8, <1>10, <1>11 DEF Walks

\* Followed by its links from the lru end, and from the mru end, the list is q.
Followed(c, m, q) ==
    /\ m \in 0 .. Len(c.key)
    /\ C!Along(c.prev, c.lru)[m] = 0
    /\ \A i \in 0 .. m - 1 : C!Along(c.prev, c.lru)[i] = q[i + 1]
    /\ \A i \in 0 .. m - 1 : C!Along(c.next, c.mru)[i] = q[m - i]

LEMMA ListFollowed ==
    ASSUME NEW c, NEW a, NEW m, NEW q, Shape(c), Aged(c, a), Chained(c, a, m, q)
    PROVE  Followed(c, m, q)
<1> DEFINE w == C!Along(c.prev, c.lru)
           v == C!Along(c.next, c.mru)
           n == Len(c.key)
<1>1. Parts(c) /\ n \in Nat /\ m \in Nat
  BY PartsOf DEF Parts, Chained
<1>2. /\ c.prev \in [1 .. n -> 0 .. n] /\ c.next \in [1 .. n -> 0 .. n] /\ c.mru \in 0 .. n /\ c.lru \in 0 .. n
      /\ Idx(c) = 1 .. n
  BY <1>1 DEF Parts, Idx
<1> HIDE DEF n
<1>3. Walks(w, n, c.prev, c.lru) /\ Walks(v, n, c.next, c.mru)
  BY <1>1, <1>2, AlongIs
<1> HIDE DEF w, v
<1>4. \A i \in 1 .. m : q[i] \in 1 .. n /\ q[i] # 0 /\ a[q[i]] \in Nat /\ a[q[i]] < n
  <2>1. \A i \in 1 .. m : q[i] \in Idx(c) /\ a[q[i]] \in Nat
    BY ListInjective
  <2>. QED  BY <1>1, <1>2, <2>1 DEF Aged, n
\* The ages get less along the list: it is no longer than the entries are many.
<1> DEFINE S == {i \in Nat : i \in 1 .. m => a[q[i]] <= n - i}
<1>5. 0 \in S
  OBVIOUS
<1>6. ASSUME NEW i \in Nat, i \in S PROVE i + 1 \in S
  <2>1. CASE i = 0
    <3>1. 0 + 1 \in 1 .. m => a[q[0 + 1]] <= n - (0 + 1)
      BY <1>1, <1>4
    <3>. QED  BY <2>1, <3>1
  <2>2. CASE i # 0 /\ i + 1 \in 1 .. m
    <3>1. i \in 1 .. m /\ i < i + 1
      BY <1>1, <2>2
    <3>2. a[q[i + 1]] < a[q[i]] /\ a[q[i]] <= n - i
      BY <1>6, <2>2, <3>1 DEF Chained
    <3>3. a[q[i + 1]] <= n - (i + 1)
      BY <1>1, <1>4, <2>2, <3>1, <3>2
    <3>. QED  BY <3>3
  <2>3. CASE ~(i + 1 \in 1 .. m)
    BY <2>3
  <2>. QED  BY <2>1, <2>2, <2>3
<1>7. \A i \in Nat : i \in S
  <2> HIDE DEF S
  <2>. QED  BY <1>5, <1>6, Induct
<1>8. m \in 0 .. n
  <2>1. CASE m = 0
    BY <1>1, <2>1
  <2>2. CASE m # 0
    <3>1. m \in 1 .. m /\ m \in S
      BY <1>1, <1>7, <2>2
    <3>2. a[q[m]] <= n - m /\ a[q[m]] \in Nat
      BY <1>4, <3>1
    <3>. QED  BY <1>1, <3>2
  <2>. QED  BY <2>1, <2>2
\* From the lru end
<1> DEFINE P == {i \in Nat : (i < m => w[i] = q[i + 1]) /\ (i = m => w[i] = 0)}
<1>9. 0 \in P
  <2>1. w[0] = c.lru /\ (0 < m => c.lru = q[0 + 1]) /\ (0 = m => c.lru = 0)
    BY SMTT(60), <1>1, <1>3 DEF Walks, Chained
  <2>. QED  BY <2>1
<1>10. ASSUME NEW i \in Nat, i \in P PROVE i + 1 \in P
  <2>1. SUFFICES ASSUME i < m PROVE i + 1 \in P
    BY <1>1
  <2>2. w[i] = q[i + 1] /\ i + 1 \in 1 .. m /\ q[i + 1] # 0
    BY <1>1, <1>4, <1>10, <2>1
  <2>3. w[i + 1] = c.prev[q[i + 1]]
    BY <1>3, <2>2 DEF Walks
  <2>4. CASE i + 1 = m
    <3>1. c.prev[q[m]] = 0
      BY <1>1, <2>1 DEF Chained
    <3>. QED  BY <1>1, <2>3, <2>4, <3>1
  <2>5. CASE i + 1 # m
    <3>1. i + 1 \in 1 .. m - 1
      BY <1>1, <2>1, <2>5
    <3>2. c.prev[q[i + 1]] = q[(i + 1) + 1]
      BY <3>1 DEF Chained
    <3>. QED  BY <2>3, <2>5, <3>2
  <2>. QED  BY <2>4, <2>5
<1>11. \A i \in Nat : i \in P
  <2> HIDE DEF P
  <2>. QED  BY <1>9, <1>10, Induct
<1>12. w[m] = 0 /\ \A i \in 0 .. m - 1 : w[i] = q[i + 1]
  BY <1>1, <1>11
\* From the mru end
<1> DEFINE Q == {i \in Nat : i < m => v[i] = q[m - i]}
<1>13. 0 \in Q
  BY <1>1, <1>3 DEF Walks, Chained
<1>14. ASSUME NEW i \in Nat, i \in Q PROVE i + 1 \in Q
  <2>1. SUFFICES ASSUME i + 1 < m PROVE v[i + 1] = q[m - (i + 1)]
    OBVIOUS
  <2>2. i < m /\ m - i \in 1 .. m /\ m - (i + 1) \in 1 .. m - 1 /\ (m - (i + 1)) + 1 = m - i
    BY <1>1, <2>1
  <2>3. v[i] = q[m - i] /\ q[m - i] # 0
    BY <1>4, <1>14, <2>2
  <2>4. v[i + 1] = c.next[q[m - i]]
    BY <1>3, <2>3 DEF Walks
  <2>5. c.next[q[(m - (i + 1)) + 1]] = q[m - (i + 1)]
    BY <2>2 DEF Chained
  <2>. QED  BY <2>2, <2>4, <2>5
<1>15. \A i \in Nat : i \in Q
  <2> HIDE DEF Q
  <2>. QED  BY <1>13, <1>14, Induct
<1>16. \A i \in 0 .. m - 1 : v[i] = q[m - i]
  BY <1>1, <1>15
<1>. QED  BY <1>8, <1>12, <1>16 DEF Followed, w, v, n

CacheInv == Sound(stored, age, tailUsed, orphaned)

\* What is sound is intact.
LEMMA SoundIntact == CacheInv => CacheIntact
<1> SUFFICES ASSUME CacheInv PROVE C!CacheIntact
  BY DEF CacheIntact
<1>1. PICK m, q : ListOK(stored, age, m, q) /\ (tailUsed \/ Whole(stored, m, q))
  BY DEF CacheInv, Sound
<1>2. /\ Shape(stored) /\ Aged(stored, age) /\ Chained(stored, age, m, q) /\ Weighed(stored, m, q)
      /\ Parts(stored)
  BY <1>1, PartsOf DEF ListOK
<1>3. C!TypeOK
  <2>1. age \in [Idx(stored) -> 0 .. Len(stored.key) - 1]
    <3>1. \A e \in Idx(stored) : age[e] \in 0 .. Len(stored.key) - 1
      BY <1>2 DEF Aged, Parts
    <3>. QED  BY <1>2, <3>1 DEF Aged
  <2>2. tailUsed \in BOOLEAN /\ orphaned \in BOOLEAN
    BY DEF CacheInv, Sound
  <2>3. stored.key \in Seq(Pictures)
    BY <1>2 DEF Shape, Caches
  <2>. QED  BY <1>2, <2>1, <2>2, <2>3 DEF C!TypeOK, C!Entries, Parts, Idx
<1>4. C!ListAgrees
  <2>1. SUFFICES ASSUME Whole(stored, m, q) PROVE C!ListAgrees
    BY <1>1 DEF C!ListAgrees
  <2> DEFINE w == C!Along(stored.prev, stored.lru)
             v == C!Along(stored.next, stored.mru)
             onList == {w[i] : i \in 0 .. m - 1}
  <2>2. /\ m \in 0 .. Len(stored.key) /\ w[m] = 0
        /\ \A i \in 0 .. m - 1 : w[i] = q[i + 1]
        /\ \A i \in 0 .. m - 1 : v[i] = q[m - i]
    BY <1>2, ListFollowed DEF Followed
  <2> HIDE DEF w, v
  <2>3. m \in Nat
    BY <1>2 DEF Chained
  <2>4. onList = InList(m, q)
    <3>1. \A i \in 0 .. m - 1 : i + 1 \in 1 .. m
      BY <2>3
    <3>2. \A i \in 1 .. m : i - 1 \in 0 .. m - 1 /\ (i - 1) + 1 = i
      BY <2>3
    <3>3. \A e \in onList : e \in InList(m, q)
      <4>1. \A i \in 1 .. m : q[i] \in InList(m, q)
        BY DEF InList
      <4>2. \A i \in 0 .. m - 1 : w[i] \in InList(m, q)
        BY <2>2, <3>1, <4>1
      <4> HIDE DEF InList
      <4>. QED  BY <4>2
    <3>4. \A i \in 1 .. m : w[i - 1] = q[i]
      BY <2>2, <3>2
    <3>5. \A i \in 1 .. m : q[i] \in onList
      BY <3>2, <3>4
    <3>6. \A e \in InList(m, q) : e \in onList
      <4> HIDE DEF onList
      <4>. QED  BY <3>5 DEF InList
    <3>. QED  BY <3>3, <3>6
  <2>5. ASSUME NEW i \in 0 .. m - 1 PROVE v[i] = w[m - 1 - i]
    <3>1. m - 1 - i \in 0 .. m - 1 /\ (m - 1 - i) + 1 = m - i
      BY <2>3
    <3>. QED  BY <2>2, <3>1
  <2>6. 0 \notin onList
    <3>1. InList(m, q) \subseteq Idx(stored)
      BY <1>2, ListInjective
    <3>. QED  BY <1>2, <2>4, <3>1 DEF Parts
  <2>7. C!Live(stored) \subseteq onList /\ stored.total = C!SizeOf(stored.bytes, onList)
    BY <2>1, <2>4 DEF Whole
  <2> HIDE DEF onList
  <2>8. w[m] = 0 /\ 0 \notin onList /\ (\A i \in 0 .. m - 1 : v[i] = w[m - 1 - i])
        /\ C!Live(stored) \subseteq onList /\ stored.total = C!SizeOf(stored.bytes, onList)
    BY <2>2, <2>5, <2>6, <2>7
  <2>. QED  BY <2>2, <2>8 DEF C!ListAgrees, w, v, onList
<1>5. C!LimitKept
  <2> DEFINE u == C!Live(stored) \cup InList(m, q)
  <2>1. C!Live(stored) \subseteq Idx(stored) /\ u \subseteq Idx(stored) /\ C!Live(stored) \subseteq u
    BY <1>2, LiveIs, ListInjective
  <2> HIDE DEF u
  <2>2. Weighs(stored.bytes, C!Live(stored)) /\ Weighs(stored.bytes, u)
        /\ C!SizeOf(stored.bytes, C!Live(stored)) \in Nat /\ C!SizeOf(stored.bytes, u) \in Nat
    BY <1>2, <2>1, AllWeigh
  <2>3. C!SizeOf(stored.bytes, C!Live(stored)) <= C!SizeOf(stored.bytes, u)
    BY <2>1, <2>2, SizeGrows
  <2>4. C!SizeOf(stored.bytes, u) <= stored.total /\ stored.total \in Int
    BY <1>2 DEF Weighed, u, Parts
  <2>5. stored.total <= Limit
    BY DEF CacheInv, Sound
  <2>6. C!SizeOf(stored.bytes, C!Live(stored)) <= stored.total
    BY <2>2, <2>3, <2>4
  <2>. QED  BY <2>5, <2>6 DEF C!LimitKept
<1>. QED  BY <1>3, <1>4, <1>5 DEF C!CacheIntact

-----------------------------------------------------------------------------
(* The cache from inside: its theorems *)

\* What every step of the cache does: it stays sound, and set() frees the oldest first.
LEMMA CacheStep == CacheInv /\ [C!Next]_(C!vars) => CacheInv' /\ [tailUsed \/ orphaned' \/ C!FreesInOrder]_(C!vars)
<1> SUFFICES ASSUME CacheInv, [C!Next]_(C!vars)
             PROVE  CacheInv' /\ [tailUsed \/ orphaned' \/ C!FreesInOrder]_(C!vars)
  OBVIOUS
<1>0. /\ Sound(stored, age, tailUsed, orphaned)
      /\ C!Entries = Idx(stored)
      /\ stored \in Caches
  BY DEF CacheInv, Sound, ListOK, Shape, C!Entries, Idx
<1>1. ASSUME NEW k \in Pictures, NEW size \in Sizes, C!Store(k, size)
      PROVE  CacheInv' /\ (tailUsed \/ orphaned' \/ C!FreesInOrder)
  <2>1. /\ Len(stored.key) < MaxEntries /\ stored' = C!KeepLimit(C!LinkNew(stored, k, size))
        /\ orphaned' = (orphaned \/ stored.table[k] \in Idx(stored))
        /\ age' = Older(stored, age) /\ tailUsed' = tailUsed
    BY <1>0, <1>1 DEF C!Store, Older
  <2>2. Sound(stored', Older(stored, age), tailUsed, orphaned')
        /\ (tailUsed \/ orphaned' \/ InOrder(stored, age, stored'))
    BY <1>0, <2>1, StoreSound
  <2>3. InOrder(stored, age, stored') => C!FreesInOrder
    BY <1>0 DEF InOrder, C!FreesInOrder
  <2>. QED  BY <2>1, <2>2, <2>3 DEF CacheInv
<1>2. ASSUME C!Live(stored') = C!Live(stored) \/ C!Live(stored') = {} PROVE C!FreesInOrder
  BY <1>2 DEF C!FreesInOrder
<1>3. ASSUME NEW k \in Pictures, C!Mark(k) \/ C!Clear(k) PROVE CacheInv' /\ (orphaned' \/ C!FreesInOrder)
  <2>1. PICK v \in {Absent, Loading} :
            /\ stored' = [stored EXCEPT !.table = [stored.table EXCEPT ![k] = v]]
            /\ orphaned' = (orphaned \/ stored.table[k] \in Idx(stored))
            /\ UNCHANGED <<age, tailUsed>>
    <3>1. CASE C!Mark(k)
      <4>1. stored.table[k] \notin Idx(stored) /\ orphaned \in BOOLEAN
        BY <1>0, <3>1, PartsOf DEF C!Mark, Parts, Sound, ListOK
      <4>. QED  BY <1>0, <3>1, <4>1 DEF C!Mark, Caches
    <3>2. CASE C!Clear(k)
      BY <1>0, <3>2 DEF C!Clear, Caches
    <3>. QED  BY <1>3, <3>1, <3>2
  <2>2. Sound(stored', age, tailUsed, orphaned') /\ (orphaned' \/ C!Live(stored') = C!Live(stored))
    BY <1>0, <2>1, MarkSound
  <2>. QED  BY <1>2, <2>1, <2>2 DEF CacheInv
<1>4. ASSUME NEW k \in Pictures, C!Get(k) PROVE CacheInv' /\ C!FreesInOrder
  <2> DEFINE x == stored.table[k]
  <2>1. /\ x \in Idx(stored) /\ x # stored.mru /\ stored' = C!MoveToHead(stored, x)
        /\ age' = Used(stored, age, x) /\ tailUsed' = (tailUsed \/ x = stored.lru) /\ orphaned' = orphaned
    BY <1>0, <1>4 DEF C!Get, Used
  <2>2. Sound(stored', Used(stored, age, x), tailUsed', orphaned) /\ C!Live(stored') = C!Live(stored)
    <3> HIDE DEF x
    <3>1. x = stored.table[k]
      BY DEF x
    <3>. QED  BY <1>0, <2>1, <3>1, GetSound
  <2>. QED  BY <1>2, <2>1, <2>2 DEF CacheInv
<1>5. ASSUME C!FreeCache PROVE CacheInv' /\ C!FreesInOrder
  <2>1. stored' = C!Empty /\ age' = <<>> /\ tailUsed' = FALSE /\ orphaned' = FALSE
    BY <1>5 DEF C!FreeCache
  <2>2. Sound(stored', <<>>, FALSE, FALSE) /\ C!Live(stored') = {}
    BY <2>1, EmptySound
  <2>. QED  BY <1>2, <2>1, <2>2 DEF CacheInv
<1>6. ASSUME UNCHANGED C!vars PROVE CacheInv'
  BY <1>0, <1>6 DEF C!vars, CacheInv
<1>. QED  BY <1>1, <1>3, <1>4, <1>5, <1>6 DEF C!Next

LEMMA CacheSound == C!Spec => []CacheInv
<1>1. C!Init => CacheInv
  BY EmptySound DEF C!Init, CacheInv
<1>2. CacheInv /\ [C!Next]_(C!vars) => CacheInv'
  BY CacheStep
<1>. QED  BY <1>1, <1>2, PTL DEF C!Spec

\* The links, the table and the total of the cache agree after any calls of get(), set() and
\* free(), with any pictures and any limit: the list reads the same from both ends and has
\* every picture of the table until the lru end has been read, and, whatever was read, the
\* loop of set() ends with the limit kept and the pictures of the table counted
\* (ArtworkCache.lua).
THEOREM CacheCorrect == C!Spec => []CacheIntact
<1>. QED  BY CacheSound, SoundIntact, PTL

\* set() frees pictures only from the least recently used end, until that end has been read
\* or an entry has lost its key, replaced or cleared (ArtworkCache.lua).
THEOREM FreesOldestFirst == C!Spec => FreesLeastRecent
<1>1. CacheInv /\ [C!Next]_(C!vars) => [tailUsed \/ orphaned' \/ C!FreesInOrder]_(C!vars)
  BY CacheStep
<1>. QED  BY <1>1, CacheSound, PTL DEF C!Spec, FreesLeastRecent, C!FreesLeastRecent

\* What the cache does in the composition is what it does alone.
LEMMA BothIsCache == BothSpec => C!Spec
<1>1. BothInit => C!Init
  BY DEF BothInit
<1>2. [BothNext]_<<moves, vars, cacheVars>> => [C!Next]_(C!vars)
  BY DEF BothNext, cacheVars, C!vars
<1>. QED  BY <1>1, <1>2, PTL DEF BothSpec, C!Spec
=============================================================================
