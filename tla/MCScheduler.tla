----------------------------- MODULE MCScheduler -----------------------------
(* Three tasks of the high priority and one of the low; and the artwork of a     *)
(* server, whose task is one of them. They share nothing: one of them moves, so  *)
(* that their states add up.                                                    *)
EXTENDS Scheduler

CONSTANTS
    a, b, c, d,
    Icons, Keys, RemoteKeys, NoKey, MaxFetches, MaxQueue, MaxFaults     \* see Artwork.tla

VARIABLES
    moves,  \* "tasks" or "artwork"
    fetchQueue, fetchCount, flight, cache, listed, images, waiting, shown, taskActive, hasPool,
    asked, failed, faults

A == INSTANCE Artwork

MCPriority == [t \in Tasks |-> IF t = d THEN 3 ELSE 2]

artworkVars ==
    <<fetchQueue, fetchCount, flight, cache, listed, images, waiting, shown, taskActive, hasPool,
      asked, failed, faults>>

AllInit == Init /\ A!Init /\ moves \in {"tasks", "artwork"}

AllNext ==
    /\ UNCHANGED moves
    /\ \/ moves = "tasks" /\ Next /\ UNCHANGED artworkVars
       \/ moves = "artwork" /\ A!Next /\ UNCHANGED vars

\* What does not move is never enabled.
AllSpec == AllInit /\ [][AllNext]_<<moves, vars, artworkVars>> /\ LoopFairness /\ A!ArtworkFairness

\* The queue of artwork drains (Artwork.tla).
QueueDrains == A!QueueDrains
=============================================================================
