----------------------------- MODULE Visualizer -----------------------------
(***************************************************************************)
(* The memory that jivelite shares with a player of the same machine, from   *)
(* which the meters read (visualizer/visualizer.c): vis_check, and the lock  *)
(* that a meter holds while it reads. The player is another process: it      *)
(* makes a block of memory, updates it under the write lock, stops and       *)
(* removes the name, or dies at any time, with the lock maybe.               *)
(***************************************************************************)
EXTENDS Integers

CONSTANTS
    Blocks,     \* of memory: every start of the player takes another one
    Nil,
    Recent,     \* seconds after which a block is stale (5)
    MaxTime     \* bound: seconds

VARIABLES
    now, named,     \* the time; the block that has the name in /dev/shm
    player,         \* "off", "on", or "writing" while it holds the write lock
    block,          \* of every block what is in it, and its lock
    mapped, running, lastopen,      \* vis_mmap, the cached running, the time of the last try
    meter           \* where the meter is in its call

vars == <<now, named, player, block, mapped, running, lastopen, meter>>

Fresh == [used |-> FALSE, running |-> FALSE, updated |-> 0, writer |-> FALSE, readers |-> 0]

Init ==
    /\ now = 0 /\ named = Nil /\ player = "off"
    /\ block = [b \in Blocks |-> Fresh]
    /\ mapped = Nil /\ running = FALSE /\ lastopen = -Recent - 1 /\ meter = "idle"

TypeOK ==
    /\ named \in Blocks \cup {Nil} /\ mapped \in Blocks \cup {Nil}
    /\ player \in {"off", "on", "writing"} /\ running \in BOOLEAN
    /\ meter \in {"idle", "checking", "checked", "locking", "reading"}
    /\ now \in 0 .. MaxTime /\ lastopen \in {-Recent - 1} \cup 0 .. MaxTime
    /\ block \in [Blocks -> [used : BOOLEAN, running : BOOLEAN, updated : 0 .. MaxTime, writer : BOOLEAN, readers : 0 .. 1]]

-----------------------------------------------------------------------------
(* The player *)

Start ==
    /\ player = "off"
    /\ \E b \in Blocks :
          /\ ~block[b].used
          /\ block' = [block EXCEPT ![b].used = TRUE, ![b].updated = now]
          /\ named' = b
    /\ player' = "on"
    /\ UNCHANGED <<now, mapped, running, lastopen, meter>>

BeginWrite ==
    /\ player = "on" /\ block[named].readers = 0
    /\ block' = [block EXCEPT ![named].writer = TRUE]
    /\ player' = "writing"
    /\ UNCHANGED <<now, named, mapped, running, lastopen, meter>>

EndWrite ==
    /\ player = "writing"
    /\ \E playing \in BOOLEAN :
          block' = [block EXCEPT ![named].writer = FALSE, ![named].running = playing, ![named].updated = now]
    /\ player' = "on"
    /\ UNCHANGED <<now, named, mapped, running, lastopen, meter>>

Stop ==
    /\ player = "on"
    /\ player' = "off" /\ named' = Nil
    /\ UNCHANGED <<now, block, mapped, running, lastopen, meter>>

\* Nobody removes the name or gives back the lock.
Die ==
    /\ player # "off"
    /\ player' = "off"
    /\ UNCHANGED <<now, named, block, mapped, running, lastopen, meter>>

Tick ==
    /\ now < MaxTime
    /\ now' = now + 1
    /\ UNCHANGED <<named, player, block, mapped, running, lastopen, meter>>

-----------------------------------------------------------------------------
(* A meter draws *)

\* _reopen: what was mapped is not any more; what has the name is, if anything.
Reopen ==
    /\ mapped' = named
    /\ lastopen' = now

\* vis_check up to the lock
Check ==
    /\ meter = "idle"
    /\ IF mapped = Nil /\ now - lastopen > Recent THEN Reopen ELSE UNCHANGED <<mapped, lastopen>>
    /\ meter' = IF mapped' = Nil THEN "checked" ELSE "checking"
    /\ UNCHANGED <<now, named, player, block, running>>

\* vis_check under the lock: a block that says it plays and is stale is left.
Look ==
    /\ meter = "checking" /\ ~block[mapped].writer
    /\ running' = block[mapped].running
    /\ IF running' /\ now - block[mapped].updated > Recent THEN Reopen ELSE UNCHANGED <<mapped, lastopen>>
    /\ meter' = "checked"
    /\ UNCHANGED <<now, named, player, block>>

\* vis_get_playing
Playing == mapped # Nil /\ running

\* The meters read under the lock, or show nothing.
Playback ==
    /\ meter = "checked"
    /\ meter' = IF Playing THEN "locking" ELSE "idle"
    /\ UNCHANGED <<now, named, player, block, mapped, running, lastopen>>

Lock ==
    /\ meter = "locking" /\ ~block[mapped].writer
    /\ block' = [block EXCEPT ![mapped].readers = @ + 1]
    /\ meter' = "reading"
    /\ UNCHANGED <<now, named, player, mapped, running, lastopen>>

Unlock ==
    /\ meter = "reading"
    /\ block' = [block EXCEPT ![mapped].readers = @ - 1]
    /\ meter' = "idle"
    /\ UNCHANGED <<now, named, player, mapped, running, lastopen>>

Next == Start \/ BeginWrite \/ EndWrite \/ Stop \/ Die \/ Tick \/ Check \/ Look \/ Playback \/ Lock \/ Unlock

Spec == Init /\ [][Next]_vars

-----------------------------------------------------------------------------
(* Properties *)

\* Nothing is locked or read that is not mapped, whatever was unmapped since the check
\* (vis_check, vis_get_playing).
ReadsMapped == meter \in {"checking", "locking", "reading"} => mapped # Nil

\* A player waits for nobody but a meter that is reading the very block it writes: what
\* was unmapped is locked no more (vis_lock and vis_unlock take the mapping of the moment,
\* vis_check unlocks before it opens again).
LocksGivenBack == \A b \in Blocks : block[b].readers > 0 <=> meter = "reading" /\ mapped = b

SharedMemory == TypeOK /\ ReadsMapped /\ LocksGivenBack
=============================================================================
