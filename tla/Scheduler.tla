------------------------------ MODULE Scheduler ------------------------------
(***************************************************************************)
(* The cooperative scheduler: the task lists of jive/ui/Task.lua and the    *)
(* event loop of jive/ui/Framework.lua that goes round them. There is one   *)
(* linked list per priority. A pass of the loop resumes the tasks one after *)
(* the other, highest priority first, following the links as they are when  *)
(* each turn ends; after the pass come the network, the timers and the user *)
(* interface. Whoever runs may add and remove any task meanwhile.           *)
(***************************************************************************)
EXTENDS Integers, FiniteSets, FiniteSetsExt

CONSTANTS
    Tasks,      \* the tasks
    Priority,   \* the priority of each: 1 audio, 2 high, 3 low
    None,       \* nil: no task
    FrameTurns  \* bound: turns between two frames, each as long as any other

Priorities == 1 .. 3
PRIORITY_AUDIO == 1

ASSUME TasksAssumption == IsFiniteSet(Tasks)
ASSUME PriorityAssumption == Priority \in [Tasks -> Priorities]
ASSUME NoneAssumption == None \notin Tasks
ASSUME FrameAssumption == FrameTurns \in Nat \ {0}

VARIABLES
    list,    \* the lists: heads and links, the state of each task, and those
             \* whose coroutine has ended
    at,      \* the task being resumed, None between two passes
    raised,  \* its coroutine has raised an error: the error handler is running
    elapsed  \* turns since the last frame

vars == <<list, at, raised, elapsed>>

TypeOK ==
    /\ list \in [ head : [Priorities -> Tasks \cup {None}],
                  next : [Tasks -> Tasks \cup {None}],
                  state : [Tasks -> {"new", "active", "suspended", "error"}],
                  dead : SUBSET Tasks ]
    /\ at \in Tasks \cup {None}
    /\ raised \in BOOLEAN /\ (raised => at \in list.dead)
    /\ elapsed \in 0 .. FrameTurns

\* The n-th task of the list of priority p, counting from zero.
Nth(l, p) ==
    LET nth[n \in 0 .. Cardinality(Tasks)] ==
            IF n = 0 THEN l.head[p]
            ELSE LET e == nth[n - 1] IN IF e = None THEN None ELSE l.next[e]
    IN  nth

Listed(l, p) == {Nth(l, p)[n] : n \in 0 .. Cardinality(Tasks)} \ {None}

Last(l, p) == Nth(l, p)[Cardinality(Listed(l, p)) - 1]

Init ==
    /\ list = [ head |-> [p \in Priorities |-> None],
                next |-> [t \in Tasks |-> None],
                state |-> [t \in Tasks |-> "new"],
                dead |-> {} ]
    /\ at = None /\ raised = FALSE /\ elapsed = 0

-----------------------------------------------------------------------------
(* Task.lua *)

\* addTask() links the task behind the last of its priority.
AddTask_Relinks(l, t) ==
    LET p == Priority[t]
        m == [l EXCEPT !.state[t] = "active", !.next[t] = None]
    IN  IF l.state[t] = "error" THEN l
        ELSE IF l.head[p] \in {None, t} THEN [m EXCEPT !.head[p] = t]
        ELSE [m EXCEPT !.next[Last(m, p)] = t]

AddTask(l, t) ==
    LET p == Priority[t]
        m == [l EXCEPT !.state[t] = "active", !.next[t] = None]
    IN  IF l.state[t] \in {"error", "active"} THEN l
        ELSE IF l.head[p] = None THEN [m EXCEPT !.head[p] = t]
        ELSE [m EXCEPT !.next[Last(m, p)] = t]

\* removeTask() unlinks the task and leaves its own link as it was.
RemoveTask_KeepsLink(l, t) ==
    LET p == Priority[t]
        m == [l EXCEPT !.state[t] = "suspended"]
    IN  IF l.head[p] = t THEN [m EXCEPT !.head[p] = l.next[t]] ELSE m

RemoveTask(l, t) ==
    LET p == Priority[t]
        m == [l EXCEPT !.state[t] = "suspended"]
    IN  IF l.head[p] = t THEN [m EXCEPT !.head[p] = l.next[t]]
        ELSE [m EXCEPT !.next = [e \in Tasks |->
                 IF l.next[e] = t /\ e \in Listed(l, p) THEN l.next[t] ELSE l.next[e]]]

\* The rest of resume(): a task that yields true stays, one that yields false
\* or ends is taken off, one that raises an error is marked as well.
Suspend(l, t) == RemoveTask(l, t)
Finish(l, t) == [RemoveTask(l, t) EXCEPT !.dead = @ \cup {t}]
Err(l, t) == [Finish(l, t) EXCEPT !.state[t] = "error"]

\* iterator(): the first task of the priorities from p on.
First(l, p) ==
    LET ps == {q \in p .. 3 : l.head[q] # None}
    IN  IF ps = {} THEN None ELSE l.head[Min(ps)]

\* And the task after e, along the link that e has now.
After(l, e) ==
    IF l.next[e] # None THEN l.next[e] ELSE First(l, Priority[e] + 1)

-----------------------------------------------------------------------------
(* The callers: the task that is running, its error handler, or between two
   passes the network, a timer or the user interface. *)

Executing == at = None \/ at \notin list.dead \/ raised

CallAdd(t) ==
    /\ Executing
    /\ list' = AddTask(list, t)
    /\ UNCHANGED <<at, raised, elapsed>>

CallRemove(t) ==
    /\ Executing
    /\ list' = RemoveTask(list, t)
    /\ UNCHANGED <<at, raised, elapsed>>

-----------------------------------------------------------------------------
(* Framework:eventLoop() *)

\* What the frame leaves of the time that has passed.
Drawn_Keeps(e) == e
Drawn(e) == IF e = FrameTurns THEN 0 ELSE e

\* A frame is drawn when it is due, and the next pass begins.
StartPass ==
    /\ at = None /\ First(list, 1) # None
    /\ at' = First(list, 1)
    /\ elapsed' = Drawn(elapsed)
    /\ UNCHANGED <<list, raised>>

\* The turn ends, and with it the pass if there is no other task, or if a frame
\* is due and the task was not an audio task.
EndTurn(l) ==
    /\ list' = l
    /\ elapsed' = Min({elapsed + 1, FrameTurns})
    /\ at' = IF elapsed' = FrameTurns /\ Priority[at] > PRIORITY_AUDIO THEN None
             ELSE After(l, at)
    /\ raised' = FALSE

Return ==
    /\ at # None /\ at \notin list.dead
    /\ \E l \in {list, Suspend(list, at), Finish(list, at)} : EndTurn(l)

\* An error in the coroutine, or the attempt to resume one that has ended.
Raise ==
    /\ at # None /\ ~raised
    /\ list' = Err(list, at)
    /\ raised' = TRUE
    /\ UNCHANGED <<at, elapsed>>

Handled ==
    /\ raised
    /\ EndTurn(list)

Next ==
    \/ \E t \in Tasks : CallAdd(t) \/ CallRemove(t)
    \/ StartPass \/ Return \/ Raise \/ Handled

\* Tasks are cooperative: a turn ends, and the loop goes on.
Loop == StartPass \/ Return \/ Raise \/ Handled

LoopFairness == WF_vars(Loop)

Spec == Init /\ [][Next]_vars /\ LoopFairness

-----------------------------------------------------------------------------
(* Properties *)

\* The list of each priority holds the active tasks of that priority, each once,
\* and ends: the links survive any order of additions and removals, by tasks on
\* themselves, on each other and from outside (Task.lua, addTask and removeTask).
ListIntact ==
    /\ TypeOK
    /\ \A p \in Priorities :
           LET active == {t \in Tasks : Priority[t] = p /\ list.state[t] = "active"}
           IN  /\ Listed(list, p) = active
               /\ Nth(list, p)[Cardinality(active)] = None

\* Following stale links is harmless except behind a task that took itself off: a
\* pass goes to a task that is not in the list only from one that is not either
\* (Task.lua, iterator).
StaleOnlyBehindRemoved ==
    [][at' # at /\ at' # None /\ at # None =>
           list'.state[at'] = "active" \/ list'.state[at] # "active"]_vars

\* No task of the best priority in use starves, whatever the others add, remove
\* or wake: once active it gets a turn or is taken off (Framework.lua, eventLoop).
TurnComes ==
    \A t \in Tasks :
        (\A s \in Tasks : Priority[t] <= Priority[s]) =>
            (list.state[t] = "active" ~> at = t \/ list.state[t] # "active")
=============================================================================
