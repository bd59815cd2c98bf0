-------------------------------- MODULE Events --------------------------------
(***************************************************************************)
(* What an event goes through: jiveL_dispatch_event calls the global        *)
(* listeners, then the top window, which asks its widgets before its own    *)
(* listeners, and then the unused listeners. Each listener may consume the  *)
(* event, add and remove listeners, its own list's too, or raise an error.  *)
(* Sources: src/jive_framework.c, src/jive_window.c, src/jive_event.c,      *)
(* ui/Framework.lua, ui/Widget.lua, ui/Window.lua.                          *)
(***************************************************************************)
EXTENDS Integers, Sequences, FiniteSets, SequencesExt

CONSTANTS
    Widgets,      \* sequence: zWidgets of the top window, in order of z
    GlobalWidgets,  \* those of them that belong to the framework
    Ids,          \* listeners
    Place,        \* [Ids -> "global", "unused", "window" or a widget]
    Mask,         \* [Ids -> set of types]
    Priority,     \* [Ids -> Int], of global and unused listeners
    Nobody,       \* no widget
    MaxTicks, MaxEvents, MaxChanges   \* bounds: the clock, the events dispatched, listeners
                  \* added or removed since the start

PlacesAssumption ==
    /\ Mask \in [Ids -> SUBSET {"key", "show", "idle", "active", "mouse_down", "mouse_drag", "mouse_up"}]
    /\ Place \in [Ids -> {"global", "unused", "window"} \cup Range(Widgets)]

VARIABLES
    lists,        \* [place -> sequence of [id, ticks]]: the listeners
    ticks,        \* getTicks()
    focus,        \* the window's focus
    mouseFocus,   \* its _mouseEventFocusWidget
    disp,         \* the dispatch that runs or has run, see NoDispatch
    events,       \* how many there were
    changes       \* how often listeners were added or removed

vars == <<lists, ticks, focus, mouseFocus, disp, events, changes>>

Places == {"global", "unused", "window"} \cup Range(Widgets)
Children == Range(Widgets)
MouseTypes == {"mouse_down", "mouse_drag", "mouse_up"}
Results == {{}, {"consume"}, {"consume", "quit"}}

\* todo: where the event goes next; over: the widgets the pointer is inside of; pos, r:
\* in the list of Head(todo), the listeners looked at and what they returned; win, total:
\* what the widgets, and all, returned; top: who gets the mouse.
\* due, who should hear of the event, called, seen, consumer, altered, error are history.
NoDispatch ==
    [type |-> "none", todo |-> <<>>, over |-> {}, pos |-> 0, r |-> {}, win |-> {}, total |-> {}, top |-> Nobody,
     due |-> {}, called |-> <<>>, seen |-> {}, consumer |-> "nobody", altered |-> {}, error |-> FALSE]

-----------------------------------------------------------------------------
(* Listeners *)

\* addListener of the framework: the ones of smaller priority first, then the most
\* recent. table.sort may put two of the same tick in any order.
Before(a, b) == IF Priority[a.id] = Priority[b.id] THEN a.ticks > b.ticks ELSE Priority[a.id] < Priority[b.id]

Sorted(handles) == {l \in SetToSeqs(handles) : \A i, j \in DOMAIN l : Before(l[i], l[j]) => i < j}

Added(ls, id) ==
    LET p == Place[id]
        handle == [id |-> id, ticks |-> ticks]
    IN  IF p \in {"global", "unused"} THEN {[ls EXCEPT ![p] = l] : l \in Sorted(Range(ls[p]) \cup {handle})}
        ELSE {[ls EXCEPT ![p] = <<handle>> \o @]}

\* removeListener: table.delete
Removed(ls, id) == [ls EXCEPT ![Place[id]] = SelectSeq(@, LAMBDA handle : handle.id # id)]

Registered(ls) == {id \in Ids : \E i \in DOMAIN ls[Place[id]] : ls[Place[id]][i].id = id}

-----------------------------------------------------------------------------
(* A dispatch *)

\* jiveL_window_event_handler, and _event of Window.lua for the mouse: to whom
Route(type, over) ==
    CASE type = "key" -> IF focus = Nobody THEN <<>> ELSE <<focus>>
      [] type = "show" -> SelectSeq(Widgets, LAMBDA w : w \notin GlobalWidgets)
      [] type = "idle" -> Widgets
      [] type = "active" -> <<>>
      [] OTHER -> SelectSeq(Widgets, LAMBDA w : w = mouseFocus \/ (mouseFocus = Nobody /\ w \in over))

\* A listener does not end its own dispatch: the next begins when this one is over.
Start ==
    /\ disp.type = "none" /\ events < MaxEvents /\ events' = events + 1
    /\ \E type \in UNION Range(Mask), over \in SUBSET Children :
        /\ type \in MouseTypes \/ over = {}
        /\ LET todo == <<"global">> \o Route(type, over) \o <<"handled", "window", "unused">>
           IN  disp' = [NoDispatch EXCEPT !.type = type, !.over = over, !.todo = todo,
                            !.due = {id \in Registered(lists) : type \in Mask[id] /\ Place[id] \in Range(todo)}]
    /\ UNCHANGED <<lists, ticks, focus, mouseFocus, changes>>

Running == disp.todo # <<>>
Here == Head(disp.todo)

\* jiveL_event stops at the first listener that returns anything, Widget._event at
\* the first that consumes.
Stopped == IF Here \in {"global", "unused"} THEN disp.r # {} ELSE "consume" \in disp.r

\* lua_next and ipairs go on with the next index, whatever the list is now.
Matching_Again == {i \in (IF disp.pos = 0 THEN 1 ELSE disp.pos) .. Len(lists[Here]) : disp.type \in Mask[lists[Here][i].id]}
Matching == {i \in disp.pos + 1 .. Len(lists[Here]) : disp.type \in Mask[lists[Here][i].id]}
NextIndex == CHOOSE i \in Matching : \A j \in Matching : i <= j

\* how: {}, or what is done to the lists
Called(id, result, ls, how) ==
    /\ how # {} => changes < MaxChanges
    /\ changes' = changes + Cardinality(how)
    /\ lists' = ls
    /\ disp' = [disp EXCEPT !.pos = NextIndex, !.r = @ \cup result, !.seen = @ \cup result,
                    !.called = Append(@, id), !.altered = @ \cup how,
                    !.consumer = IF "consume" \in result /\ @ = "nobody" THEN Here ELSE @]

Call ==
    /\ Running /\ Here # "handled" /\ ~Stopped /\ Matching # {}
    /\ LET id == lists[Here][NextIndex].id
       IN  \E result \in Results :
            \/ Called(id, result, lists, {})
            \/ \E other \in Registered(lists) : Called(id, result, Removed(lists, other), {"removed"})
            \/ \E other \in Ids \ Registered(lists) : \E ls \in Added(lists, other) : Called(id, result, ls, {"added"})
    /\ UNCHANGED <<ticks, focus, mouseFocus, events>>

\* An error in a listener: jiveL_dispatch_event returns nothing.
Fail ==
    /\ Running /\ Here # "handled" /\ ~Stopped /\ Matching # {}
    /\ disp' = [disp EXCEPT !.todo = <<>>, !.total = {}, !.error = TRUE]
    /\ UNCHANGED <<lists, ticks, focus, mouseFocus, events, changes>>

\* The list is done: what its listeners returned decides where the event goes.
Done == Running /\ Here # "handled" /\ (Stopped \/ Matching = {})
Left(todo) == [disp EXCEPT !.pos = 0, !.r = {}, !.todo = todo]
Unless_Quit(consumed, todo) == IF "quit" \in consumed THEN <<>> ELSE todo
Unless(consumed, todo) == IF "consume" \in consumed THEN <<>> ELSE todo

LeaveListeners ==
    /\ Done /\ Here \in {"global", "window", "unused"}
    /\ disp' = [Left(Unless(disp.r, Tail(disp.todo))) EXCEPT !.total = @ \cup disp.r]
    /\ UNCHANGED <<lists, ticks, focus, mouseFocus, events, changes>>

LeaveWidget ==
    /\ Done /\ Here \in Children
    /\ disp' = [Left(Tail(disp.todo)) EXCEPT !.win = @ \cup disp.r,
                    !.top = IF disp.type = "mouse_down" /\ disp.r # {} THEN Here ELSE @]
    /\ UNCHANGED <<lists, ticks, focus, mouseFocus, events, changes>>

\* _event of the window has asked its widgets.
LeaveWidgets ==
    /\ Running /\ Here = "handled"
    /\ disp' = [Left(Unless(disp.win, Tail(disp.todo))) EXCEPT
                    !.total = IF "consume" \in disp.win THEN @ \cup disp.win ELSE @]
    /\ mouseFocus' = IF disp.type = "mouse_up" THEN Nobody
                     ELSE IF disp.top # Nobody THEN disp.top ELSE mouseFocus
    /\ UNCHANGED <<lists, ticks, focus, events, changes>>

-----------------------------------------------------------------------------
(* Between two dispatches *)

\* jiveL_dispatch_event returns.
End == disp.type # "none" /\ ~Running /\ disp' = NoDispatch /\ UNCHANGED <<lists, ticks, focus, mouseFocus, events, changes>>

Idle == disp.type = "none"

Tick == Idle /\ ticks < MaxTicks /\ ticks' = ticks + 1 /\ UNCHANGED <<lists, focus, mouseFocus, disp, events, changes>>

Listen ==
    /\ Idle /\ changes < MaxChanges /\ changes' = changes + 1
    /\ \E id \in Ids \ Registered(lists) : lists' \in Added(lists, id)
    /\ UNCHANGED <<ticks, focus, mouseFocus, disp, events>>

Forget ==
    /\ Idle /\ changes < MaxChanges /\ changes' = changes + 1
    /\ \E id \in Registered(lists) : lists' = Removed(lists, id)
    /\ UNCHANGED <<ticks, focus, mouseFocus, disp, events>>

Init ==
    /\ \E ids \in SUBSET Ids :
        lists = [p \in Places |-> CHOOSE l \in Sorted({[id |-> i, ticks |-> 0] : i \in {j \in ids : Place[j] = p}}) : TRUE]
    /\ ticks = 1 /\ events = 0 /\ changes = 0
    /\ focus \in {Nobody, Head(Widgets)} /\ mouseFocus = Nobody /\ disp = NoDispatch

Next == Start \/ End \/ Call \/ Fail \/ LeaveListeners \/ LeaveWidget \/ LeaveWidgets \/ Tick \/ Listen \/ Forget

Spec == Init /\ [][Next]_vars

-----------------------------------------------------------------------------
(* Properties *)

\* Nobody hears of an event twice unless a listener was added meanwhile, and while no
\* list is altered whoever listens hears of an event that nobody consumed: lists are
\* walked by index while listeners alter them (jive_framework.c jiveL_event). The result
\* is what the listeners asked for: consumed or quit if and only if one of them said so.
HeardOnce ==
    /\ "added" \notin disp.altered => IsInjective(disp.called)
    /\ disp.todo = <<>> /\ disp.seen = {} /\ disp.altered = {} /\ ~disp.error => Range(disp.called) = disp.due
    /\ disp.todo = <<>> /\ ~disp.error => disp.total = disp.seen

\* Global listeners of smaller numbers come first, and then the most recent ones.
InOrder ==
    \A p \in {"global", "unused"} : \A i, j \in DOMAIN lists[p] :
        i < j => LET a == lists[p][i]
                     b == lists[p][j]
                 IN  Priority[a.id] <= Priority[b.id] /\ (Priority[a.id] = Priority[b.id] => a.ticks >= b.ticks)

\* Once an event is consumed only the widgets beside the consumer may hear of it, and
\* from the press that a widget consumed to the release the mouse is that widget's.
ConsumedStops ==
    [][disp.todo # <<>> /\ disp'.called # disp.called =>
        /\ disp.consumer # "nobody" => /\ {Here, disp.consumer} \subseteq Children
                                       /\ Here # disp.consumer
        /\ disp.type \in MouseTypes /\ mouseFocus # Nobody /\ Here \in Children => Here = mouseFocus]_vars
=============================================================================
