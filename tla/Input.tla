-------------------------------- MODULE Input --------------------------------
(***************************************************************************)
(* Keys, mouse and the event queue: src/jive_framework.c. Once per frame    *)
(* jiveL_process_events looks at the hold timers and then takes every event *)
(* from SDL's queue. process_event turns keys and buttons into the events   *)
(* that listeners see (DOWN, UP, PRESS, HOLD) and may put further events    *)
(* into the same queue. Key codes are sets of bits, as the code uses them:  *)
(* key_mask is the union of the codes of the keys that are down.            *)
(***************************************************************************)
EXTENDS Integers, Sequences, FiniteSets

CONSTANTS
    Bits,               \* bit positions of a key code
    Syms,               \* keys of the keyboard (keysym)
    Mods,               \* states of the modifier keys
    Presses,            \* the keys, with modifiers, that the user presses
    AnyMod,             \* an entry of the keymap for any modifiers
    Keymap,             \* sequence of [sym, mod, code], searched in order
    Repeatable,         \* cursor keys and page up/down
    ClockMod,           \* jive_jiffies() wraps around at this value
    FrameTimes,         \* what a frame may take
    HOLD_TIMEOUT, LONG_HOLD_TIMEOUT, POINTER_TIMEOUT,
    QueueMax,           \* SDL's queue is full with that many events
    MaxInputs           \* bound: keys, buttons and pushed events

ASSUME TimesAssumption ==
    /\ ClockMod \in Nat \ {0} /\ FrameTimes \in SUBSET (Nat \ {0})
    /\ {HOLD_TIMEOUT, LONG_HOLD_TIMEOUT, POINTER_TIMEOUT} \in SUBSET (0 .. ClockMod - 1)
    /\ HOLD_TIMEOUT < LONG_HOLD_TIMEOUT
ASSUME BoundAssumption == QueueMax \in Nat /\ MaxInputs \in Nat
ASSUME KeymapAssumption ==
    /\ Keymap \in Seq([sym : Syms, mod : Mods \cup {AnyMod}, code : (SUBSET Bits) \ {{}}])
    /\ Repeatable \in SUBSET Syms
    /\ Presses \in SUBSET [sym : Syms, mod : Mods]
    /\ Syms \cap {"left", "right"} = {}    \* a key is not a button

\* Entry j is found when its key goes down: no entry before it takes any modifiers.
FoundDown(j) == \A i \in 1 .. j - 1 : Keymap[i].sym = Keymap[j].sym => Keymap[i].mod # AnyMod

\* So the table is ordered: of the entries of one key those behind have no bit that those
\* before them have not (HOME with Alt stands before GO, the other entry of Return).
ASSUME KeymapOrder ==
    \A j \in DOMAIN Keymap : FoundDown(j) =>
        \A i \in 1 .. j - 1 : Keymap[i].sym = Keymap[j].sym => Keymap[j].code \subseteq Keymap[i].code

VARIABLES
    ui,       \* key_state, key_mask, key_timeout, mouse_state, the two mouse
              \* timeouts, pointer_timeout and whether the pointer is shown
    now,      \* jive_jiffies()
    queue,    \* SDL's event queue
    phase,    \* "between" two frames, "events", or "stopped"
    quit,     \* r & JIVE_EVENT_QUIT
    sent,     \* what the last step dispatched to the listeners, in order
    held,     \* the keys and buttons that are physically down
    inputs,   \* how many inputs there were
    hist      \* history, see Init

vars == <<ui, now, queue, phase, quit, sent, held, inputs, hist>>

KeyStates == {"NONE", "DOWN", "SENT"}
Buttons == {"left", "right"}
Clock == 0 .. ClockMod - 1

Sdl(type) == [type |-> type]
Key(type, sym, mod) == [type |-> type, sym |-> sym, mod |-> mod]
Button(type, b) == [type |-> type, button |-> b]
User(event) == [type |-> "USER", event |-> event]

Event(type) == [type |-> type]
KeyEvent(type, code) == [type |-> type, code |-> code]

Init ==
    /\ ui = [ key_state |-> "NONE", key_mask |-> {}, key_timeout |-> 0,
              mouse_state |-> "NONE", mouse_timeout |-> 0, mouse_long_timeout |-> 0,
              pointer_timeout |-> 0, pointer |-> FALSE ]
    /\ now \in Clock
    /\ queue = <<>>
    /\ phase = "between"
    /\ quit = FALSE
    /\ sent = <<>>
    /\ held = {}
    /\ inputs = 0
    \* keyAge, mouseAge: how long key_timeout, mouse_timeout have been set, up to
    \* HOLD_TIMEOUT + 1; wrapped: the clock had to wrap before the timeout; lost: an
    \* event found the queue full; chord: the reports since no key was down; click:
    \* mouse presses and holds since the mouse was pressed
    /\ hist = [ keyAge |-> 0, mouseAge |-> 0, keyWrapped |-> FALSE, mouseWrapped |-> FALSE,
                lost |-> FALSE, chord |-> <<>>, click |-> <<>> ]

-----------------------------------------------------------------------------
(* A step works on s: the ui, the queue, what is sent, and the history. *)

After(t) == (now + t) % ClockMod
Wraps(t) == now + t >= ClockMod

Dispatch(s, event) == [s EXCEPT !.sent = Append(@, event)]

\* jive_queue_event(): SDL_PushEvent fails if the queue is full.
Push(s, e) ==
    IF Len(s.queue) < QueueMax THEN [s EXCEPT !.queue = Append(@, e)]
    ELSE [s EXCEPT !.hist.lost = TRUE]

ReportKey(s, event) == Dispatch([s EXCEPT !.hist.chord = Append(@, event)], event)
ReportMouse(s, type) == Dispatch([s EXCEPT !.hist.click = Append(@, type)], Event(type))

-----------------------------------------------------------------------------
(* process_timers *)

Expired(timeout, t) == timeout # 0 /\ timeout < t

HidePointer(s, t) ==
    IF ~Expired(s.ui.pointer_timeout, t) THEN s
    ELSE [s EXCEPT !.ui.pointer_timeout = 0, !.ui.pointer = FALSE]

MouseHold(s, t) ==
    LET r == [s EXCEPT !.ui.mouse_timeout = 0]
    IN  IF ~Expired(s.ui.mouse_timeout, t) THEN s
        ELSE IF s.ui.mouse_state # "DOWN" THEN r
        ELSE ReportMouse([r EXCEPT !.ui.mouse_state = "SENT"], "MOUSE_HOLD")

MouseLongHold(s, t) ==
    LET r == [s EXCEPT !.ui.mouse_long_timeout = 0]
    IN  IF ~Expired(s.ui.mouse_long_timeout, t) THEN s
        ELSE IF s.ui.mouse_state # "SENT" THEN r ELSE ReportMouse(r, "MOUSE_HOLD")

KeyHold_Again(s, t) ==
    IF ~Expired(s.ui.key_timeout, t) THEN s
    ELSE ReportKey([s EXCEPT !.ui.key_timeout = 0], KeyEvent("KEY_HOLD", s.ui.key_mask))

KeyHold(s, t) ==
    IF ~Expired(s.ui.key_timeout, t) THEN s
    ELSE ReportKey([s EXCEPT !.ui.key_timeout = 0, !.ui.key_state = "SENT"],
                   KeyEvent("KEY_HOLD", s.ui.key_mask))

ProcessTimers(s, t) == KeyHold(MouseLongHold(MouseHold(HidePointer(s, t), t), t), t)

-----------------------------------------------------------------------------
(* process_event: the mouse *)

MouseDown(s, b) ==
    LET r == IF s.ui.mouse_state # "NONE" THEN s
             ELSE [s EXCEPT !.ui.mouse_state = "DOWN",
                            !.ui.mouse_timeout = After(HOLD_TIMEOUT),
                            !.ui.mouse_long_timeout = After(LONG_HOLD_TIMEOUT),
                            !.hist.mouseAge = 0, !.hist.click = <<>>,
                            !.hist.mouseWrapped = Wraps(LONG_HOLD_TIMEOUT)]
    IN  Dispatch(r, Event(IF b = "left" THEN "MOUSE_DOWN" ELSE "NONE"))

\* Any button, the wheel included, ends what any other has begun.
MouseUp(s, b) ==
    LET r == IF s.ui.mouse_state = "DOWN" THEN ReportMouse(s, "MOUSE_PRESS") ELSE s
        u == [r EXCEPT !.ui.mouse_timeout = 0, !.ui.mouse_long_timeout = 0,
                       !.ui.mouse_state = "NONE"]
    IN  Dispatch(u, Event(IF b = "left" THEN "MOUSE_UP" ELSE "NONE"))

MouseMotion(s, leftDown) ==
    LET r == [s EXCEPT !.ui.pointer = @ \/ s.ui.pointer_timeout = 0,
                       !.ui.pointer_timeout = After(POINTER_TIMEOUT)]
    IN  Dispatch(r, Event(IF ~leftDown THEN "MOUSE_MOVE"
                          ELSE IF s.ui.mouse_state = "NONE" THEN "NONE" ELSE "MOUSE_DRAG"))

-----------------------------------------------------------------------------
(* process_event: the keys *)

\* A key that goes down is looked up with its modifiers; one that goes up is
\* the first entry of that key with a bit in key_mask.
Matches_SameMods(s, e, entry) ==
    /\ entry.sym = e.sym
    /\ entry.mod \in {AnyMod, e.mod}
    /\ e.type = "KEYUP" => s.ui.key_mask \cap entry.code # {}

Matches(s, e, entry) ==
    /\ entry.sym = e.sym
    /\ \/ e.type = "KEYDOWN" /\ entry.mod \in {AnyMod, e.mod}
       \/ e.type = "KEYUP" /\ s.ui.key_mask \cap entry.code # {}

Found(s, e) == {i \in DOMAIN Keymap : Matches(s, e, Keymap[i])}

Code(s, e) == Keymap[CHOOSE i \in Found(s, e) : \A j \in Found(s, e) : i <= j].code

KeyDown(s, code) ==
    LET fresh == s.ui.key_mask = {}
    IN  IF s.ui.key_mask \cap code # {} THEN s         \* taken for a repeat
        ELSE IF ~fresh /\ s.ui.key_state = "SENT" THEN Dispatch(s, Event("NONE"))
        ELSE Dispatch([s EXCEPT !.ui.key_state = "DOWN",
                                !.ui.key_mask = @ \cup code,
                                !.ui.key_timeout = After(HOLD_TIMEOUT),
                                !.hist.keyAge = 0,
                                !.hist.keyWrapped = Wraps(HOLD_TIMEOUT),
                                !.hist.chord = IF fresh THEN <<>> ELSE @],
                      KeyEvent("KEY_DOWN", code))

\* What happens to the state when a key of the mask goes up
Released_KeepsTimeout(s, code) ==
    [s EXCEPT !.ui.key_mask = @ \ code,
              !.ui.key_state = IF s.ui.key_mask \ code = {} THEN "NONE" ELSE "SENT"]

Released(s, code) ==
    [s EXCEPT !.ui.key_timeout = 0,
              !.ui.key_mask = @ \ code,
              !.ui.key_state = IF s.ui.key_mask \ code = {} THEN "NONE" ELSE "SENT"]

\* The first key of a chord that goes up reports the chord, and its own KEY_UP
\* goes to the end of the queue.
KeyUp(s, code) ==
    LET up == KeyEvent("KEY_UP", code)
    IN  IF s.ui.key_state = "SENT" THEN Dispatch(Released(s, code), up)
        ELSE ReportKey(Push(Released(s, code), User(up)),
                       KeyEvent("KEY_PRESS", s.ui.key_mask))

\* Keys that are not in the keymap are characters.
ProcessKey(s, e) ==
    IF Found(s, e) = {} THEN
        Dispatch(s, Event(IF e.type = "KEYDOWN" THEN "CHAR_PRESS" ELSE "NONE"))
    ELSE IF e.sym \in Repeatable THEN
        Dispatch(s, IF e.type = "KEYDOWN" THEN KeyEvent("KEY_PRESS", Code(s, e)) ELSE Event("NONE"))
    ELSE IF e.type = "KEYDOWN" THEN KeyDown(s, Code(s, e))
    ELSE KeyUp(s, Code(s, e))

-----------------------------------------------------------------------------
(* process_event *)

ProcessEvent(s, e) ==
    CASE e.type = "QUIT" -> s
      [] e.type = "WHEEL" -> Dispatch(s, Event("SCROLL"))
      [] e.type = "BUTTONDOWN" -> MouseDown(s, e.button)
      [] e.type = "BUTTONUP" -> MouseUp(s, e.button)
      [] e.type = "MOTION" -> MouseMotion(s, e.button = "left")
      [] e.type \in {"KEYDOWN", "KEYUP"} -> ProcessKey(s, e)
      [] e.type = "USER" -> Dispatch(s, e.event)

Step(s) ==
    /\ ui' = s.ui
    /\ queue' = s.queue
    /\ sent' = s.sent
    /\ hist' = s.hist

S == [ui |-> ui, queue |-> queue, sent |-> <<>>, hist |-> hist]

-----------------------------------------------------------------------------
(* jiveL_process_events: one frame *)

Older(s, d) ==
    LET older(age) == IF age + d > HOLD_TIMEOUT THEN HOLD_TIMEOUT + 1 ELSE age + d
    IN  [s EXCEPT !.hist.keyAge = IF s.ui.key_timeout = 0 THEN @ ELSE older(@),
                  !.hist.mouseAge = IF s.ui.mouse_timeout = 0 THEN @ ELSE older(@)]

\* Time has passed, the timers are looked at.
StartFrame ==
    /\ phase = "between"
    /\ \E d \in FrameTimes :
          /\ now' = (now + d) % ClockMod
          /\ Step(ProcessTimers(Older(S, d), now'))
    /\ phase' = "events"
    /\ quit' = FALSE
    /\ UNCHANGED <<held, inputs>>

\* The oldest event is processed; SDL_QUIT, and nothing else, ends the program.
TakeEvent ==
    /\ phase = "events" /\ queue # <<>>
    /\ Step(ProcessEvent([S EXCEPT !.queue = Tail(queue)], Head(queue)))
    /\ quit' = (quit \/ Head(queue).type = "QUIT")
    /\ UNCHANGED <<now, phase, held, inputs>>

\* Mutant of EndFrame: it waits for more events.
EndFrame_Waits ==
    /\ phase = "events" /\ queue = <<>>
    /\ phase' = IF quit THEN "stopped" ELSE "events"
    /\ sent' = <<>>
    /\ UNCHANGED <<ui, now, queue, quit, held, inputs, hist>>

EndFrame ==
    /\ phase = "events" /\ queue = <<>>
    /\ phase' = IF quit THEN "stopped" ELSE "between"
    /\ sent' = <<>>
    /\ UNCHANGED <<ui, now, queue, quit, held, inputs, hist>>

-----------------------------------------------------------------------------
(* The user, between two frames: SDL_PumpEvents collects what happened. The
   program itself pushes events at any time. *)

Input(s) ==
    /\ inputs < MaxInputs
    /\ inputs' = inputs + 1
    /\ Step(s)
    /\ UNCHANGED <<now, phase, quit>>

\* A key that stays down is repeated.
PressKey(k, mod) ==
    /\ phase = "between"
    /\ held' = held \cup {k}
    /\ Input(Push(S, Key("KEYDOWN", k, mod)))

ReleaseKey(k, mod) ==
    /\ phase = "between" /\ k \in held
    /\ held' = held \ {k}
    /\ Input(Push(S, Key("KEYUP", k, mod)))

PressButton(b) ==
    /\ phase = "between" /\ b \notin held
    /\ held' = held \cup {b}
    /\ Input(Push(S, Button("BUTTONDOWN", b)))

ReleaseButton(b) ==
    /\ phase = "between" /\ b \in held
    /\ held' = held \ {b}
    /\ Input(Push(S, Button("BUTTONUP", b)))

\* A turn of the wheel is a button that goes down and up.
Wheel ==
    /\ phase = "between"
    /\ Input(Push(Push(S, Sdl("WHEEL")), Button("BUTTONUP", "wheel")))
    /\ UNCHANGED held

Move ==
    /\ phase = "between"
    /\ Input(Push(S, Button("MOTION", IF "left" \in held THEN "left" ELSE "none")))
    /\ UNCHANGED held

\* jive_queue_event() from the platform or a task
PushEvent ==
    /\ phase = "between"
    /\ Input(Push(S, User(Event("OTHER"))))
    /\ UNCHANGED held

Quit ==
    /\ phase = "between"
    /\ Input(Push(S, Sdl("QUIT")))
    /\ UNCHANGED held

Environment ==
    \/ \E p \in Presses : PressKey(p.sym, p.mod) \/ ReleaseKey(p.sym, p.mod)
    \/ \E b \in Buttons : PressButton(b) \/ ReleaseButton(b)
    \/ Wheel \/ Move \/ PushEvent \/ Quit

Loop == StartFrame \/ TakeEvent \/ EndFrame

Next == Environment \/ Loop

\* The "ui" task of the event loop runs once per frame and empties the queue.
Spec == Init /\ [][Next]_vars /\ WF_vars(Loop)

-----------------------------------------------------------------------------
Codes == SUBSET Bits

TypeOK ==
    /\ ui \in [ key_state : KeyStates, key_mask : Codes, key_timeout : Clock,
               mouse_state : KeyStates, mouse_timeout : Clock, mouse_long_timeout : Clock,
               pointer_timeout : Clock, pointer : BOOLEAN ]
    /\ now \in Clock
    /\ Len(queue) <= QueueMax
    /\ phase \in {"between", "events", "stopped"}
    /\ quit \in BOOLEAN
    /\ held \in SUBSET (Syms \cup Buttons)
    /\ inputs \in 0 .. MaxInputs

\* The state of the keys, their mask and the hold timer are changed apart, in
\* process_event and process_timers. A timer runs only while a press or chord
\* waits to become a hold, and the state forgets a chord with its last key.
StatesAgree ==
    /\ TypeOK
    /\ ui.key_state = "NONE" <=> ui.key_mask = {}
    /\ ui.key_timeout # 0 => ui.key_state = "DOWN"
    /\ ui.mouse_timeout # 0 => ui.mouse_state = "DOWN"
    /\ ui.mouse_long_timeout # 0 => ui.mouse_state # "NONE"

\* From the first key that goes down to the last that goes up listeners get one
\* KEY_PRESS or one KEY_HOLD, never both, in whatever order keys and timer come.
\* A button gives a press, or a hold that may be followed by a long hold.
OneReport ==
    /\ Len(hist.chord) <= 1
    /\ hist.click \in {<<>>, <<"MOUSE_PRESS">>, <<"MOUSE_HOLD">>, <<"MOUSE_HOLD", "MOUSE_HOLD">>}

\* A hold is reported when the keys have been down for longer than the timeout,
\* unless the clock was about to wrap around (jive_jiffies() has 32 bits).
HoldNotEarly ==
    /\ (hist.chord # <<>> /\ hist.chord[1].type = "KEY_HOLD" /\ ~hist.keyWrapped)
          => hist.keyAge > HOLD_TIMEOUT
    /\ (hist.click # <<>> /\ hist.click[1] = "MOUSE_HOLD" /\ ~hist.mouseWrapped)
          => hist.mouseAge > HOLD_TIMEOUT

\* Presses and holds are reported as the keys and buttons were used, not as the order
\* in which events and timers are handled has it.
ReportsAgree == OneReport /\ HoldNotEarly

\* When no key is held and every event is processed no bit is left in key_mask,
\* though keys overlap and modifiers change while they are down: a bit that
\* stays would swallow that key from then on. An event lost to a full queue
\* does leave one.
NothingStuck == (held \cap Syms = {} /\ queue = <<>> /\ ~hist.lost) => ui.key_mask = {}

\* SDL_QUIT in the queue ends the program, whatever is dispatched after it.
QuitStops == (\E i \in DOMAIN queue : queue[i].type = "QUIT") ~> phase = "stopped"

\* A key that is down does not stay unreported, but for the timers that are set
\* in the last moments before the clock wraps around: those are never "before now".
HoldReported ==
    (ui.key_state = "DOWN" /\ ui.key_timeout \in 1 .. ClockMod - 3)
        ~> (ui.key_state # "DOWN" \/ hist.keyWrapped \/ ui.key_timeout > ClockMod - 3 \/ phase = "stopped")

\* Neither the end of the program nor a hold waits for ever.
NothingWaits == QuitStops /\ HoldReported
=============================================================================
